\* Two submissions per process with every retry, a cycle, one restart.
CONSTANTS
    Pairs = {p1}
    Amounts = {2, 3}
    DailyBudget = 2
    MaxAmount = 2
    Window = 1
    PairCooldown = 1
    PaymentMode = "Live"
    MaxClock = 1
    MaxAttempts = 2
    MaxSubmissions = 2
    MaxTries = 1
    MaxExecutions = 2
    MaxCrashes = 1
SPECIFICATION Spec
INVARIANTS
  PaymentsAreBacked
PROPERTIES
  SettledOnce
CHECK_DEADLOCK FALSE
