SPECIFICATION Spec
CONSTANTS
    Sources = {"s1", "s2"}
    Dests = {"d1"}
    Planned <- OnePair
    Requests <- OnePair
    Fees = {0, 1}
    RequestFees = {1}
    DailyBudget = 1
    AllowZeroCost = FALSE
    MaxConcurrentJobs = 2
    Threshold = 1
    MaxSources = 2
    MaxJobs = 2
    MaxTries = 2
INVARIANTS
  MoneyIsAccounted
PROPERTIES
  RowsAreFinal
  ReservationsResolve
