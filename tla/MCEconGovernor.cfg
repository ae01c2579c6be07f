SPECIFICATION MCSpec
CONSTANTS
  Rid = {"r1", "o1", "gov"}
  Rebalance = {"r1"}
  Operator = {"o1"}
  OnChain = {"o1"}
  LegacyRid = {"l1"}
  Event = {"e1"}
  Caller = {"c1"}
  Amounts = {0, 1}
  Budgets = {1, 2}
  WeeklyLimit = 1
  DayWindow = 0
  WeekWindow = 1
  StaleAge = 1
  PayBound = 1
  Overruns = 1
  Intent = {"reb", "close"}
  TypeOf <- MCTypeOf
  TargetOf <- MCTargetOf
  RidOf <- MCRidOf
  CostOf <- MCCostOf
  Ttl = 1
  Extended = FALSE
INVARIANTS
  BudgetIsSound
PROPERTIES
  EndsAreFinal
  LedgerRecovers
CHECK_DEADLOCK FALSE
