SPECIFICATION Spec
CONSTANTS
  Settle = 2
  StaleAfter = 2
  MaxFlushes = 3
  MaxWakes = 1
  Routers = {"r1", "r2"}
  ExcludeSets = {{"e"}, {"e", "f"}}
  MaxLayers = 3
  MaxFaults = 2
  Capacity = 2
  Ttl = 2
  MaxClock = 5
  MaxRecords = 4
  FlowInputs <- MCFlowInputs
  FlowSteps = {150, 60000}
  MaxFlowPasses = 5
  MsatPerSat = 10
  CapexCallers = {"c1", "c2"}
  CapexPnls <- MCCapexPnls
  CapexSteps = {300}
  MaxCapexTime = 600
  StoreCallers = {"s1", "s2"}
  MaxProductionRows = 2
  QueueRoom = 1
  StorePlans <- MCStorePlans
  ReportKinds = {"lifetime", "aggregates", "closures"}
  MaxLedgerMoves = 3
  RowChoices <- MCRowChoices
  OptionChoices <- MCOptionChoices
  MaxPublishes = 2
  ConfigBodies <- MCConfigBodies
  MaxFetches = 5
  CounterTop = 2
  MaxBiasNudges = 3
  Flushers = {"j1", "j2"}
  MaxBatches = 3
INVARIANTS
  RebalancesAreSound
  FeesAreBounded
  FlowsAreMeasured
  CapitalIsAllotted
  StoreIsSerial
  ReportsAgree
  ConfigIsOneValue
  BatchesAreFair
  
PROPERTIES
  MachinesKeepPromises
CHECK_DEADLOCK FALSE
