SPECIFICATION RuntimeSpec
CONSTANTS
  Key = {k1, k2}
  Requester = {q1, q2}
  MaxPendingKeys = 1
  MaxRequests = 3
  MaxGeneration = 2
  MaxBoot = 2
  ActionOwners <- MCActionOwners
  ObserverOwners <- MCObserverOwners
  MaxProcess = 2
  Forwards = 2
  Cols <- MCCols
  MaxTime = 3
  Jitter = 0
  Overlap = 1
  Window = 2
  PageLimit = 1
  MaxPages = 2
  MaxStarts = 2
  HorizonTables = 1
  BatchRows = 1
  MaxBatches = 1
  KeepLast = 1
  MaxSilence = 1
  Tolerance = 0
  MaxRows = 2
  MaxYoung = 1
  MaxFaults = 2
  Scid = {s1, s2}
  Setting = {v1}
  MaxFlowBoot = 2
  MaxPass = 2
  MaxChange = 2
INVARIANTS
  LoopsAreHonest
  LifecycleIsHonest
  IntakeIsWhole
  FlowIsProven
PROPERTIES
  StepsAreCareful
  NothingWedges
CHECK_DEADLOCK FALSE
