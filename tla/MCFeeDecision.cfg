SPECIFICATION MCSpec
CONSTANTS
    MinFee = 20
    MaxFee = 200
    Floor = 20
    StaticFee = 36
    Targets = {20, 24}
    OperatorFees = {0, 30}
    Rates = {0, 10}
    MinObservation = 1
    SleepTicks = 1
    RefreshAge = 2
    StableRequired = 2
    QuietCycles = 2
    Headroom = 20
    MaxEpisodes = 1
    Disturbances <- Behaviours
    StartFees = {1, 19, 40, 99, 100, 103, 160, 400, 2000}
    Goals = {1, 20, 97, 100, 106, 112, 167, 430, 2500}
    Deviations = {0, 60, 150, 200}
    LowFloor = 1
    HighCeiling = 5000
INVARIANTS
  RecordsAgree
PROPERTIES
  MovesAreMeasured
  FeesMoveOn
