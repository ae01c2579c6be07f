SPECIFICATION WriterSpec
CONSTANTS
  Peer = {p1}
  Key = {k1, k2}
  Rid = {r1, r2}
  Legacy = {r2}
  Scid = {s1, s2}
  SetInputs <- MCSetInputs
  SeedRows <- MCSeedRows
  Families = {"policy", "config", "hot", "spend", "channels"}
  QueueCap = 1
  BatchBound <- MCBatchBound
  ChangeLimit = 1
  MaxCalls = 2
  MaxVersion = 3
INVARIANTS
  WritesAreHonest
PROPERTIES
  CallsTakeEffectOnce
CHECK_DEADLOCK FALSE
