SPECIFICATION FairSpec
CONSTANTS
    c1 = c1
    c2 = c2
    o1 = o1
    o2 = o2
    n1 = n1
    n2 = n2
    Channels = {c1, c2}
    Opens = {o1}
    Nudges = {n1, n2}
    ChannelOf <- MCChannelOf
    TriggerCap = 3
    MaxGen = 4
INVARIANTS
  OwnerAndStoreAgree
PROPERTIES
  NudgesNeverLost
  DeferredCycleRuns
