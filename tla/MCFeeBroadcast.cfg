SPECIFICATION FairSpec
CONSTANTS
    c1 = c1
    c2 = c2
    r1 = r1
    r2 = r2
    r3 = r3
    Callers = {c1}
    Requests = {r1, r2, r3}
    Batches <- MCBatches
    QueueCap = 3
INVARIANTS
  SendsAreSafe
  AtMostOnce
PROPERTIES
  ResultsAreFinal
  GateSpec
  BatchTerminates
