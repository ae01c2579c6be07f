SPECIFICATION MCSpec
CONSTANTS
    p1 = p1
    p2 = p2
    n1 = n1
    n2 = n2
    MaxTime = 4
    MaxEpoch = 2
    MaxAge = 2
    RpcTimeout = 1
    BracketLifetime = 2
    DispatchFreshness = 1
    Procs = {p1, p2}
    Nonces = {n1, n2}
SYMMETRY Symmetry
INVARIANTS
  AuthorizationIsProven
  ArmIsSpentForGood
PROPERTIES
  DualAuthorityBounded
