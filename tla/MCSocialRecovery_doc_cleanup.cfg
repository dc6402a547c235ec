SPECIFICATION Spec
CONSTANTS
  f1 = f1
  f2 = f2
  g1 = g1
  g2 = g2
  n1 = n1
  n2 = n2
  None = None
  Account = {a1}
  Principal = {p1, p2}
  Factor = {f1, f2}
  Identity = {i1}
  Executor = {e1}
  Nullifier = {n1, n2}
  Config <- TwoConfigs
  RequestId = {1}
  Amount = {1}
  MaxTime = 3
  MaxNonce = 2
  MaxEpoch = 3
  MaxCredit = 1
  MaxDepth = 1
  MaxRequests = 1
  Expiry = {2}
CHECK_DEADLOCK FALSE
INVARIANTS
  NoOrphanedCredit
