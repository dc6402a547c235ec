SPECIFICATION PluginSpec
CONSTANTS
  f1 = f1
  f2 = f2
  g1 = g1
  g2 = g2
  n1 = n1
  n2 = n2
  None = None
  Account = {a1}
  Principal = {p1, p2}
  Factor = {f1, f2}
  Identity = {i1}
  Executor = {e1}
  Nullifier = {n1, n2}
  Config <- TwoConfigs
  RequestId = {1}
  Amount = {1}
  MaxTime = 3
  MaxNonce = 2
  MaxEpoch = 3
  MaxCredit = 1
  MaxDepth = 1
  MaxRequests = 1
  Expiry = {2}
  Policy = {"hook", "session", "subscription"}
  Day = 2
  Limit = {2}
  Cap = {0, 2}
  Plan <- Plans
  Value = {1, 2}
  MaxHistory = 2
  MaxBalance = 2
  MaxClock = 5
  Composite = {r1, r2}
  Child = {c1, c2}
  MaxCalls = 2
SYMMETRY Tickets
CHECK_DEADLOCK FALSE
INVARIANTS
  TicketsCountOnce
  SessionsKeepTheirTerms
  
  DelegatesKeepToTerms
  ChildrenFollowRoot
PROPERTIES
  SuccessionByThreshold
