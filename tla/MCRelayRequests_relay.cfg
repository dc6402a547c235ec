CHECK_DEADLOCK FALSE
SPECIFICATION Spec
CONSTANTS
  r1 = r1
  r2 = r2
  k1 = k1
  k2 = k2
  c1 = c1
  c2 = c2
  a1 = a1
  gas = gas
  n1 = n1
  n2 = n2
  None = None
  Null = None
  Core = Core
  Proxy = Proxy
  RelayAccount = relay
  Contract = {Core, gas}
  Account = {a1}
  Request = {r1, r2}
  Key = {k1, k2}
  Client = {c1, c2}
  MaxRequests = 1
  MaxEntries = 1
  Scene <- Scenes
  Nonce = {n1, n2}
  Fee = {1, 2}
  Approval = {None, 2}
INVARIANTS
  LimiterInBounds
  
  
  RelayPaysWithinBounds
