CHECK_DEADLOCK FALSE
SPECIFICATION Spec
CONSTANTS
  Null = Null
  Refused = Refused
  x = x
  y = y
  s = s
  cx = cx
  cy = cy
  m1 = m1
  m2 = m2
  a = a
  s1 = s1
  s2 = s2
  Page = {"home", "picker", "shared", "native"}
  ProxyOps = {cy}
  RelayRawEnabled = TRUE
  RelayMetaEnabled = TRUE
  WalletAttachesProxy = FALSE
  Account = {a}
  Contract = {cx, cy}
  Signer = {s1}
  Collaborator = {s2}
  MaxProofs = 1
  MaxFlights = 2
  Method = {m1, m2}
  Name = {x, y, s}
  NamedBy <- Names
  MethodsOf <- ABI
  Literal = {x}
  Searched = {s}
  MaxLookups = 3
  Body <- Bodies
  Record <- Records
  MaxRotations = 1
  Actor = {w1, w2}
  MaxConnects = 2
  MaxReviews = 2
  MaxImports = 2
  MaxChanges = 1
  MaxCalls = 2
INVARIANTS
  PagesSettle
PROPERTIES
  
  SharedRelaysWhatPassed
  
  
