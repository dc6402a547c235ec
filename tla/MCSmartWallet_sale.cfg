SPECIFICATION Spec
CONSTANTS
  a1 = a1
  o1 = o1
  o2 = o2
  v1 = v1
  h1 = h1
  Zero = Zero
  None = None
  Account = {a1}
  Owner = {o1, o2}
  Verifier = {v1}
  Hook = {h1}
  NonV3 = {}
  Call = {c2}
  ClearCall = {c2}
  Market = {m1}
  Listing = {1}
  Registration <- GuardedAccount
  EscapeCooldown = 1
  ConfigTimelock = 1
  CancelTimelock = 1
  MaxTime = 3
INVARIANTS
  NothingOutlivesTheSale
  TimersBelongToWhatTheyTime

  
