SPECIFICATION Spec
CONSTANTS
  a1 = a1
  a2 = a2
  v1 = v1
  h1 = h1
  o1 = o1
  Core = Core
  Zero = Zero
  None = None
  Account = {a1, a2}
  Owner = {o1}
  Verifier = {v1}
  Hook = {h1}
  Target = {t1}
  Channel = {c1}
  SeqLimit = 2
  MaxDepth = 3
  MaxCalls = 3
  Chains <- EitherChain
INVARIANTS
  
  EscrowStopsExecution
PROPERTIES
  AuthorityStillDuringCalls
  ImplementsReplayProtection
