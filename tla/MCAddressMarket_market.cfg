SPECIFICATION FairMarketSpec
CONSTANTS
  a1 = a1
  o1 = o1
  o2 = o2
  Zero = Zero
  None = None
  Account = {a1}
  Owner = {o1, o2}
  Verifier = {}
  Hook = {}
  NonV3 = {}
  Call = {}
  ClearCall = {}
  Market = {m1}
  AAMarket = m1
  Listing = {1, 2}
  Registration <- PlatformAccount
  EscapeCooldown = 1
  ConfigTimelock = 1
  CancelTimelock = 1
  MaxTime = 2
  Price = {1, 2}
  Funds = 1
  MaxNesting = 1
INVARIANTS
  DepositsInOrder
  SalesPaidAtPrice
  ListedIffEscrowed
PROPERTIES
  OwnerRecoversAccount
