CHECK_DEADLOCK FALSE
SPECIFICATION Spec
CONSTANTS
  op1 = op1
  op2 = op2
  Global = Global
  Paymaster = Paymaster
  None = None
  Account = {a1}
  Sponsor = {s1, s2}
  Relay = {r1}
  Operation = {op1, op2}
  Amount = {1, 2}
  Fee = {0, 1}
  Day = 2
  VmMax = 3
  Funds = 2
  MaxTime = 4
  MaxTx = 3
  MaxNesting = 2
  Policy <- CappedOrOpen
INVARIANTS
  BooksBalance
  
PROPERTIES
  PaymentsWithinBudget
  PreflightHolds
SYMMETRY Interchangeable
