CHECK_DEADLOCK FALSE
SPECIFICATION Spec
CONSTANTS
  t1 = t1
  t2 = t2
  b1 = b1
  None = None
  Tab = {t1, t2}
  Browser = {b1}
  BrowserOf <- OneBrowser
  Signer = {s1, s2}
  OperatorKey = {k1, k2, k3}
  Mutation = {"appendSubmissionReceipt", "rotateOperatorLink"}
  ActivityLimit = 1
  ReceiptLimit = 1
  MaxOps = 3
SYMMETRY Symmetric
INVARIANTS
  OneOperatorSequence
  
  PinnedKeyIsKept
