SPECIFICATION Spec
CONSTANTS
  Zero = Zero
  None = None
  Keys = {k1, k2}
  LostKeys = {lost}
  Contracts = {c1, c2}
  Nefs = {n1, n2}
  Manifests = {f1}
  Delay = 2
  MaxTime = 4
  MaxProposals = 3
SYMMETRY Interchangeable
INVARIANTS
  CellsConsistent
  OrderlySuccession
PROPERTIES
  ImplementsPublicNotice
