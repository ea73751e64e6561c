CONSTANTS
  Supplies <- MCSupplies
  NoList = NoList
  Progs <- MCProgs
  RawInputs <- MCRawInputs
  Offsets = {0, 1}
  Lengths = {1, 2}
  MaxReceipts = 3
  MaxLinks = 2
SPECIFICATION ChainSpec
INVARIANT ComposedLinksBind VerdictIsOfTheSet CycleReported ChildrenFirst IncompleteIsNotForged
PROPERTY Terminates
CHECK_DEADLOCK FALSE
