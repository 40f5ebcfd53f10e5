SPECIFICATION Spec
CONSTANTS
  ZStencil = {"z1"}
  ColorWrite = {"c1"}
  MaxUpdates = 2
  ConsecutiveDrawDelay = 2
  FlushDelay = 2
  Kinds <- Loads
  MaxTransactions = 5
INVARIANT FragmentProgramInOrder
