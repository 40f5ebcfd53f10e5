SPECIFICATION Spec
CONSTANTS
  ZStencil = {"z1", "z2"}
  ColorWrite = {"c1", "c2"}
  MaxUpdates = 2
  ConsecutiveDrawDelay = 2
  FlushDelay = 2
  Kinds <- Registered
  MaxTransactions = 7
INVARIANTS TypeOK RegistersInOrder UnitsAccept OneBatchAhead
