SPECIFICATION Spec
CONSTANTS
  ZStencil = {"z1"}
  ColorWrite = {"c1"}
  MaxUpdates = 1
  ConsecutiveDrawDelay = 2
  FlushDelay = 2
  Kinds <- Interleaved
  MaxTransactions = 5
INVARIANTS UnitsAccept LockedAlone ExclusiveAlone
PROPERTY Completes
