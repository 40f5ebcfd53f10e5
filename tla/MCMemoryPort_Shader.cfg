SPECIFICATION Spec
CONSTANTS
  MaxTransaction = 4
  BusWidth = 2
  Tickets = 3
  Sizes <- MCSizes
  OtherSizes <- FragmentSizes
  Loads <- ShaderLoads
INVARIANT SizeAllowed
