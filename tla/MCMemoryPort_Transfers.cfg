SPECIFICATION Spec
CONSTANTS
  MaxTransaction = 5
  BusWidth = 2
  Tickets = 2
  Sizes <- MCSizes
  OtherSizes <- NoSizes
  Loads <- ProgramLoads
INVARIANTS TypeOK BusFree TicketsKept InBuffer
PROPERTY Ends
