SPECIFICATION FairSpec
CONSTANTS
  both = both
  reader = reader
  Clients <- TwoClients
  Writers <- OneWriter
  ch1 = ch1
  ch2 = ch2
  Channels = {ch1, ch2}
  RequestQueue = 4
  ReadBuffers = 1
  WriteBuffers = 2
  Loads <- SomeLoads
  BusCycles = 2
  Word = 8
INVARIANTS TypeOK EntryForRequest WriteAccepted BuffersAccounted
PROPERTY Drains
