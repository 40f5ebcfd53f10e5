SPECIFICATION FairSpec
CONSTANTS
  Schedulers <- AllSchedulers
  Blocks <- SomeBlocks
  MaxConsecutive <- Consecutive
  MaxTransactions = 4
INVARIANTS TypeOK RoomForRequest AssertionsHold FairToBoth
PROPERTY IsChannelMemory
PROPERTY Answered
