SPECIFICATION Spec
CONSTANTS
  v = v
  w = w
  x = x
  y = y
  NoIndex = NoIndex
  Index <- Three
  Streams <- LostStream
  IndicesCycle = 1
  VerticesCycle = 1
  TransCycles = 2
  InputQueue = 2
  OutputFIFO = 4
  OutputMemory = 3
  Shaders = 2
  MaxRequest = 2
INVARIANT LinesLeft
