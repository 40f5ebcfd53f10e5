SPECIFICATION Spec
CONSTANTS
  v = v
  w = w
  x = x
  y = y
  NoIndex = NoIndex
  Index <- Three
  Streams <- MixedStreams
  IndicesCycle = 2
  VerticesCycle = 2
  TransCycles = 2
  InputQueue = 2
  OutputFIFO = 3
  OutputMemory = 3
  Shaders = 2
  MaxRequest = 2
INVARIANTS TypeOK AssertionsHold FreeLinesUnused ResourcesAccounted NothingLeftBehind
PROPERTY IsVertexStream
PROPERTY BatchFinishes
