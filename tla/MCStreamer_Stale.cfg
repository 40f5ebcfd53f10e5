SPECIFICATION Spec
CONSTANTS
  v = v
  w = w
  x = x
  y = y
  NoIndex = NoIndex
  Index <- Four
  Streams <- StaleStream
  IndicesCycle = 1
  VerticesCycle = 1
  TransCycles = 1
  InputQueue = 4
  OutputFIFO = 4
  OutputMemory = 4
  Shaders = 2
  MaxRequest = 2
PROPERTY IsVertexStream
