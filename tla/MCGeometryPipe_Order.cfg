SPECIFICATION Spec
CONSTANTS
  Batches <- Mixed
  Outside <- Outer
  VerticesCycle = 2
  TrianglesCycle = 2
  AssemblyQueue = 5
  ClipBuffer = 7
  ClipStart = 2
  ClipLatency = 1
  BusLatency = 3
  SetupFIFO = 4
  SetupStart = 2
  SetupLatency = 1
  OutputLatency = 1
  TriangleQueue = 3
  TriangleBatch = 2
INVARIANTS TypeOK AssertionsHold CreditsKept
PROPERTY IsTriangleStream
PROPERTY BatchesRasterized
