SPECIFICATION Spec
CONSTANTS
  MaxLatency = 2
  Bandwidth = 2
  Capacity <- MCCapacity
  Data = {d1, d2}
  NoData = NoData
  FixedLatency = TRUE
  WriteLatencies <- Latencies
  FirstCycle = 0
  MaxLag = 4
CHECK_DEADLOCK FALSE
PROPERTY IsDelayLine
INVARIANTS TypeOK PendentExact InWindow
SYMMETRY Objects
