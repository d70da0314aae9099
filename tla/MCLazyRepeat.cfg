CONSTANTS
  u1 = u1
  u2 = u2
  w1 = w1
  w2 = w2
  w3 = w3
  k1 = k1
  k2 = k2
  NoTable = NoTable
  Upstreams = {u1, u2}
  Workers = {w1, w2}
  Keys = {k1}
  InitialTasks = {w1}
  InitialTable <- OneOwner
  Established = TRUE
  Spaced = TRUE
  BatchSize = 1
  MaxRescales = 2
  MaxRecords = 1
  MaxWatermark = 1
SPECIFICATION Spec
SYMMETRY UpstreamSymmetry
INVARIANTS TypeOK KeyMapSingleCopy NoProtocolError CleanWhenIdle
PROPERTIES WatermarkComplete ImplementsOwnership
