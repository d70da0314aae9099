CONSTANTS
  u1 = u1
  u2 = u2
  w1 = w1
  w2 = w2
  w3 = w3
  k1 = k1
  k2 = k2
  NoTable = NoTable
  Upstreams = {u1, u2}
  Workers = {w1, w2}
  Keys = {k1, k2}
  InitialTasks = {w1, w2}
  InitialTable <- TwoOwners
  Established = FALSE
  Spaced = TRUE
  BatchSize = 1
  MaxRescales = 1
  MaxRecords = 0
  MaxWatermark = 1
SPECIFICATION Spec
PROPERTY WatermarkAwaitsUpstreams
