CONSTANTS
  u1 = u1
  u2 = u2
  w1 = w1
  w2 = w2
  w3 = w3
  w4 = w4
  k1 = k1
  k2 = k2
  Moving = Moving
  Upstreams = {u1, u2}
  Pool <- MCPool
  Keys = {k1, k2}
  BucketOf <- MCBucketOf
  Tokens <- MCTokens
  NumBuckets = 5
  Jobs <- MCJobs
  BatchSize = 2
  Spaced = TRUE
  MaxRecords = 3
SPECIFICATION FairSpec
INVARIANTS TypeOK NoFatal Drained StateComplete IndexTracksState EvenSpread
PROPERTIES MinimalMovement ImplementsOwnership RescaleCompletes
CHECK_DEADLOCK FALSE
