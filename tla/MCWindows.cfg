SPECIFICATION Spec
CONSTANTS
  w1 = w1
  w2 = w2
  w3 = w3
  k1 = k1
  k2 = k2
  Moving = Moving
  Workers = {w1, w2}
  Keys = {k1, k2}
  JsonKey <- Identity
  Jobs <- MCJobs
  MaxTime = 3
  BatchSize = 2
SYMMETRY Symmetric
INVARIANTS
  TypeOK
  CountedOnce
  OnTimeCounted
  IndexMatchesState
  FiredByOwner
CHECK_DEADLOCK FALSE
