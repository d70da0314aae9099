CONSTANTS
  w1 = w1
  w2 = w2
  w3 = w3
  k1 = k1
  k2 = k2
  b1 = b1
  b2 = b2
  None = None
  Workers = {w1, w2, w3}
  Keys = {k1, k2}
  Profiles <- MCProfiles
  MaxValue = 2
SPECIFICATION FairSpec
INVARIANTS TypeOK FailsOnlyAsKnown RemovedHoldsNothing AbsentKeyIsNew
PROPERTIES ImplementsStore EventualMigrationEnds
CHECK_DEADLOCK FALSE
