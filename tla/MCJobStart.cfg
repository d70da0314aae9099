SPECIFICATION FairSpec
CONSTANTS
  NumBuckets = 4
  Tokens <- MCTokens
  Jobs <- MCJobs
INVARIANTS
  NoFatal
  Wired
PROPERTY
  JobStarts
CHECK_DEADLOCK FALSE
