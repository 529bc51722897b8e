SPECIFICATION FairSpec
CONSTANTS
  BodyBuckets = {0}
  Workers = {w1, w2}
  Contents = {c1}
  Window = 3
  Attempts = 2
  MaxTime = 5
  MaxFaults = 1
  Idle = Idle
INVARIANTS
  PipelineTypeOK
  OneClaimPerBucket
  ErrorMeansRecurrence
  StoredWasClaimed
PROPERTIES
  ImplementsDeduplication
  CallsReturn
