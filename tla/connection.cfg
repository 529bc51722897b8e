SPECIFICATION FairSpec
CONSTANTS
  Workers = {w1, w2}
  Incidents = {i1}
  Attempts = 2
  MaxTime = 2
  MaxFaults = 2
  Idle = Idle
  NoRow = NoRow
  NoOne = NoOne
INVARIANTS
  TypeOK
  LocksAreHeldByWriters
  ErrorHasCause
  CreateEndsTransaction
PROPERTIES
  StampsFollowCommits
  ImplementsAtomicStore
  OperationsEnd
