SPECIFICATION FairSpec
CONSTANTS
  Requests = {r1, r2, r3, r4}
  Capacity = 6
  Rate = 3
  Cost = 2
  MaxInFlight = 2
  MaxTime = 1
INVARIANTS
  TypeOK
  RateBound
  PermitsConserved
  NoLostWakeup
PROPERTIES
  RequestsAnswered
