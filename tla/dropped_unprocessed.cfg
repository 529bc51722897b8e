SPECIFICATION Spec
CONSTANTS
  BodyBuckets = {}
  Workers = {w1}
  Contents = {c1}
  Window = 3
  Attempts = 2
  MaxTime = 4
  MaxFaults = 0
  Idle = Idle
INVARIANTS
  DroppedWasProcessed
