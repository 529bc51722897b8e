SPECIFICATION Spec
CONSTANTS
  Workers = {w1}
  Incidents = {i1}
  Attempts = 3
  MaxTime = 1
  MaxFaults = 1
  Idle = Idle
  NoRow = NoRow
  NoOne = NoOne
INVARIANTS
  SelfHeals
