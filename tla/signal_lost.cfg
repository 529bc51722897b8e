SPECIFICATION ConsumerSpec
CONSTANTS
  BodyBuckets = {}
  s1 = s1
  s2 = s2
  a = a
  b = b
  db = db
  Workers = {w1}
  Contents <- MCContents
  RouteContents <- MCNone
  Signals <- MCSignals
  Component <- MCSameComponent
  TypeOf <- MCTypeOf
  Refused <- MCNone
  Window = 3
  LinkWindow = 1
  Attempts = 2
  MaxTime = 4
  MaxFaults = 0
  Idle = Idle
  NoItem = NoItem
INVARIANTS
  EverySignalStored
