SPECIFICATION ConsumerFairSpec
CONSTANTS
  BodyBuckets = {}
  s1 = s1
  s2 = s2
  a = a
  b = b
  db = db
  Workers = {w1}
  Contents <- MCContents
  RouteContents <- MCContents
  Signals <- MCSignals
  Component <- MCSameComponent
  TypeOf <- MCTypeOf
  Refused <- MCNone
  Window = 2
  LinkWindow = 1
  Attempts = 2
  MaxTime = 3
  MaxFaults = 1
  Idle = Idle
  NoItem = NoItem
INVARIANTS
  TypeOK
  LinkRefersToItem
  DocsReferToItem
  LostOnlyByRecurrence
  UnlinkedWasPassed
PROPERTIES
  DeliveredIsHandled
  ImplementsDeduplication
