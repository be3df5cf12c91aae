\* Four notifications of two publishers to two rooms, barriers among them.
SPECIFICATION FairSpec
CONSTANTS
  Origin = {o1, o2}
  Room = {r1, r2}
  MaxLanes = 2
  MaxQueued = 1
  MaxOutstanding = 3
  MaxWorks = 4
  None = None
CONSTRAINT Canonical
INVARIANTS
  RoomOrder
  BarrierPrecedes
  OriginOrder
  AdmissionIsExact
PROPERTIES
  EveryNotificationEnds
CHECK_DEADLOCK FALSE
