\* Three events to two rooms, room losses that overflow at the second room, a
\* queue that is full with one waiting work, one statement that outlives its
\* connection.
SPECIFICATION FairSpec
CONSTANTS
  Room = {r1, r2}
  MaxPendingRooms = 1
  MaxQueued = 1
  MaxEvents = 3
  MaxOrphans = 1
  None = None
CONSTRAINT Canonical
INVARIANTS
  NoLossForgotten
PROPERTIES
  NoSilentGap
  LossesAreAnnounced
CHECK_DEADLOCK FALSE
