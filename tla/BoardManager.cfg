SPECIFICATION FairSpec
CONSTANTS
  Workers = {w1, w2}
  Sweepers = {s1, s2}
  Admins = {a1}
  None = None
  Supervised = {w2}
  MaxConns = 2
  MaxEvents = 3
INVARIANT RoomKeepsAManager
PROPERTIES
  DeposedStayedAway
  ModeIsRespected
  DeadManagerIsReplaced
  VacancyIsHeard
\* A room may stay as it is for ever.
CHECK_DEADLOCK FALSE
