\* Eight requests: enough for a pass, its trailing pass, and requests that come
\* during either and in the window before the finally callback.
SPECIFICATION FairFlight
CONSTANT MaxRequests = 8
INVARIANTS
  NoStaleAnswer
  NoLostWakeup
  PassesHaveWaiters
PROPERTY EveryRequestIsAnswered
CHECK_DEADLOCK FALSE
