\* Two slots, a queue of two, five calls: the queue fills, overflows and drains.
SPECIFICATION FairSpec
CONSTANTS
  Work = {w1, w2, w3, w4, w5}
  MaxConcurrent = 2
  MaxQueued = 2
INVARIANTS
  LoadIsBounded
  NoSlotIdles
PROPERTIES
  EveryCallIsAnswered
CHECK_DEADLOCK FALSE
