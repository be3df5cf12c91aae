--------------------------- MODULE MCBridgePublisher ---------------------------
(* BridgePublisher on small instances.                                     *)
EXTENDS BridgePublisher

\* Rooms are interchangeable: the first one to appear is always the same.
FirstRoom == CHOOSE r \in Room : TRUE
Canonical ==
  \A j \in 1..Len(event) : event[j].room \notin {None, FirstRoom} =>
    \E i \in 1..j - 1 : event[i].room = FirstRoom
================================================================================
