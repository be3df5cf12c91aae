--------------------------- MODULE MCOrderedReceiver ---------------------------
(* OrderedReceiver on small instances.                                     *)
EXTENDS OrderedReceiver

\* Publishers and rooms are interchangeable: the first to appear is always the
\* same one.
FirstOrigin == CHOOSE o \in Origin : TRUE
FirstRoom == CHOOSE r \in Room : TRUE
Canonical ==
  /\ work # <<>> => work[1].origin = FirstOrigin
  /\ \A w \in Arrived : work[w].room \notin {None, FirstRoom} =>
       \E v \in 1..w - 1 : work[v].room = FirstRoom
================================================================================
