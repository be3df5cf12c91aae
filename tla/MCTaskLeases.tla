----------------------------- MODULE MCTaskLeases -----------------------------
(* TaskLeases on small instances.                                          *)
EXTENDS TaskLeases, TLC

CONSTANTS a, b, a1, a2, a3, b1

\* Agent a is restarted, agent b is another worker of the room.
MCAgentOf == [s \in Session |-> IF s = b1 THEN b ELSE a]

\* Reports and decisions of every kind.
MCAsked == Status

Symmetry == Permutations(Request)
===============================================================================
