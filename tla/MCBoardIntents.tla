--------------------------- MODULE MCBoardIntents ---------------------------
(* Two intents of one room: c1 creates a task, and the sweep may approve   *)
(* it; u1 updates one, and its approval is carried by a later request.     *)
EXTENDS BoardIntents

CONSTANTS c1, u1, agent

MCPayload  == [i \in Intents |-> IF i = u1 THEN "update" ELSE "create"]
MCProposer == [i \in Intents |-> agent]
=============================================================================
