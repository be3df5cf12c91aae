---------------------------- MODULE ReviewEffect -----------------------------
(***************************************************************************)
(* What the workflow-effect journal promises about each journalled effect  *)
(* (docs/workflow-effect-journal.md, as src/src/api/db/workflow-effects.ts *)
(* and workflow-effects/broker.ts implement it): a review is published at  *)
(* most once for an effect, never once the effect is known to have failed, *)
(* a success is reported only when a review exists, and an uncertain       *)
(* effect becomes nothing but a success.                                   *)
(***************************************************************************)
CONSTANTS
  Effect,    \* journalled effects (rows)
  Review     \* the reviews GitHub may come to hold

VARIABLES
  journal,   \* [Effect -> state]: what the journal says of each effect
  reviews    \* [Effect -> SUBSET Review]: the reviews published for it

vars == <<journal, reviews>>

Init ==
  /\ journal = [e \in Effect |-> "absent"]
  /\ reviews = [e \in Effect |-> {}]

Moves(e, from, to) ==
  /\ journal[e] = from
  /\ journal' = [journal EXCEPT ![e] = to]
  /\ UNCHANGED reviews

Open(e) == reviews[e] = {} /\ Moves(e, "absent", "pending")

(* The one effect on the world.                                            *)
Publish(e, r) ==
  /\ reviews[e] = {} /\ journal[e] # "failed"
  /\ reviews' = [reviews EXCEPT ![e] = {r}]
  /\ UNCHANGED journal

(* Nothing has been published: the effect may be tried again.              *)
Fail(e) == reviews[e] = {} /\ Moves(e, "pending", "failed")
Retry(e) == Moves(e, "failed", "pending")

LoseTrack(e) == Moves(e, "pending", "ambiguous")

(* Some review stands for the effect: its own, or, when the journal has    *)
(* forgotten an earlier effect of the same key, that one's.                *)
Succeed(e) ==
  /\ \E f \in Effect : reviews[f] # {}
  /\ Moves(e, "pending", "succeeded") \/ Moves(e, "ambiguous", "succeeded")

(* Retention: settled effects are forgotten, together; an effect whose     *)
(* outcome is uncertain is not.                                            *)
Forget ==
  /\ \E E \in SUBSET {e \in Effect : journal[e] # "ambiguous"} :
       journal' = [e \in Effect |-> IF e \in E THEN "absent" ELSE journal[e]]
  /\ UNCHANGED reviews

Next ==
  \/ \E e \in Effect : Open(e) \/ Fail(e) \/ Retry(e) \/ LoseTrack(e) \/ Succeed(e)
  \/ \E e \in Effect, r \in Review : Publish(e, r)
  \/ Forget

Spec == Init /\ [][Next]_vars
==============================================================================
