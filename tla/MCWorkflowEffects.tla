-------------------------- MODULE MCWorkflowEffects --------------------------
(* WorkflowEffects on small instances.                                     *)
EXTENDS WorkflowEffects, TLC

CONSTANTS k1, r1, r2, junk, h1, h2

(* Two requests of one key for different heads, and one that is junk.      *)
MCKeyOf == (r1 :> k1) @@ (r2 :> k1) @@ (junk :> k1)
MCHeadOf == (r1 :> h1) @@ (r2 :> h2) @@ (junk :> h1)
MCJunk == {junk}

(* Tokens and row identifiers are interchangeable.  Where symmetry reduction  *)
(* is unsound, a step that needs a fresh one takes the smallest.              *)
SmallestFresh ==
  /\ \A t \in Token : FreshToken(t) /\ ~ FreshToken(t)' => \A u \in Token : u < t => ~ FreshToken(u)
  /\ \A i \in EffectId : FreshId(i) /\ ~ FreshId(i)' => \A k \in EffectId : k < i => ~ FreshId(k)

Symmetry == Permutations(Token) \cup Permutations(EffectId) \cup Permutations(Server)
==============================================================================
