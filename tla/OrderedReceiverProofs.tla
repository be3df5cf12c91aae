----------------------- MODULE OrderedReceiverProofs -----------------------
(***************************************************************************)
(* Proofs about OrderedReceiver for every number of publishers, rooms and  *)
(* notifications and all three limits.                                     *)
(*                                                                         *)
(* The argument.  A lane takes a work only when every earlier one of the   *)
(* lane has ended.  A work waits for the last barrier and for the last     *)
(* work of its publisher that the receiver still remembers; what it does   *)
(* not wait for directly it waits for through those two, unless one of     *)
(* them was dropped: a dropped work ends before what it was waiting for.   *)
(***************************************************************************)
EXTENDS OrderedReceiver, FiniteSetTheorems, WellFoundedInduction, TLAPS

Stage == {"queued", "taken", "running", "applied", "lost"}
Work == [origin : Origin, room : Room \cup {None}, waits : SUBSET (1..MaxWorks),
         stage : Stage]

(* A lane takes a work when all earlier ones of the lane have ended.       *)
LanesInOrder ==
  \A v, w \in Arrived :
    w < v /\ Lane(w) = Lane(v) /\ work[v].stage \in {"taken", "running", "applied"}
      => Resolved(w)

(* After close() nothing is queued.                                        *)
RetiredIsEmpty == closed => \A w \in Arrived : work[w].stage # "queued"

(* Works wait for earlier ones only, and start when those have ended.      *)
WaitsForEarlier ==
  \A v \in Arrived : \A c \in work[v].waits : c \in Arrived /\ c < v /\ (Started(v) => Resolved(c))

(* Between w and v a work of w's publisher was lost.                       *)
LostAfter(w, v) ==
  \E u \in Arrived : w < u /\ u < v /\ work[u].origin = work[w].origin /\ work[u].stage = "lost"

(* The remembered barrier is the last one that may not have ended.         *)
BarrierIsLast ==
  /\ barrier # None => barrier \in Arrived /\ work[barrier].room = None
  /\ \A b \in Arrived : work[b].room = None /\ ~Resolved(b) => barrier # None /\ b <= barrier

(* The remembered work of a publisher is the last that has not ended, but  *)
(* for what was lost since.                                                *)
TailIsLast ==
  /\ \A o \in Origin : tail[o] # None => work[tail[o]].origin = o
  /\ ~closed => \A w \in Arrived : ~Resolved(w) =>
       \/ tail[work[w].origin] # None /\ w <= tail[work[w].origin]
       \/ LostAfter(w, Len(work) + 1)

(* A work that may still start waits for the barriers before it that have  *)
(* not ended, itself or through a later barrier.                           *)
WaitsForBarriers ==
  \A v, b \in Arrived :
    b < v /\ work[v].stage # "lost" /\ work[b].room = None /\ ~Resolved(b) =>
      \E c \in work[v].waits : b <= c /\ work[c].room = None

(* It waits likewise for the works of its publisher, and a barrier for     *)
(* those of all publishers.                                                *)
WaitsForOrigins ==
  \A v, w \in Arrived :
    /\ w < v /\ work[v].stage # "lost" /\ ~Resolved(w)
    /\ work[v].room = None \/ work[w].origin = work[v].origin
    => \/ \E c \in work[v].waits : w <= c /\ work[c].origin = work[w].origin
       \/ LostAfter(w, v)

(* The inductive invariant.                                                *)
IInv ==
  /\ TypeOK
  /\ AdmissionIsExact
  /\ LanesInOrder
  /\ RetiredIsEmpty
  /\ WaitsForEarlier
  /\ BarrierIsLast /\ WaitsForBarriers /\ BarrierPrecedes
  /\ TailIsLast /\ WaitsForOrigins /\ OriginOrder

-----------------------------------------------------------------------------
(* Facts about numbers, sets and sequences.                                *)

(* A set of naturals that is not empty has a least element.                *)
LEMMA Least ==
  ASSUME NEW S, S \subseteq Nat, S # {}
  PROVE  \E x \in S : \A y \in S : x <= y
<1>. DEFINE upto(k) == {v \in S : v <= k}
            F == {upto(k) : k \in S}
            R == StrictSubsetOrdering(S)
<1>1. F \subseteq FiniteSubsetsOf(S) /\ F # {}
  <2>1. ASSUME NEW k \in S PROVE upto(k) \in FiniteSubsetsOf(S)
    <3>1. k \in Nat /\ IsFiniteSet(0..k)
      BY FS_Interval
    <3>2. \A v \in S : v \in Nat
      OBVIOUS
    <3>3. \A v \in upto(k) : v \in 0..k
      BY <3>1, <3>2
    <3>. HIDE DEF upto
    <3>4. IsFiniteSet(upto(k))
      <4>1. upto(k) \in SUBSET (0..k)
        BY <3>3
      <4>. QED BY <3>1, <4>1, FS_Subset
    <3>5. upto(k) \in SUBSET S
      BY DEF upto
    <3>. QED BY <3>4, <3>5 DEF FiniteSubsetsOf
  <2>. QED BY <2>1
<1>2. IsWellFoundedOn(R, FiniteSubsetsOf(S))
  BY FS_StrictSubsetOrderingWellFounded
<1>3. \E X \in F : \A Y \in F : <<Y, X>> \notin R
  <2>. HIDE DEF F, R
  <2>. QED BY <1>1, <1>2, WFMin
<1>4. PICK k \in S : \A y \in S : <<upto(y), upto(k)>> \notin R
  BY <1>3
<1>5. ASSUME NEW y \in S, y < k PROVE FALSE
  <2>1. upto(y) \in SUBSET S /\ upto(k) \in SUBSET S
    OBVIOUS
  <2>2. y \in Nat /\ k \in Nat /\ \A v \in S : v \in Nat
    OBVIOUS
  <2>3. upto(y) \subseteq upto(k)
    <3>1. \A v \in S : v <= y => v <= k
      BY <1>5, <2>2
    <3>. QED BY <3>1
  <2>4. k \in upto(k) /\ k \notin upto(y)
    BY <1>5, <2>2
  <2>. QED BY <1>4, <2>1, <2>3, <2>4 DEF StrictSubsetOrdering
<1>. QED BY <1>5

(* What the type says of the works.                                        *)
LEMMA Works ==
  ASSUME TypeOK
  PROVE  /\ work \in Seq(Work) /\ Len(work) \in Nat /\ Len(work) <= MaxWorks
         /\ Arrived \subseteq Nat /\ IsFiniteSet(Arrived)
         /\ \A v \in Arrived :
              /\ work[v] \in Work /\ work[v].stage \in Stage
              /\ work[v].origin \in Origin /\ work[v].room \in Room \cup {None}
              /\ work[v].waits \subseteq 1..MaxWorks
         /\ \A T \in SUBSET Arrived : IsFiniteSet(T) /\ Cardinality(T) \in Nat
<1>1. work \in Seq(Work) /\ Len(work) \in Nat /\ Len(work) <= MaxWorks
  BY BoundAssumption DEF TypeOK, Work, Stage
<1>2. Arrived \subseteq Nat /\ IsFiniteSet(Arrived)
  BY <1>1, FS_Interval DEF Arrived
<1>3. \A v \in Arrived : work[v] \in Work
  BY <1>1 DEF Arrived
<1>4. \A T \in SUBSET Arrived : IsFiniteSet(T) /\ Cardinality(T) \in Nat
  BY <1>2, FS_Subset, FS_CardinalityType
<1>. QED BY <1>1, <1>2, <1>3, <1>4 DEF Work

-----------------------------------------------------------------------------
(* Steps that change the stages of works.                                  *)

(* Works keep what they are; what has ended stays ended, what is lost      *)
(* stays lost, and what starts has seen its predecessors end.              *)
StagesMove ==
  /\ Len(work') = Len(work)
  /\ \A v \in Arrived :
       /\ work'[v].origin = work[v].origin
       /\ work'[v].room = work[v].room
       /\ work'[v].waits = work[v].waits
       /\ work[v].stage = "lost" => work'[v].stage = "lost"
       /\ Resolved(v) => Resolved(v)'
       /\ Started(v)' => Started(v) \/ \A c \in work[v].waits : Resolved(c)

(* Such a step loses nothing that was lost.                                *)
LEMMA LostStays ==
  ASSUME TypeOK, StagesMove, NEW w \in Arrived, NEW v, LostAfter(w, v)
  PROVE  LostAfter(w, v)'
BY Works DEF LostAfter, StagesMove, Arrived

(* It keeps what the works wait for, and hence their order.                *)
LEMMA OrderStays ==
  ASSUME IInv, StagesMove
  PROVE  /\ WaitsForEarlier' /\ WaitsForBarriers' /\ BarrierPrecedes'
         /\ WaitsForOrigins' /\ OriginOrder'
<1>. USE DEF IInv
<1>1. Arrived' = Arrived /\ Arrived \subseteq Nat
  BY Works DEF StagesMove, Arrived
<1>2. \A v \in Arrived :
        /\ work'[v].origin = work[v].origin /\ work'[v].room = work[v].room
        /\ work'[v].waits = work[v].waits
        /\ work[v].stage = "lost" => work'[v].stage = "lost"
        /\ Resolved(v) => Resolved(v)'
        /\ Started(v)' => Started(v) \/ \A c \in work[v].waits : Resolved(c)
  BY DEF StagesMove
<1>3. \A v \in Arrived : Started(v)' => work[v].stage # "lost"
  BY <1>2 DEF Started
<1>4. \A v \in Arrived : Started(v)' => \A c \in work[v].waits : Resolved(c)
  BY <1>2 DEF WaitsForEarlier
<1>5. WaitsForEarlier'
  BY <1>1, <1>2, <1>4 DEF WaitsForEarlier
<1>6. WaitsForBarriers'
  <2>1. ASSUME NEW v \in Arrived, NEW b \in Arrived,
               b < v, work'[v].stage # "lost", work'[b].room = None, ~Resolved(b)'
        PROVE  \E c \in work'[v].waits : b <= c /\ work'[c].room = None
    <3>1. work[v].stage # "lost" /\ work[b].room = None /\ ~Resolved(b)
      BY <1>2, <2>1
    <3>2. PICK c \in work[v].waits : b <= c /\ work[c].room = None
      BY <2>1, <3>1 DEF WaitsForBarriers
    <3>3. c \in Arrived
      BY DEF WaitsForEarlier
    <3>. QED BY <1>2, <3>2, <3>3
  <2>. QED BY <1>1, <2>1 DEF WaitsForBarriers
<1>7. WaitsForOrigins'
  <2>1. ASSUME NEW v \in Arrived, NEW w \in Arrived,
               w < v, work'[v].stage # "lost", ~Resolved(w)',
               work'[v].room = None \/ work'[w].origin = work'[v].origin
        PROVE  \/ \E c \in work'[v].waits : w <= c /\ work'[c].origin = work'[w].origin
               \/ LostAfter(w, v)'
    <3>1. /\ work[v].stage # "lost" /\ ~Resolved(w)
          /\ work[v].room = None \/ work[w].origin = work[v].origin
      BY <1>2, <2>1
    <3>2. CASE LostAfter(w, v)
      BY <3>2, LostStays
    <3>3. CASE \E c \in work[v].waits : w <= c /\ work[c].origin = work[w].origin
      <4>1. PICK c \in work[v].waits : w <= c /\ work[c].origin = work[w].origin
        BY <3>3
      <4>2. c \in Arrived
        BY DEF WaitsForEarlier
      <4>. QED BY <1>2, <4>1, <4>2
    <3>. QED BY <2>1, <3>1, <3>2, <3>3 DEF WaitsForOrigins
  <2>. QED BY <1>1, <2>1 DEF WaitsForOrigins
<1>8. \A v \in Arrived : v \in Nat /\ Len(work) \in Nat /\ \A u \in 1..v : u \in Arrived
  BY Works DEF Arrived
<1>9. BarrierPrecedes'
  <2>1. ASSUME NEW v \in Arrived, NEW b \in Arrived,
               b < v, Started(v)', work'[b].room = None, ~Resolved(b)'
        PROVE  \E c \in b + 1..v - 1 : work'[c].room = None /\ work'[c].stage = "lost"
    <3>1. work[v].stage # "lost" /\ work[b].room = None /\ ~Resolved(b)
      BY <1>2, <1>3, <2>1
    <3>2. PICK c \in work[v].waits : b <= c /\ work[c].room = None
      BY <2>1, <3>1 DEF WaitsForBarriers
    <3>3. c \in Arrived /\ c < v /\ Resolved(c)
      BY <1>4, <2>1 DEF WaitsForEarlier
    <3>4. b # c
      BY <3>1, <3>3
    <3>5. b < c /\ c \in b + 1..v - 1
      BY <1>8, <3>2, <3>3, <3>4
    <3>6. CASE work[c].stage = "lost"
      BY <1>2, <3>2, <3>3, <3>5, <3>6
    <3>7. CASE Started(c)
      <4>1. PICK d \in b + 1..c - 1 : work[d].room = None /\ work[d].stage = "lost"
        BY <3>1, <3>3, <3>5, <3>7 DEF BarrierPrecedes
      <4>2. d \in Arrived /\ d \in b + 1..v - 1
        BY <1>8, <3>3
      <4>. QED BY <1>2, <4>1, <4>2
    <3>. QED BY <3>3, <3>6, <3>7 DEF Resolved, Started
  <2>. QED BY <1>1, <2>1 DEF BarrierPrecedes
<1>10. OriginOrder'
  <2>1. ASSUME NEW v \in Arrived, NEW w \in Arrived, w < v, Started(v)', ~Resolved(w)',
               work'[v].room = None \/ work'[w].origin = work'[v].origin
        PROVE  \E u \in w + 1..v - 1 :
                 work'[u].origin = work'[w].origin /\ work'[u].stage = "lost"
    <3>1. /\ work[v].stage # "lost" /\ ~Resolved(w)
          /\ work[v].room = None \/ work[w].origin = work[v].origin
      BY <1>2, <1>3, <2>1
    <3>2. SUFFICES \E u \in w + 1..v - 1 :
                     u \in Arrived /\ work[u].origin = work[w].origin /\ work[u].stage = "lost"
      BY <1>2
    <3>3. CASE LostAfter(w, v)
      BY <1>8, <3>3 DEF LostAfter
    <3>4. CASE \E c \in work[v].waits : w <= c /\ work[c].origin = work[w].origin
      <4>1. PICK c \in work[v].waits : w <= c /\ work[c].origin = work[w].origin
        BY <3>4
      <4>2. c \in Arrived /\ c < v /\ Resolved(c)
        BY <1>4, <2>1 DEF WaitsForEarlier
      <4>3. w # c
        BY <3>1, <4>2
      <4>4. w < c /\ c \in w + 1..v - 1
        BY <1>8, <4>1, <4>2, <4>3
      <4>5. CASE work[c].stage = "lost"
        BY <4>1, <4>2, <4>4, <4>5
      <4>6. CASE Started(c)
        <5>1. PICK d \in w + 1..c - 1 : work[d].origin = work[w].origin /\ work[d].stage = "lost"
          BY <3>1, <4>1, <4>2, <4>4, <4>6 DEF OriginOrder
        <5>2. d \in Arrived /\ d \in w + 1..v - 1
          BY <1>8, <4>2
        <5>. QED BY <5>1, <5>2
      <4>. QED BY <4>2, <4>5, <4>6 DEF Resolved, Started
    <3>. QED BY <2>1, <3>1, <3>3, <3>4 DEF WaitsForOrigins
  <2>. QED BY <1>1, <2>1 DEF OriginOrder
<1>. QED BY <1>5, <1>6, <1>7, <1>9, <1>10

(* The barrier that is remembered stays the last one.                      *)
LEMMA BarrierStays ==
  ASSUME IInv, StagesMove, UNCHANGED barrier
  PROVE  BarrierIsLast'
<1>1. Arrived' = Arrived
  BY Works DEF IInv, StagesMove, Arrived
<1>2. \A v \in Arrived : work'[v].room = work[v].room /\ (Resolved(v) => Resolved(v)')
  BY DEF StagesMove
<1>. QED BY <1>1, <1>2 DEF IInv, BarrierIsLast

-----------------------------------------------------------------------------
(* The end of a work.                                                      *)

(* Work w ends; of its lane D are dropped and the first of the rest, H, is *)
(* taken.                                                                  *)
Ends(w, outcome, D, H) ==
  /\ D \subseteq Queue(Lane(w)) /\ H \subseteq Queue(Lane(w)) \ D
  /\ closed => D = {} /\ H = {}
  /\ \A h \in H, v \in Queue(Lane(w)) \ D : h <= v
  /\ ~closed /\ Queue(Lane(w)) # D => H # {}
  /\ work' \in Seq(Work) /\ Len(work') = Len(work)
  /\ \A v \in Arrived :
       /\ work'[v].origin = work[v].origin
       /\ work'[v].room = work[v].room
       /\ work'[v].waits = work[v].waits
       /\ work'[v].stage = IF v = w THEN outcome ELSE IF v \in D THEN "lost"
                           ELSE IF v \in H THEN "taken" ELSE work[v].stage
  /\ tail' = [o \in Origin |-> IF tail[o] \in D \cup {w} THEN None ELSE tail[o]]
  /\ outstanding' = outstanding - (1 + Cardinality(D))
  /\ UNCHANGED <<barrier, late, closed>>

(* That is what Finish does.                                               *)
LEMMA FinishEnds ==
  ASSUME IInv, NEW w \in Arrived, NEW outcome \in {"applied", "lost"}, Finish(w, outcome)
  PROVE  \E D, H : Ends(w, outcome, D, H)
<1>. DEFINE rest == IF closed THEN {} ELSE Queue(Lane(w))
            D == {v \in rest : v <= late}
            H == {v \in rest \ D : \A u \in rest \ D : v <= u}
            stage(v) == IF v = w THEN outcome ELSE IF v \in D THEN "lost"
                        ELSE IF v \in H THEN "taken" ELSE work[v].stage
<1>0. TypeOK
  BY DEF IInv
<1>1. /\ work' = [v \in Arrived |-> [work[v] EXCEPT !.stage = stage(v)]]
      /\ tail' = [o \in Origin |-> IF tail[o] \in D \cup {w} THEN None ELSE tail[o]]
      /\ outstanding' = outstanding - (1 + Cardinality(D))
      /\ UNCHANGED <<barrier, late, closed>>
  BY DEF Finish, Released
<1>2. /\ D \subseteq Queue(Lane(w)) /\ H \subseteq Queue(Lane(w)) \ D
      /\ closed => D = {} /\ H = {}
      /\ \A h \in H, v \in Queue(Lane(w)) \ D : h <= v
  OBVIOUS
<1>3. ASSUME ~closed, Queue(Lane(w)) # D PROVE H # {}
  <2>. DEFINE S == rest \ D
  <2>1. S # {} /\ S \subseteq Nat
    BY <1>0, <1>3, Works DEF Queue
  <2>2. \E v \in S : \A u \in S : v <= u
    <3>. HIDE DEF S
    <3>. QED BY <2>1, Least
  <2>. QED BY <2>2
<1>4. \A v \in Arrived : stage(v) \in Stage
  <2>1. \A v \in Arrived : work[v].stage \in Stage
    BY <1>0, Works
  <2>. HIDE DEF D, H
  <2>. QED BY <2>1 DEF Stage
<1>. HIDE DEF stage
<1>5. \A v \in Arrived : [work[v] EXCEPT !.stage = stage(v)] \in Work
  BY <1>0, <1>4, Works DEF Work
<1>6. work' \in Seq(Work) /\ Len(work') = Len(work)
  <2>1. Len(work) \in Nat /\ work' \in [1..Len(work) -> Work]
    BY <1>0, <1>1, <1>5, Works DEF Arrived
  <2>. QED BY <2>1
<1>7. \A v \in Arrived :
        /\ work'[v].origin = work[v].origin
        /\ work'[v].room = work[v].room
        /\ work'[v].waits = work[v].waits
        /\ work'[v].stage = stage(v)
  <2>1. \A v \in Arrived : work[v] \in Work /\ work'[v] = [work[v] EXCEPT !.stage = stage(v)]
    BY <1>0, <1>1, Works
  <2>. QED BY <2>1 DEF Work
<1>8. Ends(w, outcome, D, H)
  <2>. HIDE DEF D, H
  <2>. QED BY <1>1, <1>2, <1>3, <1>6, <1>7 DEF Ends, stage
<1>. QED BY <1>8

(* What ends has started or is late; what is taken was queued.             *)
LEMMA EndsMove ==
  ASSUME IInv, NEW w \in Arrived, NEW outcome \in {"applied", "lost"}, NEW D, NEW H,
         Ends(w, outcome, D, H), work[w].stage \in {"taken", "running"},
         outcome = "applied" => work[w].stage = "running"
  PROVE  StagesMove
<1>1. \A v \in D \cup H : v \in Arrived /\ work[v].stage = "queued" /\ v # w
  BY DEF Ends, Queue
<1>2. ASSUME NEW v \in Arrived
      PROVE  /\ work[v].stage = "lost" => work'[v].stage = "lost"
             /\ Resolved(v) => Resolved(v)'
             /\ Started(v)' => Started(v)
  <2>1. /\ v = w => work'[v].stage = outcome
        /\ v # w /\ v \in D => work'[v].stage = "lost"
        /\ v # w /\ v \notin D /\ v \in H => work'[v].stage = "taken"
        /\ v # w /\ v \notin D /\ v \notin H => work'[v].stage = work[v].stage
    BY DEF Ends
  <2>. QED BY <1>1, <2>1 DEF Resolved, Started
<1>. QED BY <1>2 DEF StagesMove, Ends

(* The lanes stay in order, and one that has a queue has a work under way. *)
LEMMA EndsLanes ==
  ASSUME IInv, NEW w \in Arrived, NEW outcome \in {"applied", "lost"}, NEW D, NEW H,
         Ends(w, outcome, D, H), work[w].stage \in {"taken", "running"}
  PROVE  /\ LanesInOrder' /\ RetiredIsEmpty'
         /\ \A v \in Arrived' : work'[v].stage = "queued" => Busy(Lane(v))'
<1>0. /\ TypeOK /\ \A v \in Arrived : work[v].stage \in Stage /\ v \in Nat
  BY Works DEF IInv
<1>1. Arrived' = Arrived /\ \A v \in Arrived : Lane(v)' = Lane(v)
  BY DEF Ends, Arrived, Lane
<1>2. \A v \in D \cup H : v \in Arrived /\ Lane(v) = Lane(w) /\ work[v].stage = "queued" /\ v # w
  BY DEF Ends, Queue
<1>3. \A v \in Arrived :
        work'[v].stage = IF v = w THEN outcome ELSE IF v \in D THEN "lost"
                         ELSE IF v \in H THEN "taken" ELSE work[v].stage
  BY DEF Ends
<1>4. \A v \in Arrived : Lane(v) = Lane(w) /\ v \notin D /\ work[v].stage = "queued"
        => v \in Queue(Lane(w)) \ D
  BY DEF Queue
<1>5. Resolved(w)' /\ \A v \in Arrived : Resolved(v) \/ v \in D => Resolved(v)'
  BY <1>2, <1>3 DEF Resolved
<1>6. \A v \in Arrived : Lane(v) = Lane(w) /\ v # w => work[v].stage \notin {"taken", "running"}
  BY <1>0 DEF IInv, LanesInOrder, Resolved
<1>7. LanesInOrder'
  <2>1. ASSUME NEW v \in Arrived, NEW u \in Arrived, u < v, Lane(u) = Lane(v),
               work'[v].stage \in {"taken", "running", "applied"}
        PROVE  Resolved(u)'
    <3>1. CASE v = w
      <4>1. Resolved(u)
        BY <2>1, <3>1 DEF IInv, LanesInOrder
      <4>. QED BY <1>5, <4>1
    <3>2. CASE v \in H
      <4>1. CASE u = w \/ u \in D \/ Resolved(u)
        BY <1>5, <4>1
      <4>2. CASE u # w /\ u \notin D /\ ~Resolved(u)
        <5>1. work[u].stage = "queued"
          BY <1>0, <1>2, <1>6, <2>1, <3>2, <4>2 DEF Resolved, Stage
        <5>2. u \in Queue(Lane(w)) \ D
          BY <1>2, <1>4, <2>1, <3>2, <4>2, <5>1
        <5>3. v <= u
          BY <3>2, <5>2 DEF Ends
        <5>. QED BY <1>0, <2>1, <5>3
      <4>. QED BY <4>1, <4>2
    <3>3. CASE v # w /\ v \notin H
      <4>1. work[v].stage \in {"taken", "running", "applied"}
        BY <1>3, <2>1, <3>3
      <4>2. Resolved(u)
        BY <2>1, <4>1 DEF IInv, LanesInOrder
      <4>. QED BY <1>5, <4>2
    <3>. QED BY <3>1, <3>2, <3>3
  <2>. QED BY <1>1, <2>1 DEF LanesInOrder
<1>8. \A v \in Arrived : work'[v].stage = "queued" =>
        work[v].stage = "queued" /\ v # w /\ v \notin D \cup H
  BY <1>3
<1>9. RetiredIsEmpty'
  BY <1>1, <1>8 DEF IInv, RetiredIsEmpty, Ends
<1>10. ASSUME NEW v \in Arrived, work'[v].stage = "queued"
       PROVE  \E x \in Arrived : Lane(x) = Lane(v) /\ work'[x].stage \in {"taken", "running"}
  <2>1. ~closed /\ work[v].stage = "queued" /\ v # w /\ v \notin D \cup H
    BY <1>8, <1>10 DEF IInv, RetiredIsEmpty
  <2>2. CASE Lane(v) = Lane(w)
    <3>1. Queue(Lane(w)) # D
      BY <1>4, <2>1, <2>2
    <3>2. PICK h \in H : TRUE
      BY <2>1, <3>1 DEF Ends
    <3>3. h \in Arrived /\ h # w /\ h \notin D /\ Lane(h) = Lane(w)
      BY <1>2, <3>2 DEF Ends
    <3>4. work'[h].stage = "taken"
      BY <1>3, <3>2, <3>3
    <3>. QED BY <2>2, <3>3, <3>4
  <2>3. CASE Lane(v) # Lane(w)
    <3>1. PICK x \in Arrived : Lane(x) = Lane(v) /\ work[x].stage \in {"taken", "running"}
      BY <2>1 DEF IInv, AdmissionIsExact, Busy
    <3>2. x # w /\ x \notin D \cup H
      BY <1>2, <2>3, <3>1
    <3>. QED BY <1>3, <3>1, <3>2
  <2>. QED BY <2>2, <2>3
<1>11. \A v \in Arrived' : work'[v].stage = "queued" => Busy(Lane(v))'
  BY <1>1, <1>10 DEF Busy
<1>. QED BY <1>7, <1>9, <1>11

(* The lanes in use.                                                       *)
Lanes == {Lane(v) : v \in {u \in Arrived : Laned(u)}}

(* They are finitely many.                                                 *)
LEMMA LanesFinite ==
  ASSUME TypeOK
  PROVE  IsFiniteSet(Lanes) /\ Cardinality(Lanes) \in Nat
<1>. DEFINE U == {u \in Arrived : Laned(u)}
            f == [u \in U |-> Lane(u)]
<1>1. IsFiniteSet(U)
  BY Works
<1>2. f \in Surjection(U, Lanes)
  BY DEF Surjection, Lanes
<1>3. IsFiniteSet(Lanes)
  <2>. HIDE DEF U, f
  <2>. QED BY <1>1, <1>2, FS_Surjection
<1>. QED BY <1>3, FS_CardinalityType

(* The counters follow.                                                    *)
LEMMA EndsCount ==
  ASSUME IInv, NEW w \in Arrived, NEW outcome \in {"applied", "lost"}, NEW D, NEW H,
         Ends(w, outcome, D, H), work[w].stage \in {"taken", "running"}
  PROVE  AdmissionIsExact' /\ outstanding' \in 0..MaxOutstanding
<1>. DEFINE U == {v \in Arrived : ~Resolved(v)}
<1>0. /\ TypeOK /\ Arrived' = Arrived
      /\ \A v \in Arrived : work[v].stage \in Stage /\ Lane(v)' = Lane(v)
  BY Works DEF IInv, Ends, Arrived, Lane
<1>1. D \subseteq Arrived /\ w \notin D /\ \A v \in D \cup H : work[v].stage = "queued"
  BY DEF Ends, Queue
<1>2. \A v \in Arrived :
        work'[v].stage = IF v = w THEN outcome ELSE IF v \in D THEN "lost"
                         ELSE IF v \in H THEN "taken" ELSE work[v].stage
  BY DEF Ends
<1>3. \A v \in Arrived : ~Resolved(v)' <=> ~Resolved(v) /\ v # w /\ v \notin D
  BY <1>0, <1>1, <1>2 DEF Resolved
<1>4. w \in U /\ D \subseteq U
  BY <1>1 DEF Resolved
<1>5. {v \in Arrived' : ~Resolved(v)'} = (U \ D) \ {w}
  BY <1>0, <1>3
<1>6. IsFiniteSet(U) /\ IsFiniteSet(D) /\ Cardinality(U) \in Nat /\ Cardinality(D) \in Nat
  <2>1. U \in SUBSET Arrived
    OBVIOUS
  <2>. HIDE DEF U
  <2>. QED BY <1>0, <1>1, <2>1, Works
<1>7. Cardinality((U \ D) \ {w}) = Cardinality(U) - (1 + Cardinality(D))
  <2>. HIDE DEF U
  <2>1. U \cap D = D
    BY <1>4
  <2>2. IsFiniteSet(U \ D) /\ Cardinality(U \ D) = Cardinality(U) - Cardinality(D)
    <3>1. IsFiniteSet(U \ D) /\ Cardinality(U \ D) = Cardinality(U) - Cardinality(U \cap D)
      BY <1>6, FS_Difference
    <3>. QED BY <2>1, <3>1
  <2>3. w \in U \ D
    BY <1>1, <1>4
  <2>4. Cardinality((U \ D) \ {w}) = Cardinality(U \ D) - 1
    BY <2>2, <2>3, FS_RemoveElement
  <2>. QED BY <1>6, <2>2, <2>4
<1>8. outstanding = Cardinality(U)
  BY DEF IInv, AdmissionIsExact
<1>9. outstanding' = Cardinality({v \in Arrived' : ~Resolved(v)'})
  <2>. HIDE DEF U
  <2>. QED BY <1>5, <1>7, <1>8 DEF Ends
<1>10. outstanding' \in 0..MaxOutstanding
  <2>1. IsFiniteSet((U \ D) \ {w}) /\ Cardinality((U \ D) \ {w}) \in Nat
    <3>1. (U \ D) \ {w} \in SUBSET Arrived
      OBVIOUS
    <3>. HIDE DEF U
    <3>. QED BY <1>0, <3>1, Works
  <2>2. outstanding <= MaxOutstanding /\ outstanding \in Nat /\ MaxOutstanding \in Nat
    BY LimitAssumption DEF IInv, TypeOK
  <2>. HIDE DEF U
  <2>. QED BY <1>6, <1>7, <1>8, <2>1, <2>2 DEF Ends
<1>11. Cardinality(Lanes') <= MaxLanes
  <2>1. \A v \in Arrived : Laned(v)' => Laned(v)
    BY <1>1, <1>2 DEF Laned
  <2>2. Lanes' \in SUBSET Lanes
    BY <1>0, <2>1 DEF Lanes
  <2>3. Cardinality(Lanes') <= Cardinality(Lanes) /\ Cardinality(Lanes') \in Nat
    BY <1>0, <2>2, LanesFinite, FS_Subset, FS_CardinalityType
  <2>4. Cardinality(Lanes) <= MaxLanes /\ Cardinality(Lanes) \in Nat /\ MaxLanes \in Nat
    BY <1>0, LanesFinite, LimitAssumption DEF IInv, AdmissionIsExact, Lanes
  <2>. QED BY <2>3, <2>4
<1>12. \A v \in Arrived' : work'[v].stage = "queued" => Busy(Lane(v))'
  BY EndsLanes
<1>. QED BY <1>9, <1>10, <1>11, <1>12 DEF AdmissionIsExact, Lanes

(* The remembered works stay the last ones.                                *)
LEMMA EndsTails ==
  ASSUME IInv, NEW w \in Arrived, NEW outcome \in {"applied", "lost"}, NEW D, NEW H,
         Ends(w, outcome, D, H), work[w].stage \in {"taken", "running"},
         outcome = "applied" => work[w].stage = "running"
  PROVE  TailIsLast' /\ tail' \in [Origin -> Arrived' \cup {None}]
<1>0. /\ TypeOK /\ StagesMove /\ Arrived' = Arrived
      /\ Len(work') = Len(work) /\ Len(work) \in Nat
      /\ \A v \in Arrived : v \in Nat /\ v <= Len(work) /\ work[v].origin \in Origin /\ v # None
  <2>1. TypeOK /\ StagesMove
    BY EndsMove DEF IInv
  <2>2. Len(work') = Len(work) /\ Len(work) \in Nat /\ Arrived' = Arrived
    BY <2>1, Works DEF Ends, Arrived
  <2>3. \A v \in Arrived : v \in Nat /\ work[v].origin \in Origin
    BY <2>1, Works
  <2>4. \A v \in Arrived : v <= Len(work) /\ v # None
    BY <2>2, NoneAssumption DEF Arrived
  <2>. QED BY <2>1, <2>2, <2>3, <2>4
<1>1. /\ \A o \in Origin : tail'[o] = IF tail[o] \in D \cup {w} THEN None ELSE tail[o]
      /\ tail' \in [Origin -> Arrived' \cup {None}]
  BY <1>0 DEF Ends, TypeOK
<1>2. \A v \in Arrived : /\ work'[v].origin = work[v].origin
                         /\ (Resolved(v) => Resolved(v)')
  BY <1>0 DEF StagesMove
<1>3. \A o \in Origin : tail[o] # None => tail[o] \in Arrived /\ work[tail[o]].origin = o
  BY <1>0 DEF IInv, TailIsLast, TypeOK
<1>4. \A o \in Origin : tail'[o] # None => work'[tail'[o]].origin = o
  BY <1>1, <1>2, <1>3
<1>5. ASSUME ~closed, NEW v \in Arrived, ~Resolved(v)'
      PROVE  \/ tail'[work'[v].origin] # None /\ v <= tail'[work'[v].origin]
             \/ LostAfter(v, Len(work) + 1)'
  <2>0. PICK o, t : o = work[v].origin /\ t = tail[o]
    OBVIOUS
  <2>1. ~Resolved(v) /\ work[v].origin = o /\ work'[v].origin = o /\ o \in Origin /\ tail[o] = t
    BY <1>0, <1>2, <1>5, <2>0
  <2>2. CASE LostAfter(v, Len(work) + 1)
    BY <1>0, <2>2, LostStays
  <2>3. CASE t # None /\ v <= t /\ t \notin D \cup {w}
    BY <1>1, <2>1, <2>3
  <2>4. CASE t # None /\ v <= t /\ t \in D \cup {w}
    <3>1. t \in Arrived /\ work[t].origin = o
      BY <1>3, <2>1, <2>4
    <3>2. t # w => work'[t].stage = "lost"
      BY <2>4, <3>1 DEF Ends
    <3>3. t = w => work'[t].stage = outcome
      BY <3>1 DEF Ends
    <3>4. Resolved(t)'
      BY <3>2, <3>3 DEF Resolved
    <3>5. v # t
      BY <1>5, <3>4
    <3>6. v < t
      BY <1>0, <2>4, <3>1, <3>5
    <3>7. CASE work'[t].stage = "lost"
      <4>1. work'[t].origin = work'[v].origin /\ t < Len(work) + 1
        BY <1>0, <1>2, <2>1, <3>1
      <4>2. \E u \in Arrived' : /\ v < u /\ u < Len(work) + 1
                                /\ work'[u].origin = work'[v].origin /\ work'[u].stage = "lost"
        BY <1>0, <3>1, <3>6, <3>7, <4>1
      <4>. QED BY <1>0, <4>2 DEF LostAfter
    <3>8. CASE work'[t].stage # "lost"
      <4>1. t = w /\ work[w].stage = "running"
        BY <3>2, <3>3, <3>8
      <4>2. Started(t)
        BY <4>1 DEF Started
      <4>3. PICK u \in v + 1..t - 1 : work[u].origin = work[v].origin /\ work[u].stage = "lost"
        BY <2>1, <3>1, <3>6, <4>2 DEF IInv, OriginOrder
      <4>4. u \in Arrived /\ v < u /\ u < Len(work) + 1
        BY <1>0, <3>1 DEF Arrived
      <4>5. LostAfter(v, Len(work) + 1)
        BY <4>3, <4>4 DEF LostAfter
      <4>. QED BY <1>0, <4>5, LostStays
    <3>. QED BY <3>7, <3>8
  <2>5. LostAfter(v, Len(work) + 1) \/ (t # None /\ v <= t)
    BY <1>5, <2>1 DEF IInv, TailIsLast
  <2>. QED BY <2>2, <2>3, <2>4, <2>5
<1>6. TailIsLast'
  <2>1. closed' = closed
    BY DEF Ends
  <2>. QED BY <1>0, <1>4, <1>5, <2>1 DEF TailIsLast
<1>. QED BY <1>1, <1>6

(* A work that ends keeps the invariant.                                   *)
LEMMA FinishKeeps ==
  ASSUME IInv, NEW w \in Arrived, NEW outcome \in {"applied", "lost"}, Finish(w, outcome),
         work[w].stage \in {"taken", "running"},
         outcome = "applied" => work[w].stage = "running"
  PROVE  IInv'
<1>1. PICK D, H : Ends(w, outcome, D, H)
  BY FinishEnds
<1>2. StagesMove /\ Arrived' = Arrived
  BY <1>1, EndsMove DEF Ends, Arrived
<1>3. AdmissionIsExact' /\ outstanding' \in 0..MaxOutstanding
  BY <1>1, EndsCount
<1>4. LanesInOrder' /\ RetiredIsEmpty'
  BY <1>1, EndsLanes
<1>5. TailIsLast' /\ tail' \in [Origin -> Arrived' \cup {None}]
  BY <1>1, EndsTails
<1>6. BarrierIsLast'
  BY <1>1, <1>2, BarrierStays DEF Ends
<1>7. TypeOK'
  BY <1>1, <1>2, <1>3, <1>5 DEF IInv, TypeOK, Ends, Work, Stage
<1>. QED BY <1>2, <1>3, <1>4, <1>5, <1>6, <1>7, OrderStays DEF IInv

-----------------------------------------------------------------------------
(* The other steps that change stages.                                     *)

(* A work that has waited starts its handler.                              *)
LEMMA RunningKeeps ==
  ASSUME IInv, NEW w \in Arrived, Ready(w), work' = [work EXCEPT ![w].stage = "running"],
         UNCHANGED <<tail, barrier, outstanding, late, closed>>
  PROVE  IInv'
<1>0. TypeOK
  BY DEF IInv
<1>1. [work[w] EXCEPT !.stage = "running"] \in Work
  BY <1>0, Works DEF Work, Stage
<1>2. /\ work' \in Seq(Work) /\ Len(work') = Len(work) /\ Len(work) \in Nat
      /\ Arrived' = Arrived
      /\ \A v \in Arrived : work'[v] = IF v = w THEN [work[w] EXCEPT !.stage = "running"]
                                       ELSE work[v]
  BY <1>0, <1>1, Works DEF Arrived
<1>3. \A v \in Arrived :
        /\ work'[v].origin = work[v].origin /\ work'[v].room = work[v].room
        /\ work'[v].waits = work[v].waits
        /\ work'[v].stage = IF v = w THEN "running" ELSE work[v].stage
  BY <1>0, <1>2, Works DEF Work
<1>4. work[w].stage = "taken" /\ \A c \in work[w].waits : Resolved(c)
  BY DEF Ready
<1>5. \A v \in Arrived :
        /\ Lane(v)' = Lane(v) /\ Resolved(v)' = Resolved(v) /\ Laned(v)' = Laned(v)
        /\ work'[v].stage = "queued" <=> work[v].stage = "queued"
        /\ work'[v].stage \in {"taken", "running"} <=> work[v].stage \in {"taken", "running"}
        /\ work'[v].stage = "applied" <=> work[v].stage = "applied"
  BY <1>3, <1>4 DEF Lane, Resolved, Laned
<1>6. StagesMove
  <2>1. ASSUME NEW v \in Arrived
        PROVE  /\ work[v].stage = "lost" => work'[v].stage = "lost"
               /\ Started(v)' => Started(v) \/ \A c \in work[v].waits : Resolved(c)
    BY <1>3, <1>4 DEF Started
  <2>. QED BY <1>2, <1>3, <1>5, <2>1 DEF StagesMove
<1>7. BarrierIsLast'
  BY <1>6, BarrierStays
<1>8. LanesInOrder' /\ RetiredIsEmpty'
  BY <1>2, <1>5 DEF IInv, LanesInOrder, RetiredIsEmpty
<1>9. AdmissionIsExact'
  <2>1. {v \in Arrived' : ~Resolved(v)'} = {v \in Arrived : ~Resolved(v)}
    BY <1>2, <1>5
  <2>2. Lanes' = Lanes
    BY <1>2, <1>5 DEF Lanes
  <2>3. \A v \in Arrived' : work'[v].stage = "queued" => Busy(Lane(v))'
    BY <1>2, <1>5 DEF IInv, AdmissionIsExact, Busy
  <2>. QED BY <2>1, <2>2, <2>3 DEF IInv, AdmissionIsExact, Lanes
<1>10. TailIsLast'
  <2>1. \A o \in Origin : tail[o] # None => tail[o] \in Arrived
    BY <1>0 DEF TypeOK
  <2>2. \A o \in Origin : tail[o] # None => work'[tail[o]].origin = o
    BY <1>3, <2>1 DEF IInv, TailIsLast
  <2>3. ASSUME ~closed, NEW v \in Arrived, ~Resolved(v)'
        PROVE  \/ tail[work'[v].origin] # None /\ v <= tail[work'[v].origin]
               \/ LostAfter(v, Len(work) + 1)'
    <3>1. \/ tail[work[v].origin] # None /\ v <= tail[work[v].origin]
          \/ LostAfter(v, Len(work) + 1)
      BY <1>5, <2>3 DEF IInv, TailIsLast
    <3>. QED BY <1>0, <1>3, <1>6, <3>1, LostStays
  <2>. QED BY <1>2, <2>2, <2>3 DEF TailIsLast
<1>11. TypeOK'
  BY <1>0, <1>2 DEF TypeOK, Work, Stage
<1>. QED BY <1>6, <1>7, <1>8, <1>9, <1>10, <1>11, OrderStays DEF IInv

(* After its wait a work runs or is dropped.                               *)
LEMMA StartKeeps ==
  ASSUME IInv, NEW w \in Arrived, Start(w)
  PROVE  IInv'
<1>1. Ready(w) /\ work[w].stage = "taken"
  BY DEF Start, Ready
<1>2. CASE Finish(w, "lost")
  BY <1>1, <1>2, FinishKeeps
<1>3. CASE /\ work' = [work EXCEPT ![w].stage = "running"]
           /\ UNCHANGED <<tail, barrier, outstanding, late, closed>>
  BY <1>1, <1>3, RunningKeeps
<1>. QED BY <1>2, <1>3 DEF Start

(* A handler ends.                                                         *)
LEMMA SettleKeeps ==
  ASSUME IInv, NEW w \in Arrived, Settle(w)
  PROVE  IInv'
BY FinishKeeps DEF Settle, Outcomes

(* A deadline passes.                                                      *)
LEMMA TickKeeps ==
  ASSUME IInv, Tick
  PROVE  IInv'
<1>1. late' \in Arrived /\ UNCHANGED <<work, tail, barrier, outstanding, closed>>
  BY DEF Tick
<1>2. TypeOK'
  <2>1. late' \in 0..Len(work)
    BY <1>1, Works DEF IInv, Arrived
  <2>. QED BY <1>1, <2>1 DEF IInv, TypeOK, Arrived
<1>3. AdmissionIsExact' /\ LanesInOrder' /\ RetiredIsEmpty'
  BY <1>1 DEF IInv, AdmissionIsExact, LanesInOrder, RetiredIsEmpty, Arrived, Lane, Laned,
              Resolved, Busy
<1>4. StagesMove
  BY <1>1 DEF StagesMove, Resolved, Started
<1>5. TailIsLast'
  BY <1>1 DEF IInv, TailIsLast, LostAfter, Arrived, Resolved
<1>. QED BY <1>1, <1>2, <1>3, <1>4, <1>5, OrderStays, BarrierStays DEF IInv

(* The receiver retires.                                                   *)
LEMMA CloseKeeps ==
  ASSUME IInv, Close
  PROVE  IInv'
<1>. DEFINE U == {v \in Arrived : ~Resolved(v)}
            Q == {v \in Arrived : work[v].stage = "queued"}
<1>0. TypeOK /\ closed' /\ UNCHANGED <<barrier, late>>
  BY DEF IInv, Close
<1>1. \A v \in Arrived : [work[v] EXCEPT !.stage = Abandoned(@)] \in Work
  BY <1>0, Works DEF Work, Stage, Abandoned
<1>2. /\ work' \in Seq(Work) /\ Len(work') = Len(work) /\ Len(work) \in Nat
      /\ Arrived' = Arrived
      /\ \A v \in Arrived : work'[v] = [work[v] EXCEPT !.stage = Abandoned(@)]
  <2>1. work' \in [1..Len(work) -> Work] /\ Len(work) \in Nat
    BY <1>0, <1>1, Works DEF Close, Arrived
  <2>2. \A v \in Arrived : work'[v] = [work[v] EXCEPT !.stage = Abandoned(@)]
    BY DEF Close
  <2>. QED BY <2>1, <2>2 DEF Arrived
<1>3. \A v \in Arrived :
        /\ work'[v].origin = work[v].origin /\ work'[v].room = work[v].room
        /\ work'[v].waits = work[v].waits
        /\ work'[v].stage = IF work[v].stage = "queued" THEN "lost" ELSE work[v].stage
  BY <1>0, <1>2, Works DEF Work, Abandoned
<1>4. \A v \in Arrived :
        /\ Lane(v)' = Lane(v) /\ (Resolved(v) => Resolved(v)')
        /\ (Laned(v)' => Laned(v)) /\ (Started(v)' => Started(v))
        /\ (~Resolved(v)' <=> ~Resolved(v) /\ v \notin Q)
        /\ work'[v].stage # "queued"
  BY <1>3 DEF Lane, Resolved, Laned, Started
<1>5. StagesMove
  BY <1>2, <1>3, <1>4 DEF StagesMove
<1>6. LanesInOrder' /\ RetiredIsEmpty'
  BY <1>2, <1>3, <1>4 DEF IInv, LanesInOrder, RetiredIsEmpty
<1>7. TailIsLast' /\ tail' \in [Origin -> Arrived' \cup {None}]
  BY <1>0 DEF Close, TailIsLast
<1>8. outstanding' = Cardinality({v \in Arrived' : ~Resolved(v)'}) /\ outstanding' \in 0..MaxOutstanding
  <2>1. {v \in Arrived' : ~Resolved(v)'} = U \ Q
    BY <1>2, <1>4
  <2>2. U \cap Q = Q /\ U \in SUBSET Arrived /\ Q \in SUBSET Arrived /\ U \ Q \in SUBSET Arrived
    BY DEF Resolved
  <2>3. outstanding = Cardinality(U) /\ outstanding' = outstanding - Cardinality(Q)
        /\ outstanding \in 0..MaxOutstanding /\ MaxOutstanding \in Nat
    BY LimitAssumption DEF IInv, AdmissionIsExact, Close, TypeOK
  <2>. HIDE DEF U, Q
  <2>4. /\ IsFiniteSet(U) /\ Cardinality(U) \in Nat /\ Cardinality(Q) \in Nat
        /\ Cardinality(U \ Q) \in Nat
    BY <1>0, <2>2, Works
  <2>5. Cardinality(U \ Q) = Cardinality(U) - Cardinality(U \cap Q)
    BY <2>4, FS_Difference
  <2>6. Cardinality(U \ Q) = Cardinality(U) - Cardinality(Q)
    BY <2>2, <2>5
  <2>. QED BY <2>1, <2>3, <2>4, <2>6
<1>9. Cardinality(Lanes') <= MaxLanes
  <2>1. Lanes' \in SUBSET Lanes
    BY <1>2, <1>4 DEF Lanes
  <2>2. Cardinality(Lanes') <= Cardinality(Lanes) /\ Cardinality(Lanes') \in Nat
    BY <1>0, <2>1, LanesFinite, FS_Subset, FS_CardinalityType
  <2>3. Cardinality(Lanes) <= MaxLanes /\ Cardinality(Lanes) \in Nat /\ MaxLanes \in Nat
    BY <1>0, LanesFinite, LimitAssumption DEF IInv, AdmissionIsExact, Lanes
  <2>. QED BY <2>2, <2>3
<1>10. AdmissionIsExact'
  BY <1>2, <1>4, <1>8, <1>9 DEF AdmissionIsExact, Lanes
<1>11. TypeOK'
  BY <1>0, <1>2, <1>7, <1>8 DEF TypeOK, Work, Stage
<1>12. BarrierIsLast'
  BY <1>0, <1>5, BarrierStays
<1>. QED BY <1>5, <1>6, <1>7, <1>10, <1>11, <1>12, OrderStays DEF IInv

-----------------------------------------------------------------------------
(* Arrivals.                                                               *)

(* A work that arrives is the last and leaves the others as they are.      *)
Grows(x) ==
  /\ x \in Work /\ x.stage \in {"queued", "taken", "lost"}
  /\ work' = Append(work, x) /\ Len(work) + 1 <= MaxWorks
  /\ x.waits \subseteq Arrived

(* What it leaves as it was.                                               *)
LEMMA Grown ==
  ASSUME TypeOK, NEW x, Grows(x), NEW n, n = Len(work) + 1
  PROVE  /\ work' \in Seq(Work) /\ Len(work') = n /\ n \in Nat
         /\ Arrived' = Arrived \cup {n} /\ work'[n] = x
         /\ \A v \in Arrived : v \in Nat /\ v < n /\ work'[v] = work[v]
         /\ \A v \in Arrived : /\ Lane(v)' = Lane(v) /\ Laned(v)' = Laned(v)
                               /\ Resolved(v)' = Resolved(v) /\ Started(v)' = Started(v)
         /\ \A w, v : w \in Arrived /\ LostAfter(w, v) => LostAfter(w, v)'
<1>1. work \in Seq(Work) /\ Len(work) \in Nat
  BY Works
<1>2. /\ work' \in Seq(Work) /\ Len(work') = n /\ n \in Nat /\ work'[n] = x
      /\ \A v \in 1..Len(work) : v \in Nat /\ v < n /\ work'[v] = work[v]
  BY <1>1 DEF Grows
<1>3. Arrived' = Arrived \cup {n}
  BY <1>1, <1>2 DEF Arrived
<1>4. \A v \in Arrived : /\ Lane(v)' = Lane(v) /\ Laned(v)' = Laned(v)
                         /\ Resolved(v)' = Resolved(v) /\ Started(v)' = Started(v)
  BY <1>2 DEF Arrived, Lane, Laned, Resolved, Started
<1>5. \A w, v : w \in Arrived /\ LostAfter(w, v) => LostAfter(w, v)'
  BY <1>2, <1>3 DEF LostAfter, Arrived
<1>. QED BY <1>2, <1>3, <1>4, <1>5 DEF Arrived

(* What has started before is in order as before.                          *)
LEMMA GrownOrder ==
  ASSUME IInv, NEW x, Grows(x)
  PROVE  WaitsForEarlier' /\ BarrierPrecedes' /\ OriginOrder'
<1>0. PICK n : n = Len(work) + 1
  OBVIOUS
<1>1. /\ Arrived' = Arrived \cup {n} /\ work'[n] = x /\ n \in Nat
      /\ \A v \in Arrived : v \in Nat /\ v < n /\ work'[v] = work[v]
      /\ \A v \in Arrived : Resolved(v)' = Resolved(v) /\ Started(v)' = Started(v)
  BY <1>0, Grown DEF IInv
<1>2. ~Started(n)' /\ \A v \in Arrived' : Started(v)' => v \in Arrived
  BY <1>1 DEF Grows, Started
<1>3. WaitsForEarlier'
  <2>1. ASSUME NEW v \in Arrived', NEW c \in work'[v].waits
        PROVE  c \in Arrived' /\ c < v /\ (Started(v)' => Resolved(c)')
    <3>1. CASE v \in Arrived
      BY <1>1, <2>1, <3>1 DEF IInv, WaitsForEarlier
    <3>2. CASE v = n
      BY <1>1, <1>2, <2>1, <3>2 DEF Grows
    <3>. QED BY <1>1, <3>1, <3>2
  <2>. QED BY <2>1 DEF WaitsForEarlier
<1>4. \A v \in Arrived, w \in Arrived' : w < v => w \in Arrived
  BY <1>1
<1>5. \A v \in Arrived, w \in Arrived : \A u \in w + 1..v - 1 : u \in Arrived
  BY Works DEF IInv, Arrived
<1>6. BarrierPrecedes'
  <2>1. ASSUME NEW v \in Arrived, NEW b \in Arrived,
               b < v, Started(v), work[b].room = None, ~Resolved(b)
        PROVE  \E c \in b + 1..v - 1 : work'[c].room = None /\ work'[c].stage = "lost"
    <3>1. PICK c \in b + 1..v - 1 : work[c].room = None /\ work[c].stage = "lost"
      BY <2>1 DEF IInv, BarrierPrecedes
    <3>. QED BY <1>1, <1>5, <3>1
  <2>. QED BY <1>1, <1>2, <1>4, <2>1 DEF BarrierPrecedes
<1>7. OriginOrder'
  <2>1. ASSUME NEW v \in Arrived, NEW w \in Arrived, w < v, Started(v), ~Resolved(w),
               work[v].room = None \/ work[w].origin = work[v].origin
        PROVE  \E u \in w + 1..v - 1 :
                 work'[u].origin = work'[w].origin /\ work'[u].stage = "lost"
    <3>1. PICK u \in w + 1..v - 1 : work[u].origin = work[w].origin /\ work[u].stage = "lost"
      BY <2>1 DEF IInv, OriginOrder
    <3>. QED BY <1>1, <1>5, <3>1
  <2>. QED BY <1>1, <1>2, <1>4, <2>1 DEF OriginOrder
<1>. QED BY <1>3, <1>6, <1>7

(* A work that is refused is lost at once.                                 *)
LEMMA RefusedKeeps ==
  ASSUME IInv, NEW x, Grows(x), x.stage = "lost",
         UNCHANGED <<tail, barrier, outstanding, late, closed>>
  PROVE  IInv'
<1>0. PICK n : n = Len(work) + 1
  OBVIOUS
<1>1. /\ work' \in Seq(Work) /\ Len(work') = n /\ n \in Nat
      /\ Arrived' = Arrived \cup {n} /\ work'[n] = x
      /\ \A v \in Arrived : v \in Nat /\ v < n /\ work'[v] = work[v]
      /\ \A v \in Arrived : /\ Lane(v)' = Lane(v) /\ Laned(v)' = Laned(v)
                            /\ Resolved(v)' = Resolved(v) /\ Started(v)' = Started(v)
      /\ \A w, v : w \in Arrived /\ LostAfter(w, v) => LostAfter(w, v)'
  BY <1>0, Grown DEF IInv
<1>2. Resolved(n)' /\ ~Laned(n)' /\ n \notin Arrived
  BY <1>1 DEF Resolved, Laned
<1>3. TypeOK'
  <2>1. \A o \in Origin : tail[o] \in Arrived' \cup {None}
    BY <1>1 DEF IInv, TypeOK
  <2>. QED BY <1>0, <1>1, <2>1 DEF IInv, TypeOK, Grows, Work, Stage
<1>4. LanesInOrder' /\ RetiredIsEmpty'
  BY <1>1, <1>2 DEF IInv, LanesInOrder, RetiredIsEmpty
<1>5. AdmissionIsExact'
  <2>1. {v \in Arrived' : ~Resolved(v)'} = {v \in Arrived : ~Resolved(v)}
    BY <1>1, <1>2
  <2>2. Lanes' = Lanes
    BY <1>1, <1>2 DEF Lanes
  <2>3. \A v \in Arrived' : work'[v].stage = "queued" => Busy(Lane(v))'
    BY <1>1 DEF IInv, AdmissionIsExact, Busy
  <2>. QED BY <2>1, <2>2, <2>3 DEF IInv, AdmissionIsExact, Lanes
<1>6. BarrierIsLast'
  BY <1>1, <1>2 DEF IInv, BarrierIsLast
<1>7. WaitsForBarriers'
  <2>1. ASSUME NEW v \in Arrived, NEW b \in Arrived,
               b < v, work[v].stage # "lost", work[b].room = None, ~Resolved(b)
        PROVE  \E c \in work[v].waits : b <= c /\ work'[c].room = None
    BY <1>1, <2>1 DEF IInv, WaitsForBarriers, WaitsForEarlier
  <2>. QED BY <1>1, <1>2, <2>1 DEF WaitsForBarriers
<1>8. WaitsForOrigins'
  <2>1. ASSUME NEW v \in Arrived, NEW w \in Arrived, w < v, work[v].stage # "lost", ~Resolved(w),
               work[v].room = None \/ work[w].origin = work[v].origin
        PROVE  \/ \E c \in work[v].waits : w <= c /\ work'[c].origin = work[w].origin
               \/ LostAfter(w, v)'
    BY <1>1, <2>1 DEF IInv, WaitsForOrigins, WaitsForEarlier
  <2>. QED BY <1>1, <1>2, <2>1 DEF WaitsForOrigins
<1>9. TailIsLast'
  <2>1. \A o \in Origin : tail[o] # None => tail[o] \in Arrived
    BY DEF IInv, TypeOK
  <2>2. \A o \in Origin : tail[o] # None => work'[tail[o]].origin = o
    BY <1>1, <2>1 DEF IInv, TailIsLast
  <2>3. ASSUME ~closed, NEW w \in Arrived, ~Resolved(w)
        PROVE  \/ tail[work[w].origin] # None /\ w <= tail[work[w].origin]
               \/ LostAfter(w, n + 1)'
    <3>1. LostAfter(w, n)' => LostAfter(w, n + 1)'
      BY <1>1 DEF LostAfter
    <3>. QED BY <1>0, <1>1, <2>3, <3>1 DEF IInv, TailIsLast
  <2>. QED BY <1>1, <1>2, <2>2, <2>3 DEF TailIsLast
<1>. QED BY <1>3, <1>4, <1>5, <1>6, <1>7, <1>8, <1>9, GrownOrder DEF IInv

(* A work that is accepted waits behind its lane, the last barrier and its *)
(* publisher's last work.                                                  *)
LEMMA AcceptedKeeps ==
  ASSUME IInv, NEW o \in Origin, NEW r \in Room \cup {None}, NEW x, Grows(x),
         ~Refused(LaneKey(o, r)),
         x = [origin |-> o, room |-> r, waits |-> Predecessors(o, r),
              stage |-> IF Busy(LaneKey(o, r)) THEN "queued" ELSE "taken"],
         tail' = [tail EXCEPT ![o] = Len(work) + 1],
         barrier' = IF r = None THEN Len(work) + 1 ELSE barrier,
         outstanding' = outstanding + 1,
         UNCHANGED <<late, closed>>
  PROVE  IInv'
<1>0. PICK n, key : n = Len(work) + 1 /\ key = LaneKey(o, r)
  OBVIOUS
<1>1. /\ work' \in Seq(Work) /\ Len(work') = n /\ n \in Nat
      /\ Arrived' = Arrived \cup {n} /\ work'[n] = x
      /\ \A v \in Arrived : v \in Nat /\ v < n /\ work'[v] = work[v]
      /\ \A v \in Arrived : /\ Lane(v)' = Lane(v) /\ Laned(v)' = Laned(v)
                            /\ Resolved(v)' = Resolved(v) /\ Started(v)' = Started(v)
      /\ \A w, v : w \in Arrived /\ LostAfter(w, v) => LostAfter(w, v)'
  BY <1>0, Grown DEF IInv
<1>2. /\ x.origin = o /\ x.room = r /\ x.waits = Predecessors(o, r)
      /\ x.stage = IF Busy(key) THEN "queued" ELSE "taken"
  BY <1>0
<1>3. /\ n \notin Arrived /\ n # None /\ ~Resolved(n)' /\ Laned(n)' /\ Lane(n)' = key
  <2>1. Lane(n)' = key
    BY <1>0, <1>1, <1>2 DEF Lane, LaneKey
  <2>. QED BY <1>1, <1>2, <2>1, NoneAssumption DEF Resolved, Laned
<1>4. ~closed /\ outstanding < MaxOutstanding
  <2>1. ~closed /\ ~(outstanding >= MaxOutstanding)
    BY DEF Refused
  <2>. QED BY <2>1, LimitAssumption DEF IInv, TypeOK
<1>5. /\ tail' \in [Origin -> Arrived' \cup {None}]
      /\ tail'[o] = n /\ \A q \in Origin : q # o => tail'[q] = tail[q]
      /\ \A q \in Origin : tail[q] # None => tail[q] \in Arrived /\ work[tail[q]].origin = q
  <2>1. tail \in [Origin -> Arrived \cup {None}]
    BY DEF IInv, TypeOK
  <2>2. tail' = [tail EXCEPT ![o] = n]
    BY <1>0
  <2>. QED BY <1>1, <2>1, <2>2 DEF IInv, TailIsLast
<1>6. barrier' = (IF r = None THEN n ELSE barrier) /\ barrier \in Arrived \cup {None}
  BY <1>0 DEF IInv, TypeOK
<1>7. \A v \in Arrived : work[v].stage \in Stage /\ work[v].origin \in Origin
  BY Works DEF IInv
<1>8. TypeOK'
  <2>1. barrier' \in Arrived' \cup {None}
    BY <1>1, <1>6
  <2>2. outstanding' \in 0..MaxOutstanding
    BY <1>4, LimitAssumption DEF IInv, TypeOK
  <2>3. late \in 0..n
    BY <1>0, <1>1 DEF IInv, TypeOK
  <2>. QED BY <1>0, <1>1, <1>5, <2>1, <2>2, <2>3 DEF IInv, TypeOK, Grows, Work, Stage
<1>9. LanesInOrder'
  <2>1. ASSUME ~Busy(key), NEW w \in Arrived, Lane(w) = key
        PROVE  Resolved(w)
    <3>1. work[w].stage \notin {"taken", "running"}
      BY <2>1 DEF Busy
    <3>2. work[w].stage # "queued"
      BY <2>1 DEF IInv, AdmissionIsExact
    <3>. QED BY <1>7, <3>1, <3>2 DEF Resolved, Stage
  <2>2. ASSUME NEW v \in Arrived', NEW w \in Arrived', w < v, Lane(w)' = Lane(v)',
               work'[v].stage \in {"taken", "running", "applied"}
        PROVE  Resolved(w)'
    <3>1. w \in Arrived
      BY <1>1, <2>2
    <3>2. CASE v \in Arrived
      BY <1>1, <2>2, <3>1, <3>2 DEF IInv, LanesInOrder
    <3>3. CASE v = n
      <4>1. ~Busy(key) /\ Lane(w) = key
        BY <1>1, <1>2, <1>3, <2>2, <3>1, <3>3
      <4>. QED BY <1>1, <2>1, <3>1, <4>1
    <3>. QED BY <1>1, <3>2, <3>3
  <2>. QED BY <2>2 DEF LanesInOrder
<1>10. RetiredIsEmpty'
  BY <1>4 DEF RetiredIsEmpty
<1>11. AdmissionIsExact'
  <2>. DEFINE U == {v \in Arrived : ~Resolved(v)}
  <2>1. {v \in Arrived' : ~Resolved(v)'} = U \cup {n} /\ n \notin U /\ U \in SUBSET Arrived
    BY <1>1, <1>3
  <2>2. outstanding = Cardinality(U) /\ IsFiniteSet(U)
    BY <2>1, Works DEF IInv, AdmissionIsExact
  <2>3. Cardinality(U \cup {n}) = outstanding + 1
    <3>. HIDE DEF U
    <3>. QED BY <2>1, <2>2, FS_AddElement
  <2>4. Lanes' = Lanes \cup {key}
    <3>1. Lanes' = {Lane(v)' : v \in {u \in Arrived' : Laned(u)'}}
      BY DEF Lanes
    <3>. QED BY <1>1, <1>3, <3>1 DEF Lanes
  <2>5. IsFiniteSet(Lanes) /\ Cardinality(Lanes) \in Nat /\ MaxLanes \in Nat
        /\ Cardinality(Lanes) <= MaxLanes
    BY LanesFinite, LimitAssumption DEF IInv, AdmissionIsExact, Lanes
  <2>6. key \notin Lanes => Cardinality(Lanes) < MaxLanes
    <3>1. ASSUME key \notin Lanes PROVE \A w \in Arrived : Laned(w) => Lane(w) # key
      BY <3>1 DEF Lanes
    <3>2. ASSUME key \notin Lanes PROVE ~(Cardinality(Lanes) >= MaxLanes)
      BY <1>0, <3>1, <3>2 DEF Refused, Lanes
    <3>. QED BY <2>5, <3>2
  <2>7. Cardinality(Lanes \cup {key}) <= MaxLanes
    <3>1. Cardinality(Lanes \cup {key}) =
            IF key \in Lanes THEN Cardinality(Lanes) ELSE Cardinality(Lanes) + 1
      BY <2>5, FS_AddElement
    <3>. QED BY <2>5, <2>6, <3>1
  <2>8. ASSUME NEW v \in Arrived', work'[v].stage = "queued" PROVE Busy(Lane(v))'
    <3>1. PICK k : k = Lane(v)'
      OBVIOUS
    <3>2. Busy(k)
      <4>1. CASE v \in Arrived
        BY <1>1, <2>8, <3>1, <4>1 DEF IInv, AdmissionIsExact
      <4>2. CASE v = n
        BY <1>1, <1>2, <1>3, <2>8, <3>1, <4>2
      <4>. QED BY <1>1, <4>1, <4>2
    <3>3. PICK u \in Arrived : Lane(u) = k /\ work[u].stage \in {"taken", "running"}
      BY <3>2 DEF Busy
    <3>4. u \in Arrived' /\ Lane(u)' = Lane(v)' /\ work'[u].stage \in {"taken", "running"}
      BY <1>1, <3>1, <3>3
    <3>. QED BY <3>4 DEF Busy
  <2>. HIDE DEF U
  <2>. QED BY <2>1, <2>3, <2>4, <2>7, <2>8 DEF AdmissionIsExact, Lanes
<1>12. BarrierIsLast'
  <2>1. barrier' # None => barrier' \in Arrived' /\ work'[barrier'].room = None
    BY <1>1, <1>2, <1>6 DEF IInv, BarrierIsLast
  <2>2. ASSUME NEW b \in Arrived', work'[b].room = None, ~Resolved(b)'
        PROVE  barrier' # None /\ b <= barrier'
    <3>1. CASE b = n
      BY <1>1, <1>2, <1>3, <1>6, <2>2, <3>1
    <3>2. CASE b \in Arrived
      <4>1. barrier # None /\ b <= barrier
        BY <1>1, <2>2, <3>2 DEF IInv, BarrierIsLast
      <4>. QED BY <1>1, <1>3, <1>6, <3>2, <4>1
    <3>. QED BY <1>1, <3>1, <3>2
  <2>. QED BY <2>1, <2>2 DEF BarrierIsLast
<1>13. WaitsForBarriers'
  <2>1. ASSUME NEW v \in Arrived', NEW b \in Arrived', b < v, work'[v].stage # "lost",
               work'[b].room = None, ~Resolved(b)'
        PROVE  \E c \in work'[v].waits : b <= c /\ work'[c].room = None
    <3>1. b \in Arrived /\ work[b].room = None /\ ~Resolved(b)
      BY <1>1, <2>1
    <3>2. CASE v \in Arrived
      <4>1. PICK c \in work[v].waits : b <= c /\ work[c].room = None
        BY <1>1, <2>1, <3>1, <3>2 DEF IInv, WaitsForBarriers
      <4>2. c \in Arrived
        BY <3>2 DEF IInv, WaitsForEarlier
      <4>. QED BY <1>1, <3>2, <4>1, <4>2
    <3>3. CASE v = n
      <4>1. barrier # None /\ b <= barrier /\ barrier \in Arrived /\ work[barrier].room = None
        BY <3>1 DEF IInv, BarrierIsLast
      <4>2. barrier \in work'[v].waits
        BY <1>1, <1>2, <3>3, <4>1 DEF Predecessors
      <4>. QED BY <1>1, <4>1, <4>2
    <3>. QED BY <1>1, <3>2, <3>3
  <2>. QED BY <2>1 DEF WaitsForBarriers
<1>14. WaitsForOrigins'
  <2>1. ASSUME NEW v \in Arrived', NEW w \in Arrived', w < v, work'[v].stage # "lost",
               ~Resolved(w)', work'[v].room = None \/ work'[w].origin = work'[v].origin
        PROVE  \/ \E c \in work'[v].waits : w <= c /\ work'[c].origin = work'[w].origin
               \/ LostAfter(w, v)'
    <3>1. w \in Arrived /\ ~Resolved(w)
      BY <1>1, <2>1
    <3>2. CASE v \in Arrived
      <4>1. \/ \E c \in work[v].waits : w <= c /\ work[c].origin = work[w].origin
            \/ LostAfter(w, v)
        BY <1>1, <2>1, <3>1, <3>2 DEF IInv, WaitsForOrigins
      <4>2. \A c \in work[v].waits : c \in Arrived
        BY <3>2 DEF IInv, WaitsForEarlier
      <4>. QED BY <1>1, <3>1, <3>2, <4>1, <4>2
    <3>3. CASE v = n
      <4>1. PICK q : q = work[w].origin
        OBVIOUS
      <4>2. q \in Origin /\ (r = None \/ q = o)
        BY <1>1, <1>2, <1>7, <2>1, <3>1, <3>3, <4>1
      <4>3. CASE LostAfter(w, n)
        BY <1>1, <3>1, <3>3, <4>3
      <4>4. CASE tail[q] # None /\ w <= tail[q]
        <5>1. tail[q] \in Arrived /\ work[tail[q]].origin = q
          BY <1>5, <4>2, <4>4
        <5>2. tail[q] \in work'[v].waits
          BY <1>1, <1>2, <3>3, <4>2, <4>4 DEF Predecessors
        <5>. QED BY <1>1, <3>1, <4>1, <4>4, <5>1, <5>2
      <4>. QED BY <1>0, <1>4, <3>1, <4>1, <4>3, <4>4 DEF IInv, TailIsLast
    <3>. QED BY <1>1, <3>2, <3>3
  <2>. QED BY <2>1 DEF WaitsForOrigins
<1>15. TailIsLast'
  <2>1. \A q \in Origin : tail'[q] # None => work'[tail'[q]].origin = q
    BY <1>1, <1>2, <1>5
  <2>2. ASSUME NEW w \in Arrived', ~Resolved(w)'
        PROVE  \/ tail'[work'[w].origin] # None /\ w <= tail'[work'[w].origin]
               \/ LostAfter(w, n + 1)'
    <3>1. PICK q : q = work'[w].origin
      OBVIOUS
    <3>2. CASE q = o
      BY <1>1, <1>3, <1>5, <3>1, <3>2
    <3>3. CASE q # o
      <4>1. w \in Arrived /\ q = work[w].origin /\ q \in Origin /\ ~Resolved(w)
        BY <1>1, <1>2, <1>7, <2>2, <3>1, <3>3
      <4>2. LostAfter(w, n)' => LostAfter(w, n + 1)'
        BY <1>1 DEF LostAfter
      <4>. QED BY <1>0, <1>1, <1>4, <1>5, <3>1, <3>3, <4>1, <4>2 DEF IInv, TailIsLast
    <3>. QED BY <3>2, <3>3
  <2>. QED BY <1>1, <2>1, <2>2 DEF TailIsLast
<1>. QED BY <1>8, <1>9, <1>10, <1>11, <1>12, <1>13, <1>14, <1>15, GrownOrder DEF IInv

(* A notification arrives.                                                 *)
LEMMA ArriveKeeps ==
  ASSUME IInv, NEW o \in Origin, NEW r \in Room \cup {None}, Arrive(o, r)
  PROVE  IInv'
<1>1. /\ Arrived \subseteq 1..MaxWorks /\ Len(work) + 1 <= MaxWorks
      /\ Predecessors(o, r) \subseteq Arrived
  <2>1. Arrived \subseteq 1..MaxWorks /\ Len(work) + 1 <= MaxWorks
    BY Works, BoundAssumption DEF IInv, Arrive, Arrived
  <2>2. tail \in [Origin -> Arrived \cup {None}] /\ barrier \in Arrived \cup {None}
    BY DEF IInv, TypeOK
  <2>. QED BY <2>1, <2>2 DEF Predecessors
<1>2. CASE Refused(LaneKey(o, r))
  <2>. DEFINE x == [origin |-> o, room |-> r, waits |-> {}, stage |-> "lost"]
  <2>1. work' = Append(work, x) /\ UNCHANGED <<tail, barrier, outstanding, late, closed>>
    BY <1>2 DEF Arrive
  <2>2. Grows(x) /\ x.stage = "lost"
    BY <1>1, <2>1 DEF Grows, Work, Stage
  <2>. HIDE DEF x
  <2>. QED BY <2>1, <2>2, RefusedKeeps
<1>3. CASE ~Refused(LaneKey(o, r))
  <2>1. PICK x : x = [origin |-> o, room |-> r, waits |-> Predecessors(o, r),
                      stage |-> IF Busy(LaneKey(o, r)) THEN "queued" ELSE "taken"]
    OBVIOUS
  <2>2. /\ work' = Append(work, x)
        /\ tail' = [tail EXCEPT ![o] = Len(work) + 1]
        /\ barrier' = IF r = None THEN Len(work) + 1 ELSE barrier
        /\ outstanding' = outstanding + 1 /\ UNCHANGED <<late, closed>>
    BY <1>3, <2>1 DEF Arrive
  <2>3. Grows(x)
    BY <1>1, <2>1, <2>2 DEF Grows, Work, Stage
  <2>. QED BY <1>3, <2>1, <2>2, <2>3, AcceptedKeeps
<1>. QED BY <1>2, <1>3

-----------------------------------------------------------------------------
(* The theorems.                                                           *)

(* A receiver that has received nothing.                                   *)
LEMMA InitKeeps == Init => IInv
<1>. SUFFICES ASSUME Init PROVE IInv
  OBVIOUS
<1>1. work = <<>> /\ Arrived = {}
  BY DEF Init, Arrived
<1>2. TypeOK
  <2>1. 0 \in 0..MaxOutstanding /\ 0 <= MaxWorks
    BY LimitAssumption, BoundAssumption
  <2>2. Len(work) = 0
    BY <1>1
  <2>3. \A S : work \in Seq(S)
    BY <1>1
  <2>4. 0 \in 0..Len(work) /\ Len(work) <= MaxWorks
    BY <2>1, <2>2
  <2>5. /\ tail \in [Origin -> Arrived \cup {None}] /\ barrier \in Arrived \cup {None}
        /\ closed \in BOOLEAN /\ outstanding \in 0..MaxOutstanding /\ late \in 0..Len(work)
    BY <2>1, <2>4 DEF Init
  <2>. QED BY <2>3, <2>4, <2>5 DEF TypeOK
<1>3. AdmissionIsExact
  <2>1. /\ {w \in Arrived : ~Resolved(w)} = {}
        /\ {Lane(w) : w \in {v \in Arrived : Laned(v)}} = {}
    BY <1>1
  <2>2. 0 <= MaxLanes
    BY LimitAssumption
  <2>. QED BY <1>1, <2>1, <2>2, FS_EmptySet DEF Init, AdmissionIsExact
<1>4. /\ LanesInOrder /\ RetiredIsEmpty /\ WaitsForEarlier /\ BarrierIsLast
      /\ WaitsForBarriers /\ BarrierPrecedes /\ TailIsLast /\ WaitsForOrigins /\ OriginOrder
  BY <1>1 DEF Init, LanesInOrder, RetiredIsEmpty, WaitsForEarlier, BarrierIsLast,
              WaitsForBarriers, BarrierPrecedes, TailIsLast, WaitsForOrigins, OriginOrder
<1>. QED BY <1>2, <1>3, <1>4 DEF IInv

(* The invariant holds in every behaviour.                                 *)
THEOREM Inductive == Spec => []IInv
<1>1. ASSUME IInv, [Next]_vars PROVE IInv'
  <2>1. ASSUME NEW o \in Origin, NEW r \in Room \cup {None}, Arrive(o, r) PROVE IInv'
    BY <1>1, <2>1, ArriveKeeps
  <2>2. ASSUME NEW w \in Arrived, Start(w) PROVE IInv'
    BY <1>1, <2>2, StartKeeps
  <2>3. ASSUME NEW w \in Arrived, Settle(w) PROVE IInv'
    BY <1>1, <2>3, SettleKeeps
  <2>4. CASE Tick
    BY <1>1, <2>4, TickKeeps
  <2>5. CASE Close
    BY <1>1, <2>5, CloseKeeps
  <2>6. CASE UNCHANGED vars
    <3>1. UNCHANGED <<work, tail, barrier, outstanding, late, closed>>
      BY <2>6 DEF vars
    <3>2. TypeOK' /\ AdmissionIsExact' /\ LanesInOrder' /\ RetiredIsEmpty' /\ TailIsLast'
      BY <1>1, <3>1 DEF IInv, TypeOK, AdmissionIsExact, LanesInOrder, RetiredIsEmpty,
           TailIsLast, LostAfter, Arrived, Lane, Laned, Resolved, Busy
    <3>3. StagesMove
      BY <3>1 DEF StagesMove, Resolved, Started
    <3>. QED BY <1>1, <3>1, <3>2, <3>3, OrderStays, BarrierStays DEF IInv
  <2>. QED BY <1>1, <2>1, <2>2, <2>3, <2>4, <2>5, <2>6 DEF Next
<1>. QED BY <1>1, InitKeeps, PTL DEF Spec

(* The types of the receiver's counter, tails and works (enqueue, drain).  *)
THEOREM TypeCorrect == Spec => []TypeOK
<1>1. IInv => TypeOK
  BY DEF IInv
<1>. QED BY <1>1, Inductive, PTL

(* A handler starts when every earlier notification of its room has ended: *)
(* a slow reference never arrives after a later event of its room.         *)
THEOREM RoomOrderHolds == Spec => []RoomOrder
<1>1. IInv => RoomOrder
  <2>. SUFFICES ASSUME IInv, NEW v \in Arrived, NEW w \in Arrived, w < v, Started(v),
                       work[v].room # None, work[w].room = work[v].room
                PROVE  Resolved(w)
    BY DEF RoomOrder
  <2>1. Lane(w) = Lane(v)
    BY DEF Lane, LaneKey
  <2>. QED BY <2>1 DEF IInv, LanesInOrder, Started
<1>. QED BY <1>1, Inductive, PTL

(* A loss boundary holds against all that comes after it: nothing later    *)
(* starts before it, or a later boundary, has been dealt with (enqueue).   *)
THEOREM BarrierPrecedesHolds == Spec => []BarrierPrecedes
<1>1. IInv => BarrierPrecedes
  BY DEF IInv
<1>. QED BY <1>1, Inductive, PTL

(* The order of each publisher, and a barrier's wait for all publishers,   *)
(* hold but for works that were dropped in between (drain, originTails).   *)
THEOREM OriginOrderHolds == Spec => []OriginOrder
<1>1. IInv => OriginOrder
  BY DEF IInv
<1>. QED BY <1>1, Inductive, PTL

(* outstanding and the lanes are exactly what has not ended: deadlines,    *)
(* failures and close() leak no place, and no queue is left without a      *)
(* work under way.                                                         *)
THEOREM AdmissionIsExactHolds == Spec => []AdmissionIsExact
<1>1. IInv => AdmissionIsExact
  BY DEF IInv
<1>. QED BY <1>1, Inductive, PTL

(* While some notification has not ended, one handler runs or may start.   *)
NeverStalls ==
  (\E w \in Arrived : ~Resolved(w)) =>
    \E w \in Arrived : Ready(w) \/ work[w].stage = "running"

(* Works wait for each other, in lanes, for publishers and for barriers,   *)
(* but never in a circle and never for one that was thrown away: the first *)
(* that has not ended waits for nothing (drain, enqueue, close).           *)
THEOREM NeverStallsHolds == Spec => []NeverStalls
<1>1. IInv => NeverStalls
  <2>. SUFFICES ASSUME IInv, \E w \in Arrived : ~Resolved(w)
                PROVE  \E w \in Arrived : Ready(w) \/ work[w].stage = "running"
    BY DEF NeverStalls
  <2>. DEFINE S == {w \in Arrived : ~Resolved(w)}
  <2>1. S # {} /\ S \subseteq Nat
    BY Works DEF IInv
  <2>2. PICK w \in S : \A v \in S : w <= v
    <3>. HIDE DEF S
    <3>. QED BY <2>1, Least
  <2>3. /\ w \in Arrived /\ w \in Nat /\ ~Resolved(w)
        /\ \A v \in Arrived : v \in Nat /\ (v < w => Resolved(v))
    BY <2>1, <2>2, Works DEF IInv
  <2>4. work[w].stage # "queued"
    <3>1. SUFFICES ASSUME work[w].stage = "queued" PROVE FALSE
      OBVIOUS
    <3>2. PICK x \in Arrived : Lane(x) = Lane(w) /\ work[x].stage \in {"taken", "running"}
      BY <2>3, <3>1 DEF IInv, AdmissionIsExact, Busy
    <3>3. ~Resolved(x) /\ x # w
      BY <3>1, <3>2 DEF Resolved
    <3>4. w < x
      BY <2>3, <3>2, <3>3
    <3>. QED BY <2>3, <3>2, <3>4 DEF IInv, LanesInOrder
  <2>5. work[w].stage \in {"taken", "running"}
    BY <2>3, <2>4, Works DEF IInv, Resolved, Stage
  <2>6. \A c \in work[w].waits : Resolved(c)
    BY <2>3 DEF IInv, WaitsForEarlier
  <2>. QED BY <2>3, <2>5, <2>6 DEF Ready
<1>. QED BY <1>1, Inductive, PTL
============================================================================
