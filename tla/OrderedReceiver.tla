---------------------------- MODULE OrderedReceiver ----------------------------
(***************************************************************************)
(* createOrderedBridgeNotificationReceiver (src/src/api/server/            *)
(* event-bridge/ordered-notification-receiver.ts): notifications arrive in *)
(* order on one LISTEN connection and are handled asynchronously, in order *)
(* per room; one without a room is a barrier for all rooms.                *)
(*                                                                         *)
(* Every action is one synchronous block: an arrival with the part of      *)
(* drain() it runs; the continuation after the awaited predecessors; the   *)
(* end of a handler with the part of the loop that follows it; close().    *)
(* A handler (dispatchBridgeNotification) applies its event in the block   *)
(* that ends it, after a last look at isCurrent(), or reports a loss.      *)
(* Time is the number of arrivals whose ten seconds are over.              *)
(***************************************************************************)
EXTENDS Naturals, Sequences, FiniteSets

CONSTANTS
  Origin,          \* publishing servers
  Room,
  MaxLanes,        \* options.maxOrigins: it bounds the lanes
  MaxQueued,       \* options.maxQueuedPerOrigin
  MaxOutstanding,  \* options.maxOutstanding
  MaxWorks,        \* bound: notifications in one behaviour
  None             \* no room; no promise

ASSUME LimitAssumption == {MaxLanes, MaxQueued, MaxOutstanding} \subseteq Nat \ {0}
ASSUME BoundAssumption == MaxWorks \in Nat
ASSUME NoneAssumption == None \notin Room \cup Nat

VARIABLES
  work,         \* the notifications in the order of their arrival
  tail,         \* originTails: [Origin -> the work whose completion is kept]
  barrier,      \* globalBarrierTail, None before the first barrier
  outstanding,  \* the counter of the same name
  late,         \* the first `late` arrivals are past their deadline
  closed

vars == <<work, tail, barrier, outstanding, late, closed>>

Arrived == 1..Len(work)
Laned(w) == work[w].stage \in {"queued", "taken", "running"}
Resolved(w) == work[w].stage \in {"applied", "lost"}    \* its completion
Started(w) == work[w].stage \in {"running", "applied"}

\* Slip: one lane per publisher.
LaneKey_ByOrigin(o, r) == <<"origin", o>>
LaneKey(o, r) == IF r # None THEN <<"room", r>> ELSE <<"origin", o>>
Lane(w) == LaneKey(work[w].origin, work[w].room)
Queue(key) == {w \in Arrived : Lane(w) = key /\ work[w].stage = "queued"}
Busy(key) == \E w \in Arrived : Lane(w) = key /\ work[w].stage \in {"taken", "running"}

Init ==
  /\ work = <<>>
  /\ tail = [o \in Origin |-> None]
  /\ barrier = None
  /\ outstanding = 0
  /\ late = 0
  /\ closed = FALSE

-----------------------------------------------------------------------------
\* enqueue: what is refused is a loss at once.
Refused(key) ==
  \/ closed
  \/ outstanding >= MaxOutstanding
  \/ /\ \A w \in Arrived : Laned(w) => Lane(w) # key
     /\ Cardinality({Lane(w) : w \in {v \in Arrived : Laned(v)}}) >= MaxLanes
  \/ Cardinality(Queue(key)) >= MaxQueued

\* The completions a new work awaits: of its publisher's last work and of the
\* last barrier; a barrier awaits those of all publishers.
\* Slip: works do not wait for the barrier.
Predecessors_NoBarrier(o, r) ==
  (IF r = None THEN {tail[p] : p \in Origin} \cup {barrier} ELSE {tail[o]}) \ {None}
\* Slip: a barrier waits for its own publisher alone.
Predecessors_OwnOrigin(o, r) == {tail[o], barrier} \ {None}
Predecessors(o, r) ==
  ((IF r = None THEN {tail[p] : p \in Origin} ELSE {tail[o]}) \cup {barrier}) \ {None}

Arrive(o, r) ==
  LET key == LaneKey(o, r)
      n == Len(work) + 1
      new(stage, waits) == Append(work, [origin |-> o, room |-> r, waits |-> waits, stage |-> stage])
  IN /\ n <= MaxWorks
     /\ IF Refused(key)
        THEN work' = new("lost", {}) /\ UNCHANGED <<tail, barrier, outstanding>>
        ELSE /\ work' = new(IF Busy(key) THEN "queued" ELSE "taken", Predecessors(o, r))
             /\ tail' = [tail EXCEPT ![o] = n]
             /\ barrier' = IF r = None THEN n ELSE barrier
             /\ outstanding' = outstanding + 1
     /\ UNCHANGED <<late, closed>>

-----------------------------------------------------------------------------
\* The end of a work with the given outcome, and the loop of its lane: late
\* works are dropped where they stand, the first that is not late is taken.
\* Slip: a work that is dropped keeps its place in the count.
Released_ButDropped(dropped) == 1
Released(dropped) == 1 + Cardinality(dropped)

Finish(w, outcome) ==
  LET rest == IF closed THEN {} ELSE Queue(Lane(w))
      dropped == {v \in rest : v <= late}
      head == {v \in rest \ dropped : \A u \in rest \ dropped : v <= u}
  IN /\ work' = [v \in Arrived |->
           [work[v] EXCEPT !.stage = IF v = w THEN outcome
                                     ELSE IF v \in dropped THEN "lost"
                                     ELSE IF v \in head THEN "taken" ELSE @]]
     /\ tail' = [o \in Origin |-> IF tail[o] \in dropped \cup {w} THEN None ELSE tail[o]]
     /\ outstanding' = outstanding - Released(dropped)
     /\ UNCHANGED <<barrier, late, closed>>

\* The predecessors are done: the deadline is looked at again.
Ready(w) == work[w].stage = "taken" /\ \A v \in work[w].waits : Resolved(v)

Start(w) ==
  /\ Ready(w)
  /\ IF w <= late
     THEN Finish(w, "lost")
     ELSE /\ work' = [work EXCEPT ![w].stage = "running"]
          /\ UNCHANGED <<tail, barrier, outstanding, late, closed>>

\* The handler ends: applied if the receiver is still current and the handler
\* has not failed.
Outcomes == IF closed THEN {"lost"} ELSE {"applied", "lost"}

Settle(w) ==
  /\ work[w].stage = "running"
  /\ \E outcome \in Outcomes : Finish(w, outcome)

-----------------------------------------------------------------------------
\* The deadline of one more work that is still outstanding passes; microtasks
\* do not wait for the clock.
Tick ==
  /\ \A w \in Arrived : ~Ready(w)
  /\ late' \in {w \in Arrived : w > late /\ ~Resolved(w) /\ \A v \in late + 1..w - 1 : Resolved(v)}
  /\ UNCHANGED <<work, tail, barrier, outstanding, closed>>

\* The LISTEN connection is gone: what is queued is lost and its completion
\* resolved; what has been taken goes on and finds itself retired.
\* Slip: the queues are thrown away.
Abandoned_Unresolved(stage) == stage
Abandoned(stage) == IF stage = "queued" THEN "lost" ELSE stage

Close ==
  /\ ~closed
  /\ closed' = TRUE
  /\ work' = [w \in Arrived |-> [work[w] EXCEPT !.stage = Abandoned(@)]]
  /\ tail' = [o \in Origin |-> None]
  /\ outstanding' = outstanding - Cardinality({w \in Arrived : work[w].stage = "queued"})
  /\ UNCHANGED <<barrier, late>>

-----------------------------------------------------------------------------
Next ==
  \/ \E o \in Origin, r \in Room \cup {None} : Arrive(o, r)
  \/ \E w \in Arrived : Start(w) \/ Settle(w)
  \/ Tick
  \/ Close

Spec == Init /\ [][Next]_vars

\* Microtasks run, and every handler ends: hydration has a deadline.
FairSpec == Spec /\ \A w \in 1..MaxWorks : WF_vars(w \in Arrived /\ (Start(w) \/ Settle(w)))

-----------------------------------------------------------------------------
(* Properties.                                                             *)

TypeOK ==
  /\ work \in Seq([origin : Origin, room : Room \cup {None}, waits : SUBSET (1..MaxWorks),
                   stage : {"queued", "taken", "running", "applied", "lost"}])
  /\ Len(work) <= MaxWorks
  /\ tail \in [Origin -> Arrived \cup {None}]
  /\ barrier \in Arrived \cup {None}
  /\ outstanding \in 0..MaxOutstanding
  /\ late \in 0..Len(work)
  /\ closed \in BOOLEAN

\* A slow reference from one publisher never arrives after a later event of
\* the same room from another: a handler starts when all earlier ones of its
\* room have ended.
RoomOrder ==
  \A v, w \in Arrived :
    w < v /\ Started(v) /\ work[v].room # None /\ work[w].room = work[v].room => Resolved(w)

\* A loss boundary holds against everything that comes after it: nothing later
\* starts before the boundary has been applied or reported, or before a later
\* boundary has been reported lost, which is a loss for all rooms too.
BarrierPrecedes ==
  \A v, b \in Arrived :
    b < v /\ Started(v) /\ work[b].room = None =>
      \/ Resolved(b)
      \/ \E c \in b + 1..v - 1 : work[c].room = None /\ work[c].stage = "lost"

\* Publisher order, and a barrier's wait for all publishers, hold unless a work
\* in between was dropped: a dropped work is done before its predecessors are.
OriginOrder ==
  \A v, w \in Arrived :
    w < v /\ Started(v) /\ (work[v].room = None \/ work[w].origin = work[v].origin) =>
      \/ Resolved(w)
      \/ \E u \in w + 1..v - 1 : work[u].origin = work[w].origin /\ work[u].stage = "lost"

\* The admission limits follow what is really outstanding: no path, through
\* deadlines, failures or close, leaks a place or a lane.
AdmissionIsExact ==
  /\ outstanding = Cardinality({w \in Arrived : ~Resolved(w)})
  /\ Cardinality({Lane(w) : w \in {v \in Arrived : Laned(v)}}) <= MaxLanes
  /\ \A w \in Arrived : work[w].stage = "queued" => Busy(Lane(w))

\* Every notification is applied or reported lost (there are MaxWorks of them,
\* so again and again means for good); works wait for each other
\* but never in a circle, and never for one that was thrown away.
EveryNotificationEnds == []<>(\A w \in Arrived : Resolved(w))
================================================================================
