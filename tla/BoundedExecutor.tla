--------------------------- MODULE BoundedExecutor ---------------------------
(***************************************************************************)
(* createBoundedExecutor (src/src/api/bounded-async.ts): at most           *)
(* MaxConcurrent operations run and at most MaxQueued wait; a call has one *)
(* deadline, counted from the moment it was made.                          *)
(*                                                                         *)
(* The synchronous blocks are the actions: a call, the timer of a call,    *)
(* the settling of an operation (the `then` callback) and, one microtask   *)
(* later, its `finally`.  Between the last two a new call still sees the   *)
(* slot taken.  Deadlines may pass in any order here; Node fires equal     *)
(* timeouts in the order they were set.                                    *)
(***************************************************************************)
EXTENDS Naturals, Sequences, FiniteSets

CONSTANTS
  Work,           \* the calls of runBounded
  MaxConcurrent,  \* options.maxConcurrent
  MaxQueued       \* options.maxQueued

ASSUME LimitAssumption == MaxConcurrent \in Nat \ {0} /\ MaxQueued \in Nat
ASSUME WorkAssumption == IsFiniteSet(Work)

VARIABLES
  active,    \* the counter of occupied slots
  queue,     \* the works that wait, oldest first
  stage,     \* [Work -> how far the operation has come]
  consumer   \* [Work -> what the promise returned to the caller says]

vars == <<active, queue, stage, consumer>>

Init ==
  /\ active = 0
  /\ queue = <<>>
  /\ stage = [w \in Work |-> "new"]
  /\ consumer = [w \in Work |-> "none"]

\* drain(): start works from the head while there is a slot.
HasSlot(a) == a < MaxConcurrent

Drain(a, q, st) ==
  LET fits(n) == \A i \in 1..n : HasSlot(a + i - 1)
      n == CHOOSE k \in 0..Len(q) : fits(k) /\ (k < Len(q) => ~fits(k + 1))
      started == {q[i] : i \in 1..n}
  IN /\ active' = a + n
     /\ queue' = SubSeq(q, n + 1, Len(q))
     /\ stage' = [w \in Work |-> IF w \in started THEN "running" ELSE st[w]]

\* Slip: the queue may hold one more than its limit.
Refused_OffByOne == ~HasSlot(active) /\ Len(queue) > MaxQueued
Refused == ~HasSlot(active) /\ Len(queue) >= MaxQueued

Call(w) ==
  /\ stage[w] = "new"
  /\ IF Refused
     THEN /\ stage' = [stage EXCEPT ![w] = "gone"]
          /\ consumer' = [consumer EXCEPT ![w] = "refused"]
          /\ UNCHANGED <<active, queue>>
     ELSE /\ consumer' = [consumer EXCEPT ![w] = "waiting"]
          /\ Drain(active, Append(queue, w), [stage EXCEPT ![w] = "queued"])

\* The deadline: a queued work is taken out of the queue, a running one keeps
\* its slot and only its caller is told.
Waiting(w) ==
  LET index == CHOOSE i \in 1..Len(queue) : queue[i] = w
  IN SubSeq(queue, 1, index - 1) \o SubSeq(queue, index + 1, Len(queue))
Slots(w) == active
\* Slip: the timer is armed when the work starts.
Ticking_FromStart(w) == consumer[w] = "waiting" /\ stage[w] = "running"
Ticking(w) == consumer[w] = "waiting"

Deadline(w) ==
  /\ Ticking(w)
  /\ consumer' = [consumer EXCEPT ![w] = "timeout"]
  /\ active' = Slots(w)
  /\ IF stage[w] = "queued"
     THEN queue' = Waiting(w) /\ stage' = [stage EXCEPT ![w] = "gone"]
     ELSE UNCHANGED <<queue, stage>>

\* The operation resolves or rejects; the caller hears of it if the deadline
\* has not come first.
Answer(w) == IF consumer[w] = "waiting" THEN "result" ELSE consumer[w]

Settle(w) ==
  /\ stage[w] = "running"
  /\ stage' = [stage EXCEPT ![w] = "settled"]
  /\ consumer' = [consumer EXCEPT ![w] = Answer(w)]
  /\ UNCHANGED <<active, queue>>

\* The finally callback: free the slot and drain.
\* Slip: the freed slot is not offered to the queue.
Freed_NotDrained(st) == active' = active - 1 /\ queue' = queue /\ stage' = st
Freed(st) == Drain(active - 1, queue, st)

Free(w) ==
  /\ stage[w] = "settled"
  /\ Freed([stage EXCEPT ![w] = "gone"])
  /\ UNCHANGED consumer

Next == \E w \in Work : Call(w) \/ Deadline(w) \/ Settle(w) \/ Free(w)

Spec == Init /\ [][Next]_vars

\* Timers fire and microtasks run; nothing is assumed of the operations.
FairSpec == Spec /\ \A w \in Work : WF_vars(Deadline(w)) /\ WF_vars(Free(w))

-----------------------------------------------------------------------------
(* Properties.                                                             *)

TypeOK ==
  /\ active \in 0..MaxConcurrent
  /\ queue \in Seq(Work)
  /\ stage \in [Work -> {"new", "queued", "running", "settled", "gone"}]
  /\ consumer \in [Work -> {"none", "waiting", "result", "timeout", "refused"}]

\* Deadlines do not turn a slow dependency into unbounded work: however many
\* calls time out, the operations still running and the works waiting stay
\* within their limits.
LoadIsBounded ==
  /\ Cardinality({w \in Work : stage[w] = "running"}) <= MaxConcurrent
  /\ Len(queue) <= MaxQueued

\* No work waits beside a free slot.
NoSlotIdles == queue # <<>> => active = MaxConcurrent

\* Every call is answered, even if no operation ever settles.
EveryCallIsAnswered ==
  \A w \in Work : consumer[w] = "waiting" ~> consumer[w] # "waiting"
==============================================================================
