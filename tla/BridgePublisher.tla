---------------------------- MODULE BridgePublisher ----------------------------
(***************************************************************************)
(* The sending half of the room-event bridge (src/src/api/server/          *)
(* event-bridge/publisher.ts) as one other server hears it                 *)
(* (applyRemoteBridgeLoss of notification-dispatch.ts): events are         *)
(* relayed best-effort over NOTIFY, and an event that was not relayed is   *)
(* announced by a loss marker before anything later is.                    *)
(*                                                                         *)
(* Publishing goes through a bounded executor with one slot.  Callbacks    *)
(* that another block may precede are microtasks, run in order: the catch  *)
(* of a failed publication, the finally of a flush, and the executor's     *)
(* finally, which frees the slot.  Timers fire and PostgreSQL answers only *)
(* when no microtask is left; events are emitted at any time.  A call has  *)
(* one deadline (20 s), counted from the moment it was made.  It is longer *)
(* than all the timeouts of a publication together, so it passes while the *)
(* call is queued, or during its publication if that had to wait.          *)
(***************************************************************************)
EXTENDS Naturals, Sequences, FiniteSets, FiniteSetsExt

CONSTANTS
  Room,
  MaxPendingRooms,  \* MAX_PENDING_ROOM_LOSSES
  MaxQueued,        \* the executor's queue
  MaxEvents,        \* bound: events in one behaviour
  MaxOrphans,       \* bound: statements that outlive their connection
  None              \* an event or a loss of no room (all rooms); no work

ASSUME LimitAssumption == {MaxPendingRooms, MaxQueued} \subseteq Nat \ {0}
ASSUME BoundAssumption == {MaxEvents, MaxOrphans} \subseteq Nat
ASSUME NoneAssumption == None \notin Room \cup Nat

VARIABLES
  event,     \* the events emitted so far: their room, and the epoch of their loss
  epoch,     \* lossEpoch
  rooms,     \* pendingRoomLosses: [Room -> epoch, 0 when absent]
  global,    \* pendingGlobalLossEpoch
  queue,     \* the executor's queue: events by number, 0 for a flush
  running,   \* the publication in the slot, or None
  orphans,   \* statements whose connection broke before their outcome was known
  micro,     \* the microtasks that wait
  timer,     \* lossRetryTimer is set
  active,    \* bridgeActive
  got,       \* the events the other server has received
  heard      \* observedRemoteLosses: [Room or None -> epoch]

losses == <<epoch, rooms, global, timer>>
other == <<got, heard>>
vars == <<event, losses, queue, running, orphans, micro, active, other>>

Flush == 0

Init ==
  /\ event = <<>>
  /\ epoch = 0
  /\ rooms = [r \in Room |-> 0]
  /\ global = 0
  /\ queue = <<>>
  /\ running = None
  /\ orphans = {}
  /\ micro = <<>>
  /\ timer = FALSE
  /\ active = TRUE
  /\ got = {}
  /\ heard = [r \in Room \cup {None} |-> 0]

-----------------------------------------------------------------------------
(* Pending losses.                                                         *)

PendingRooms(p) == {r \in Room : p[r] > 0}

\* snapshotPendingBridgeLosses
Snapshot(p, g) ==
  IF g > 0 THEN {[room |-> None, epoch |-> g]}
           ELSE {[room |-> r, epoch |-> p[r]] : r \in PendingRooms(p)}

NoRooms == [r \in Room |-> 0]

\* queuePendingBridgeLoss, with scheduleBridgeLossRetry.
\* Slip: the rooms that overflow are dropped, not promoted.
Overflow_Forgets(p) == 0
Overflow(p) == Max({p[r] : r \in Room})

QueueLoss(room, n) ==
  LET p == IF room = None \/ global > 0 THEN NoRooms ELSE [rooms EXCEPT ![room] = n]
      g == IF room = None \/ global > 0 THEN n ELSE 0
      full == Cardinality(PendingRooms(p)) > MaxPendingRooms
  IN /\ rooms' = IF full THEN NoRooms ELSE p
     /\ global' = IF full THEN Overflow(p) ELSE g
     /\ timer' = (timer \/ active)

\* reportPublisherBridgeLoss
Report(room) == epoch' = epoch + 1 /\ QueueLoss(room, epoch + 1)

Same(now, delivered) == now = delivered

\* clearPendingBridgeLosses
Clear(delivered) ==
  LET p == [r \in Room |-> IF \E m \in delivered : m.room = r /\ Same(rooms[r], m.epoch)
                           THEN 0 ELSE rooms[r]]
      g == IF \E m \in delivered : m.room = None /\ Same(global, m.epoch) THEN 0 ELSE global
  IN /\ rooms' = p
     /\ global' = g
     /\ timer' = (timer /\ Snapshot(p, g) # {})
     /\ UNCHANGED epoch

-----------------------------------------------------------------------------
(* The executor with one slot.                                             *)

\* A work takes the slot: its operation runs up to its first await.
Started(w, waited) ==
  LET snap == Snapshot(rooms, global)
  IN [work |-> w, markers |-> snap, waited |-> waited, overdue |-> FALSE,
      at |-> IF w = Flush /\ snap = {} THEN "sent" ELSE "sending"]

\* The operation has settled and still has the slot.
Ended == [work |-> Flush, markers |-> {}, waited |-> FALSE, overdue |-> FALSE, at |-> "settled"]

Refused == running # None /\ Len(queue) >= MaxQueued

Submit(w) ==
  IF running = None THEN running' = Started(w, FALSE) /\ UNCHANGED queue
                    ELSE queue' = Append(queue, w) /\ UNCHANGED running

\* What the caller of a failed work does: publishBridgeEnvelope reports the
\* loss, flushPendingBridgeLosses schedules another attempt.
Failure(w) == IF w = Flush THEN <<[do |-> "reschedule", work |-> Flush]>>
                           ELSE <<[do |-> "report", work |-> w]>>
Success(w) == IF w = Flush THEN <<[do |-> "reschedule", work |-> Flush]>> ELSE <<>>
FreeSlot == <<[do |-> "free", work |-> Flush]>>

\* The operation has settled: the executor settles the caller's promise,
\* unless the deadline did, and then frees the slot.
\* Slip: the slot is freed first.
Settled_FreeFirst(s, callbacks) == FreeSlot \o (IF s.overdue THEN <<>> ELSE callbacks)
Settled(s, callbacks) == (IF s.overdue THEN <<>> ELSE callbacks) \o FreeSlot

-----------------------------------------------------------------------------
(* publishBridgedEvent.                                                    *)

\* An event with no relayable form is a loss at once.
Drop(room) ==
  /\ active
  /\ Len(event) < MaxEvents
  /\ event' = Append(event, [room |-> room, lost |-> epoch + 1])
  /\ Report(room)
  /\ UNCHANGED <<queue, running, orphans, micro, active, other>>

Emit(room) ==
  LET n == Len(event) + 1
  IN /\ active
     /\ n <= MaxEvents
     /\ event' = Append(event, [room |-> room, lost |-> 0])
     /\ IF Refused THEN micro' = micro \o Failure(n) /\ UNCHANGED <<queue, running>>
                   ELSE Submit(n) /\ UNCHANGED micro
     /\ UNCHANGED <<losses, orphans, active, other>>

\* A queued call runs into its deadline.
Expire(i) ==
  /\ micro = <<>>
  /\ queue' = SubSeq(queue, 1, i - 1) \o SubSeq(queue, i + 1, Len(queue))
  /\ micro' = Failure(queue[i])
  /\ UNCHANGED <<event, losses, running, orphans, active, other>>

\* The deadline of a call passes during its publication, which goes on.
Overdue ==
  /\ micro = <<>>
  /\ running # None /\ running.waited /\ ~running.overdue
  /\ ~(running.work = Flush /\ running.markers = {})
  /\ running' = [running EXCEPT !.overdue = TRUE]
  /\ micro' = Failure(running.work)
  /\ UNCHANGED <<event, losses, queue, orphans, active, other>>

-----------------------------------------------------------------------------
(* executeBridgePublish and PostgreSQL: the markers and the event commit   *)
(* in one statement, or nothing does.                                      *)

Deliver(s) ==
  /\ got' = IF s.work = Flush THEN got ELSE got \cup {s.work}
  /\ heard' = [r \in DOMAIN heard |-> Max({heard[r]} \cup {m.epoch : m \in {k \in s.markers : k.room = r}})]

Commit ==
  /\ micro = <<>>
  /\ running # None /\ running.at = "sending"
  /\ Deliver(running)
  /\ running' = [running EXCEPT !.at = "sent"]
  /\ UNCHANGED <<event, losses, queue, orphans, micro, active>>

Answer ==
  /\ micro = <<>>
  /\ running # None /\ running.at = "sent"
  /\ Clear(running.markers)
  /\ micro' = Settled(running, Success(running.work))
  /\ running' = Ended
  /\ UNCHANGED <<event, queue, orphans, active, other>>

\* A timeout or an error, before or after the commit; a statement that was
\* under way when the connection broke may still commit.
Fail ==
  /\ micro = <<>>
  /\ running # None /\ running.at \in {"sending", "sent"}
  /\ ~(running.work = Flush /\ running.markers = {})
  /\ micro' = Settled(running, Failure(running.work))
  /\ running' = Ended
  /\ \/ UNCHANGED orphans
     \/ /\ running.at = "sending" /\ Cardinality(orphans) < MaxOrphans
        /\ orphans' = orphans \cup {[work |-> running.work, markers |-> running.markers]}
  /\ UNCHANGED <<event, losses, queue, active, other>>

\* External: PostgreSQL commits a statement that nobody waits for any more.
OrphanCommits(s) ==
  /\ Deliver(s)
  /\ orphans' = orphans \ {s}
  /\ UNCHANGED <<event, losses, queue, running, micro, active>>

-----------------------------------------------------------------------------
\* The oldest microtask.
\* Slip: a flush is not followed by another.
Retry_Never == timer
Retry == timer \/ (active /\ Snapshot(rooms, global) # {})

Microtask ==
  /\ micro # <<>>
  /\ micro' = Tail(micro)
  /\ LET w == Head(micro).work
     IN \/ /\ Head(micro).do = "report"
           /\ event' = [event EXCEPT ![w].lost = epoch + 1]
           /\ Report(event[w].room)
           /\ UNCHANGED <<queue, running>>
        \/ /\ Head(micro).do = "reschedule"
           /\ timer' = Retry
           /\ UNCHANGED <<event, epoch, rooms, global, queue, running>>
        \/ /\ Head(micro).do = "free"
           /\ running' = IF queue = <<>> THEN None ELSE Started(Head(queue), TRUE)
           /\ queue' = IF queue = <<>> THEN queue ELSE Tail(queue)
           /\ UNCHANGED <<event, losses>>
  /\ UNCHANGED <<orphans, active, other>>

TimerFires ==
  /\ micro = <<>>
  /\ timer
  /\ timer' = FALSE
  /\ IF Refused THEN micro' = Failure(Flush) /\ UNCHANGED <<queue, running>>
                ELSE Submit(Flush) /\ UNCHANGED micro
  /\ UNCHANGED <<event, epoch, rooms, global, orphans, active, other>>

\* The listener has reconnected: scheduleBridgeLossRetry.
Reconnect ==
  /\ micro = <<>>
  /\ timer' = Retry
  /\ UNCHANGED <<event, epoch, rooms, global, queue, running, orphans, micro, active, other>>

\* beginStopBridgePublisher: works under way are still awaited.
Stop ==
  /\ active
  /\ active' = FALSE
  /\ timer' = FALSE
  /\ UNCHANGED <<event, epoch, rooms, global, queue, running, orphans, micro, other>>

-----------------------------------------------------------------------------
Next ==
  \/ \E r \in Room \cup {None} : Drop(r) \/ Emit(r)
  \/ \E i \in 1..Len(queue) : Expire(i)
  \/ Overdue \/ Commit \/ Answer \/ Fail
  \/ \E s \in orphans : OrphanCommits(s)
  \/ Microtask \/ TimerFires \/ Reconnect \/ Stop

Spec == Init /\ [][Next]_vars

\* Microtasks run; timers fire and a publication ends (its statements have
\* timeouts) however many microtasks come in between; PostgreSQL commits a
\* publication now and then.
Fairness ==
  /\ WF_vars(Microtask)
  /\ SF_vars(TimerFires)
  /\ SF_vars(Answer \/ Fail)
  /\ SF_vars(Commit)

FairSpec == Spec /\ Fairness

-----------------------------------------------------------------------------
(* Properties.                                                             *)

Marker == [room : Room \cup {None}, epoch : 1..MaxEvents]
Publication == [work : 0..MaxEvents, markers : SUBSET Marker, waited : BOOLEAN, overdue : BOOLEAN,
                at : {"sending", "sent", "settled"}]

ASSUME NoneIsNoPublication == None \notin Publication

TypeOK ==
  /\ event \in Seq([room : Room \cup {None}, lost : 0..epoch])
  /\ Len(event) <= MaxEvents
  /\ epoch \in 0..MaxEvents
  /\ rooms \in [Room -> 0..epoch]
  /\ Cardinality(PendingRooms(rooms)) <= MaxPendingRooms
  /\ global \in 0..epoch
  /\ queue \in Seq(0..Len(event))
  /\ Len(queue) <= MaxQueued
  /\ running # None => running \in Publication
  /\ orphans \subseteq [work : 0..MaxEvents, markers : SUBSET Marker]
  /\ micro \in Seq([do : {"report", "reschedule", "free"}, work : 0..Len(event)])
  /\ timer \in BOOLEAN /\ active \in BOOLEAN
  /\ got \subseteq 1..Len(event)
  /\ heard \in [Room \cup {None} -> 0..epoch]

Lost(i) == event[i].lost > 0

\* A marker for the room of i, or for all rooms, not older than the loss of i.
Covered(i, h) ==
  \E r \in {event[i].room, None} : h[r] >= event[i].lost

\* The other server is never left with a gap it does not know of: when it
\* receives an event, every earlier one has been received too, or its loss
\* has been announced before, through failures, retries, refusals, deadlines
\* and answers that were lost.
NoSilentGap ==
  [][\A j \in got' \ got : \A i \in 1..j - 1 :
       i \in got \/ (Lost(i) /\ Covered(i, heard'))]_vars

\* A loss is not forgotten before it has been announced: the overflow of the
\* room map, a marker under way when the next loss comes, an answer that was
\* lost, all keep it.
NoLossForgotten ==
  \A i \in 1..Len(event) : Lost(i) =>
    \/ Covered(i, heard)
    \/ global >= event[i].lost
    \/ event[i].room # None /\ rooms[event[i].room] >= event[i].lost

\* Every loss is announced in the end, unless the bridge is stopped; there are
\* MaxEvents losses at most.
LossesAreAnnounced ==
  []<>(active => \A i \in 1..Len(event) : Lost(i) => Covered(i, heard))
================================================================================
