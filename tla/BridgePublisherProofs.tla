------------------------ MODULE BridgePublisherProofs ------------------------
(***************************************************************************)
(* Proofs about BridgePublisher, for every set of rooms, every limit and   *)
(* every bound.                                                            *)
(*                                                                         *)
(* The argument.  Every event has one fate at a time: it has been received,*)
(* or it is in the queue, in the slot, about to be reported, or lost, and  *)
(* what is lost stays lost at the same epoch (Fates).  The slot is freed   *)
(* only after the catch of its publication, and a report that follows the  *)
(* freeing belongs to an event that was refused behind a full queue        *)
(* (HeldBack); so when an event takes the slot, all earlier ones have been *)
(* received or reported, and the markers it carries announce what no       *)
(* marker has announced before (Accounted).                                *)
(***************************************************************************)
EXTENDS BridgePublisher, FiniteSetTheorems, WellFoundedInduction, TLAPS

-----------------------------------------------------------------------------
(* The inductive invariant.                                                *)

(* A publication has the slot and has not settled.                         *)
Unsettled == running # None /\ running.at # "settled"

Queued(i) == \E k \in 1..Len(queue) : queue[k] = i
Due(i) == \E p \in 1..Len(micro) : micro[p].do = "report" /\ micro[p].work = i
InSlot(i) == Unsettled /\ running.work = i

(* What is pending: finitely many rooms, or a loss of all rooms alone; the *)
(* epoch is the number of losses.                                          *)
PendingKept ==
  /\ IsFiniteSet(PendingRooms(rooms))
  /\ global > 0 => rooms = NoRooms
  /\ epoch = Cardinality({i \in 1..Len(event) : Lost(i)})

(* An idle executor has an empty queue, and nothing is about to be         *)
(* reported; the slot of a settled publication is freed once.              *)
SlotKept ==
  /\ running = None =>
       /\ queue = <<>>
       /\ \A p \in 1..Len(micro) : micro[p].do = "reschedule"
  /\ running # None /\ ~Unsettled => running = Ended
  /\ \A p \in 1..Len(micro) : micro[p].do = "free" => running # None /\ ~Unsettled
  /\ \A p, q \in 1..Len(micro) : micro[p].do = "free" /\ micro[q].do = "free" => p = q

(* What is reported after the slot is freed was refused behind a queue     *)
(* that is still full.                                                     *)
HeldBack ==
  \A p, q \in 1..Len(micro) :
    p < q /\ micro[p].do = "free" /\ micro[q].do = "report" =>
      /\ Len(queue) >= MaxQueued
      /\ \A k \in 1..Len(queue) : queue[k] < micro[q].work

(* Events wait in the order of their emission, behind the one in the slot. *)
InOrder ==
  /\ \A a, b \in 1..Len(queue) : a < b /\ queue[b] # Flush => queue[a] < queue[b]
  /\ Unsettled => \A k \in 1..Len(queue) : queue[k] # Flush => running.work < queue[k]

(* An event that waits, or is about to be reported, is not lost yet and is *)
(* in one place; the one in the slot is reported when its deadline passes; *)
(* and every event is somewhere.                                           *)
FateOf(i) ==
  /\ Queued(i) => ~Lost(i) /\ ~Due(i)
  /\ Due(i) => ~Lost(i)
  /\ InSlot(i) => (running.overdue <=> Lost(i) \/ Due(i))
  /\ InSlot(i) /\ running.at = "sent" => i \in got
  /\ i \in got \/ Lost(i) \/ Queued(i) \/ InSlot(i) \/ Due(i)

Fates ==
  /\ \A i \in 1..Len(event) : FateOf(i)
  /\ \A p \in 1..Len(micro) : micro[p].do = "report" => micro[p].work # Flush
  /\ \A p, q \in 1..Len(micro) :
       micro[p].do = "report" /\ micro[q].do = "report" /\ micro[p].work = micro[q].work => p = q
  /\ Unsettled => running.work \in 0..Len(event)

(* The markers ms announce the loss of i, or one that came later.          *)
Announces(ms, i) == \E m \in ms : m.room \in {event[i].room, None} /\ m.epoch >= event[i].lost

(* Of the events before j, none is missed by who receives j with ms.       *)
Accounted(j, ms) ==
  \A i \in 1..j - 1 : i \in got \/ (Lost(i) /\ (Covered(i, heard) \/ Announces(ms, i)))

Carried ==
  /\ Unsettled => Accounted(running.work, running.markers)
  /\ \A s \in orphans : s.work <= Len(event) /\ Accounted(s.work, s.markers)
  /\ Unsettled /\ running.at = "sent" => \A m \in running.markers : heard[m.room] >= m.epoch
  /\ Unsettled => \A m \in running.markers : m.epoch <= epoch
  /\ \A s \in orphans : \A m \in s.markers : m.epoch <= epoch

(* While a loss is pending and the bridge is active, the timer is set or a *)
(* flush is under way whose end sets it.                                   *)
RetryIsArmed ==
  active /\ Snapshot(rooms, global) # {} =>
    \/ timer
    \/ Queued(Flush)
    \/ Unsettled /\ running.work = Flush /\ ~running.overdue
    \/ \E p \in 1..Len(micro) : micro[p].do = "reschedule"

(* The proofs take it in three parts: what is lost and pending (LossSide), *)
(* where the events are (SlotSide), and what is on the wire (WireSide).    *)
IInv ==
  /\ TypeOK
  /\ PendingKept
  /\ SlotKept
  /\ HeldBack
  /\ InOrder
  /\ Fates
  /\ NoLossForgotten
  /\ Carried
  /\ RetryIsArmed

-----------------------------------------------------------------------------
(* Pending losses.                                                         *)

(* A pending loss announces one of room r at epoch e.                      *)
Pending(r, e) == global >= e \/ (r # None /\ rooms[r] >= e)

(* The types of the pending losses, with what PendingKept says of them.    *)
LossesTyped ==
  /\ epoch \in Nat
  /\ rooms \in [Room -> 0..epoch]
  /\ global \in 0..epoch
  /\ IsFiniteSet(PendingRooms(rooms))
  /\ Cardinality(PendingRooms(rooms)) <= MaxPendingRooms
  /\ global > 0 => rooms = NoRooms

(* A non-empty set of numbers up to n has a largest member.                *)
LEMMA LargestOf ==
  ASSUME NEW n \in Nat, NEW S \in SUBSET (0..n), S # {}
  PROVE  Max(S) \in S /\ \A x \in S : Max(S) >= x
<1>1. IsWellFoundedOn(OpToRel(<, Nat), Nat)
  BY NatLessThanWellFounded
<1>. DEFINE T == {k \in Nat : n - k \in S}
<1>2. T \subseteq Nat /\ T # {}
  <2>1. PICK x \in S : TRUE
    OBVIOUS
  <2>2. n - x \in Nat /\ n - (n - x) = x
    OBVIOUS
  <2>. QED BY <2>1, <2>2
<1>3. \E k \in T : \A l \in T : ~ (<<l, k>> \in OpToRel(<, Nat))
  <2>. HIDE DEF T
  <2>. QED BY <1>1, <1>2, WFMin
<1>4. PICK k \in T : \A l \in T : ~ (l < k)
  BY <1>2, <1>3 DEF OpToRel
<1>5. \A y \in S : n - k >= y
  <2>. SUFFICES ASSUME NEW y \in S PROVE n - k >= y
    OBVIOUS
  <2>1. n - y \in Nat /\ n - (n - y) = y
    OBVIOUS
  <2>2. n - y \in T
    BY <2>1
  <2>. QED BY <1>4, <2>1, <2>2
<1>6. \E x \in S : \A y \in S : x >= y
  BY <1>4, <1>5
<1>. QED BY <1>6 DEF Max

(* Of a set of numbers that are finitely many, the overflow is the largest.*)
LEMMA OverflowIsLargest ==
  ASSUME NEW n \in Nat, NEW p \in [Room -> 0..n], NEW r \in Room
  PROVE  Overflow(p) \in 0..n /\ Overflow(p) >= p[r]
<1>. DEFINE S == {p[x] : x \in Room}
<1>1. S \in SUBSET (0..n) /\ S # {} /\ p[r] \in S
  OBVIOUS
<1>. HIDE DEF S
<1>2. Max(S) \in S /\ \A x \in S : Max(S) >= x
  BY <1>1, LargestOf
<1>3. Overflow(p) = Max(S)
  BY DEF Overflow, S
<1>. QED BY <1>1, <1>2, <1>3

(* What queuePendingBridgeLoss leaves pending announces the new loss and   *)
(* all that was pending, even when the rooms overflow.                     *)
LEMMA QueueLossKeeps ==
  ASSUME LossesTyped, NEW room \in Room \cup {None}, Report(room)
  PROVE  /\ LossesTyped'
         /\ epoch' = epoch + 1
         /\ timer' = (timer \/ active)
         /\ Pending(room, epoch)'
         /\ \A r \in Room \cup {None}, e \in 1..epoch : Pending(r, e) => Pending(r, e)'
<1>. DEFINE n == epoch + 1
            all == room = None \/ global > 0
            p == IF all THEN NoRooms ELSE [rooms EXCEPT ![room] = n]
            g == IF all THEN n ELSE 0
            full == Cardinality(PendingRooms(p)) > MaxPendingRooms
<1>1. /\ epoch' = n
      /\ rooms' = IF full THEN NoRooms ELSE p
      /\ global' = IF full THEN Overflow(p) ELSE g
      /\ timer' = (timer \/ active)
  BY DEF Report, QueueLoss
<1>2. /\ n \in Nat /\ None \notin Room
      /\ rooms \in [Room -> 0..epoch] /\ global \in 0..epoch
      /\ epoch \in Nat /\ MaxPendingRooms \in Nat
  BY LimitAssumption, NoneAssumption DEF LossesTyped
<1>3. p \in [Room -> 0..n] /\ g \in 0..n /\ NoRooms \in [Room -> 0..n]
  BY <1>2 DEF NoRooms
<1>4. /\ PendingRooms(NoRooms) = {} /\ IsFiniteSet(PendingRooms(NoRooms))
      /\ Cardinality(PendingRooms(NoRooms)) = 0
  BY FS_EmptySet DEF PendingRooms, NoRooms
<1>5. IsFiniteSet(PendingRooms(p)) /\ Cardinality(PendingRooms(p)) \in Nat
  <2>1. CASE all
    <3>1. p = NoRooms
      BY <2>1
    <3>. HIDE DEF p
    <3>. QED BY <1>4, <3>1
  <2>2. CASE ~all
    <3>1. PendingRooms(p) = PendingRooms(rooms) \cup {room}
      BY <1>2, <2>2 DEF PendingRooms
    <3>2. IsFiniteSet(PendingRooms(rooms))
      BY DEF LossesTyped
    <3>. HIDE DEF p
    <3>. QED BY <3>1, <3>2, FS_AddElement, FS_CardinalityType
  <2>. QED BY <2>1, <2>2
<1>6. full => \E r \in Room : TRUE
  <2>. SUFFICES ASSUME full, Room = {} PROVE FALSE
    OBVIOUS
  <2>1. PendingRooms(p) = {}
    BY DEF PendingRooms
  <2>2. Cardinality(PendingRooms(p)) = 0
    BY <2>1, FS_EmptySet
  <2>. HIDE DEF p
  <2>. QED BY <1>2, <2>2
<1>7. full => ~all
  <2>. SUFFICES ASSUME all, full PROVE FALSE
    OBVIOUS
  <2>1. Cardinality(PendingRooms(p)) = 0
    BY <1>4
  <2>. HIDE DEF p, all
  <2>. QED BY <1>2, <2>1
<1>8. full => Overflow(p) \in 0..n /\ \A r \in Room : Overflow(p) >= p[r]
  <2>. HIDE DEF p, full
  <2>. QED BY <1>2, <1>3, <1>6, OverflowIsLargest
<1>9. LossesTyped'
  <2>1. rooms' \in [Room -> 0..epoch'] /\ global' \in 0..epoch' /\ epoch' \in Nat
    <3>. HIDE DEF p, g, full
    <3>. QED BY <1>1, <1>2, <1>3, <1>8
  <2>2. IsFiniteSet(PendingRooms(rooms')) /\ Cardinality(PendingRooms(rooms')) <= MaxPendingRooms
    <3>. HIDE DEF p
    <3>. QED BY <1>1, <1>2, <1>4, <1>5
  <2>3. global' > 0 => rooms' = NoRooms
    BY <1>1
  <2>. QED BY <2>1, <2>2, <2>3 DEF LossesTyped
<1>10. ASSUME NEW r \in Room \cup {None}, NEW e \in 1..epoch + 1,
              r = room \/ (e \in 1..epoch /\ Pending(r, e))
       PROVE  Pending(r, e)'
  <2>1. CASE all
    BY <1>1, <1>2, <1>7, <2>1 DEF Pending
  <2>2. CASE ~all
    <3>1. room \in Room /\ global = 0
      BY <1>2, <2>2
    <3>2. r \in Room /\ p[r] >= e
      <4>1. CASE r = room
        BY <1>2, <2>2, <3>1, <4>1
      <4>2. CASE r # room
        <5>1. r \in Room /\ rooms[r] >= e
          BY <1>2, <1>10, <3>1, <4>2 DEF Pending
        <5>. QED BY <1>2, <2>2, <3>1, <4>2, <5>1
      <4>. QED BY <4>1, <4>2
    <3>3. CASE full
      <4>1. Overflow(p) \in Nat /\ Overflow(p) >= p[r] /\ p[r] \in Nat
        <5>. HIDE DEF p, full
        <5>. QED BY <1>2, <1>3, <1>8, <3>2, <3>3
      <4>2. global' = Overflow(p)
        BY <1>1, <3>3
      <4>. HIDE DEF p, full
      <4>. QED BY <3>2, <4>1, <4>2 DEF Pending
    <3>4. CASE ~full
      <4>1. rooms' = p
        BY <1>1, <3>4
      <4>. HIDE DEF p, full
      <4>. QED BY <1>2, <3>2, <4>1 DEF Pending
    <3>. QED BY <3>3, <3>4
  <2>. QED BY <2>1, <2>2
<1>11. PICK m \in Nat : m = epoch + 1 /\ m \in 1..epoch + 1
  BY <1>2
<1>12. Pending(room, epoch)'
  <2>1. Pending(room, m)'
    BY <1>10, <1>11
  <2>2. epoch' = m
    BY <1>1, <1>11
  <2>. QED BY <2>1, <2>2 DEF Pending
<1>13. \A r \in Room \cup {None}, e \in 1..epoch : Pending(r, e) => Pending(r, e)'
  <2>. SUFFICES ASSUME NEW r \in Room \cup {None}, NEW e \in 1..epoch, Pending(r, e)
                PROVE  Pending(r, e)'
    OBVIOUS
  <2>. QED BY <1>2, <1>10
<1>. QED BY <1>1, <1>9, <1>12, <1>13

(* What clearPendingBridgeLosses removes was announced by a marker that    *)
(* was delivered; the rest stays pending.                                  *)
LEMMA ClearKeeps ==
  ASSUME LossesTyped, NEW ms \in SUBSET Marker, Clear(ms)
  PROVE  /\ LossesTyped'
         /\ epoch' = epoch
         /\ timer' = (timer /\ Snapshot(rooms, global)' # {})
         /\ Snapshot(rooms, global) = {} => Snapshot(rooms, global)' = {}
         /\ \A r \in Room \cup {None}, e \in Nat \ {0} : Pending(r, e) =>
              Pending(r, e)' \/ \E m \in ms : m.room \in {r, None} /\ m.epoch >= e
<1>1. /\ rooms' = [r \in Room |-> IF \E m \in ms : m.room = r /\ rooms[r] = m.epoch
                                  THEN 0 ELSE rooms[r]]
      /\ global' = IF \E m \in ms : m.room = None /\ global = m.epoch THEN 0 ELSE global
      /\ timer' = (timer /\ Snapshot(rooms, global)' # {})
      /\ epoch' = epoch
  BY DEF Clear, Same
<1>2. /\ rooms \in [Room -> 0..epoch] /\ global \in 0..epoch /\ epoch \in Nat
      /\ MaxPendingRooms \in Nat
      /\ IsFiniteSet(PendingRooms(rooms)) /\ Cardinality(PendingRooms(rooms)) <= MaxPendingRooms
      /\ global > 0 => rooms = NoRooms
  BY LimitAssumption DEF LossesTyped
<1>3. /\ rooms' \in [Room -> 0..epoch] /\ global' \in 0..epoch
      /\ \A r \in Room : rooms'[r] \in {0, rooms[r]}
      /\ global' \in {0, global}
  BY <1>1, <1>2
<1>4. PendingRooms(rooms') \in SUBSET PendingRooms(rooms)
  BY <1>2, <1>3 DEF PendingRooms
<1>5. IsFiniteSet(PendingRooms(rooms')) /\ Cardinality(PendingRooms(rooms')) <= MaxPendingRooms
  <2>1. /\ IsFiniteSet(PendingRooms(rooms'))
        /\ Cardinality(PendingRooms(rooms')) <= Cardinality(PendingRooms(rooms))
    BY <1>2, <1>4, FS_Subset
  <2>2. Cardinality(PendingRooms(rooms')) \in Nat /\ Cardinality(PendingRooms(rooms)) \in Nat
    BY <1>2, <2>1, FS_CardinalityType
  <2>. QED BY <1>2, <2>1, <2>2
<1>6. global' > 0 => rooms' = NoRooms
  <2>. SUFFICES ASSUME global' > 0 PROVE rooms' = NoRooms
    OBVIOUS
  <2>1. rooms = NoRooms
    BY <1>2, <1>3
  <2>. QED BY <1>1, <2>1 DEF NoRooms
<1>7. Snapshot(rooms, global) = {} => Snapshot(rooms, global)' = {}
  <2>. SUFFICES ASSUME Snapshot(rooms, global) = {} PROVE Snapshot(rooms', global') = {}
    OBVIOUS
  <2>1. ~(global > 0) /\ PendingRooms(rooms) = {}
    BY DEF Snapshot
  <2>2. ~(global' > 0) /\ PendingRooms(rooms') = {}
    BY <1>2, <1>3, <1>4, <2>1
  <2>. QED BY <2>2 DEF Snapshot
<1>8. ASSUME NEW r \in Room \cup {None}, NEW e \in Nat \ {0}, Pending(r, e)
      PROVE  Pending(r, e)' \/ \E m \in ms : m.room \in {r, None} /\ m.epoch >= e
  <2>1. CASE global >= e
    <3>1. CASE \E m \in ms : m.room = None /\ global = m.epoch
      BY <2>1, <3>1
    <3>2. CASE ~ \E m \in ms : m.room = None /\ global = m.epoch
      <4>1. global' = global
        BY <1>1, <3>2
      <4>2. global' >= e
        BY <2>1, <4>1
      <4>. QED BY <4>2 DEF Pending
    <3>. QED BY <3>1, <3>2
  <2>2. CASE r # None /\ rooms[r] >= e
    <3>0. r \in Room
      BY <2>2
    <3>1. CASE \E m \in ms : m.room = r /\ rooms[r] = m.epoch
      BY <2>2, <3>1
    <3>2. CASE ~ \E m \in ms : m.room = r /\ rooms[r] = m.epoch
      <4>1. rooms'[r] = rooms[r]
        BY <1>1, <3>0, <3>2
      <4>2. r # None /\ rooms'[r] >= e
        BY <2>2, <4>1
      <4>. QED BY <4>2 DEF Pending
    <3>. QED BY <3>1, <3>2
  <2>. QED BY <1>8, <2>1, <2>2 DEF Pending
<1>. QED BY <1>1, <1>2, <1>3, <1>5, <1>6, <1>7, <1>8 DEF LossesTyped

(* A snapshot has a marker for every pending loss.                         *)
LEMMA SnapshotAnnounces ==
  ASSUME LossesTyped, epoch <= MaxEvents
  PROVE  /\ Snapshot(rooms, global) \in SUBSET Marker
         /\ \A m \in Snapshot(rooms, global) : m.epoch <= epoch
         /\ \A r \in Room \cup {None}, e \in Nat \ {0} : Pending(r, e) =>
              \E m \in Snapshot(rooms, global) : m.room \in {r, None} /\ m.epoch >= e
<1>1. /\ rooms \in [Room -> 0..epoch] /\ global \in 0..epoch /\ epoch \in Nat /\ MaxEvents \in Nat
      /\ global > 0 => rooms = NoRooms
  BY BoundAssumption DEF LossesTyped
<1>2. CASE global > 0
  <2>1. Snapshot(rooms, global) = {[room |-> None, epoch |-> global]}
    BY <1>2 DEF Snapshot
  <2>2. \A r \in Room : rooms[r] = 0
    BY <1>1, <1>2 DEF NoRooms
  <2>3. ASSUME NEW r \in Room \cup {None}, NEW e \in Nat \ {0}, Pending(r, e)
        PROVE  global >= e
    BY <2>2, <2>3 DEF Pending
  <2>. QED BY <1>1, <1>2, <2>1, <2>3 DEF Marker
<1>3. CASE ~(global > 0)
  <2>1. Snapshot(rooms, global) = {[room |-> r, epoch |-> rooms[r]] : r \in PendingRooms(rooms)}
    BY <1>3 DEF Snapshot
  <2>2. \A r \in PendingRooms(rooms) : r \in Room /\ rooms[r] \in 1..epoch
    BY <1>1 DEF PendingRooms
  <2>3. ASSUME NEW r \in Room \cup {None}, NEW e \in Nat \ {0}, Pending(r, e)
        PROVE  \E m \in Snapshot(rooms, global) : m.room \in {r, None} /\ m.epoch >= e
    <3>1. r \in Room /\ rooms[r] >= e /\ rooms[r] \in Nat
      BY <1>1, <1>3, <2>3 DEF Pending
    <3>2. r \in PendingRooms(rooms)
      BY <3>1 DEF PendingRooms
    <3>3. [room |-> r, epoch |-> rooms[r]] \in Snapshot(rooms, global)
      BY <2>1, <3>2
    <3>. QED BY <3>1, <3>3
  <2>. QED BY <1>1, <2>1, <2>2, <2>3 DEF Marker
<1>. QED BY <1>2, <1>3

(* A delivered statement is heard, and nothing heard before is unheard.    *)
LEMMA DeliverHears ==
  ASSUME epoch \in Nat, heard \in [Room \cup {None} -> 0..epoch],
         NEW s, s.markers \in SUBSET Marker, \A m \in s.markers : m.epoch <= epoch,
         Deliver(s)
  PROVE  /\ heard' \in [Room \cup {None} -> 0..epoch]
         /\ \A r \in Room \cup {None} : heard'[r] >= heard[r]
         /\ \A m \in s.markers : heard'[m.room] >= m.epoch
<1>. DEFINE S(r) == {heard[r]} \cup {m.epoch : m \in {k \in s.markers : k.room = r}}
<1>1. heard' = [r \in Room \cup {None} |-> Max(S(r))]
  BY DEF Deliver
<1>2. \A m \in s.markers : m.room \in Room \cup {None} /\ m.epoch \in 0..epoch
  BY BoundAssumption DEF Marker
<1>3. \A r \in Room \cup {None} : S(r) \in SUBSET (0..epoch) /\ S(r) # {}
  BY <1>2
<1>4. \A r \in Room \cup {None} : Max(S(r)) \in S(r) /\ \A x \in S(r) : Max(S(r)) >= x
  <2>. HIDE DEF S
  <2>. QED BY <1>3, LargestOf
<1>5. \A r \in Room \cup {None} : Max(S(r)) \in 0..epoch
  <2>. HIDE DEF S
  <2>. QED BY <1>3, <1>4
<1>6. \A r \in Room \cup {None} : heard[r] \in S(r)
  OBVIOUS
<1>7. \A m \in s.markers : m.epoch \in S(m.room)
  OBVIOUS
<1>. HIDE DEF S
<1>. QED BY <1>1, <1>2, <1>4, <1>5, <1>6, <1>7

-----------------------------------------------------------------------------
(* The losses of events.                                                   *)

(* The record of an event whose loss, if any, is one of the first n.       *)
EventUpTo(n) == [room : Room \cup {None}, lost : 0..n]

(* What the invariant says of the events, what is pending and what has been*)
(* heard.                                                                  *)
LossSide ==
  /\ LossesTyped
  /\ event \in Seq(EventUpTo(epoch))
  /\ Len(event) <= MaxEvents
  /\ epoch = Cardinality({i \in 1..Len(event) : Lost(i)})
  /\ heard \in [Room \cup {None} -> 0..epoch]
  /\ NoLossForgotten

(* There are no more losses than events.                                   *)
LEMMA EpochIsBounded ==
  ASSUME LossSide
  PROVE  epoch \in Nat /\ epoch <= Len(event) /\ epoch <= MaxEvents
<1>. DEFINE L == {i \in 1..Len(event) : Lost(i)}
<1>1. Len(event) \in Nat /\ MaxEvents \in Nat /\ Len(event) <= MaxEvents /\ epoch \in Nat
  BY BoundAssumption DEF LossSide, LossesTyped
<1>2. L \in SUBSET (1..Len(event))
  OBVIOUS
<1>3. IsFiniteSet(1..Len(event)) /\ Cardinality(1..Len(event)) = Len(event)
  <2>1. PICK n \in Nat : n = Len(event)
    BY <1>1
  <2>2. IsFiniteSet(1..n) /\ Cardinality(1..n) = n
    BY FS_Interval
  <2>. QED BY <2>1, <2>2
<1>4. Cardinality(L) <= Len(event)
  <2>. HIDE DEF L
  <2>. QED BY <1>2, <1>3, FS_Subset
<1>5. epoch = Cardinality(L)
  BY DEF LossSide
<1>. QED BY <1>1, <1>4, <1>5

(* NoLossForgotten in the terms of these lemmas.                           *)
LEMMA ForgottenMeans ==
  ASSUME LossSide
  PROVE  \A i \in 1..Len(event) : Lost(i) => Covered(i, heard) \/ Pending(event[i].room, event[i].lost)
BY DEF LossSide, NoLossForgotten, Pending

(* An event w, an old one or the next, is lost.                            *)
LEMMA LossIsKept ==
  ASSUME LossSide, NEW w \in 1..Len(event'),
         event' \in Seq(EventUpTo(epoch + 1)),
         Len(event') <= MaxEvents, Len(event) <= Len(event'),
         \A i \in 1..Len(event') : i # w => i \in 1..Len(event) /\ event'[i] = event[i],
         event'[w].lost = epoch + 1,
         w \in 1..Len(event) => ~Lost(w),
         Report(event'[w].room),
         heard' = heard
  PROVE  LossSide'
<1>. DEFINE L == {i \in 1..Len(event) : Lost(i)}
            M == {i \in 1..Len(event') : event'[i].lost > 0}
<1>1. /\ LossesTyped /\ epoch \in Nat /\ Len(event) \in Nat /\ Len(event') \in Nat
      /\ event \in Seq(EventUpTo(epoch))
      /\ heard \in [Room \cup {None} -> 0..epoch]
  BY DEF LossSide, LossesTyped
<1>2. PICK room \in Room \cup {None} : room = event'[w].room
  <2>1. event'[w] \in EventUpTo(epoch + 1)
    BY <1>1
  <2>. QED BY <2>1 DEF EventUpTo
<1>3. /\ LossesTyped'
      /\ epoch' = epoch + 1
      /\ Pending(room, epoch)'
      /\ \A r \in Room \cup {None}, e \in 1..epoch : Pending(r, e) => Pending(r, e)'
  <2>1. Report(room)
    BY <1>2
  <2>. QED BY <1>1, <2>1, QueueLossKeeps
<1>4. M = L \cup {w} /\ w \notin L
  <2>1. w \in M
    BY <1>1
  <2>2. \A i \in 1..Len(event') : i # w => (i \in M <=> i \in L)
    BY DEF Lost
  <2>3. L \subseteq 1..Len(event')
    BY <1>1
  <2>. QED BY <2>1, <2>2, <2>3
<1>5. epoch' = Cardinality(M)
  <2>1. IsFiniteSet(L)
    <3>1. IsFiniteSet(1..Len(event)) /\ L \in SUBSET (1..Len(event))
      BY <1>1, FS_Interval
    <3>. HIDE DEF L
    <3>. QED BY <3>1, FS_Subset
  <2>2. Cardinality(L) = epoch
    BY DEF LossSide
  <2>. HIDE DEF L, M
  <2>3. Cardinality(L \cup {w}) = Cardinality(L) + 1
    BY <1>4, <2>1, FS_AddElement
  <2>. QED BY <1>3, <1>4, <2>2, <2>3
<1>6. heard' \in [Room \cup {None} -> 0..epoch']
  BY <1>1, <1>3
<1>7. ASSUME NEW i \in 1..Len(event'), event'[i].lost > 0
      PROVE  \/ Covered(i, heard)'
             \/ \E r \in Room \cup {None}, e \in 1..epoch + 1 :
                  r = event'[i].room /\ e = event'[i].lost /\ Pending(r, e)'
  <2>1. CASE i = w
    <3>1. event'[i].room = room /\ event'[i].lost = epoch + 1 /\ epoch + 1 \in 1..epoch + 1
      BY <1>1, <1>2, <2>1
    <3>2. PICK e \in 1..epoch + 1 : e = epoch + 1
      BY <3>1
    <3>3. Pending(room, e)'
      BY <1>3, <3>2 DEF Pending
    <3>. QED BY <3>1, <3>2, <3>3
  <2>2. CASE i # w
    <3>1. /\ i \in 1..Len(event) /\ event'[i] = event[i] /\ Lost(i)
          /\ event[i].room \in Room \cup {None} /\ event[i].lost \in 1..epoch
      <4>1. i \in 1..Len(event) /\ event'[i] = event[i] /\ event[i] \in EventUpTo(epoch)
        BY <1>1, <2>2
      <4>. QED BY <1>1, <1>7, <4>1 DEF Lost, EventUpTo
    <3>2. CASE Covered(i, heard)
      BY <3>1, <3>2 DEF Covered
    <3>3. CASE Pending(event[i].room, event[i].lost)
      <4>1. PICK r \in Room \cup {None}, e \in 1..epoch : r = event[i].room /\ e = event[i].lost
        BY <3>1
      <4>2. Pending(r, e)'
        BY <1>3, <3>3, <4>1
      <4>3. e \in 1..epoch + 1 /\ r = event'[i].room /\ e = event'[i].lost
        BY <1>1, <3>1, <4>1
      <4>. QED BY <4>2, <4>3
    <3>. QED BY <3>1, <3>2, <3>3, ForgottenMeans
  <2>. QED BY <2>1, <2>2
<1>8. NoLossForgotten'
  <2>. SUFFICES ASSUME NEW i \in 1..Len(event'), Lost(i)', ~ Covered(i, heard)'
                PROVE  \/ global' >= event'[i].lost
                       \/ event'[i].room # None /\ rooms'[event'[i].room] >= event'[i].lost
    BY DEF NoLossForgotten
  <2>1. PICK r \in Room \cup {None}, e \in 1..epoch + 1 :
           r = event'[i].room /\ e = event'[i].lost /\ Pending(r, e)'
    BY <1>7 DEF Lost
  <2>. QED BY <2>1 DEF Pending
<1>. QED BY <1>1, <1>3, <1>5, <1>6, <1>8 DEF LossSide, Lost

(* An event joins that is not lost.                                        *)
LEMMA EmitKeepsLosses ==
  ASSUME LossSide, NEW room \in Room \cup {None}, Len(event) < MaxEvents,
         event' = Append(event, [room |-> room, lost |-> 0]),
         epoch' = epoch, rooms' = rooms, global' = global, heard' = heard
  PROVE  LossSide'
<1>1. /\ LossesTyped /\ epoch \in Nat /\ Len(event) \in Nat /\ MaxEvents \in Nat
      /\ event \in Seq(EventUpTo(epoch))
      /\ heard \in [Room \cup {None} -> 0..epoch]
  BY BoundAssumption DEF LossSide, LossesTyped
<1>2. [room |-> room, lost |-> 0] \in EventUpTo(epoch)
  BY <1>1 DEF EventUpTo
<1>3. /\ event' \in Seq(EventUpTo(epoch))
      /\ Len(event') = Len(event) + 1
      /\ \A i \in 1..Len(event) : event'[i] = event[i]
      /\ event'[Len(event) + 1].lost = 0
  BY <1>1, <1>2
<1>4. \A i \in 1..Len(event') :
        event'[i].lost > 0 => i \in 1..Len(event) /\ event'[i] = event[i] /\ Lost(i)
  BY <1>1, <1>3 DEF Lost
<1>5. {i \in 1..Len(event') : event'[i].lost > 0} = {i \in 1..Len(event) : Lost(i)}
  BY <1>1, <1>3 DEF Lost
<1>6. NoLossForgotten'
  BY <1>4 DEF LossSide, NoLossForgotten, Covered, Lost
<1>7. LossesTyped' /\ Len(event') <= MaxEvents
  BY <1>1, <1>3 DEF LossesTyped
<1>8. epoch' = Cardinality({i \in 1..Len(event') : event'[i].lost > 0})
  BY <1>5 DEF LossSide
<1>. QED BY <1>1, <1>3, <1>6, <1>7, <1>8 DEF LossSide, Lost

(* What was delivered is cleared.                                          *)
LEMMA ClearKeepsLosses ==
  ASSUME LossSide, NEW ms \in SUBSET Marker, Clear(ms),
         \A m \in ms : heard[m.room] >= m.epoch,
         event' = event, heard' = heard
  PROVE  LossSide'
<1>1. /\ LossesTyped /\ epoch \in Nat
      /\ event \in Seq(EventUpTo(epoch))
      /\ heard \in [Room \cup {None} -> 0..epoch]
  BY DEF LossSide, LossesTyped
<1>2. /\ LossesTyped'
      /\ epoch' = epoch
      /\ \A r \in Room \cup {None}, e \in Nat \ {0} : Pending(r, e) =>
           Pending(r, e)' \/ \E m \in ms : m.room \in {r, None} /\ m.epoch >= e
  BY <1>1, ClearKeeps
<1>3. ASSUME NEW i \in 1..Len(event), Lost(i), ~ Covered(i, heard)
      PROVE  Pending(event[i].room, event[i].lost)'
  <2>1. event[i] \in EventUpTo(epoch)
    BY <1>1
  <2>2. PICK r \in Room \cup {None}, e \in Nat \ {0} : r = event[i].room /\ e = event[i].lost
    BY <1>1, <1>3, <2>1 DEF EventUpTo, Lost
  <2>3. Pending(r, e)
    BY <1>3, <2>2, ForgottenMeans
  <2>4. ASSUME NEW m \in ms, m.room \in {r, None}, m.epoch >= e
        PROVE  FALSE
    <3>1. m.room \in Room \cup {None} /\ m.epoch \in Nat
      BY BoundAssumption DEF Marker
    <3>2. heard[m.room] >= m.epoch /\ heard[m.room] \in Nat
      BY <1>1, <3>1
    <3>3. heard[m.room] >= e
      BY <2>4, <3>1, <3>2
    <3>. QED BY <1>3, <2>2, <2>4, <3>3 DEF Covered
  <2>5. Pending(r, e)'
    BY <1>2, <2>3, <2>4
  <2>6. event'[i] = event[i]
    OBVIOUS
  <2>. QED BY <2>2, <2>5, <2>6 DEF Pending
<1>4. NoLossForgotten'
  BY <1>3 DEF NoLossForgotten, Pending, Lost, Covered
<1>. QED BY <1>1, <1>2, <1>4 DEF LossSide, Lost

(* More is heard, or nothing changes.                                      *)
LEMMA HeardKeepsLosses ==
  ASSUME LossSide, event' = event, epoch' = epoch, rooms' = rooms, global' = global,
         heard' \in [Room \cup {None} -> 0..epoch],
         \A r \in Room \cup {None} : heard'[r] >= heard[r]
  PROVE  LossSide'
<1>1. /\ LossesTyped /\ epoch \in Nat
      /\ event \in Seq(EventUpTo(epoch))
      /\ heard \in [Room \cup {None} -> 0..epoch]
  BY DEF LossSide, LossesTyped
<1>2. LossesTyped'
  BY <1>1 DEF LossesTyped
<1>3. ASSUME NEW i \in 1..Len(event), Lost(i), Covered(i, heard)
      PROVE  Covered(i, heard)'
  <2>1. event[i] \in EventUpTo(epoch)
    BY <1>1
  <2>2. PICK r \in {event[i].room, None} : heard[r] >= event[i].lost
    BY <1>3 DEF Covered
  <2>3. r \in Room \cup {None} /\ event[i].lost \in Nat
    BY <1>1, <2>1, <2>2 DEF EventUpTo
  <2>4. heard'[r] >= heard[r] /\ heard'[r] \in Nat /\ heard[r] \in Nat
    BY <1>1, <2>3
  <2>5. heard'[r] >= event[i].lost
    BY <2>2, <2>3, <2>4
  <2>. QED BY <2>2, <2>5 DEF Covered
<1>4. NoLossForgotten'
  BY <1>3 DEF LossSide, NoLossForgotten, Lost
<1>. QED BY <1>1, <1>2, <1>4 DEF LossSide, Lost

-----------------------------------------------------------------------------
(* The queue, the slot and the microtasks.                                 *)

(* A microtask about an event up to n.                                     *)
TaskUpTo(n) == [do : {"report", "reschedule", "free"}, work : 0..n]

(* What the invariant says of where the events are.                        *)
SlotSide ==
  /\ Len(event) \in Nat
  /\ queue \in Seq(0..Len(event))
  /\ Len(queue) <= MaxQueued
  /\ running # None => running \in Publication
  /\ micro \in Seq(TaskUpTo(Len(event)))
  /\ got \subseteq 1..Len(event)
  /\ SlotKept
  /\ HeldBack
  /\ InOrder
  /\ Fates

(* A work joins the queue.                                                 *)
LEMMA QueueGrows ==
  ASSUME NEW S, queue \in Seq(S), NEW w \in S, queue' = Append(queue, w)
  PROVE  /\ queue' \in Seq(S)
         /\ Len(queue') = Len(queue) + 1
         /\ \A k \in 1..Len(queue') : queue'[k] = IF k <= Len(queue) THEN queue[k] ELSE w
         /\ \A i : Queued(i)' <=> Queued(i) \/ i = w
<1>1. /\ queue' \in Seq(S) /\ Len(queue) \in Nat
      /\ Len(queue') = Len(queue) + 1
      /\ \A k \in 1..Len(queue') : queue'[k] = IF k <= Len(queue) THEN queue[k] ELSE w
  OBVIOUS
<1>2. ASSUME NEW i PROVE Queued(i)' <=> Queued(i) \/ i = w
  <2>1. ASSUME Queued(i)' PROVE Queued(i) \/ i = w
    BY <1>1, <2>1 DEF Queued
  <2>2. ASSUME Queued(i) PROVE Queued(i)'
    BY <1>1, <2>2 DEF Queued
  <2>3. ASSUME i = w PROVE Queued(i)'
    <3>1. Len(queue) + 1 \in 1..Len(queue') /\ queue'[Len(queue) + 1] = w
      BY <1>1
    <3>. QED BY <2>3, <3>1 DEF Queued
  <2>. QED BY <2>1, <2>2, <2>3
<1>. QED BY <1>1, <1>2

(* The head leaves the queue.                                              *)
LEMMA QueueShifts ==
  ASSUME NEW S, queue \in Seq(S), queue # <<>>, queue' = Tail(queue)
  PROVE  /\ queue' \in Seq(S)
         /\ Len(queue') = Len(queue) - 1
         /\ \A k \in 1..Len(queue') : queue'[k] = queue[k + 1] /\ k + 1 \in 1..Len(queue)
         /\ Head(queue) = queue[1] /\ 1 \in 1..Len(queue) /\ Head(queue) \in S
         /\ \A i : Queued(i) <=> Queued(i)' \/ i = Head(queue)
<1>1. /\ queue' \in Seq(S) /\ Len(queue) \in Nat
      /\ Len(queue') = Len(queue) - 1
      /\ \A k \in 1..Len(queue') : queue'[k] = queue[k + 1] /\ k + 1 \in 1..Len(queue)
      /\ Head(queue) = queue[1] /\ 1 \in 1..Len(queue) /\ Head(queue) \in S
  OBVIOUS
<1>2. ASSUME NEW i PROVE Queued(i) <=> Queued(i)' \/ i = Head(queue)
  <2>1. ASSUME NEW k \in 1..Len(queue), queue[k] = i PROVE Queued(i)' \/ i = Head(queue)
    <3>1. CASE k = 1
      BY <1>1, <2>1, <3>1
    <3>2. CASE k # 1
      <4>1. k - 1 \in 1..Len(queue') /\ (k - 1) + 1 = k
        BY <1>1, <3>2
      <4>2. queue'[k - 1] = i
        BY <1>1, <2>1, <4>1
      <4>. QED BY <4>1, <4>2 DEF Queued
    <3>. QED BY <3>1, <3>2
  <2>2. ASSUME Queued(i)' PROVE Queued(i)
    BY <1>1, <2>2 DEF Queued
  <2>3. ASSUME i = Head(queue) PROVE Queued(i)
    BY <1>1, <2>3 DEF Queued
  <2>. QED BY <2>1, <2>2, <2>3 DEF Queued
<1>. QED BY <1>1, <1>2

(* r is q without its k-th member: each member of r is another one of q,   *)
(* and in the same order.                                                  *)
IsWithout(r, q, k) ==
  /\ Len(r) = Len(q) - 1
  /\ \A i \in 1..Len(q) - 1 : r[i] = IF i < k THEN q[i] ELSE q[i + 1]
  /\ \A a \in 1..Len(r) : \E x \in 1..Len(q) : x # k /\ r[a] = q[x]
  /\ \A a, b \in 1..Len(r) : a < b =>
       \E x, y \in 1..Len(q) : x < y /\ r[a] = q[x] /\ r[b] = q[y]

(* A call leaves the queue from its middle.                                *)
LEMMA WithoutOne ==
  ASSUME NEW S, NEW q \in Seq(S), NEW k \in 1..Len(q), NEW r,
         r = SubSeq(q, 1, k - 1) \o SubSeq(q, k + 1, Len(q))
  PROVE  r \in Seq(S) /\ IsWithout(r, q, k)
<1>1. Len(q) \in Nat /\ k \in Nat /\ k >= 1 /\ k <= Len(q)
  OBVIOUS
<1>. DEFINE s == SubSeq(q, 1, k - 1)
            t == SubSeq(q, k + 1, Len(q))
<1>2. /\ s \in Seq(S) /\ Len(s) = k - 1
      /\ t \in Seq(S) /\ Len(t) = Len(q) - k
      /\ \A i \in 1..k - 1 : s[i] = q[i]
      /\ \A i \in 1..Len(q) - k : t[i] = q[k + i]
  BY <1>1
<1>3. r = s \o t
  OBVIOUS
<1>4. \A a, b \in Seq(S) :
        /\ a \o b \in Seq(S)
        /\ Len(a \o b) = Len(a) + Len(b)
        /\ \A i \in 1..Len(a) + Len(b) :
             (a \o b)[i] = IF i <= Len(a) THEN a[i] ELSE b[i - Len(a)]
  OBVIOUS
<1>. HIDE DEF s, t
<1>5. Len(s) + Len(t) = Len(q) - 1
  BY <1>1, <1>2
<1>6. /\ r \in Seq(S) /\ Len(r) = Len(q) - 1
      /\ \A i \in 1..Len(q) - 1 : r[i] = IF i <= k - 1 THEN s[i] ELSE t[i - (k - 1)]
  <2>1. /\ s \o t \in Seq(S)
        /\ Len(s \o t) = Len(s) + Len(t)
        /\ \A i \in 1..Len(s) + Len(t) :
             (s \o t)[i] = IF i <= Len(s) THEN s[i] ELSE t[i - Len(s)]
    BY <1>2, <1>4, Zenon
  <2>2. Len(s) = k - 1
    BY <1>2
  <2>. QED BY <1>3, <1>5, <2>1, <2>2, Zenon
<1>7. ASSUME NEW i \in 1..Len(q) - 1
      PROVE  r[i] = IF i < k THEN q[i] ELSE q[i + 1]
  <2>1. CASE i < k
    <3>1. i <= k - 1 /\ i \in 1..k - 1
      BY <1>1, <2>1
    <3>. QED BY <1>2, <1>6, <2>1, <3>1
  <2>2. CASE ~(i < k)
    <3>1. ~(i <= k - 1) /\ i - (k - 1) \in 1..Len(q) - k /\ k + (i - (k - 1)) = i + 1
      BY <1>1, <2>2
    <3>. QED BY <1>2, <1>6, <2>2, <3>1
  <2>. QED BY <2>1, <2>2
<1>. DEFINE At(i) == IF i < k THEN i ELSE i + 1
<1>8. \A i \in 1..Len(q) - 1 : At(i) \in 1..Len(q) /\ At(i) # k /\ r[i] = q[At(i)]
  <2>1. \A i \in 1..Len(q) - 1 : At(i) \in 1..Len(q) /\ At(i) # k
    BY <1>1
  <2>2. \A i \in 1..Len(q) - 1 : r[i] = q[At(i)]
    BY <1>7
  <2>. QED BY <2>1, <2>2
<1>9. \A a, b \in 1..Len(q) - 1 : a < b => At(a) < At(b)
  BY <1>1
<1>. HIDE DEF At
<1>10. Len(r) = Len(q) - 1
  BY <1>6
<1>11. \A a \in 1..Len(r) : \E x \in 1..Len(q) : x # k /\ r[a] = q[x]
  BY <1>8, <1>10
<1>12. \A a, b \in 1..Len(r) : a < b =>
         \E x, y \in 1..Len(q) : x < y /\ r[a] = q[x] /\ r[b] = q[y]
  <2>. SUFFICES ASSUME NEW a \in 1..Len(r), NEW b \in 1..Len(r), a < b
                PROVE  \E x, y \in 1..Len(q) : x < y /\ r[a] = q[x] /\ r[b] = q[y]
    OBVIOUS
  <2>1. a \in 1..Len(q) - 1 /\ b \in 1..Len(q) - 1
    BY <1>10
  <2>. QED BY <1>8, <1>9, <2>1
<1>. QED BY <1>6, <1>7, <1>11, <1>12, Zenon DEF IsWithout

(* What that means for who is queued.                                      *)
LEMMA QueueLeaves ==
  ASSUME NEW k \in 1..Len(queue), Len(queue) \in Nat, Len(queue') = Len(queue) - 1,
         \A i \in 1..Len(queue) - 1 : queue'[i] = IF i < k THEN queue[i] ELSE queue[i + 1]
  PROVE  /\ \A i : Queued(i)' => Queued(i)
         /\ \A i : Queued(i) => Queued(i)' \/ i = queue[k]
<1>1. ASSUME NEW i, NEW l \in 1..Len(queue), queue[l] = i PROVE Queued(i)' \/ i = queue[k]
  <2>1. CASE l < k
    <3>1. l \in 1..Len(queue') /\ queue'[l] = i
      BY <1>1, <2>1
    <3>. QED BY <3>1 DEF Queued
  <2>2. CASE l > k
    <3>1. l - 1 \in 1..Len(queue') /\ ~(l - 1 < k) /\ (l - 1) + 1 = l
      BY <2>2
    <3>2. queue'[l - 1] = i
      BY <1>1, <3>1
    <3>. QED BY <3>1, <3>2 DEF Queued
  <2>. QED BY <1>1, <2>1, <2>2
<1>2. ASSUME NEW i, Queued(i)' PROVE Queued(i)
  <2>1. PICK l \in 1..Len(queue') : queue'[l] = i
    BY <1>2 DEF Queued
  <2>2. l \in 1..Len(queue) /\ l + 1 \in 1..Len(queue) /\ (queue[l] = i \/ queue[l + 1] = i)
    BY <2>1
  <2>. QED BY <2>2 DEF Queued
<1>. QED BY <1>1, <1>2 DEF Queued

(* A callback more is appended.                                            *)
LEMMA AppendOne ==
  ASSUME NEW S, NEW q \in Seq(S), NEW T, NEW c \in T
  PROVE  /\ q \o <<c>> = Append(q, c)
         /\ \A p \in 1..Len(q) : p \in 1..Len(Append(q, c)) /\ Append(q, c)[p] = q[p]
         /\ Append(q, c) # <<>>
<1>1. q \in Seq(S \cup T) /\ c \in S \cup T /\ <<c>> \in Seq(S \cup T)
  OBVIOUS
<1>2. PICK U : U = S \cup T
  OBVIOUS
<1>3. q \in Seq(U) /\ c \in U /\ <<c>> \in Seq(U)
  BY <1>1, <1>2
<1>4. q \o <<c>> \in Seq(U) /\ Append(q, c) \in Seq(U)
  BY <1>3
<1>5. Len(q \o <<c>>) = Len(q) + 1 /\ Len(Append(q, c)) = Len(q) + 1 /\ Len(q) \in Nat
  BY <1>3
<1>6. \A p \in 1..Len(q) + 1 : (q \o <<c>>)[p] = Append(q, c)[p]
  BY <1>3
<1>7. q \o <<c>> = Append(q, c)
  BY <1>4, <1>5, <1>6
<1>8. \A p \in 1..Len(q) : p \in 1..Len(Append(q, c)) /\ Append(q, c)[p] = q[p]
  BY <1>3
<1>. QED BY <1>5, <1>7, <1>8

(* It joins the microtasks.                                                *)
LEMMA TaskJoins ==
  ASSUME NEW S, micro \in Seq(S), NEW c \in S, micro' = Append(micro, c)
  PROVE  /\ micro' \in Seq(S)
         /\ Len(micro) \in Nat /\ Len(micro') = Len(micro) + 1
         /\ \A p \in 1..Len(micro') : micro'[p] = IF p <= Len(micro) THEN micro[p] ELSE c
         /\ \A i : Due(i)' <=> Due(i) \/ (c.do = "report" /\ c.work = i)
<1>1. /\ micro' \in Seq(S) /\ Len(micro) \in Nat
      /\ Len(micro') = Len(micro) + 1
      /\ \A p \in 1..Len(micro') : micro'[p] = IF p <= Len(micro) THEN micro[p] ELSE c
  OBVIOUS
<1>2. ASSUME NEW i PROVE Due(i)' <=> Due(i) \/ (c.do = "report" /\ c.work = i)
  <2>1. ASSUME Due(i)' PROVE Due(i) \/ (c.do = "report" /\ c.work = i)
    BY <1>1, <2>1 DEF Due
  <2>2. ASSUME Due(i) PROVE Due(i)'
    BY <1>1, <2>2 DEF Due
  <2>3. ASSUME c.do = "report" /\ c.work = i PROVE Due(i)'
    <3>1. Len(micro) + 1 \in 1..Len(micro') /\ micro'[Len(micro) + 1] = c
      BY <1>1
    <3>. QED BY <2>3, <3>1 DEF Due
  <2>. QED BY <2>1, <2>2, <2>3
<1>. QED BY <1>1, <1>2

(* The oldest microtask leaves.                                            *)
LEMMA TaskRuns ==
  ASSUME NEW S, micro \in Seq(S), micro # <<>>, micro' = Tail(micro)
  PROVE  /\ micro' \in Seq(S)
         /\ Len(micro) \in Nat /\ Len(micro') = Len(micro) - 1
         /\ \A p \in 1..Len(micro') : micro'[p] = micro[p + 1] /\ p + 1 \in 1..Len(micro)
         /\ Head(micro) = micro[1] /\ 1 \in 1..Len(micro) /\ Head(micro) \in S
         /\ \A i : Due(i) <=> Due(i)' \/ (Head(micro).do = "report" /\ Head(micro).work = i)
<1>1. /\ micro' \in Seq(S) /\ Len(micro) \in Nat
      /\ Len(micro') = Len(micro) - 1
      /\ \A p \in 1..Len(micro') : micro'[p] = micro[p + 1] /\ p + 1 \in 1..Len(micro)
      /\ Head(micro) = micro[1] /\ 1 \in 1..Len(micro) /\ Head(micro) \in S
  OBVIOUS
<1>2. ASSUME NEW i
      PROVE  Due(i) <=> Due(i)' \/ (Head(micro).do = "report" /\ Head(micro).work = i)
  <2>1. ASSUME NEW p \in 1..Len(micro), micro[p].do = "report", micro[p].work = i
        PROVE  Due(i)' \/ (Head(micro).do = "report" /\ Head(micro).work = i)
    <3>1. CASE p = 1
      BY <1>1, <2>1, <3>1
    <3>2. CASE p # 1
      <4>1. p - 1 \in 1..Len(micro') /\ (p - 1) + 1 = p
        BY <1>1, <3>2
      <4>2. micro'[p - 1] = micro[p]
        BY <1>1, <4>1
      <4>. QED BY <2>1, <4>1, <4>2 DEF Due
    <3>. QED BY <3>1, <3>2
  <2>2. ASSUME Due(i)' PROVE Due(i)
    BY <1>1, <2>2 DEF Due
  <2>3. ASSUME Head(micro).do = "report" /\ Head(micro).work = i PROVE Due(i)
    BY <1>1, <2>3 DEF Due
  <2>. QED BY <2>1, <2>2, <2>3 DEF Due
<1>. QED BY <1>1, <1>2

(* Where the events are, event by event.                                   *)
LEMMA SlotFacts ==
  ASSUME SlotSide
  PROVE  /\ Len(event) \in Nat /\ Len(queue) \in Nat /\ Len(micro) \in Nat
         /\ MaxQueued \in Nat /\ MaxQueued >= 1
         /\ \A k \in 1..Len(queue) : queue[k] \in 0..Len(event)
         /\ \A p \in 1..Len(micro) : micro[p] \in TaskUpTo(Len(event)) /\ micro[p].work \in 0..Len(event)
         /\ Unsettled => running \in Publication
         /\ Unsettled => running.work \in 0..Len(event)
         /\ \A n : n = Len(event) + 1 => ~Queued(n) /\ ~Due(n) /\ ~InSlot(n)
<1>1. /\ Len(event) \in Nat /\ Len(queue) \in Nat /\ Len(micro) \in Nat
      /\ MaxQueued \in Nat /\ MaxQueued >= 1
      /\ \A k \in 1..Len(queue) : queue[k] \in 0..Len(event)
      /\ \A p \in 1..Len(micro) : micro[p] \in TaskUpTo(Len(event))
  BY LimitAssumption DEF SlotSide
<1>2. \A p \in 1..Len(micro) : micro[p].work \in 0..Len(event)
  BY <1>1 DEF TaskUpTo
<1>3. Unsettled => running \in Publication
  BY DEF SlotSide, Unsettled
<1>4. Unsettled => running.work \in 0..Len(event)
  BY DEF SlotSide, Fates
<1>. QED BY <1>1, <1>2, <1>3, <1>4 DEF Queued, Due, InSlot

(* An event that is a loss at once.                                        *)
LEMMA DropKeepsSlot ==
  ASSUME SlotSide, NEW n, n = Len(event) + 1, Len(event') = n, event'[n].lost > 0,
         \A i \in 1..Len(event) : Lost(i)' <=> Lost(i),
         queue' = queue, running' = running, micro' = micro, got' = got
  PROVE  SlotSide'
<1>1. /\ Len(event) \in Nat /\ n \in Nat
      /\ \A k \in 1..Len(queue) : queue[k] \in 0..Len(event)
      /\ \A p \in 1..Len(micro) : micro[p].work \in 0..Len(event)
  BY SlotFacts
<1>2. queue \in Seq(0..Len(event)) /\ micro \in Seq(TaskUpTo(Len(event)))
  BY DEF SlotSide
<1>3. queue' \in Seq(0..n) /\ micro' \in Seq(TaskUpTo(n))
  <2>1. 0..Len(event) \subseteq 0..n /\ TaskUpTo(Len(event)) \subseteq TaskUpTo(n)
    BY <1>1 DEF TaskUpTo
  <2>. QED BY <1>2, <2>1
<1>4. SlotKept' /\ HeldBack' /\ InOrder'
  BY DEF SlotSide, SlotKept, HeldBack, InOrder, Unsettled
<1>5. Fates'
  <2>1. \A i : (Queued(i)' <=> Queued(i)) /\ (Due(i)' <=> Due(i)) /\ (InSlot(i)' <=> InSlot(i))
    BY DEF Queued, Due, InSlot, Unsettled
  <2>2. Lost(n)' /\ ~Queued(n) /\ ~Due(n) /\ ~InSlot(n)
    BY SlotFacts DEF Lost
  <2>3. \A i \in 1..n : FateOf(i)'
    BY <1>1, <2>1, <2>2 DEF SlotSide, Fates, FateOf
  <2>4. (Unsettled => running.work \in 0..Len(event))'
    BY <1>1 DEF SlotSide, Fates, Unsettled
  <2>. QED BY <1>1, <2>3, <2>4 DEF SlotSide, Fates
<1>. QED BY <1>1, <1>3, <1>4, <1>5 DEF SlotSide

(* An event that is refused: its report joins the microtasks.              *)
LEMMA RefusalKeepsSlot ==
  ASSUME SlotSide, NEW n, n = Len(event) + 1, Len(event') = n, ~(event'[n].lost > 0),
         \A i \in 1..Len(event) : Lost(i)' <=> Lost(i),
         Refused,
         micro' = Append(micro, [do |-> "report", work |-> n]),
         queue' = queue, running' = running, got' = got
  PROVE  SlotSide'
<1>. DEFINE c == [do |-> "report", work |-> n]
<1>1. /\ Len(event) \in Nat /\ n \in Nat /\ Len(queue) \in Nat
      /\ \A k \in 1..Len(queue) : queue[k] \in 0..Len(event)
      /\ \A p \in 1..Len(micro) : micro[p].work \in 0..Len(event)
      /\ ~Queued(n) /\ ~Due(n) /\ ~InSlot(n)
  BY SlotFacts
<1>2. queue \in Seq(0..Len(event)) /\ micro \in Seq(TaskUpTo(Len(event)))
  BY DEF SlotSide
<1>3. queue' \in Seq(0..n) /\ micro \in Seq(TaskUpTo(n)) /\ c \in TaskUpTo(n)
  <2>1. 0..Len(event) \subseteq 0..n /\ TaskUpTo(Len(event)) \subseteq TaskUpTo(n)
    BY <1>1 DEF TaskUpTo
  <2>2. c \in TaskUpTo(n)
    BY <1>1 DEF TaskUpTo
  <2>. HIDE DEF c
  <2>. QED BY <1>2, <2>1, <2>2
<1>4. /\ micro' \in Seq(TaskUpTo(n)) /\ Len(micro) \in Nat /\ Len(micro') = Len(micro) + 1
      /\ \A p \in 1..Len(micro') : micro'[p] = IF p <= Len(micro) THEN micro[p] ELSE c
      /\ \A i : Due(i)' <=> Due(i) \/ (c.do = "report" /\ c.work = i)
  BY <1>3, TaskJoins
<1>5. c.do = "report" /\ c.work = n
  OBVIOUS
<1>. HIDE DEF c
<1>6. running # None /\ Len(queue) >= MaxQueued
  BY DEF Refused
<1>7. SlotKept' /\ InOrder'
  <2>1. \A p \in 1..Len(micro') : micro'[p].do = "free" => p \in 1..Len(micro) /\ micro[p].do = "free"
    BY <1>4, <1>5
  <2>2. SlotKept'
    BY <1>6, <2>1, <1>4 DEF SlotSide, SlotKept, Unsettled
  <2>3. InOrder'
    BY DEF SlotSide, InOrder, Unsettled
  <2>. QED BY <2>2, <2>3
<1>8. HeldBack'
  BY <1>1, <1>4, <1>5, <1>6 DEF SlotSide, HeldBack
<1>9. Fates'
  <2>1. \A i : /\ Queued(i)' <=> Queued(i)
               /\ Due(i)' <=> Due(i) \/ i = n
               /\ InSlot(i)' <=> InSlot(i)
    BY <1>4, <1>5 DEF Queued, InSlot, Unsettled
  <2>2. ~Lost(n)' /\ ~Queued(n) /\ ~InSlot(n)
    BY SlotFacts DEF Lost
  <2>3. \A i \in 1..n : FateOf(i)'
    BY <1>1, <2>1, <2>2 DEF SlotSide, Fates, FateOf
  <2>4. \A p \in 1..Len(micro') : micro'[p].do = "report" => micro'[p].work # Flush
    BY <1>1, <1>4, <1>5 DEF SlotSide, Fates, Flush
  <2>5. ASSUME NEW p \in 1..Len(micro'), NEW q \in 1..Len(micro'),
               micro'[p].do = "report", micro'[q].do = "report", micro'[p].work = micro'[q].work
        PROVE  p = q
    <3>1. \A x \in 1..Len(micro) : micro[x].work # n
      BY <1>1
    <3>2. p <= Len(micro) \/ p = Len(micro) + 1
      BY <1>4
    <3>3. q <= Len(micro) \/ q = Len(micro) + 1
      BY <1>4
    <3>4. CASE p <= Len(micro) /\ q <= Len(micro)
      BY <1>4, <2>5, <3>4 DEF SlotSide, Fates
    <3>. QED BY <1>4, <1>5, <2>5, <3>1, <3>2, <3>3, <3>4
  <2>. QED BY <1>1, <2>3, <2>4, <2>5 DEF SlotSide, Fates, Unsettled
<1>. QED BY <1>1, <1>3, <1>4, <1>7, <1>8, <1>9 DEF SlotSide

(* An event that finds the slot free.                                      *)
LEMMA StartKeepsSlot ==
  ASSUME SlotSide, NEW n, n = Len(event) + 1, Len(event') = n, ~(event'[n].lost > 0),
         \A i \in 1..Len(event) : Lost(i)' <=> Lost(i),
         running = None, running' # None, running' \in Publication,
         running'.work = n, running'.at = "sending", ~running'.overdue,
         queue' = queue, micro' = micro, got' = got
  PROVE  SlotSide'
<1>1. /\ Len(event) \in Nat /\ n \in Nat
      /\ \A p \in 1..Len(micro) : micro[p].work \in 0..Len(event)
      /\ ~Queued(n) /\ ~Due(n) /\ ~InSlot(n)
  BY SlotFacts
<1>2. /\ queue = <<>> /\ \A p \in 1..Len(micro) : micro[p].do = "reschedule"
      /\ micro \in Seq(TaskUpTo(Len(event)))
  BY DEF SlotSide, SlotKept
<1>3. queue' \in Seq(0..n) /\ Len(queue') <= MaxQueued /\ micro' \in Seq(TaskUpTo(n))
  <2>1. TaskUpTo(Len(event)) \subseteq TaskUpTo(n)
    BY <1>1 DEF TaskUpTo
  <2>. QED BY <1>2, <2>1 DEF SlotSide
<1>4. SlotKept' /\ HeldBack' /\ InOrder'
  BY <1>2 DEF SlotKept, HeldBack, InOrder, Unsettled
<1>5. Fates'
  <2>1. \A i : /\ Queued(i)' <=> Queued(i)
               /\ Due(i)' <=> Due(i)
               /\ InSlot(i)' <=> i = n
               /\ ~InSlot(i)
    BY DEF Queued, Due, InSlot, Unsettled
  <2>2. ~Lost(n)'
    BY DEF Lost
  <2>3. \A i \in 1..n : FateOf(i)'
    BY <1>1, <2>1, <2>2 DEF SlotSide, Fates, FateOf
  <2>. QED BY <1>1, <1>2, <2>3 DEF SlotSide, Fates, Unsettled
<1>. QED BY <1>1, <1>3, <1>4, <1>5 DEF SlotSide

(* An event that has to wait.                                              *)
LEMMA WaitKeepsSlot ==
  ASSUME SlotSide, NEW n, n = Len(event) + 1, Len(event') = n, ~(event'[n].lost > 0),
         \A i \in 1..Len(event) : Lost(i)' <=> Lost(i),
         running # None, ~Refused,
         queue' = Append(queue, n), running' = running, micro' = micro, got' = got
  PROVE  SlotSide'
<1>1. /\ Len(event) \in Nat /\ n \in Nat /\ Len(queue) \in Nat /\ MaxQueued \in Nat
      /\ \A k \in 1..Len(queue) : queue[k] \in 0..Len(event)
      /\ \A p \in 1..Len(micro) : micro[p].work \in 0..Len(event)
      /\ Unsettled => running.work \in 0..Len(event)
      /\ ~Queued(n) /\ ~Due(n) /\ ~InSlot(n)
  BY SlotFacts
<1>2. queue \in Seq(0..Len(event)) /\ micro \in Seq(TaskUpTo(Len(event)))
  BY DEF SlotSide
<1>3. queue \in Seq(0..n) /\ micro' \in Seq(TaskUpTo(n)) /\ n \in 0..n
  <2>1. 0..Len(event) \subseteq 0..n /\ TaskUpTo(Len(event)) \subseteq TaskUpTo(n)
    BY <1>1 DEF TaskUpTo
  <2>. QED BY <1>1, <1>2, <2>1
<1>4. /\ queue' \in Seq(0..n) /\ Len(queue') = Len(queue) + 1
      /\ \A k \in 1..Len(queue') : queue'[k] = IF k <= Len(queue) THEN queue[k] ELSE n
      /\ \A i : Queued(i)' <=> Queued(i) \/ i = n
  BY <1>3, QueueGrows
<1>5. Len(queue) < MaxQueued
  BY <1>1 DEF Refused
<1>6. SlotKept'
  BY DEF SlotSide, SlotKept, Unsettled
<1>7. HeldBack'
  BY <1>1, <1>5 DEF SlotSide, HeldBack
<1>8. InOrder'
  <2>1. ASSUME NEW a \in 1..Len(queue'), NEW b \in 1..Len(queue'), a < b, queue'[b] # Flush
        PROVE  queue'[a] < queue'[b]
    <3>1. a \in 1..Len(queue) /\ queue'[a] = queue[a]
      BY <1>1, <1>4, <2>1
    <3>2. CASE b <= Len(queue)
      BY <1>1, <1>4, <2>1, <3>1, <3>2 DEF SlotSide, InOrder
    <3>3. CASE ~(b <= Len(queue))
      <4>1. queue'[b] = n /\ queue[a] \in 0..Len(event)
        BY <1>1, <1>4, <3>1, <3>3
      <4>. QED BY <1>1, <3>1, <4>1
    <3>. QED BY <3>2, <3>3
  <2>2. ASSUME Unsettled, NEW k \in 1..Len(queue'), queue'[k] # Flush
        PROVE  running.work < queue'[k]
    <3>1. CASE k <= Len(queue)
      BY <1>1, <1>4, <2>2, <3>1 DEF SlotSide, InOrder
    <3>2. CASE ~(k <= Len(queue))
      BY <1>1, <1>4, <2>2, <3>2
    <3>. QED BY <3>1, <3>2
  <2>. QED BY <2>1, <2>2 DEF InOrder, Unsettled
<1>9. Fates'
  <2>1. \A i : /\ Due(i)' <=> Due(i)
               /\ InSlot(i)' <=> InSlot(i)
    BY DEF Due, InSlot, Unsettled
  <2>2. ~Lost(n)'
    BY DEF Lost
  <2>3. \A i \in 1..n : FateOf(i)'
    BY <1>1, <1>4, <2>1, <2>2 DEF SlotSide, Fates, FateOf
  <2>. QED BY <1>1, <2>3 DEF SlotSide, Fates, Unsettled
<1>. QED BY <1>1, <1>3, <1>4, <1>5, <1>6, <1>7, <1>8, <1>9 DEF SlotSide

(* What follows the failure of w, when nothing else is to be done.         *)
LEMMA FailureIsOne ==
  ASSUME NEW n \in Nat, NEW w \in 0..n
  PROVE  \E c \in TaskUpTo(n) :
           /\ Failure(w) = <<c>>
           /\ c.do = (IF w = Flush THEN "reschedule" ELSE "report")
           /\ c.work = w
<1>1. CASE w = Flush
  <2>1. [do |-> "reschedule", work |-> Flush] \in TaskUpTo(n)
    BY DEF TaskUpTo, Flush
  <2>. QED BY <1>1, <2>1 DEF Failure
<1>2. CASE w # Flush
  <2>1. [do |-> "report", work |-> w] \in TaskUpTo(n)
    BY DEF TaskUpTo
  <2>. QED BY <1>2, <2>1 DEF Failure
<1>. QED BY <1>1, <1>2

(* A queued call runs into its deadline: its failure is the only microtask.*)
LEMMA ExpiryKeepsSlot ==
  ASSUME SlotSide, NEW k \in 1..Len(queue), Expire(k)
  PROVE  SlotSide'
<1>1. /\ Len(event) \in Nat /\ Len(queue) \in Nat /\ MaxQueued \in Nat
      /\ \A j \in 1..Len(queue) : queue[j] \in 0..Len(event)
      /\ queue \in Seq(0..Len(event)) /\ micro = <<>>
  BY SlotFacts DEF SlotSide, Expire
<1>2. /\ event' = event /\ running' = running /\ got' = got
      /\ micro' = Failure(queue[k])
      /\ queue' = SubSeq(queue, 1, k - 1) \o SubSeq(queue, k + 1, Len(queue))
  BY DEF Expire, losses, other
<1>3. PICK w \in 0..Len(event) : w = queue[k]
  BY <1>1
<1>4. PICK c \in TaskUpTo(Len(event)) :
        /\ micro' = <<c>>
        /\ c.do = (IF w = Flush THEN "reschedule" ELSE "report")
        /\ c.work = w
  BY <1>1, <1>2, <1>3, FailureIsOne
<1>5. /\ queue' \in Seq(0..Len(event))
      /\ Len(queue') = Len(queue) - 1
      /\ \A i \in 1..Len(queue) - 1 : queue'[i] = IF i < k THEN queue[i] ELSE queue[i + 1]
      /\ \A a \in 1..Len(queue') : \E x \in 1..Len(queue) : x # k /\ queue'[a] = queue[x]
      /\ \A a, b \in 1..Len(queue') : a < b =>
           \E x, y \in 1..Len(queue) : x < y /\ queue'[a] = queue[x] /\ queue'[b] = queue[y]
  <2>1. PICK q \in Seq(0..Len(event)) : q = queue
    BY <1>1
  <2>2. PICK r : r = queue'
    OBVIOUS
  <2>3. k \in 1..Len(q) /\ r = SubSeq(q, 1, k - 1) \o SubSeq(q, k + 1, Len(q))
    BY <1>2, <2>1, <2>2, Zenon
  <2>4. r \in Seq(0..Len(event)) /\ IsWithout(r, q, k)
    BY <2>3, WithoutOne, Zenon
  <2>. QED BY <2>1, <2>2, <2>4 DEF IsWithout
<1>6. /\ \A i : Queued(i)' => Queued(i)
      /\ \A i : Queued(i) => Queued(i)' \/ i = w
  BY <1>1, <1>3, <1>5, QueueLeaves
<1>7. /\ micro' \in Seq(TaskUpTo(Len(event))) /\ Len(micro') = 1 /\ micro'[1] = c
      /\ \A p \in 1..Len(micro') : p = 1
  BY <1>4
<1>8. queue # <<>> /\ running # None
  BY <1>1 DEF SlotSide, SlotKept
<1>9. /\ SlotKept'
      /\ HeldBack'
  <2>1. SlotKept'
    BY <1>2, <1>4, <1>7, <1>8 DEF SlotSide, SlotKept, Unsettled
  <2>2. HeldBack'
    BY <1>7 DEF HeldBack
  <2>. QED BY <2>1, <2>2
<1>10. InOrder'
  <2>1. ASSUME NEW a \in 1..Len(queue'), NEW b \in 1..Len(queue'), a < b, queue'[b] # Flush
        PROVE  queue'[a] < queue'[b]
    <3>1. PICK x \in 1..Len(queue), y \in 1..Len(queue) :
             x < y /\ queue'[a] = queue[x] /\ queue'[b] = queue[y]
      BY <1>5, <2>1
    <3>. QED BY <2>1, <3>1 DEF SlotSide, InOrder
  <2>2. ASSUME Unsettled, NEW a \in 1..Len(queue'), queue'[a] # Flush
        PROVE  running.work < queue'[a]
    <3>1. PICK x \in 1..Len(queue) : queue'[a] = queue[x]
      BY <1>1, <1>5
    <3>. QED BY <2>2, <3>1 DEF SlotSide, InOrder
  <2>. QED BY <1>2, <2>1, <2>2 DEF InOrder, Unsettled
<1>11. w # Flush => ~Queued(w)' /\ ~InSlot(w) /\ Queued(w)
  <2>. SUFFICES ASSUME w # Flush PROVE ~Queued(w)' /\ ~InSlot(w) /\ Queued(w)
    OBVIOUS
  <2>1. ~InSlot(w) /\ Queued(w)
    <3>1. Unsettled => running.work < w
      BY <1>3 DEF SlotSide, InOrder
    <3>2. Unsettled => running.work \in 0..Len(event)
      BY SlotFacts
    <3>. QED BY <1>1, <1>3, <3>1, <3>2 DEF InSlot, Queued
  <2>2. ASSUME NEW a \in 1..Len(queue'), queue'[a] = w PROVE FALSE
    <3>1. PICK x \in 1..Len(queue) : queue[x] = w /\ x # k
      BY <1>5, <2>2
    <3>2. \A a1, b1 \in 1..Len(queue) : a1 < b1 /\ queue[b1] # Flush => queue[a1] < queue[b1]
      BY DEF SlotSide, InOrder
    <3>3. x < k \/ k < x
      BY <3>1
    <3>. QED BY <1>1, <1>3, <3>1, <3>2, <3>3
  <2>. QED BY <2>1, <2>2 DEF Queued
<1>12. Fates'
  <2>1. \A i : /\ InSlot(i)' <=> InSlot(i)
               /\ Due(i)' <=> i = w /\ w # Flush
               /\ ~Due(i)
               /\ Lost(i)' <=> Lost(i)
    BY <1>1, <1>2, <1>4, <1>7 DEF InSlot, Due, Unsettled, Lost
  <2>2. \A i \in 1..Len(event) : FateOf(i)'
    <3>1. \A i \in 1..Len(event) : FateOf(i)
      BY DEF SlotSide, Fates
    <3>2. \A i \in 1..Len(event) : i # Flush
      BY DEF Flush
    <3>. QED BY <1>2, <1>6, <1>11, <2>1, <3>1, <3>2 DEF FateOf
  <2>. QED BY <1>2, <1>4, <1>7, <2>2 DEF SlotSide, Fates, Unsettled
<1>13. Len(queue') <= MaxQueued /\ Len(event') = Len(event)
  <2>1. Len(queue) <= MaxQueued
    BY DEF SlotSide
  <2>2. Len(queue') <= MaxQueued
    BY <1>1, <1>5, <2>1
  <2>. QED BY <1>2, <2>2
<1>. QED BY <1>1, <1>2, <1>5, <1>7, <1>9, <1>10, <1>12, <1>13 DEF SlotSide

(* The deadline of a call passes during its publication.                   *)
LEMMA OverdueKeepsSlot ==
  ASSUME SlotSide, Overdue
  PROVE  SlotSide'
<1>1. /\ Len(event) \in Nat /\ Len(queue) \in Nat
      /\ micro = <<>> /\ running # None /\ running.waited /\ ~running.overdue
      /\ event' = event /\ queue' = queue /\ got' = got
      /\ running' = [running EXCEPT !.overdue = TRUE]
      /\ micro' = Failure(running.work)
  BY SlotFacts DEF Overdue, losses, other
<1>2. Unsettled
  <2>1. running # Ended
    BY <1>1 DEF Ended
  <2>. QED BY <1>1, <2>1 DEF SlotSide, SlotKept
<1>3. running \in Publication
  BY <1>1 DEF SlotSide
<1>4. PICK w \in 0..Len(event) : w = running.work
  BY <1>2, SlotFacts
<1>5. PICK c \in TaskUpTo(Len(event)) :
        /\ micro' = <<c>>
        /\ c.do = (IF w = Flush THEN "reschedule" ELSE "report")
        /\ c.work = w
  BY <1>1, <1>4, FailureIsOne
<1>6. /\ micro' \in Seq(TaskUpTo(Len(event))) /\ Len(micro') = 1 /\ micro'[1] = c
      /\ \A p \in 1..Len(micro') : p = 1
  BY <1>5
<1>7. /\ running' \in Publication /\ running' # None
      /\ running'.work = w /\ running'.overdue
      /\ running'.at = running.at
  <2>1. running' \in Publication /\ running'.work = w /\ running'.overdue /\ running'.at = running.at
    BY <1>1, <1>3, <1>4 DEF Publication
  <2>. QED BY <2>1, NoneIsNoPublication
<1>8. SlotKept' /\ HeldBack' /\ InOrder'
  <2>1. Unsettled'
    BY <1>2, <1>7 DEF Unsettled
  <2>2. SlotKept'
    BY <1>5, <1>6, <1>7, <2>1 DEF SlotKept
  <2>3. HeldBack'
    BY <1>6 DEF HeldBack
  <2>4. InOrder'
    BY <1>1, <1>2, <1>4, <1>7 DEF SlotSide, InOrder
  <2>. QED BY <2>2, <2>3, <2>4
<1>9. \A i : /\ InSlot(i)' <=> i = w
             /\ InSlot(i) <=> i = w
             /\ Due(i)' <=> i = w /\ w # Flush
             /\ ~Due(i)
             /\ Lost(i)' <=> Lost(i)
             /\ Queued(i)' <=> Queued(i)
  <2>1. \A i : /\ InSlot(i)' <=> i = w
               /\ InSlot(i) <=> i = w
    BY <1>2, <1>4, <1>7 DEF InSlot, Unsettled
  <2>2. \A i : /\ Due(i)' <=> i = w /\ w # Flush
               /\ ~Due(i)
    BY <1>1, <1>5, <1>6 DEF Due
  <2>. QED BY <1>1, <2>1, <2>2 DEF Lost, Queued
<1>10. w # Flush => ~Queued(w)
  BY <1>1, <1>2, <1>4 DEF SlotSide, InOrder, Queued
<1>11. Fates'
  <2>1. ASSUME NEW i \in 1..Len(event) PROVE FateOf(i)'
    <3>1. FateOf(i) /\ i # Flush
      BY DEF SlotSide, Fates, Flush
    <3>. QED BY <1>1, <1>4, <1>7, <1>9, <1>10, <3>1 DEF FateOf
  <2>2. running'.work \in 0..Len(event)
    BY <1>7
  <2>. QED BY <1>1, <1>5, <1>6, <2>1, <2>2 DEF Fates
<1>. QED BY <1>1, <1>6, <1>7, <1>8, <1>11 DEF SlotSide

(* A publication commits: its event is received.                           *)
LEMMA CommitKeepsSlot ==
  ASSUME SlotSide, Commit
  PROVE  SlotSide'
<1>1. /\ Len(event) \in Nat
      /\ running # None /\ running.at = "sending"
      /\ event' = event /\ queue' = queue /\ micro' = micro
      /\ got' = IF running.work = Flush THEN got ELSE got \cup {running.work}
      /\ running' = [running EXCEPT !.at = "sent"]
  BY SlotFacts DEF Commit, Deliver, losses
<1>2. Unsettled
  BY <1>1 DEF Unsettled
<1>3. running \in Publication /\ running.work \in 0..Len(event)
  BY <1>2, SlotFacts
<1>4. /\ running' \in Publication /\ running' # None
      /\ running'.work = running.work /\ running'.overdue = running.overdue
      /\ running'.at = "sent"
  <2>1. /\ running' \in Publication
        /\ running'.work = running.work /\ running'.overdue = running.overdue
        /\ running'.at = "sent"
    BY <1>1, <1>3 DEF Publication
  <2>. QED BY <2>1, NoneIsNoPublication
<1>5. Unsettled'
  BY <1>4 DEF Unsettled
<1>6. SlotKept' /\ HeldBack' /\ InOrder'
  BY <1>1, <1>2, <1>4, <1>5 DEF SlotSide, SlotKept, HeldBack, InOrder
<1>7. got' \subseteq 1..Len(event)
  BY <1>1, <1>3 DEF SlotSide, Flush
<1>8. \A i : /\ InSlot(i)' <=> InSlot(i)
             /\ Due(i)' <=> Due(i)
             /\ Lost(i)' <=> Lost(i)
             /\ Queued(i)' <=> Queued(i)
  BY <1>1, <1>2, <1>4, <1>5 DEF InSlot, Due, Lost, Queued
<1>9. Fates'
  <2>1. ASSUME NEW i \in 1..Len(event) PROVE FateOf(i)'
    <3>1. FateOf(i) /\ i # Flush
      BY DEF SlotSide, Fates, Flush
    <3>2. i \in got => i \in got'
      BY <1>1
    <3>3. InSlot(i) => i \in got'
      BY <1>1, <3>1 DEF InSlot
    <3>. QED BY <1>4, <1>8, <3>1, <3>2, <3>3 DEF FateOf
  <2>. QED BY <1>1, <1>3, <1>4, <1>5, <2>1 DEF SlotSide, Fates
<1>. QED BY <1>1, <1>4, <1>6, <1>7, <1>9 DEF SlotSide

(* A statement that nobody waits for commits, or nothing happens here.     *)
LEMMA ReceiptKeepsSlot ==
  ASSUME SlotSide, got \subseteq got', got' \subseteq 1..Len(event),
         event' = event, queue' = queue, running' = running, micro' = micro
  PROVE  SlotSide'
<1>1. SlotKept' /\ HeldBack' /\ InOrder'
  BY DEF SlotSide, SlotKept, HeldBack, InOrder, Unsettled
<1>2. \A i : /\ InSlot(i)' <=> InSlot(i)
             /\ Due(i)' <=> Due(i)
             /\ Lost(i)' <=> Lost(i)
             /\ Queued(i)' <=> Queued(i)
  BY DEF InSlot, Due, Lost, Queued, Unsettled
<1>3. Fates'
  BY <1>2 DEF SlotSide, Fates, FateOf, Unsettled
<1>. QED BY <1>1, <1>3 DEF SlotSide

(* What is to be done once a publication has settled: its failure or its   *)
(* success, unless the deadline has done so, and then the slot is freed.   *)
LEMMA SettledIs ==
  ASSUME NEW n \in Nat, NEW w \in 0..n, NEW s, s.work = w, s.overdue \in BOOLEAN,
         NEW callbacks, callbacks \in {Failure(w), Success(w)}
  PROVE  /\ Settled(s, callbacks) \in Seq(TaskUpTo(n))
         /\ Len(Settled(s, callbacks)) \in {1, 2}
         /\ Settled(s, callbacks)[Len(Settled(s, callbacks))].do = "free"
         /\ Len(Settled(s, callbacks)) = 2 =>
              LET c == Settled(s, callbacks)[1]
              IN \/ c.do = "report" /\ c.work = w /\ w # Flush /\ ~s.overdue
                 \/ c.do = "reschedule"
         /\ callbacks = Failure(w) /\ w # Flush /\ ~s.overdue =>
              Len(Settled(s, callbacks)) = 2 /\ Settled(s, callbacks)[1].do = "report"
         /\ w = Flush /\ ~s.overdue =>
              Len(Settled(s, callbacks)) = 2 /\ Settled(s, callbacks)[1].do = "reschedule"
<1>. DEFINE f == [do |-> "free", work |-> Flush]
            r == [do |-> "reschedule", work |-> Flush]
            p == [do |-> "report", work |-> w]
<1>1. f \in TaskUpTo(n) /\ r \in TaskUpTo(n) /\ p \in TaskUpTo(n)
  BY DEF TaskUpTo, Flush
<1>2. f.do = "free" /\ r.do = "reschedule" /\ p.do = "report" /\ p.work = w
  OBVIOUS
<1>3. /\ FreeSlot = <<f>>
      /\ Failure(w) = IF w = Flush THEN <<r>> ELSE <<p>>
      /\ Success(w) = IF w = Flush THEN <<r>> ELSE <<>>
  BY DEF FreeSlot, Failure, Success
<1>. HIDE DEF f, r, p
<1>4. CASE s.overdue \/ callbacks = <<>>
  <2>1. Settled(s, callbacks) = <<f>>
    <3>1. (IF s.overdue THEN <<>> ELSE callbacks) = <<>>
      BY <1>4
    <3>2. Settled(s, callbacks) = <<>> \o <<f>>
      BY <1>3, <3>1, Zenon DEF Settled
    <3>3. <<>> \o <<f>> = <<f>>
      OBVIOUS
    <3>. QED BY <3>2, <3>3
  <2>2. ~(callbacks = Failure(w) /\ w # Flush /\ ~s.overdue)
    BY <1>3, <1>4
  <2>3. ~(w = Flush /\ ~s.overdue)
    <3>. SUFFICES ASSUME w = Flush, ~s.overdue PROVE FALSE
      OBVIOUS
    <3>1. callbacks = <<r>>
      BY <1>3
    <3>2. <<r>> # <<>>
      OBVIOUS
    <3>. QED BY <1>4, <3>1, <3>2
  <2>. QED BY <1>1, <1>2, <2>1, <2>2, <2>3
<1>5. CASE ~s.overdue /\ callbacks # <<>>
  <2>1. callbacks = (IF w = Flush THEN <<r>> ELSE <<p>>)
    BY <1>3, <1>5
  <2>2. Settled(s, callbacks) = (IF w = Flush THEN <<r, f>> ELSE <<p, f>>)
    BY <1>3, <1>5, <2>1 DEF Settled
  <2>. QED BY <1>1, <1>2, <1>5, <2>2
<1>. QED BY <1>4, <1>5

(* A publication settles, by its answer or by a failure.                   *)
LEMMA SettleKeepsSlot ==
  ASSUME SlotSide, micro = <<>>, running # None, running.at \in {"sending", "sent"},
         NEW callbacks,
         \/ callbacks = Failure(running.work)
         \/ callbacks = Success(running.work) /\ running.at = "sent",
         micro' = Settled(running, callbacks), running' = Ended,
         event' = event, queue' = queue, got' = got
  PROVE  SlotSide'
<1>1. Unsettled /\ running \in Publication /\ Len(event) \in Nat
  <2>1. Unsettled
    BY DEF Unsettled
  <2>. QED BY <2>1, SlotFacts
<1>2. PICK n, w, s, m :
        n \in Nat /\ w \in 0..n /\ n = Len(event) /\ w = running.work /\ s = running /\ m = micro'
  BY <1>1, SlotFacts
<1>3. n \in Nat /\ w \in 0..n /\ s.work = w /\ s.overdue \in BOOLEAN /\ callbacks \in {Failure(w), Success(w)}
  BY <1>1, <1>2 DEF Publication
<1>4. m = Settled(s, callbacks)
  BY <1>2
<1>5. /\ m \in Seq(TaskUpTo(n))
      /\ Len(m) \in {1, 2}
      /\ m[Len(m)].do = "free"
      /\ Len(m) = 2 => \/ m[1].do = "report" /\ m[1].work = w /\ w # Flush /\ ~s.overdue
                       \/ m[1].do = "reschedule"
      /\ callbacks = Failure(w) /\ w # Flush /\ ~s.overdue => Len(m) = 2 /\ m[1].do = "report"
  BY <1>3, <1>4, SettledIs
<1>6. \A p \in 1..Len(m) : p = Len(m) \/ (p = 1 /\ Len(m) = 2)
  BY <1>5
<1>7. \A i : Due(i)' <=> Len(m) = 2 /\ m[1].do = "report" /\ i = w
  <2>1. Len(m) = 2 => 1 \in 1..Len(m)
    OBVIOUS
  <2>2. ASSUME NEW i, Due(i)' PROVE Len(m) = 2 /\ m[1].do = "report" /\ i = w
    <3>1. PICK p \in 1..Len(m) : m[p].do = "report" /\ m[p].work = i
      BY <1>2, <2>2 DEF Due
    <3>. QED BY <1>5, <1>6, <3>1
  <2>3. ASSUME NEW i, Len(m) = 2 /\ m[1].do = "report" /\ i = w PROVE Due(i)'
    BY <1>2, <1>5, <2>1, <2>3 DEF Due
  <2>. QED BY <2>2, <2>3
<1>8. Ended \in Publication /\ Ended # None /\ Ended.at = "settled"
  <2>1. Ended \in Publication /\ Ended.at = "settled"
    BY BoundAssumption DEF Ended, Publication, Flush
  <2>. QED BY <2>1, NoneIsNoPublication
<1>9. ~Unsettled'
  BY <1>8 DEF Unsettled
<1>10. SlotKept' /\ HeldBack' /\ InOrder'
  <2>1. SlotKept'
    <3>1. \A p \in 1..Len(m) : m[p].do = "free" => p = Len(m)
      BY <1>5, <1>6
    <3>. QED BY <1>2, <1>8, <1>9, <3>1 DEF SlotKept
  <2>2. HeldBack'
    <3>1. \A p, q \in 1..Len(m) : p < q => m[q].do = "free"
      BY <1>5, <1>6
    <3>. QED BY <1>2, <3>1 DEF HeldBack
  <2>3. InOrder'
    BY <1>9 DEF SlotSide, InOrder
  <2>. QED BY <2>1, <2>2, <2>3
<1>11. Fates'
  <2>1. \A i : /\ ~InSlot(i)'
               /\ InSlot(i) <=> i = w
               /\ ~Due(i)
               /\ Lost(i)' <=> Lost(i)
               /\ Queued(i)' <=> Queued(i)
    BY <1>1, <1>2, <1>9 DEF InSlot, Due, Lost, Queued
  <2>2. w # Flush => ~Queued(w)
    BY <1>1, <1>2, SlotFacts DEF SlotSide, InOrder, Queued
  <2>3. ASSUME NEW i \in 1..Len(event) PROVE FateOf(i)'
    <3>1. FateOf(i) /\ i # Flush
      BY DEF SlotSide, Fates, Flush
    <3>2. CASE i # w
      BY <1>7, <2>1, <3>1, <3>2 DEF FateOf
    <3>3. CASE i = w
      <4>1. Due(i)' => ~s.overdue
        BY <1>5, <1>7, <3>1, <3>3
      <4>2. i \in got \/ s.overdue \/ Due(i)'
        <5>1. callbacks = Failure(w) \/ running.at = "sent"
          BY <1>2
        <5>. QED BY <1>2, <1>5, <1>7, <2>1, <3>1, <3>3, <5>1 DEF FateOf
      <4>. QED BY <1>2, <2>1, <2>2, <3>1, <3>3, <4>1, <4>2 DEF FateOf
    <3>. QED BY <3>2, <3>3
  <2>4. \A p \in 1..Len(m) : m[p].do = "report" => m[p].work # Flush
    BY <1>5, <1>6
  <2>5. \A p, q \in 1..Len(m) : m[p].do = "report" /\ m[q].do = "report" => p = q
    BY <1>5, <1>6
  <2>. QED BY <1>2, <1>9, <2>3, <2>4, <2>5 DEF Fates
<1>. QED BY <1>1, <1>2, <1>5, <1>8, <1>10, <1>11 DEF SlotSide

(* The slot is freed: no other microtask frees it, and what is reported    *)
(* later was refused behind a full queue, after all that waits in it.      *)
LEMMA WhatFollowsTheFreeing ==
  ASSUME SlotSide, micro # <<>>, Head(micro).do = "free", micro' = Tail(micro)
  PROVE  /\ micro' \in Seq(TaskUpTo(Len(event)))
         /\ running = Ended /\ running # None
         /\ \A p \in 1..Len(micro') : micro'[p].do # "free" /\ p + 1 \in 1..Len(micro)
                                        /\ micro'[p] = micro[p + 1]
         /\ \A i : Due(i)' <=> Due(i)
         /\ \A i : Due(i) => Len(queue) >= MaxQueued /\ \A k \in 1..Len(queue) : queue[k] < i
<1>1. /\ micro' \in Seq(TaskUpTo(Len(event)))
      /\ Len(micro') \in Nat
      /\ \A p \in 1..Len(micro') : micro'[p] = micro[p + 1] /\ p + 1 \in 1..Len(micro)
      /\ Head(micro) = micro[1] /\ 1 \in 1..Len(micro)
      /\ \A i : Due(i) <=> Due(i)' \/ (Head(micro).do = "report" /\ Head(micro).work = i)
  <2>1. micro \in Seq(TaskUpTo(Len(event)))
    BY DEF SlotSide
  <2>2. PICK S : S = TaskUpTo(Len(event))
    OBVIOUS
  <2>3. /\ micro' \in Seq(S)
        /\ Len(micro) \in Nat /\ Len(micro') = Len(micro) - 1
        /\ \A p \in 1..Len(micro') : micro'[p] = micro[p + 1] /\ p + 1 \in 1..Len(micro)
        /\ Head(micro) = micro[1] /\ 1 \in 1..Len(micro)
        /\ \A i : Due(i) <=> Due(i)' \/ (Head(micro).do = "report" /\ Head(micro).work = i)
    BY <2>1, <2>2, TaskRuns
  <2>. QED BY <2>2, <2>3
<1>2. running = Ended /\ running # None
  BY <1>1 DEF SlotSide, SlotKept
<1>3. \A p \in 1..Len(micro') : 1 < p + 1
  BY <1>1
<1>4. \A p \in 1..Len(micro') : micro'[p].do # "free"
  BY <1>1, <1>3 DEF SlotSide, SlotKept
<1>5. \A i : Due(i)' <=> Due(i)
  BY <1>1
<1>6. \A i : Due(i) => Len(queue) >= MaxQueued /\ \A k \in 1..Len(queue) : queue[k] < i
  <2>. SUFFICES ASSUME NEW p \in 1..Len(micro), micro[p].do = "report"
                PROVE  Len(queue) >= MaxQueued /\ \A k \in 1..Len(queue) : queue[k] < micro[p].work
    BY DEF Due
  <2>1. 1 < p
    BY <1>1
  <2>. QED BY <1>1, <2>1 DEF SlotSide, HeldBack
<1>. QED BY <1>1, <1>2, <1>4, <1>5, <1>6

(* The slot is freed and nobody waits for it.                              *)
LEMMA IdleKeepsSlot ==
  ASSUME SlotSide, micro # <<>>, Head(micro).do = "free", micro' = Tail(micro),
         queue = <<>>, queue' = queue, running' = None, event' = event, got' = got
  PROVE  SlotSide'
<1>1. /\ micro' \in Seq(TaskUpTo(Len(event)))
      /\ running = Ended /\ running # None
      /\ \A p \in 1..Len(micro') : micro'[p].do # "free" /\ p + 1 \in 1..Len(micro)
                                     /\ micro'[p] = micro[p + 1]
      /\ \A i : Due(i)' <=> Due(i)
      /\ \A i : Due(i) => Len(queue) >= MaxQueued /\ \A k \in 1..Len(queue) : queue[k] < i
  BY WhatFollowsTheFreeing
<1>2. \A i : ~Due(i) /\ ~Due(i)'
  <2>1. Len(queue) = 0 /\ MaxQueued \in Nat \ {0}
    BY LimitAssumption
  <2>. QED BY <1>1, <2>1
<1>3. \A p \in 1..Len(micro') : micro'[p].do = "reschedule"
  <2>1. \A p \in 1..Len(micro') : micro'[p] \in TaskUpTo(Len(event))
    BY <1>1
  <2>2. \A p \in 1..Len(micro') : micro'[p].do \in {"report", "reschedule", "free"}
    BY <2>1 DEF TaskUpTo
  <2>3. \A p \in 1..Len(micro') : micro'[p].do # "report"
    BY <1>2 DEF Due
  <2>. QED BY <1>1, <2>2, <2>3
<1>4. ~Unsettled /\ ~Unsettled'
  BY <1>1 DEF Unsettled, Ended
<1>5. SlotKept' /\ HeldBack' /\ InOrder'
  BY <1>3, <1>4 DEF SlotKept, HeldBack, InOrder
<1>6. Fates'
  <2>1. \A i : /\ ~InSlot(i)'
               /\ ~InSlot(i)
               /\ Lost(i)' <=> Lost(i)
               /\ Queued(i)' <=> Queued(i)
    BY <1>4 DEF InSlot, Lost, Queued
  <2>2. \A i \in 1..Len(event) : FateOf(i)'
    BY <1>2, <2>1 DEF SlotSide, Fates, FateOf
  <2>. QED BY <1>3, <1>4, <2>2 DEF SlotSide, Fates
<1>. QED BY <1>1, <1>5, <1>6 DEF SlotSide

(* A work takes the slot at its turn.                                      *)
LEMMA TurnKeepsSlot ==
  ASSUME SlotSide, micro # <<>>, Head(micro).do = "free", micro' = Tail(micro),
         queue # <<>>, queue' = Tail(queue), event' = event, got' = got,
         running' # None, running' \in Publication, running'.work = Head(queue),
         ~running'.overdue, running'.at # "settled",
         running'.at = "sent" => running'.work = Flush
  PROVE  /\ SlotSide'
         /\ \A i \in 1..Head(queue) - 1 : i \in got \/ Lost(i)
<1>1. /\ micro' \in Seq(TaskUpTo(Len(event)))
      /\ running = Ended /\ running # None
      /\ \A p \in 1..Len(micro') : micro'[p].do # "free" /\ p + 1 \in 1..Len(micro)
                                     /\ micro'[p] = micro[p + 1]
      /\ \A i : Due(i)' <=> Due(i)
      /\ \A i : Due(i) => Len(queue) >= MaxQueued /\ \A k \in 1..Len(queue) : queue[k] < i
  BY WhatFollowsTheFreeing
<1>2. /\ Len(event) \in Nat /\ Len(queue) \in Nat /\ MaxQueued \in Nat
      /\ Len(queue) <= MaxQueued
      /\ \A k \in 1..Len(queue) : queue[k] \in 0..Len(event)
  BY SlotFacts DEF SlotSide
<1>3. /\ queue' \in Seq(0..Len(event))
      /\ Len(queue') = Len(queue) - 1
      /\ \A k \in 1..Len(queue') : queue'[k] = queue[k + 1] /\ k + 1 \in 1..Len(queue)
      /\ Head(queue) = queue[1] /\ 1 \in 1..Len(queue) /\ Head(queue) \in 0..Len(event)
      /\ \A i : Queued(i) <=> Queued(i)' \/ i = Head(queue)
  <2>1. PICK S : S = 0..Len(event) /\ queue \in Seq(S)
    BY DEF SlotSide
  <2>2. /\ queue' \in Seq(S)
        /\ Len(queue') = Len(queue) - 1
        /\ \A k \in 1..Len(queue') : queue'[k] = queue[k + 1] /\ k + 1 \in 1..Len(queue)
        /\ Head(queue) = queue[1] /\ 1 \in 1..Len(queue) /\ Head(queue) \in S
        /\ \A i : Queued(i) <=> Queued(i)' \/ i = Head(queue)
    BY <2>1, QueueShifts
  <2>. QED BY <2>1, <2>2
<1>4. PICK w : w = Head(queue) /\ w \in 0..Len(event) /\ w = queue[1]
  BY <1>3
<1>5. ~Unsettled /\ Unsettled'
  BY <1>1 DEF Unsettled, Ended
<1>6. \A k \in 2..Len(queue) : queue[k] # Flush => w < queue[k]
  BY <1>2, <1>3, <1>4 DEF SlotSide, InOrder
<1>7. \A i : Queued(i) /\ i # w /\ i # Flush => w < i
  <2>. SUFFICES ASSUME NEW k \in 1..Len(queue), queue[k] # w, queue[k] # Flush PROVE w < queue[k]
    BY DEF Queued
  <2>1. k \in 2..Len(queue)
    BY <1>2, <1>4
  <2>. QED BY <1>6, <2>1
<1>8. \A i : Due(i) => w < i
  BY <1>1, <1>3, <1>4
<1>9. w # Flush => ~Queued(w)'
  <2>. SUFFICES ASSUME w # Flush, NEW k \in 1..Len(queue'), queue'[k] = w PROVE FALSE
    BY DEF Queued
  <2>1. k + 1 \in 2..Len(queue) /\ queue[k + 1] = w
    BY <1>2, <1>3
  <2>. QED BY <1>2, <1>4, <1>6, <2>1
<1>10. SlotKept' /\ HeldBack' /\ InOrder'
  <2>1. SlotKept'
    BY <1>1, <1>5 DEF SlotKept
  <2>2. HeldBack'
    BY <1>1 DEF HeldBack
  <2>3. \A k \in 1..Len(queue') : queue'[k] # Flush => w < queue'[k]
    <3>1. \A k \in 1..Len(queue') : k + 1 \in 2..Len(queue) /\ queue'[k] = queue[k + 1]
      BY <1>2, <1>3
    <3>. QED BY <1>6, <3>1
  <2>4. \A a, b \in 1..Len(queue') : a < b /\ queue'[b] # Flush => queue'[a] < queue'[b]
    <3>. SUFFICES ASSUME NEW a \in 1..Len(queue'), NEW b \in 1..Len(queue'), a < b, queue'[b] # Flush
                  PROVE  queue'[a] < queue'[b]
      OBVIOUS
    <3>1. PICK x \in 1..Len(queue), y \in 1..Len(queue) :
             x < y /\ queue'[a] = queue[x] /\ queue'[b] = queue[y]
      <4>1. a + 1 \in 1..Len(queue) /\ b + 1 \in 1..Len(queue) /\ a + 1 < b + 1
        BY <1>2, <1>3
      <4>. QED BY <1>3, <4>1
    <3>. QED BY <3>1 DEF SlotSide, InOrder
  <2>5. InOrder'
    BY <1>4, <2>3, <2>4 DEF InOrder
  <2>. QED BY <2>1, <2>2, <2>5
<1>11. \A i : /\ InSlot(i)' <=> i = w
              /\ ~InSlot(i)
              /\ Lost(i)' <=> Lost(i)
  BY <1>4, <1>5 DEF InSlot, Lost
<1>12. \A i \in 1..Len(event) : FateOf(i) /\ i # Flush
  BY DEF SlotSide, Fates, Flush
<1>13. Fates'
  <2>1. ASSUME NEW i \in 1..Len(event) PROVE FateOf(i)'
    <3>1. CASE i = w
      <4>1. running'.at # "sent"
        BY <1>4, <1>12, <3>1
      <4>2. Queued(i)
        BY <1>3, <1>4, <3>1
      <4>. QED BY <1>1, <1>3, <1>4, <1>9, <1>11, <1>12, <3>1, <4>1, <4>2 DEF FateOf
    <3>2. CASE i # w
      BY <1>1, <1>3, <1>4, <1>11, <1>12, <3>2 DEF FateOf
    <3>. QED BY <3>1, <3>2
  <2>2. /\ \A p \in 1..Len(micro') : micro'[p].do = "report" => micro'[p].work # Flush
        /\ \A p, q \in 1..Len(micro') :
             micro'[p].do = "report" /\ micro'[q].do = "report" /\ micro'[p].work = micro'[q].work
               => p = q
    <3>1. \A p \in 1..Len(micro') : micro'[p].do = "report" => micro'[p].work # Flush
      BY <1>1 DEF SlotSide, Fates
    <3>2. ASSUME NEW p \in 1..Len(micro'), NEW q \in 1..Len(micro'),
                 micro'[p].do = "report", micro'[q].do = "report", micro'[p].work = micro'[q].work
          PROVE  p = q
      <4>1. p + 1 = q + 1
        BY <1>1, <3>2 DEF SlotSide, Fates
      <4>. QED BY <4>1
    <3>. QED BY <3>1, <3>2
  <2>. QED BY <1>4, <2>1, <2>2 DEF Fates
<1>14. \A i \in 1..w - 1 : i \in got \/ Lost(i)
  <2>. SUFFICES ASSUME NEW i \in 1..w - 1 PROVE i \in got \/ Lost(i)
    OBVIOUS
  <2>1. i \in 1..Len(event) /\ i < w
    BY <1>2, <1>4
  <2>2. ~Queued(i) /\ ~Due(i) /\ ~InSlot(i)
    BY <1>4, <1>7, <1>8, <1>11, <1>12, <2>1
  <2>. QED BY <1>12, <2>1, <2>2 DEF FateOf
<1>15. Len(queue') <= MaxQueued
  BY <1>2, <1>3
<1>. QED BY <1>1, <1>2, <1>3, <1>4, <1>10, <1>13, <1>14, <1>15 DEF SlotSide

(* The oldest microtask reports the loss of its event.                     *)
LEMMA ReportKeepsSlot ==
  ASSUME SlotSide, micro # <<>>, Head(micro).do = "report", micro' = Tail(micro),
         Len(event') = Len(event), event'[Head(micro).work].lost > 0,
         \A i \in 1..Len(event) : i # Head(micro).work => (Lost(i)' <=> Lost(i)),
         queue' = queue, running' = running, got' = got
  PROVE  /\ SlotSide'
         /\ Head(micro).work \in 1..Len(event) /\ ~Lost(Head(micro).work)
<1>1. /\ micro' \in Seq(TaskUpTo(Len(event)))
      /\ Len(micro) \in Nat /\ Len(micro') = Len(micro) - 1
      /\ \A p \in 1..Len(micro') : micro'[p] = micro[p + 1] /\ p + 1 \in 1..Len(micro)
      /\ Head(micro) = micro[1] /\ 1 \in 1..Len(micro)
      /\ \A i : Due(i) <=> Due(i)' \/ (Head(micro).do = "report" /\ Head(micro).work = i)
  <2>1. PICK S : S = TaskUpTo(Len(event)) /\ micro \in Seq(S)
    BY DEF SlotSide
  <2>2. /\ micro' \in Seq(S)
        /\ Len(micro) \in Nat /\ Len(micro') = Len(micro) - 1
        /\ \A p \in 1..Len(micro') : micro'[p] = micro[p + 1] /\ p + 1 \in 1..Len(micro)
        /\ Head(micro) = micro[1] /\ 1 \in 1..Len(micro)
        /\ \A i : Due(i) <=> Due(i)' \/ (Head(micro).do = "report" /\ Head(micro).work = i)
    BY <2>1, TaskRuns
  <2>. QED BY <2>1, <2>2
<1>2. PICK w : w = Head(micro).work
  OBVIOUS
<1>3. w \in 1..Len(event) /\ Due(w) /\ micro[1].work = w /\ micro[1].do = "report"
  <2>1. micro[1].work = w /\ micro[1].do = "report"
    BY <1>1, <1>2
  <2>2. w \in 0..Len(event) /\ w # Flush
    BY <1>1, <2>1, SlotFacts DEF SlotSide, Fates
  <2>3. Due(w)
    BY <1>1, <2>1 DEF Due
  <2>. QED BY <2>1, <2>2, <2>3, SlotFacts DEF Flush
<1>4. \A p \in 1..Len(micro') : micro'[p].do = "report" => micro'[p].work # w
  <2>. SUFFICES ASSUME NEW p \in 1..Len(micro'), micro'[p].do = "report", micro'[p].work = w
                PROVE  FALSE
    OBVIOUS
  <2>1. p + 1 = 1
    BY <1>1, <1>3 DEF SlotSide, Fates
  <2>. QED BY <1>1, <2>1
<1>5. \A i : Due(i) <=> Due(i)' \/ i = w
  BY <1>1, <1>2
<1>6. ~Due(w)'
  BY <1>4 DEF Due
<1>7. Unsettled' <=> Unsettled
  BY DEF Unsettled
<1>8. SlotKept'
  <2>1. running # None
    BY <1>1, <1>3 DEF SlotSide, SlotKept
  <2>2. \A p \in 1..Len(micro') : micro'[p].do = "free" => running # None /\ ~Unsettled
    BY <1>1 DEF SlotSide, SlotKept
  <2>3. ASSUME NEW p \in 1..Len(micro'), NEW q \in 1..Len(micro'),
               micro'[p].do = "free", micro'[q].do = "free"
        PROVE  p = q
    <3>1. p + 1 = q + 1
      BY <1>1, <2>3 DEF SlotSide, SlotKept
    <3>. QED BY <3>1
  <2>4. running # None /\ ~Unsettled => running = Ended
    BY DEF SlotSide, SlotKept
  <2>. QED BY <1>7, <2>1, <2>2, <2>3, <2>4 DEF SlotKept
<1>9. HeldBack'
  <2>. SUFFICES ASSUME NEW p \in 1..Len(micro'), NEW q \in 1..Len(micro'),
                       p < q, micro'[p].do = "free", micro'[q].do = "report"
                PROVE  Len(queue) >= MaxQueued /\ \A k \in 1..Len(queue) : queue[k] < micro'[q].work
    BY DEF HeldBack
  <2>1. /\ p + 1 \in 1..Len(micro) /\ q + 1 \in 1..Len(micro) /\ p + 1 < q + 1
        /\ micro'[p] = micro[p + 1] /\ micro'[q] = micro[q + 1]
    BY <1>1
  <2>. QED BY <2>1 DEF SlotSide, HeldBack
<1>10. InOrder'
  BY <1>7 DEF SlotSide, InOrder
<1>11. Fates'
  <2>1. \A i : /\ InSlot(i)' <=> InSlot(i)
               /\ Queued(i)' <=> Queued(i)
    BY <1>7 DEF InSlot, Queued
  <2>2. \A i \in 1..Len(event) : FateOf(i)
    BY DEF SlotSide, Fates
  <2>3. Lost(w)'
    BY <1>2 DEF Lost
  <2>4. ASSUME NEW i \in 1..Len(event) PROVE FateOf(i)'
    <3>1. CASE i = w
      BY <1>3, <1>6, <2>1, <2>2, <2>3, <3>1 DEF FateOf
    <3>2. CASE i # w
      <4>1. (Lost(i)' <=> Lost(i)) /\ (Due(i)' <=> Due(i))
        BY <1>2, <1>5, <3>2
      <4>. QED BY <2>1, <2>2, <4>1 DEF FateOf
    <3>. QED BY <3>1, <3>2
  <2>5. \A p \in 1..Len(micro') : micro'[p].do = "report" => micro'[p].work # Flush
    BY <1>1 DEF SlotSide, Fates
  <2>6. ASSUME NEW p \in 1..Len(micro'), NEW q \in 1..Len(micro'),
               micro'[p].do = "report", micro'[q].do = "report", micro'[p].work = micro'[q].work
        PROVE  p = q
    <3>1. p + 1 = q + 1
      BY <1>1, <2>6 DEF SlotSide, Fates
    <3>. QED BY <3>1
  <2>7. Unsettled' => running.work \in 0..Len(event)
    BY <1>7, SlotFacts
  <2>. QED BY <2>4, <2>5, <2>6, <2>7 DEF Fates
<1>12. ~Lost(w)
  BY <1>3 DEF SlotSide, Fates, FateOf
<1>. QED BY <1>1, <1>2, <1>3, <1>8, <1>9, <1>10, <1>11, <1>12 DEF SlotSide

(* The oldest microtask only sets the timer.                               *)
LEMMA RescheduleKeepsSlot ==
  ASSUME SlotSide, micro # <<>>, Head(micro).do = "reschedule", micro' = Tail(micro),
         event' = event, queue' = queue, running' = running, got' = got
  PROVE  SlotSide'
<1>1. /\ micro' \in Seq(TaskUpTo(Len(event)))
      /\ Len(micro') \in Nat
      /\ \A p \in 1..Len(micro') : micro'[p] = micro[p + 1] /\ p + 1 \in 1..Len(micro)
      /\ \A i : Due(i) <=> Due(i)'
  <2>1. PICK S : S = TaskUpTo(Len(event)) /\ micro \in Seq(S)
    BY DEF SlotSide
  <2>2. /\ micro' \in Seq(S)
        /\ Len(micro) \in Nat /\ Len(micro') = Len(micro) - 1
        /\ \A p \in 1..Len(micro') : micro'[p] = micro[p + 1] /\ p + 1 \in 1..Len(micro)
        /\ \A i : Due(i) <=> Due(i)' \/ (Head(micro).do = "report" /\ Head(micro).work = i)
    BY <2>1, TaskRuns
  <2>. QED BY <2>1, <2>2
<1>2. Unsettled' <=> Unsettled
  BY DEF Unsettled
<1>3. SlotKept'
  <2>1. /\ running = None =>
             /\ queue = <<>>
             /\ \A p \in 1..Len(micro') : micro'[p].do = "reschedule"
        /\ \A p \in 1..Len(micro') : micro'[p].do = "free" => running # None /\ ~Unsettled
    BY <1>1 DEF SlotSide, SlotKept
  <2>2. ASSUME NEW p \in 1..Len(micro'), NEW q \in 1..Len(micro'),
               micro'[p].do = "free", micro'[q].do = "free"
        PROVE  p = q
    <3>1. p + 1 = q + 1
      BY <1>1, <2>2 DEF SlotSide, SlotKept
    <3>. QED BY <3>1
  <2>3. running # None /\ ~Unsettled => running = Ended
    BY DEF SlotSide, SlotKept
  <2>. QED BY <1>2, <2>1, <2>2, <2>3 DEF SlotKept
<1>4. HeldBack'
  <2>. SUFFICES ASSUME NEW p \in 1..Len(micro'), NEW q \in 1..Len(micro'),
                       p < q, micro'[p].do = "free", micro'[q].do = "report"
                PROVE  Len(queue) >= MaxQueued /\ \A k \in 1..Len(queue) : queue[k] < micro'[q].work
    BY DEF HeldBack
  <2>1. /\ p + 1 \in 1..Len(micro) /\ q + 1 \in 1..Len(micro) /\ p + 1 < q + 1
        /\ micro'[p] = micro[p + 1] /\ micro'[q] = micro[q + 1]
    BY <1>1
  <2>. QED BY <2>1 DEF SlotSide, HeldBack
<1>5. InOrder'
  BY <1>2 DEF SlotSide, InOrder
<1>6. Fates'
  <2>1. \A i : /\ InSlot(i)' <=> InSlot(i)
               /\ Queued(i)' <=> Queued(i)
               /\ Lost(i)' <=> Lost(i)
    BY <1>2 DEF InSlot, Queued, Lost
  <2>2. \A i \in 1..Len(event) : FateOf(i)'
    BY <1>1, <2>1 DEF SlotSide, Fates, FateOf
  <2>3. \A p \in 1..Len(micro') : micro'[p].do = "report" => micro'[p].work # Flush
    BY <1>1 DEF SlotSide, Fates
  <2>4. ASSUME NEW p \in 1..Len(micro'), NEW q \in 1..Len(micro'),
               micro'[p].do = "report", micro'[q].do = "report", micro'[p].work = micro'[q].work
        PROVE  p = q
    <3>1. p + 1 = q + 1
      BY <1>1, <2>4 DEF SlotSide, Fates
    <3>. QED BY <3>1
  <2>5. Unsettled' => running.work \in 0..Len(event)
    BY <1>2, SlotFacts
  <2>. QED BY <2>2, <2>3, <2>4, <2>5 DEF Fates
<1>. QED BY <1>1, <1>3, <1>4, <1>5, <1>6 DEF SlotSide

(* The timer fires, and its flush is refused.                              *)
LEMMA FlushRefusalKeepsSlot ==
  ASSUME SlotSide, micro = <<>>, running # None, micro' = Failure(Flush),
         event' = event, queue' = queue, running' = running, got' = got
  PROVE  SlotSide'
<1>1. Len(event) \in Nat /\ Flush \in 0..Len(event)
  BY SlotFacts DEF Flush
<1>2. PICK c \in TaskUpTo(Len(event)) : micro' = <<c>> /\ c.do = "reschedule"
  BY <1>1, FailureIsOne
<1>3. micro' \in Seq(TaskUpTo(Len(event))) /\ \A p \in 1..Len(micro') : micro'[p].do = "reschedule"
  BY <1>2
<1>4. SlotKept' /\ HeldBack' /\ InOrder'
  BY <1>3 DEF SlotSide, SlotKept, HeldBack, InOrder, Unsettled
<1>5. \A i : /\ InSlot(i)' <=> InSlot(i)
             /\ Due(i)' <=> Due(i)
             /\ Lost(i)' <=> Lost(i)
             /\ Queued(i)' <=> Queued(i)
  BY <1>3 DEF InSlot, Due, Lost, Queued, Unsettled
<1>6. Fates'
  <2>1. \A i \in 1..Len(event) : FateOf(i)'
    BY <1>5 DEF SlotSide, Fates, FateOf
  <2>. QED BY <1>3, <2>1 DEF SlotSide, Fates, Unsettled
<1>. QED BY <1>3, <1>4, <1>6 DEF SlotSide

(* The flush takes the free slot.                                          *)
LEMMA FlushStartKeepsSlot ==
  ASSUME SlotSide, micro = <<>>, running = None, running' # None, running' \in Publication,
         running'.work = Flush, running'.at # "settled", ~running'.overdue,
         event' = event, queue' = queue, micro' = micro, got' = got
  PROVE  SlotSide'
<1>1. queue = <<>> /\ Len(event) \in Nat
  BY SlotFacts DEF SlotSide, SlotKept
<1>2. SlotKept'
  BY <1>1 DEF SlotKept, Unsettled
<1>3. HeldBack' /\ InOrder'
  BY <1>1 DEF HeldBack, InOrder
<1>4. \A i \in 1..Len(event) : /\ ~InSlot(i)'
                               /\ ~InSlot(i)
                               /\ Due(i)' <=> Due(i)
                               /\ Lost(i)' <=> Lost(i)
                               /\ Queued(i)' <=> Queued(i)
  BY DEF InSlot, Due, Lost, Queued, Unsettled, Flush
<1>5. Fates'
  <2>1. \A i \in 1..Len(event) : FateOf(i)'
    BY <1>4 DEF SlotSide, Fates, FateOf
  <2>. QED BY <1>1, <2>1 DEF Fates, Flush
<1>. QED BY <1>2, <1>3, <1>5 DEF SlotSide

(* The flush waits behind a publication.                                   *)
LEMMA FlushWaitKeepsSlot ==
  ASSUME SlotSide, micro = <<>>, running # None, ~Refused, queue' = Append(queue, Flush),
         event' = event, running' = running, micro' = micro, got' = got
  PROVE  SlotSide'
<1>1. /\ Len(event) \in Nat /\ Len(queue) \in Nat /\ MaxQueued \in Nat
      /\ Len(queue) < MaxQueued
      /\ Flush \in 0..Len(event)
  BY SlotFacts DEF Refused, Flush
<1>2. /\ queue' \in Seq(0..Len(event))
      /\ Len(queue') = Len(queue) + 1
      /\ \A k \in 1..Len(queue') : queue'[k] = IF k <= Len(queue) THEN queue[k] ELSE Flush
      /\ \A i : Queued(i)' <=> Queued(i) \/ i = Flush
  <2>1. PICK S : S = 0..Len(event) /\ queue \in Seq(S) /\ Flush \in S
    BY <1>1 DEF SlotSide
  <2>2. /\ queue' \in Seq(S)
        /\ Len(queue') = Len(queue) + 1
        /\ \A k \in 1..Len(queue') : queue'[k] = IF k <= Len(queue) THEN queue[k] ELSE Flush
        /\ \A i : Queued(i)' <=> Queued(i) \/ i = Flush
    BY <2>1, QueueGrows
  <2>. QED BY <2>1, <2>2
<1>3. SlotKept' /\ HeldBack'
  BY DEF SlotSide, SlotKept, HeldBack, Unsettled
<1>4. InOrder'
  <2>1. \A k \in 1..Len(queue') : queue'[k] # Flush => k \in 1..Len(queue) /\ queue'[k] = queue[k]
    BY <1>1, <1>2
  <2>2. ASSUME NEW a \in 1..Len(queue'), NEW b \in 1..Len(queue'), a < b, queue'[b] # Flush
        PROVE  queue'[a] < queue'[b]
    <3>1. a \in 1..Len(queue) /\ b \in 1..Len(queue) /\ queue'[a] = queue[a] /\ queue'[b] = queue[b]
      BY <1>1, <1>2, <2>1, <2>2
    <3>. QED BY <2>2, <3>1 DEF SlotSide, InOrder
  <2>3. Unsettled => \A k \in 1..Len(queue') : queue'[k] # Flush => running.work < queue'[k]
    BY <2>1 DEF SlotSide, InOrder
  <2>. QED BY <2>2, <2>3 DEF InOrder, Unsettled
<1>5. \A i \in 1..Len(event) : /\ InSlot(i)' <=> InSlot(i)
                               /\ Due(i)' <=> Due(i)
                               /\ Lost(i)' <=> Lost(i)
                               /\ Queued(i)' <=> Queued(i)
  BY <1>2 DEF InSlot, Due, Lost, Unsettled, Flush
<1>6. Fates'
  <2>1. \A i \in 1..Len(event) : FateOf(i)'
    BY <1>5 DEF SlotSide, Fates, FateOf
  <2>. QED BY <2>1 DEF SlotSide, Fates, Unsettled
<1>. QED BY <1>1, <1>2, <1>3, <1>4, <1>6 DEF SlotSide

-----------------------------------------------------------------------------
(* What is on the wire.                                                    *)

WireSide ==
  /\ orphans \subseteq [work : 0..MaxEvents, markers : SUBSET Marker]
  /\ Carried

(* Nothing that was received, lost or heard is taken back.                 *)
Steady ==
  /\ Len(event) <= Len(event')
  /\ \A i \in 1..Len(event) : Lost(i) => event'[i] = event[i]
  /\ got \subseteq got'
  /\ epoch \in Nat /\ epoch' \in Nat /\ epoch <= epoch'
  /\ heard \in [Room \cup {None} -> Nat] /\ heard' \in [Room \cup {None} -> Nat]
  /\ \A r \in Room \cup {None} : heard'[r] >= heard[r]

(* What is accounted for stays so.                                         *)
LEMMA AccountedStays ==
  ASSUME Steady, event \in Seq(EventUpTo(epoch)), NEW j \in Nat, j <= Len(event), NEW ms,
         Accounted(j, ms)
  PROVE  Accounted(j, ms)'
<1>. SUFFICES ASSUME NEW i \in 1..j - 1, i \notin got'
              PROVE  (Lost(i) /\ (Covered(i, heard) \/ Announces(ms, i)))'
  BY DEF Accounted
<1>1. i \in 1..Len(event)
  BY DEF Steady
<1>2. i \notin got
  BY DEF Steady
<1>3. Lost(i) /\ (Covered(i, heard) \/ Announces(ms, i))
  BY <1>2 DEF Accounted
<1>4. event'[i] = event[i]
  BY <1>1, <1>3 DEF Steady
<1>5. event[i].room \in Room \cup {None} /\ event[i].lost \in Nat
  <2>1. event[i] \in EventUpTo(epoch)
    BY <1>1
  <2>. QED BY <2>1 DEF EventUpTo, Steady
<1>6. CASE Covered(i, heard)
  <2>1. PICK r \in Room \cup {None} : r \in {event[i].room, None} /\ heard[r] >= event[i].lost
    BY <1>5, <1>6 DEF Covered
  <2>2. heard'[r] >= event[i].lost
    BY <1>5, <2>1 DEF Steady
  <2>3. Covered(i, heard)'
    BY <1>4, <2>1, <2>2 DEF Covered
  <2>. QED BY <1>3, <1>4, <2>3 DEF Lost
<1>7. CASE Announces(ms, i)
  <2>1. Announces(ms, i)'
    BY <1>4, <1>7 DEF Announces
  <2>. QED BY <1>3, <1>4, <2>1 DEF Lost
<1>. QED BY <1>3, <1>6, <1>7

(* The publication in the slot stays, commits, settles or becomes a        *)
(* statement that nobody waits for.                                        *)
LEMMA WireStays ==
  ASSUME WireSide, Steady, event \in Seq(EventUpTo(epoch)), Len(event) <= MaxEvents,
         Unsettled => running.work \in 0..Len(event) /\ running.markers \in SUBSET Marker,
         \A s \in orphans' :
           \/ s \in orphans
           \/ Unsettled /\ s = [work |-> running.work, markers |-> running.markers],
         Unsettled' => Unsettled /\ running'.work = running.work /\ running'.markers = running.markers,
         Unsettled' /\ running'.at = "sent" =>
           running.at = "sent" \/ \A m \in running.markers : heard'[m.room] >= m.epoch
  PROVE  WireSide'
<1>1. MaxEvents \in Nat /\ Len(event) \in Nat /\ Len(event) <= Len(event')
  BY BoundAssumption DEF Steady
<1>2. orphans' \subseteq [work : 0..MaxEvents, markers : SUBSET Marker]
  BY <1>1 DEF WireSide
<1>3. Unsettled => \E j, ms : /\ j = running.work /\ ms = running.markers
                              /\ Accounted(j, ms)'
  <2>. SUFFICES ASSUME Unsettled
                PROVE  \E j, ms : j = running.work /\ ms = running.markers /\ Accounted(j, ms)'
    OBVIOUS
  <2>1. PICK j, ms : j \in Nat /\ j = running.work /\ ms = running.markers /\ j <= Len(event)
    BY <1>1
  <2>2. Accounted(j, ms)
    BY <2>1 DEF WireSide, Carried
  <2>3. Accounted(j, ms)'
    BY <2>1, <2>2, AccountedStays
  <2>. QED BY <2>1, <2>3
<1>4. \A s \in orphans : s.work <= Len(event) /\ Accounted(s.work, s.markers)'
  <2>. SUFFICES ASSUME NEW s \in orphans
                PROVE  s.work <= Len(event) /\ Accounted(s.work, s.markers)'
    OBVIOUS
  <2>1. s.work \in Nat /\ s.work <= Len(event)
    BY <1>1 DEF WireSide, Carried
  <2>2. Accounted(s.work, s.markers)
    BY DEF WireSide, Carried
  <2>. QED BY <2>1, <2>2, AccountedStays
<1>5. Unsettled' => Accounted(running.work, running.markers)'
  <2>. SUFFICES ASSUME Unsettled' PROVE Accounted(running.work, running.markers)'
    OBVIOUS
  <2>1. PICK j, ms : j = running.work /\ ms = running.markers /\ Accounted(j, ms)'
    BY <1>3
  <2>2. running'.work = j /\ running'.markers = ms
    BY <2>1
  <2>. QED BY <2>1, <2>2 DEF Accounted
<1>6. \A s \in orphans' : s.work <= Len(event') /\ Accounted(s.work, s.markers)'
  <2>. SUFFICES ASSUME NEW s \in orphans'
                PROVE  s.work <= Len(event') /\ Accounted(s.work, s.markers)'
    OBVIOUS
  <2>1. CASE s \in orphans
    <3>1. s.work \in Nat /\ s.work <= Len(event)
      BY <1>1, <2>1 DEF WireSide, Carried
    <3>. QED BY <1>1, <1>4, <2>1, <3>1
  <2>2. CASE Unsettled /\ s = [work |-> running.work, markers |-> running.markers]
    <3>1. PICK j, ms : j = running.work /\ ms = running.markers /\ Accounted(j, ms)'
      BY <1>3, <2>2
    <3>2. s.work = j /\ s.markers = ms
      BY <2>2, <3>1
    <3>. QED BY <1>1, <2>2, <3>1, <3>2
  <2>. QED BY <2>1, <2>2
<1>7. Unsettled' /\ running'.at = "sent" =>
        \A m \in running'.markers : heard'[m.room] >= m.epoch
  <2>. SUFFICES ASSUME Unsettled', running'.at = "sent", NEW m \in running'.markers
                PROVE  heard'[m.room] >= m.epoch
    OBVIOUS
  <2>1. m \in running.markers /\ m.room \in Room \cup {None} /\ m.epoch \in Nat
    BY <1>1 DEF Marker
  <2>2. CASE running.at = "sent"
    <3>1. heard[m.room] >= m.epoch
      BY <2>1, <2>2 DEF WireSide, Carried
    <3>. QED BY <2>1, <3>1 DEF Steady
  <2>. QED BY <2>1, <2>2
<1>8. \A m \in Marker : m.epoch \in Nat
  BY <1>1 DEF Marker
<1>9. Unsettled' => \A m \in running'.markers : m.epoch <= epoch'
  BY <1>8 DEF WireSide, Carried, Steady
<1>10. \A s \in orphans' : \A m \in s.markers : m.epoch <= epoch'
  <2>. SUFFICES ASSUME NEW s \in orphans', NEW m \in s.markers PROVE m.epoch <= epoch'
    OBVIOUS
  <2>1. m \in Marker /\ m.epoch \in Nat
    BY <1>2, <1>8
  <2>2. m.epoch <= epoch
    BY DEF WireSide, Carried
  <2>. QED BY <2>1, <2>2 DEF Steady
<1>11. Carried'
  BY <1>5, <1>6, <1>7, <1>9, <1>10 DEF Carried
<1>. QED BY <1>2, <1>11 DEF WireSide

(* A publication that takes the slot carries a marker for every loss that  *)
(* no marker has announced.                                                *)
LEMMA WireStarts ==
  ASSUME LossSide, WireSide, Steady,
         epoch' = epoch, heard' = heard, got' = got, orphans' = orphans,
         NEW j \in Nat, j = running'.work, j <= Len(event'),
         running'.markers = Snapshot(rooms, global),
         running'.at = "sent" => running'.markers = {},
         \A i \in 1..j - 1 : i \in 1..Len(event) /\ (i \in got \/ Lost(i))
  PROVE  WireSide'
<1>. DEFINE ms == Snapshot(rooms, global)
<1>1. /\ LossesTyped /\ epoch <= MaxEvents /\ epoch \in Nat
      /\ event \in Seq(EventUpTo(epoch)) /\ Len(event) \in Nat /\ Len(event) <= Len(event')
  BY EpochIsBounded DEF LossSide, Steady
<1>2. /\ ms \in SUBSET Marker
      /\ \A m \in ms : m.epoch <= epoch
      /\ \A r \in Room \cup {None}, e \in Nat \ {0} : Pending(r, e) =>
           \E m \in ms : m.room \in {r, None} /\ m.epoch >= e
  BY <1>1, SnapshotAnnounces
<1>3. running'.markers = ms
  OBVIOUS
<1>. HIDE DEF ms
<1>4. Accounted(running.work, running.markers)'
  <2>. SUFFICES ASSUME NEW i \in 1..j - 1, i \notin got
                PROVE  (Lost(i) /\ (Covered(i, heard) \/ Announces(running.markers, i)))'
    BY DEF Accounted
  <2>1. i \in 1..Len(event) /\ Lost(i)
    OBVIOUS
  <2>2. event'[i] = event[i]
    BY <2>1 DEF Steady
  <2>3. CASE Covered(i, heard)
    BY <2>1, <2>2, <2>3 DEF Covered, Lost
  <2>4. CASE Pending(event[i].room, event[i].lost)
    <3>1. event[i] \in EventUpTo(epoch)
      BY <1>1, <2>1
    <3>2. PICK r \in Room \cup {None}, e \in Nat \ {0} : r = event[i].room /\ e = event[i].lost
      BY <1>1, <2>1, <3>1 DEF EventUpTo, Lost
    <3>3. PICK m \in ms : m.room \in {r, None} /\ m.epoch >= e
      BY <1>2, <2>4, <3>2
    <3>. QED BY <1>3, <2>1, <2>2, <3>2, <3>3 DEF Announces, Lost
  <2>. QED BY <2>1, <2>3, <2>4, ForgottenMeans
<1>5. \A s \in orphans' : s.work <= Len(event') /\ Accounted(s.work, s.markers)'
  <2>. SUFFICES ASSUME NEW s \in orphans
                PROVE  s.work <= Len(event') /\ Accounted(s.work, s.markers)'
    OBVIOUS
  <2>1. s.work \in Nat /\ s.work <= Len(event)
    BY BoundAssumption DEF WireSide, Carried
  <2>2. Accounted(s.work, s.markers)
    BY DEF WireSide, Carried
  <2>3. Accounted(s.work, s.markers)'
    BY <1>1, <2>1, <2>2, AccountedStays
  <2>. QED BY <1>1, <2>1, <2>3
<1>6. Carried'
  BY <1>2, <1>3, <1>4, <1>5 DEF WireSide, Carried
<1>. QED BY <1>6 DEF WireSide

(* A publication that starts.                                              *)
LEMMA StartedIs ==
  ASSUME LossSide, NEW w \in 0..MaxEvents, NEW waited \in BOOLEAN, NEW s,
         s = Started(w, waited)
  PROVE  /\ s \in Publication /\ s # None
         /\ s.work = w /\ s.markers = Snapshot(rooms, global)
         /\ s.overdue = FALSE
         /\ s.at \in {"sent", "sending"}
         /\ s.at = "sent" => w = Flush /\ s.markers = {}
<1>1. Snapshot(rooms, global) \in SUBSET Marker
  BY EpochIsBounded, SnapshotAnnounces DEF LossSide
<1>2. PICK ms \in SUBSET Marker : ms = Snapshot(rooms, global)
  BY <1>1
<1>3. s = [work |-> w, markers |-> ms, waited |-> waited, overdue |-> FALSE,
           at |-> IF w = Flush /\ ms = {} THEN "sent" ELSE "sending"]
  BY <1>2 DEF Started
<1>4. s \in Publication
  BY <1>3 DEF Publication
<1>5. s # None
  BY <1>4, NoneIsNoPublication
<1>6. /\ s.work = w /\ s.markers = ms
      /\ s.overdue = FALSE
      /\ s.at \in {"sent", "sending"}
      /\ s.at = "sent" => w = Flush /\ ms = {}
  BY <1>3
<1>. QED BY <1>2, <1>4, <1>5, <1>6

-----------------------------------------------------------------------------
(* The steps.                                                              *)

Sides ==
  /\ LossSide
  /\ SlotSide
  /\ WireSide
  /\ RetryIsArmed
  /\ timer \in BOOLEAN /\ active \in BOOLEAN

(* The publication in the slot has an event that exists and typed markers. *)
LEMMA SlotIsTyped ==
  ASSUME SlotSide
  PROVE  Unsettled => running.work \in 0..Len(event) /\ running.markers \in SUBSET Marker
BY SlotFacts DEF Publication

(* A step that delivers nothing and starts nothing.                        *)
LEMMA WireUntouched ==
  ASSUME LossSide, SlotSide, WireSide,
         Len(event) <= Len(event'),
         \A i \in 1..Len(event) : Lost(i) => event'[i] = event[i],
         got' = got, heard' = heard, epoch' \in {epoch, epoch + 1},
         \A s \in orphans' :
           \/ s \in orphans
           \/ Unsettled /\ s = [work |-> running.work, markers |-> running.markers],
         Unsettled' => /\ Unsettled
                       /\ running'.work = running.work /\ running'.markers = running.markers
                       /\ running'.at = running.at
  PROVE  WireSide'
<1>1. /\ event \in Seq(EventUpTo(epoch)) /\ Len(event) <= MaxEvents
      /\ epoch \in Nat /\ heard \in [Room \cup {None} -> 0..epoch]
  BY EpochIsBounded DEF LossSide
<1>2. Steady
  BY <1>1 DEF Steady
<1>. QED BY <1>1, <1>2, SlotIsTyped, WireStays

(* A loss sets the timer, unless the bridge is stopped.                    *)
LEMMA ArmedByLoss ==
  ASSUME timer' = (timer \/ active), active' = active
  PROVE  RetryIsArmed'
BY DEF RetryIsArmed

(* The other steps without an effect on what is pending keep the retry     *)
(* armed when each of its reasons leads to one of them.                    *)
LEMMA ArmedStays ==
  ASSUME RetryIsArmed, Snapshot(rooms, global)' # {} => Snapshot(rooms, global) # {},
         active' = active,
         timer => timer' \/ Snapshot(rooms, global)' = {},
         Queued(Flush) \/ (Unsettled /\ running.work = Flush /\ ~running.overdue) =>
           \/ Queued(Flush)'
           \/ (Unsettled /\ running.work = Flush /\ ~running.overdue)'
           \/ \E p \in 1..Len(micro') : micro'[p].do = "reschedule",
         (\E p \in 1..Len(micro) : micro[p].do = "reschedule") =>
           timer' \/ Snapshot(rooms, global)' = {}
             \/ \E p \in 1..Len(micro') : micro'[p].do = "reschedule"
  PROVE  RetryIsArmed'
BY DEF RetryIsArmed

(* An event that has no relayable form.                                    *)
LEMMA DropKeeps ==
  ASSUME Sides, NEW room \in Room \cup {None}, Drop(room)
  PROVE  Sides'
<1>1. /\ Len(event) < MaxEvents /\ Len(event) \in Nat /\ MaxEvents \in Nat
      /\ epoch \in Nat /\ event \in Seq(EventUpTo(epoch))
      /\ event' = Append(event, [room |-> room, lost |-> epoch + 1])
      /\ Report(room)
      /\ queue' = queue /\ running' = running /\ orphans' = orphans /\ micro' = micro
      /\ active' = active /\ got' = got /\ heard' = heard
  BY BoundAssumption, EpochIsBounded, SlotFacts DEF Sides, LossSide, Drop, other
<1>2. PICK n \in Nat : n = Len(event) + 1
  BY <1>1
<1>3. /\ event' \in Seq(EventUpTo(epoch + 1))
      /\ Len(event') = n
      /\ \A i \in 1..Len(event) : event'[i] = event[i]
      /\ event'[n].lost = epoch + 1 /\ event'[n].room = room
  <2>1. [room |-> room, lost |-> epoch + 1] \in EventUpTo(epoch + 1)
    BY <1>1 DEF EventUpTo
  <2>2. event \in Seq(EventUpTo(epoch + 1))
    <3>1. EventUpTo(epoch) \subseteq EventUpTo(epoch + 1)
      BY <1>1 DEF EventUpTo
    <3>. QED BY <1>1, <3>1
  <2>3. PICK e : e = [room |-> room, lost |-> epoch + 1]
    OBVIOUS
  <2>4. e \in EventUpTo(epoch + 1) /\ e.lost = epoch + 1 /\ e.room = room /\ event' = Append(event, e)
    BY <1>1, <2>1, <2>3
  <2>. QED BY <1>2, <2>2, <2>4
<1>4. LossSide'
  <2>1. n \in 1..Len(event')
    BY <1>2, <1>3
  <2>2. n \in 1..Len(event) => ~Lost(n)
    BY <1>1, <1>2
  <2>3. \A i \in 1..Len(event') : i # n => i \in 1..Len(event) /\ event'[i] = event[i]
    BY <1>1, <1>2, <1>3
  <2>4. Len(event') <= MaxEvents /\ Len(event) <= Len(event')
    BY <1>1, <1>2, <1>3
  <2>. QED BY <1>1, <1>3, <2>1, <2>2, <2>3, <2>4, LossIsKept DEF Sides
<1>5. \A i \in 1..Len(event) : Lost(i)' <=> Lost(i)
  BY <1>3 DEF Lost
<1>6. SlotSide'
  <2>1. event'[n].lost > 0
    BY <1>1, <1>3
  <2>. QED BY <1>1, <1>2, <1>3, <1>5, <2>1, DropKeepsSlot DEF Sides
<1>7. epoch' = epoch + 1 /\ timer' = (timer \/ active)
  BY <1>1, QueueLossKeeps DEF Sides, LossSide
<1>8. WireSide'
  <2>1. Len(event) <= Len(event')
    BY <1>1, <1>2, <1>3
  <2>2. Unsettled' => Unsettled
    BY <1>1 DEF Unsettled
  <2>. QED BY <1>1, <1>3, <1>7, <2>1, <2>2, WireUntouched DEF Sides
<1>9. RetryIsArmed' /\ timer' \in BOOLEAN /\ active' \in BOOLEAN
  BY <1>1, <1>7, ArmedByLoss DEF Sides
<1>. QED BY <1>4, <1>6, <1>8, <1>9 DEF Sides

(* An event is refused, takes the free slot, or waits.                     *)
LEMMA EmitKeeps ==
  ASSUME Sides, NEW room \in Room \cup {None}, Emit(room)
  PROVE  Sides'
<1>1. /\ Len(event) < MaxEvents /\ Len(event) \in Nat /\ MaxEvents \in Nat
      /\ epoch \in Nat /\ event \in Seq(EventUpTo(epoch))
      /\ event' = Append(event, [room |-> room, lost |-> 0])
      /\ epoch' = epoch /\ rooms' = rooms /\ global' = global /\ timer' = timer
      /\ orphans' = orphans /\ active' = active /\ got' = got /\ heard' = heard
  BY BoundAssumption, EpochIsBounded, SlotFacts DEF Sides, LossSide, Emit, losses, other
<1>2. PICK n \in Nat : n = Len(event) + 1 /\ n \in 0..MaxEvents
  BY <1>1
<1>3. /\ IF Refused THEN micro' = micro \o Failure(n) /\ UNCHANGED <<queue, running>>
                    ELSE Submit(n) /\ UNCHANGED micro
      /\ n # Flush
  BY <1>1, <1>2 DEF Emit, Flush
<1>4. /\ Len(event') = n
      /\ \A i \in 1..Len(event) : event'[i] = event[i]
      /\ event'[n].lost = 0
  <2>1. PICK e : e = [room |-> room, lost |-> 0]
    OBVIOUS
  <2>2. e.lost = 0 /\ event' = Append(event, e)
    BY <1>1, <2>1
  <2>. QED BY <1>1, <1>2, <2>2
<1>5. /\ \A i \in 1..Len(event) : Lost(i)' <=> Lost(i)
      /\ ~(event'[n].lost > 0)
      /\ Len(event) <= Len(event')
  BY <1>1, <1>2, <1>4 DEF Lost
<1>6. LossSide'
  BY <1>1, EmitKeepsLosses DEF Sides
<1>7. timer' \in BOOLEAN /\ active' \in BOOLEAN
  BY <1>1 DEF Sides
<1>8. Snapshot(rooms, global)' = Snapshot(rooms, global)
  BY <1>1
<1>9. CASE Refused
  <2>1. /\ micro' = Append(micro, [do |-> "report", work |-> n])
        /\ queue' = queue /\ running' = running
        /\ \A p \in 1..Len(micro) : p \in 1..Len(micro') /\ micro'[p] = micro[p]
    <3>1. PICK c : c = [do |-> "report", work |-> n]
      OBVIOUS
    <3>2. micro' = micro \o <<c>> /\ queue' = queue /\ running' = running
      BY <1>3, <1>9, <3>1 DEF Failure
    <3>3. PICK S, q : q \in Seq(S) /\ q = micro
      BY DEF Sides, SlotSide
    <3>4. PICK T : c \in T
      <4>1. c \in {c}
        OBVIOUS
      <4>. QED BY <4>1
    <3>5. /\ q \o <<c>> = Append(q, c)
          /\ \A p \in 1..Len(q) : p \in 1..Len(Append(q, c)) /\ Append(q, c)[p] = q[p]
      BY <3>3, <3>4, AppendOne
    <3>. QED BY <3>1, <3>2, <3>3, <3>5
  <2>2. SlotSide'
    BY <1>1, <1>2, <1>4, <1>5, <1>9, <2>1, RefusalKeepsSlot DEF Sides
  <2>3. WireSide'
    <3>1. Unsettled' => Unsettled
      BY <2>1 DEF Unsettled
    <3>. QED BY <1>1, <1>4, <1>5, <2>1, <3>1, WireUntouched DEF Sides
  <2>4. RetryIsArmed'
    <3>1. Queued(Flush) => Queued(Flush)'
      BY <2>1 DEF Queued
    <3>2. (\E p \in 1..Len(micro) : micro[p].do = "reschedule") =>
             \E p \in 1..Len(micro') : micro'[p].do = "reschedule"
      BY <2>1
    <3>. QED BY <1>1, <1>8, <2>1, <3>1, <3>2, ArmedStays DEF Sides, Unsettled
  <2>. QED BY <1>6, <1>7, <2>2, <2>3, <2>4 DEF Sides
<1>10. CASE ~Refused /\ running = None
  <2>1. running' = Started(n, FALSE) /\ queue' = queue /\ micro' = micro
    BY <1>3, <1>10 DEF Submit
  <2>2. /\ running' \in Publication /\ running' # None
        /\ running'.work = n /\ running'.markers = Snapshot(rooms, global)
        /\ running'.overdue = FALSE
        /\ running'.at = "sending"
    <3>1. PICK s : s = running' /\ s = Started(n, FALSE)
      BY <2>1
    <3>2. /\ s \in Publication /\ s # None
          /\ s.work = n /\ s.markers = Snapshot(rooms, global)
          /\ s.overdue = FALSE
          /\ s.at \in {"sent", "sending"}
          /\ s.at = "sent" => n = Flush /\ s.markers = {}
      BY <1>2, <3>1, StartedIs DEF Sides
    <3>. QED BY <1>3, <3>1, <3>2
  <2>3. SlotSide'
    BY <1>1, <1>2, <1>4, <1>5, <1>10, <2>1, <2>2, StartKeepsSlot DEF Sides
  <2>4. WireSide'
    <3>1. Steady
      <4>1. heard \in [Room \cup {None} -> 0..epoch] /\ epoch \in Nat
        BY <1>1 DEF Sides, LossSide
      <4>. QED BY <1>1, <1>4, <1>5, <4>1 DEF Steady
    <3>2. ASSUME NEW i \in 1..n - 1 PROVE i \in 1..Len(event) /\ (i \in got \/ Lost(i))
      <4>1. i \in 1..Len(event)
        BY <1>1, <1>2
      <4>2. ~Queued(i) /\ ~Due(i) /\ ~InSlot(i)
        BY <1>10 DEF Sides, SlotSide, SlotKept, Queued, Due, InSlot, Unsettled
      <4>. QED BY <4>1, <4>2 DEF Sides, SlotSide, Fates, FateOf
    <3>. QED BY <1>1, <1>4, <2>2, <3>1, <3>2, WireStarts DEF Sides
  <2>5. RetryIsArmed'
    <3>1. ~Unsettled
      BY <1>10 DEF Unsettled
    <3>. QED BY <1>1, <1>8, <2>1, <3>1, ArmedStays DEF Sides, Queued
  <2>. QED BY <1>6, <1>7, <2>3, <2>4, <2>5 DEF Sides
<1>11. CASE ~Refused /\ running # None
  <2>1. running' = running /\ queue' = Append(queue, n) /\ micro' = micro
    BY <1>3, <1>11 DEF Submit
  <2>2. SlotSide'
    BY <1>1, <1>2, <1>4, <1>5, <1>11, <2>1, WaitKeepsSlot DEF Sides
  <2>3. WireSide'
    <3>1. Unsettled' => Unsettled
      BY <2>1 DEF Unsettled
    <3>. QED BY <1>1, <1>4, <1>5, <2>1, <3>1, WireUntouched DEF Sides
  <2>4. RetryIsArmed'
    <3>1. Queued(Flush) => Queued(Flush)'
      <4>1. PICK S, q : q \in Seq(S) /\ q = queue
        BY DEF Sides, SlotSide
      <4>2. n \in {n}
        OBVIOUS
      <4>3. \A p \in 1..Len(q) : p \in 1..Len(Append(q, n)) /\ Append(q, n)[p] = q[p]
        BY <4>1, <4>2, AppendOne
      <4>. QED BY <2>1, <4>1, <4>3 DEF Queued
    <3>. QED BY <1>1, <1>8, <2>1, <3>1, ArmedStays DEF Sides, Unsettled
  <2>. QED BY <1>6, <1>7, <2>2, <2>3, <2>4 DEF Sides
<1>. QED BY <1>9, <1>10, <1>11

(* A queued call runs into its deadline.                                   *)
LEMMA ExpireKeeps ==
  ASSUME Sides, NEW k \in 1..Len(queue), Expire(k)
  PROVE  Sides'
<1>1. /\ event' = event /\ epoch' = epoch /\ rooms' = rooms /\ global' = global /\ timer' = timer
      /\ running' = running /\ orphans' = orphans /\ active' = active
      /\ got' = got /\ heard' = heard
      /\ micro = <<>> /\ micro' = Failure(queue[k])
      /\ queue' = SubSeq(queue, 1, k - 1) \o SubSeq(queue, k + 1, Len(queue))
  BY DEF Expire, losses, other
<1>2. /\ Len(event) \in Nat
      /\ epoch \in Nat /\ heard \in [Room \cup {None} -> 0..epoch]
  BY EpochIsBounded, SlotFacts DEF Sides, LossSide
<1>3. LossSide'
  BY <1>1, <1>2, HeardKeepsLosses DEF Sides
<1>4. SlotSide'
  BY ExpiryKeepsSlot DEF Sides
<1>5. WireSide'
  <2>1. Unsettled' => Unsettled
    BY <1>1 DEF Unsettled
  <2>. QED BY <1>1, <1>2, <2>1, WireUntouched DEF Sides
<1>6. RetryIsArmed'
  <2>1. CASE queue[k] = Flush
    <3>1. micro' = <<[do |-> "reschedule", work |-> Flush]>>
      BY <1>1, <2>1 DEF Failure
    <3>2. \E p \in 1..Len(micro') : micro'[p].do = "reschedule"
      BY <3>1
    <3>. QED BY <3>2 DEF RetryIsArmed
  <2>2. CASE queue[k] # Flush
    <3>1. Queued(Flush) => Queued(Flush)'
      <4>1. PICK S, q : q \in Seq(S) /\ q = queue /\ k \in 1..Len(q)
        BY DEF Sides, SlotSide
      <4>2. PICK r : r = queue'
        OBVIOUS
      <4>3. r = SubSeq(q, 1, k - 1) \o SubSeq(q, k + 1, Len(q))
        BY <1>1, <4>1, <4>2, Zenon
      <4>4. r \in Seq(S) /\ IsWithout(r, q, k)
        BY <4>1, <4>3, WithoutOne, Zenon
      <4>5. Len(queue) \in Nat /\ Len(queue') = Len(queue) - 1
        BY <4>1, <4>2, <4>4 DEF IsWithout
      <4>6. \A i \in 1..Len(queue) - 1 : queue'[i] = IF i < k THEN queue[i] ELSE queue[i + 1]
        BY <4>1, <4>2, <4>4 DEF IsWithout
      <4>7. \A i : Queued(i) => Queued(i)' \/ i = queue[k]
        BY <4>5, <4>6, QueueLeaves
      <4>. QED BY <2>2, <4>7
    <3>2. (Unsettled /\ running.work = Flush /\ ~running.overdue) =>
            (Unsettled /\ running.work = Flush /\ ~running.overdue)'
      BY <1>1 DEF Unsettled
    <3>3. ~ \E p \in 1..Len(micro) : micro[p].do = "reschedule"
      BY <1>1
    <3>. QED BY <1>1, <3>1, <3>2, <3>3, ArmedStays DEF Sides
  <2>. QED BY <2>1, <2>2
<1>. QED BY <1>1, <1>3, <1>4, <1>5, <1>6 DEF Sides

(* The deadline passes during the publication.                             *)
LEMMA OverdueKeeps ==
  ASSUME Sides, Overdue
  PROVE  Sides'
<1>1. /\ event' = event /\ epoch' = epoch /\ rooms' = rooms /\ global' = global /\ timer' = timer
      /\ queue' = queue /\ orphans' = orphans /\ active' = active
      /\ got' = got /\ heard' = heard
      /\ micro = <<>> /\ micro' = Failure(running.work)
      /\ running # None
      /\ running' = [running EXCEPT !.overdue = TRUE]
  BY DEF Overdue, losses, other
<1>2. /\ Len(event) \in Nat
      /\ epoch \in Nat /\ heard \in [Room \cup {None} -> 0..epoch]
  BY EpochIsBounded, SlotFacts DEF Sides, LossSide
<1>3. LossSide'
  BY <1>1, <1>2, HeardKeepsLosses DEF Sides
<1>4. SlotSide'
  BY OverdueKeepsSlot DEF Sides
<1>5. /\ running'.work = running.work /\ running'.markers = running.markers
      /\ running'.at = running.at
  <2>1. running \in Publication
    BY <1>1 DEF Sides, SlotSide
  <2>. QED BY <1>1, <2>1 DEF Publication
<1>6. WireSide'
  <2>1. Unsettled' => Unsettled
    BY <1>1, <1>5 DEF Unsettled
  <2>. QED BY <1>1, <1>2, <1>5, <2>1, WireUntouched DEF Sides
<1>7. RetryIsArmed'
  <2>1. CASE running.work = Flush
    <3>1. micro' = <<[do |-> "reschedule", work |-> Flush]>>
      BY <1>1, <2>1 DEF Failure
    <3>2. \E p \in 1..Len(micro') : micro'[p].do = "reschedule"
      BY <3>1
    <3>. QED BY <3>2 DEF RetryIsArmed
  <2>2. CASE running.work # Flush
    <3>1. Queued(Flush) => Queued(Flush)'
      BY <1>1 DEF Queued
    <3>2. ~ \E p \in 1..Len(micro) : micro[p].do = "reschedule"
      BY <1>1
    <3>. QED BY <1>1, <2>2, <3>1, <3>2, ArmedStays DEF Sides
  <2>. QED BY <2>1, <2>2
<1>. QED BY <1>1, <1>3, <1>4, <1>6, <1>7 DEF Sides

(* The statement of the publication commits.                               *)
LEMMA CommitKeeps ==
  ASSUME Sides, Commit
  PROVE  Sides'
<1>1. /\ event' = event /\ epoch' = epoch /\ rooms' = rooms /\ global' = global /\ timer' = timer
      /\ queue' = queue /\ orphans' = orphans /\ active' = active /\ micro' = micro
      /\ running # None /\ running.at = "sending"
      /\ Deliver(running)
      /\ got \subseteq got'
      /\ running' = [running EXCEPT !.at = "sent"]
  BY DEF Commit, Deliver, losses
<1>2. /\ Len(event) \in Nat /\ Len(event) <= MaxEvents /\ event \in Seq(EventUpTo(epoch))
      /\ epoch \in Nat /\ heard \in [Room \cup {None} -> 0..epoch]
  BY EpochIsBounded, SlotFacts DEF Sides, LossSide
<1>3. Unsettled /\ running \in Publication /\ running.markers \in SUBSET Marker
  <2>1. Unsettled /\ running \in Publication
    BY <1>1 DEF Sides, SlotSide, Unsettled
  <2>. QED BY <2>1, SlotIsTyped DEF Sides
<1>4. /\ heard' \in [Room \cup {None} -> 0..epoch]
      /\ \A r \in Room \cup {None} : heard'[r] >= heard[r]
      /\ \A m \in running.markers : heard'[m.room] >= m.epoch
  <2>1. \A m \in running.markers : m.epoch <= epoch
    BY <1>3 DEF Sides, WireSide, Carried
  <2>2. PICK s : s = running
    OBVIOUS
  <2>3. s.markers \in SUBSET Marker /\ (\A m \in s.markers : m.epoch <= epoch) /\ Deliver(s)
    BY <1>1, <1>3, <2>1, <2>2
  <2>4. /\ heard' \in [Room \cup {None} -> 0..epoch]
        /\ \A r \in Room \cup {None} : heard'[r] >= heard[r]
        /\ \A m \in s.markers : heard'[m.room] >= m.epoch
    BY <1>2, <2>3, DeliverHears
  <2>. QED BY <2>2, <2>4
<1>5. LossSide'
  BY <1>1, <1>4, HeardKeepsLosses DEF Sides
<1>6. SlotSide'
  BY CommitKeepsSlot DEF Sides
<1>7. /\ running' \in Publication
      /\ running'.work = running.work /\ running'.markers = running.markers
      /\ running'.overdue = running.overdue /\ running'.at = "sent"
  BY <1>1, <1>3 DEF Publication
<1>8. WireSide'
  <2>1. Steady
    BY <1>1, <1>2, <1>4 DEF Steady
  <2>. QED BY <1>1, <1>2, <1>3, <1>4, <1>7, <2>1, SlotIsTyped, WireStays DEF Sides
<1>9. RetryIsArmed'
  <2>1. Queued(Flush) => Queued(Flush)'
    BY <1>1 DEF Queued
  <2>2. Unsettled'
    BY <1>7, NoneIsNoPublication DEF Unsettled
  <2>. QED BY <1>1, <1>7, <2>1, <2>2, ArmedStays DEF Sides
<1>. QED BY <1>1, <1>5, <1>6, <1>8, <1>9 DEF Sides

(* A statement that nobody waits for commits.                              *)
LEMMA OrphanCommitsKeeps ==
  ASSUME Sides, NEW s \in orphans, OrphanCommits(s)
  PROVE  Sides'
<1>1. /\ event' = event /\ epoch' = epoch /\ rooms' = rooms /\ global' = global /\ timer' = timer
      /\ queue' = queue /\ active' = active /\ micro' = micro /\ running' = running
      /\ Deliver(s)
      /\ got' = IF s.work = Flush THEN got ELSE got \cup {s.work}
      /\ orphans' \subseteq orphans
  BY DEF OrphanCommits, Deliver, losses
<1>2. /\ Len(event) \in Nat /\ Len(event) <= MaxEvents /\ event \in Seq(EventUpTo(epoch))
      /\ epoch \in Nat /\ heard \in [Room \cup {None} -> 0..epoch]
  BY EpochIsBounded, SlotFacts DEF Sides, LossSide
<1>3. /\ s.work \in 0..Len(event) /\ s.markers \in SUBSET Marker
      /\ \A m \in s.markers : m.epoch <= epoch
  BY <1>2, BoundAssumption DEF Sides, WireSide, Carried
<1>4. /\ heard' \in [Room \cup {None} -> 0..epoch]
      /\ \A r \in Room \cup {None} : heard'[r] >= heard[r]
  BY <1>1, <1>2, <1>3, DeliverHears
<1>5. LossSide'
  BY <1>1, <1>4, HeardKeepsLosses DEF Sides
<1>6. SlotSide'
  <2>1. got \subseteq got' /\ got' \subseteq 1..Len(event)
    <3>1. got \subseteq 1..Len(event)
      BY DEF Sides, SlotSide
    <3>2. s.work # Flush => s.work \in 1..Len(event)
      BY <1>2, <1>3 DEF Flush
    <3>. QED BY <1>1, <3>1, <3>2
  <2>. QED BY <1>1, <2>1, ReceiptKeepsSlot DEF Sides
<1>7. WireSide'
  <2>1. Steady
    BY <1>1, <1>2, <1>4 DEF Steady
  <2>2. Unsettled' => Unsettled
    BY <1>1 DEF Unsettled
  <2>. QED BY <1>1, <1>2, <2>1, <2>2, SlotIsTyped, WireStays DEF Sides
<1>8. RetryIsArmed'
  BY <1>1 DEF Sides, RetryIsArmed, Queued, Unsettled
<1>. QED BY <1>1, <1>5, <1>6, <1>7, <1>8 DEF Sides

(* A flush that settles before its deadline is followed by another.        *)
LEMMA FlushIsRescheduled ==
  ASSUME SlotSide, running # None, running.at \in {"sending", "sent"},
         running.work = Flush, ~running.overdue,
         NEW callbacks, callbacks \in {Failure(running.work), Success(running.work)},
         micro' = Settled(running, callbacks)
  PROVE  \E p \in 1..Len(micro') : micro'[p].do = "reschedule"
<1>1. PICK n, w, s, m :
        n \in Nat /\ w \in 0..n /\ n = Len(event) /\ w = running.work /\ s = running /\ m = micro'
  BY SlotFacts DEF Flush
<1>2. w = Flush /\ ~s.overdue /\ s.work = w /\ s.overdue \in BOOLEAN
      /\ callbacks \in {Failure(w), Success(w)} /\ m = Settled(s, callbacks)
  <2>1. running \in Publication
    BY DEF SlotSide
  <2>. QED BY <1>1, <2>1 DEF Publication
<1>3. Len(m) = 2 /\ m[1].do = "reschedule"
  BY <1>1, <1>2, SettledIs
<1>. QED BY <1>1, <1>3

(* The publication is answered, and its markers are cleared.               *)
LEMMA AnswerKeeps ==
  ASSUME Sides, Answer
  PROVE  Sides'
<1>1. /\ event' = event /\ queue' = queue /\ orphans' = orphans /\ active' = active
      /\ got' = got /\ heard' = heard
      /\ micro = <<>> /\ running # None /\ running.at = "sent"
      /\ Clear(running.markers)
      /\ micro' = Settled(running, Success(running.work))
      /\ running' = Ended
  BY DEF Answer, other
<1>2. /\ Len(event) \in Nat /\ LossesTyped
      /\ epoch \in Nat /\ heard \in [Room \cup {None} -> 0..epoch]
  BY EpochIsBounded, SlotFacts DEF Sides, LossSide
<1>3. Unsettled /\ running.markers \in SUBSET Marker
      /\ \A m \in running.markers : heard[m.room] >= m.epoch
  <2>1. Unsettled
    BY <1>1 DEF Unsettled
  <2>. QED BY <1>1, <2>1, SlotIsTyped DEF Sides, WireSide, Carried
<1>4. /\ epoch' = epoch
      /\ timer' = (timer /\ Snapshot(rooms, global)' # {})
      /\ Snapshot(rooms, global) = {} => Snapshot(rooms, global)' = {}
  BY <1>1, <1>2, <1>3, ClearKeeps
<1>5. LossSide'
  BY <1>1, <1>3, ClearKeepsLosses DEF Sides
<1>6. SlotSide'
  BY <1>1, SettleKeepsSlot DEF Sides
<1>7. ~Unsettled'
  BY <1>1 DEF Unsettled, Ended
<1>8. WireSide'
  BY <1>1, <1>2, <1>4, <1>7, WireUntouched DEF Sides
<1>9. RetryIsArmed'
  <2>1. Queued(Flush) => Queued(Flush)'
    BY <1>1 DEF Queued
  <2>2. (Unsettled /\ running.work = Flush /\ ~running.overdue) =>
          \E p \in 1..Len(micro') : micro'[p].do = "reschedule"
    BY <1>1, FlushIsRescheduled DEF Sides
  <2>3. ~ \E p \in 1..Len(micro) : micro[p].do = "reschedule"
    BY <1>1
  <2>4. timer => timer' \/ Snapshot(rooms, global)' = {}
    BY <1>4
  <2>. QED BY <1>1, <1>4, <2>1, <2>2, <2>3, <2>4, ArmedStays DEF Sides
<1>. QED BY <1>1, <1>4, <1>5, <1>6, <1>8, <1>9 DEF Sides

(* The publication fails; its statement may still be under way.            *)
LEMMA FailKeeps ==
  ASSUME Sides, Fail
  PROVE  Sides'
<1>1. /\ event' = event /\ epoch' = epoch /\ rooms' = rooms /\ global' = global /\ timer' = timer
      /\ queue' = queue /\ active' = active /\ got' = got /\ heard' = heard
      /\ micro = <<>> /\ running # None /\ running.at \in {"sending", "sent"}
      /\ micro' = Settled(running, Failure(running.work))
      /\ running' = Ended
      /\ \/ orphans' = orphans
         \/ orphans' = orphans \cup {[work |-> running.work, markers |-> running.markers]}
  BY DEF Fail, losses, other
<1>2. /\ Len(event) \in Nat
      /\ epoch \in Nat /\ heard \in [Room \cup {None} -> 0..epoch]
  BY EpochIsBounded, SlotFacts DEF Sides, LossSide
<1>3. Unsettled /\ ~Unsettled'
  BY <1>1 DEF Unsettled, Ended
<1>4. LossSide'
  BY <1>1, <1>2, HeardKeepsLosses DEF Sides
<1>5. SlotSide'
  BY <1>1, SettleKeepsSlot DEF Sides
<1>6. WireSide'
  BY <1>1, <1>2, <1>3, WireUntouched DEF Sides
<1>7. RetryIsArmed'
  <2>1. Queued(Flush) => Queued(Flush)'
    BY <1>1 DEF Queued
  <2>2. (Unsettled /\ running.work = Flush /\ ~running.overdue) =>
          \E p \in 1..Len(micro') : micro'[p].do = "reschedule"
    BY <1>1, FlushIsRescheduled DEF Sides
  <2>3. ~ \E p \in 1..Len(micro) : micro[p].do = "reschedule"
    BY <1>1
  <2>. QED BY <1>1, <2>1, <2>2, <2>3, ArmedStays DEF Sides
<1>. QED BY <1>1, <1>4, <1>5, <1>6, <1>7 DEF Sides

(* The retry timer fires.                                                  *)
LEMMA TimerKeeps ==
  ASSUME Sides, TimerFires
  PROVE  Sides'
<1>1. /\ event' = event /\ epoch' = epoch /\ rooms' = rooms /\ global' = global /\ timer' = FALSE
      /\ orphans' = orphans /\ active' = active /\ got' = got /\ heard' = heard
      /\ micro = <<>>
      /\ IF Refused THEN micro' = Failure(Flush) /\ UNCHANGED <<queue, running>>
                    ELSE Submit(Flush) /\ UNCHANGED micro
  BY DEF TimerFires, other
<1>2. /\ Len(event) \in Nat
      /\ epoch \in Nat /\ heard \in [Room \cup {None} -> 0..epoch]
  BY EpochIsBounded, SlotFacts DEF Sides, LossSide
<1>3. LossSide'
  BY <1>1, <1>2, HeardKeepsLosses DEF Sides
<1>4. CASE Refused
  <2>1. micro' = Failure(Flush) /\ queue' = queue /\ running' = running /\ running # None
    BY <1>1, <1>4 DEF Refused
  <2>2. SlotSide'
    BY <1>1, <2>1, FlushRefusalKeepsSlot DEF Sides
  <2>3. WireSide'
    <3>1. Unsettled' => Unsettled
      BY <2>1 DEF Unsettled
    <3>. QED BY <1>1, <1>2, <2>1, <3>1, WireUntouched DEF Sides
  <2>4. RetryIsArmed'
    <3>1. micro' = <<[do |-> "reschedule", work |-> Flush]>>
      BY <2>1 DEF Failure
    <3>2. \E p \in 1..Len(micro') : micro'[p].do = "reschedule"
      BY <3>1
    <3>. QED BY <3>2 DEF RetryIsArmed
  <2>. QED BY <1>1, <1>3, <2>2, <2>3, <2>4 DEF Sides
<1>5. CASE ~Refused /\ running = None
  <2>1. running' = Started(Flush, FALSE) /\ queue' = queue /\ micro' = micro
    BY <1>1, <1>5 DEF Submit
  <2>2. /\ running' \in Publication /\ running' # None
        /\ running'.work = Flush /\ running'.markers = Snapshot(rooms, global)
        /\ running'.overdue = FALSE
        /\ running'.at \in {"sent", "sending"}
        /\ running'.at = "sent" => running'.markers = {}
    <3>1. PICK w : w = Flush /\ w \in 0..MaxEvents
      BY BoundAssumption DEF Flush
    <3>2. PICK s : s = running' /\ s = Started(w, FALSE)
      BY <2>1, <3>1
    <3>3. /\ s \in Publication /\ s # None
          /\ s.work = w /\ s.markers = Snapshot(rooms, global)
          /\ s.overdue = FALSE
          /\ s.at \in {"sent", "sending"}
          /\ s.at = "sent" => w = Flush /\ s.markers = {}
      BY <3>1, <3>2, StartedIs DEF Sides
    <3>. QED BY <3>1, <3>2, <3>3
  <2>3. SlotSide'
    BY <1>1, <1>5, <2>1, <2>2, FlushStartKeepsSlot DEF Sides
  <2>4. WireSide'
    <3>1. Steady
      BY <1>1, <1>2 DEF Steady
    <3>2. Flush \in Nat /\ Flush <= Len(event') /\ \A i \in 1..Flush - 1 : FALSE
      BY <1>1, <1>2 DEF Flush
    <3>. QED BY <1>1, <2>2, <3>1, <3>2, WireStarts DEF Sides
  <2>5. RetryIsArmed'
    BY <2>2 DEF RetryIsArmed, Unsettled
  <2>. QED BY <1>1, <1>3, <2>3, <2>4, <2>5 DEF Sides
<1>6. CASE ~Refused /\ running # None
  <2>1. running' = running /\ queue' = Append(queue, Flush) /\ micro' = micro
    BY <1>1, <1>6 DEF Submit
  <2>2. SlotSide'
    BY <1>1, <1>6, <2>1, FlushWaitKeepsSlot DEF Sides
  <2>3. WireSide'
    <3>1. Unsettled' => Unsettled
      BY <2>1 DEF Unsettled
    <3>. QED BY <1>1, <1>2, <2>1, <3>1, WireUntouched DEF Sides
  <2>4. Queued(Flush)'
    <3>1. PICK S : S = 0..Len(event) /\ queue \in Seq(S) /\ Flush \in S
      BY <1>2 DEF Sides, SlotSide, Flush
    <3>. QED BY <2>1, <3>1, QueueGrows
  <2>. QED BY <1>1, <1>3, <2>2, <2>3, <2>4 DEF Sides, RetryIsArmed
<1>. QED BY <1>4, <1>5, <1>6

(* The oldest microtask reports a loss.                                    *)
LEMMA ReportKeeps ==
  ASSUME Sides, Microtask, Head(micro).do = "report"
  PROVE  Sides'
<1>1. PICK w : w = Head(micro).work
  OBVIOUS
<1>2. /\ micro # <<>> /\ micro' = Tail(micro)
      /\ event' = [event EXCEPT ![w].lost = epoch + 1]
      /\ Report(event[w].room)
      /\ queue' = queue /\ running' = running
      /\ orphans' = orphans /\ active' = active /\ got' = got /\ heard' = heard
  BY <1>1 DEF Microtask, other
<1>3. /\ Len(event) \in Nat /\ Len(event) <= MaxEvents /\ event \in Seq(EventUpTo(epoch))
      /\ epoch \in Nat /\ LossesTyped
  BY EpochIsBounded, SlotFacts DEF Sides, LossSide
<1>4. w \in 1..Len(event) /\ ~Lost(w)
  <2>1. Due(w)
    <3>1. 1 \in 1..Len(micro) /\ Head(micro) = micro[1]
      BY <1>2 DEF Sides, SlotSide
    <3>. QED BY <1>1, <3>1 DEF Due
  <2>2. w \in 0..Len(event) /\ w # Flush
    BY <2>1, SlotFacts DEF Sides, SlotSide, Fates, Due
  <2>3. w \in 1..Len(event)
    BY <1>3, <2>2 DEF Flush
  <2>. QED BY <2>1, <2>3 DEF Sides, SlotSide, Fates, FateOf
<1>5. PICK room \in Room \cup {None} : room = event[w].room
  <2>1. event[w] \in EventUpTo(epoch)
    BY <1>3, <1>4
  <2>. QED BY <2>1 DEF EventUpTo
<1>6. PICK e : e = [event[w] EXCEPT !.lost = epoch + 1]
  OBVIOUS
<1>7. e \in EventUpTo(epoch + 1) /\ e.lost = epoch + 1 /\ e.room = room
  <2>1. event[w] \in EventUpTo(epoch)
    BY <1>3, <1>4
  <2>. QED BY <1>3, <1>5, <1>6, <2>1 DEF EventUpTo
<1>8. event' = [event EXCEPT ![w] = e]
  BY <1>2, <1>3, <1>4, <1>6
<1>9. /\ event' \in Seq(EventUpTo(epoch + 1))
      /\ Len(event') = Len(event)
      /\ \A i \in 1..Len(event) : i # w => event'[i] = event[i]
      /\ event'[w] = e
  <2>1. event \in Seq(EventUpTo(epoch + 1))
    <3>1. EventUpTo(epoch) \subseteq EventUpTo(epoch + 1)
      BY <1>3 DEF EventUpTo
    <3>. QED BY <1>3, <3>1
  <2>. QED BY <1>4, <1>7, <1>8, <2>1
<1>10. LossSide'
  <2>1. w \in 1..Len(event') /\ event'[w].lost = epoch + 1 /\ Report(event'[w].room)
    BY <1>2, <1>4, <1>5, <1>7, <1>9
  <2>2. \A i \in 1..Len(event') : i # w => i \in 1..Len(event) /\ event'[i] = event[i]
    BY <1>9
  <2>. QED BY <1>2, <1>3, <1>4, <1>9, <2>1, <2>2, LossIsKept DEF Sides
<1>11. SlotSide'
  <2>1. event'[Head(micro).work].lost > 0
    BY <1>1, <1>3, <1>7, <1>9
  <2>2. \A i \in 1..Len(event) : i # Head(micro).work => (Lost(i)' <=> Lost(i))
    BY <1>1, <1>9 DEF Lost
  <2>. QED BY <1>2, <1>9, <2>1, <2>2, ReportKeepsSlot DEF Sides
<1>12. epoch' = epoch + 1 /\ timer' = (timer \/ active)
  BY <1>2, <1>3, <1>5, QueueLossKeeps
<1>13. WireSide'
  <2>1. \A i \in 1..Len(event) : Lost(i) => event'[i] = event[i]
    BY <1>4, <1>9
  <2>2. Unsettled' => Unsettled
    BY <1>2 DEF Unsettled
  <2>. QED BY <1>2, <1>3, <1>9, <1>12, <2>1, <2>2, WireUntouched DEF Sides
<1>14. RetryIsArmed' /\ timer' \in BOOLEAN /\ active' \in BOOLEAN
  BY <1>2, <1>12, ArmedByLoss DEF Sides
<1>. QED BY <1>10, <1>11, <1>13, <1>14 DEF Sides

(* The oldest microtask schedules another flush.                           *)
LEMMA RescheduleKeeps ==
  ASSUME Sides, Microtask, Head(micro).do = "reschedule"
  PROVE  Sides'
<1>1. /\ micro # <<>> /\ micro' = Tail(micro)
      /\ event' = event /\ epoch' = epoch /\ rooms' = rooms /\ global' = global
      /\ timer' = Retry
      /\ queue' = queue /\ running' = running
      /\ orphans' = orphans /\ active' = active /\ got' = got /\ heard' = heard
  BY DEF Microtask, other
<1>2. /\ Len(event) \in Nat
      /\ epoch \in Nat /\ heard \in [Room \cup {None} -> 0..epoch]
  BY EpochIsBounded, SlotFacts DEF Sides, LossSide
<1>3. LossSide'
  BY <1>1, <1>2, HeardKeepsLosses DEF Sides
<1>4. SlotSide'
  BY <1>1, RescheduleKeepsSlot DEF Sides
<1>5. WireSide'
  <2>1. Unsettled' => Unsettled
    BY <1>1 DEF Unsettled
  <2>. QED BY <1>1, <1>2, <2>1, WireUntouched DEF Sides
<1>6. RetryIsArmed' /\ timer' \in BOOLEAN
  BY <1>1 DEF Sides, RetryIsArmed, Retry
<1>. QED BY <1>1, <1>3, <1>4, <1>5, <1>6 DEF Sides

(* The oldest microtask frees the slot.                                    *)
LEMMA FreeKeeps ==
  ASSUME Sides, Microtask, Head(micro).do = "free"
  PROVE  Sides'
<1>1. /\ micro # <<>> /\ micro' = Tail(micro)
      /\ event' = event /\ epoch' = epoch /\ rooms' = rooms /\ global' = global /\ timer' = timer
      /\ running' = (IF queue = <<>> THEN None ELSE Started(Head(queue), TRUE))
      /\ queue' = (IF queue = <<>> THEN queue ELSE Tail(queue))
      /\ orphans' = orphans /\ active' = active /\ got' = got /\ heard' = heard
  BY DEF Microtask, losses, other
<1>2. /\ Len(event) \in Nat /\ Len(event) <= MaxEvents /\ MaxEvents \in Nat
      /\ epoch \in Nat /\ heard \in [Room \cup {None} -> 0..epoch]
  BY BoundAssumption, EpochIsBounded, SlotFacts DEF Sides, LossSide
<1>3. LossSide'
  BY <1>1, <1>2, HeardKeepsLosses DEF Sides
<1>4. /\ ~Unsettled
      /\ (\E p \in 1..Len(micro) : micro[p].do = "reschedule") =>
           \E p \in 1..Len(micro') : micro'[p].do = "reschedule"
  <2>1. running = Ended
    BY <1>1, WhatFollowsTheFreeing DEF Sides
  <2>2. PICK S : micro \in Seq(S)
    BY DEF Sides, SlotSide
  <2>3. /\ Len(micro) \in Nat /\ Len(micro') = Len(micro) - 1
        /\ \A p \in 1..Len(micro') : micro'[p] = micro[p + 1]
        /\ Head(micro) = micro[1]
    BY <1>1, <2>2, TaskRuns
  <2>4. ASSUME NEW p \in 1..Len(micro), micro[p].do = "reschedule"
        PROVE  \E q \in 1..Len(micro') : micro'[q].do = "reschedule"
    <3>1. p # 1
      BY <2>3, <2>4
    <3>2. p - 1 \in 1..Len(micro') /\ (p - 1) + 1 = p
      BY <2>3, <3>1
    <3>. QED BY <2>3, <2>4, <3>2
  <2>. QED BY <2>1, <2>4 DEF Unsettled, Ended
<1>5. CASE queue = <<>>
  <2>1. SlotSide'
    BY <1>1, <1>5, IdleKeepsSlot DEF Sides
  <2>2. ~Unsettled'
    BY <1>1, <1>5 DEF Unsettled
  <2>3. WireSide'
    <3>1. event' = event /\ epoch' = epoch /\ got' = got /\ heard' = heard /\ orphans' = orphans
      BY <1>1
    <3>. QED BY <1>2, <2>2, <3>1, WireUntouched DEF Sides
  <2>4. RetryIsArmed'
    BY <1>1, <1>4, <1>5, ArmedStays DEF Sides, Queued
  <2>. QED BY <1>1, <1>3, <2>1, <2>3, <2>4 DEF Sides
<1>6. CASE queue # <<>>
  <2>1. PICK w : w = Head(queue) /\ w \in 0..Len(event) /\ w \in 0..MaxEvents
    <3>1. PICK S : S = 0..Len(event) /\ queue \in Seq(S)
      BY DEF Sides, SlotSide
    <3>2. Head(queue) \in S
      BY <1>6, <3>1
    <3>. QED BY <1>2, <3>1, <3>2
  <2>2. /\ running' \in Publication /\ running' # None
        /\ running'.work = w /\ running'.markers = Snapshot(rooms, global)
        /\ running'.overdue = FALSE
        /\ running'.at \in {"sent", "sending"}
        /\ running'.at = "sent" => w = Flush /\ running'.markers = {}
    <3>1. PICK s : s = running' /\ s = Started(w, TRUE)
      BY <1>1, <1>6, <2>1
    <3>2. /\ s \in Publication /\ s # None
          /\ s.work = w /\ s.markers = Snapshot(rooms, global)
          /\ s.overdue = FALSE
          /\ s.at \in {"sent", "sending"}
          /\ s.at = "sent" => w = Flush /\ s.markers = {}
      BY <2>1, <3>1, StartedIs DEF Sides
    <3>. QED BY <3>1, <3>2
  <2>3. SlotSide' /\ \A i \in 1..Head(queue) - 1 : i \in got \/ Lost(i)
    BY <1>1, <1>6, <2>1, <2>2, TurnKeepsSlot DEF Sides
  <2>4. WireSide'
    <3>1. Steady
      BY <1>1, <1>2 DEF Steady
    <3>2. \A i \in 1..w - 1 : i \in 1..Len(event) /\ (i \in got \/ Lost(i))
      BY <1>2, <2>1, <2>3
    <3>3. w \in Nat /\ w <= Len(event')
      BY <1>1, <1>2, <2>1
    <3>. QED BY <1>1, <2>2, <3>1, <3>2, <3>3, WireStarts DEF Sides
  <2>5. RetryIsArmed'
    <3>1. Queued(Flush) => Queued(Flush)' \/ (Unsettled /\ running.work = Flush /\ ~running.overdue)'
      <4>1. PICK S : queue \in Seq(S)
        BY DEF Sides, SlotSide
      <4>2. \A i : Queued(i) <=> Queued(i)' \/ i = Head(queue)
        BY <1>1, <1>6, <4>1, QueueShifts
      <4>3. w = Flush => (Unsettled /\ running.work = Flush /\ ~running.overdue)'
        BY <2>2 DEF Unsettled
      <4>. QED BY <2>1, <4>2, <4>3
    <3>. QED BY <1>1, <1>4, <3>1, ArmedStays DEF Sides
  <2>. QED BY <1>1, <1>3, <2>3, <2>4, <2>5 DEF Sides
<1>. QED BY <1>5, <1>6

(* The listener has reconnected.                                           *)
LEMMA ReconnectKeeps ==
  ASSUME Sides, Reconnect
  PROVE  Sides'
<1>1. /\ event' = event /\ epoch' = epoch /\ rooms' = rooms /\ global' = global
      /\ timer' = Retry
      /\ queue' = queue /\ running' = running /\ micro' = micro
      /\ orphans' = orphans /\ active' = active /\ got' = got /\ heard' = heard
  BY DEF Reconnect, other
<1>2. /\ Len(event) \in Nat
      /\ epoch \in Nat /\ heard \in [Room \cup {None} -> 0..epoch]
  BY EpochIsBounded, SlotFacts DEF Sides, LossSide
<1>3. LossSide'
  BY <1>1, <1>2, HeardKeepsLosses DEF Sides
<1>4. SlotSide'
  BY <1>1, ReceiptKeepsSlot DEF Sides, SlotSide
<1>5. WireSide'
  <2>1. Unsettled' => Unsettled
    BY <1>1 DEF Unsettled
  <2>. QED BY <1>1, <1>2, <2>1, WireUntouched DEF Sides
<1>6. RetryIsArmed' /\ timer' \in BOOLEAN
  BY <1>1 DEF Sides, RetryIsArmed, Retry
<1>. QED BY <1>1, <1>3, <1>4, <1>5, <1>6 DEF Sides

(* The bridge stops, or nothing happens.                                   *)
LEMMA StopKeeps ==
  ASSUME Sides, Stop \/ UNCHANGED vars
  PROVE  Sides'
<1>1. /\ event' = event /\ epoch' = epoch /\ rooms' = rooms /\ global' = global
      /\ queue' = queue /\ running' = running /\ micro' = micro
      /\ orphans' = orphans /\ got' = got /\ heard' = heard
      /\ (active' = FALSE /\ timer' = FALSE) \/ (active' = active /\ timer' = timer)
  BY DEF Stop, vars, losses, other
<1>2. /\ Len(event) \in Nat
      /\ epoch \in Nat /\ heard \in [Room \cup {None} -> 0..epoch]
  BY EpochIsBounded, SlotFacts DEF Sides, LossSide
<1>3. LossSide'
  BY <1>1, <1>2, HeardKeepsLosses DEF Sides
<1>4. SlotSide'
  BY <1>1, ReceiptKeepsSlot DEF Sides, SlotSide
<1>5. WireSide'
  <2>1. Unsettled' => Unsettled
    BY <1>1 DEF Unsettled
  <2>. QED BY <1>1, <1>2, <2>1, WireUntouched DEF Sides
<1>6. RetryIsArmed' /\ timer' \in BOOLEAN /\ active' \in BOOLEAN
  <2>1. CASE active' = FALSE /\ timer' = FALSE
    BY <2>1 DEF RetryIsArmed
  <2>2. CASE active' = active /\ timer' = timer
    BY <1>1, <2>2 DEF Sides, RetryIsArmed, Queued, Unsettled
  <2>. QED BY <1>1, <2>1, <2>2
<1>. QED BY <1>3, <1>4, <1>5, <1>6 DEF Sides

(* The initial state.                                                      *)
LEMMA InitKeeps == Init => Sides
<1>. SUFFICES ASSUME Init PROVE Sides
  OBVIOUS
<1>1. /\ event = <<>> /\ epoch = 0 /\ rooms = NoRooms /\ global = 0
      /\ queue = <<>> /\ running = None /\ orphans = {} /\ micro = <<>>
      /\ timer = FALSE /\ active = TRUE /\ got = {}
      /\ heard = [r \in Room \cup {None} |-> 0]
      /\ \A r \in Room : rooms[r] = 0
  BY DEF Init, NoRooms
<1>2. /\ MaxEvents \in Nat /\ MaxQueued \in Nat /\ MaxPendingRooms \in Nat
      /\ Len(event) = 0
  BY <1>1, BoundAssumption, LimitAssumption
<1>3. LossesTyped
  <2>1. PendingRooms(rooms) = {}
    BY <1>1 DEF PendingRooms
  <2>2. IsFiniteSet(PendingRooms(rooms)) /\ Cardinality(PendingRooms(rooms)) = 0
    BY <2>1, FS_EmptySet
  <2>3. rooms \in [Room -> 0..epoch]
    BY <1>1 DEF NoRooms
  <2>. QED BY <1>1, <1>2, <2>2, <2>3 DEF LossesTyped
<1>4. LossSide
  <2>1. {i \in 1..Len(event) : Lost(i)} = {}
    BY <1>2
  <2>2. epoch = Cardinality({i \in 1..Len(event) : Lost(i)})
    BY <1>1, <2>1, FS_EmptySet
  <2>3. event \in Seq(EventUpTo(epoch))
    BY <1>1
  <2>. QED BY <1>1, <1>2, <1>3, <2>2, <2>3 DEF LossSide, NoLossForgotten
<1>5. SlotSide
  <2>1. queue \in Seq(0..Len(event)) /\ micro \in Seq(TaskUpTo(Len(event)))
    BY <1>1
  <2>2. SlotKept /\ HeldBack /\ InOrder /\ Fates
    BY <1>1, <1>2 DEF SlotKept, HeldBack, InOrder, Fates, Unsettled
  <2>3. Len(queue) <= MaxQueued
    BY <1>1, <1>2
  <2>. QED BY <1>1, <1>2, <2>1, <2>2, <2>3 DEF SlotSide
<1>6. WireSide
  BY <1>1 DEF WireSide, Carried, Unsettled
<1>7. RetryIsArmed
  <2>1. Snapshot(rooms, global) = {}
    BY <1>1 DEF Snapshot, PendingRooms
  <2>. QED BY <2>1 DEF RetryIsArmed
<1>. QED BY <1>1, <1>4, <1>5, <1>6, <1>7 DEF Sides

(* Every step.                                                             *)
LEMMA NextKeeps == Sides /\ [Next]_vars => Sides'
<1>. SUFFICES ASSUME Sides, [Next]_vars PROVE Sides'
  OBVIOUS
<1>1. ASSUME NEW r \in Room \cup {None}, Drop(r) \/ Emit(r) PROVE Sides'
  BY <1>1, DropKeeps, EmitKeeps
<1>2. ASSUME NEW k \in 1..Len(queue), Expire(k) PROVE Sides'
  BY <1>2, ExpireKeeps
<1>3. ASSUME NEW s \in orphans, OrphanCommits(s) PROVE Sides'
  BY <1>3, OrphanCommitsKeeps
<1>4. ASSUME Microtask PROVE Sides'
  <2>1. Head(micro).do \in {"report", "reschedule", "free"}
    BY <1>4 DEF Microtask
  <2>. QED BY <1>4, <2>1, ReportKeeps, RescheduleKeeps, FreeKeeps
<1>5. CASE Overdue \/ Commit \/ Answer \/ Fail
  BY <1>5, OverdueKeeps, CommitKeeps, AnswerKeeps, FailKeeps
<1>6. CASE TimerFires \/ Reconnect \/ Stop \/ UNCHANGED vars
  BY <1>6, TimerKeeps, ReconnectKeeps, StopKeeps
<1>. QED BY <1>1, <1>2, <1>3, <1>4, <1>5, <1>6 DEF Next

(* The sides together are the invariant.                                   *)
LEMMA SidesMean == Sides => IInv
<1>. SUFFICES ASSUME Sides PROVE IInv
  OBVIOUS
<1>1. LossSide /\ SlotSide /\ WireSide /\ RetryIsArmed /\ timer \in BOOLEAN /\ active \in BOOLEAN
  BY DEF Sides
<1>2. epoch \in 0..MaxEvents
  BY <1>1, EpochIsBounded, BoundAssumption
<1>3. TypeOK
  <2>1. event \in Seq([room : Room \cup {None}, lost : 0..epoch])
    BY <1>1 DEF LossSide, EventUpTo
  <2>2. micro \in Seq([do : {"report", "reschedule", "free"}, work : 0..Len(event)])
    BY <1>1 DEF SlotSide, TaskUpTo
  <2>. QED BY <1>1, <1>2, <2>1, <2>2 DEF TypeOK, LossSide, LossesTyped, SlotSide, WireSide
<1>4. PendingKept /\ NoLossForgotten
  BY <1>1 DEF LossSide, LossesTyped, PendingKept
<1>5. SlotKept /\ HeldBack /\ InOrder /\ Fates /\ Carried
  BY <1>1 DEF SlotSide, WireSide
<1>. QED BY <1>1, <1>3, <1>4, <1>5 DEF IInv

(* A statement that commits leaves no gap the receiver has not heard of.   *)
LEMMA DeliverLeavesNoGap ==
  ASSUME LossSide, NEW s, s.work \in 0..Len(event), s.markers \in SUBSET Marker,
         \A m \in s.markers : m.epoch <= epoch, Accounted(s.work, s.markers), Deliver(s),
         NEW j \in got' \ got, NEW i \in 1..j - 1
  PROVE  i \in got \/ (Lost(i) /\ Covered(i, heard'))
<1>1. j = s.work /\ s.work # Flush
  BY DEF Deliver
<1>2. /\ epoch \in Nat /\ heard \in [Room \cup {None} -> 0..epoch]
      /\ event \in Seq(EventUpTo(epoch)) /\ Len(event) \in Nat
  BY DEF LossSide, LossesTyped
<1>3. /\ heard' \in [Room \cup {None} -> 0..epoch]
      /\ \A r \in Room \cup {None} : heard'[r] >= heard[r]
      /\ \A m \in s.markers : heard'[m.room] >= m.epoch
  BY <1>2, DeliverHears
<1>4. CASE i \notin got
  <2>1. Lost(i) /\ (Covered(i, heard) \/ Announces(s.markers, i))
    BY <1>1, <1>4 DEF Accounted
  <2>2. i \in 1..Len(event)
    BY <1>1, <1>2
  <2>3. event[i].room \in Room \cup {None} /\ event[i].lost \in Nat
    <3>1. event[i] \in EventUpTo(epoch)
      BY <1>2, <2>2
    <3>. QED BY <1>2, <3>1 DEF EventUpTo
  <2>4. CASE Covered(i, heard)
    <3>1. PICK r \in Room \cup {None} : r \in {event[i].room, None} /\ heard[r] >= event[i].lost
      BY <2>3, <2>4 DEF Covered
    <3>2. heard'[r] >= event[i].lost
      BY <1>2, <1>3, <2>3, <3>1
    <3>. QED BY <2>1, <3>1, <3>2 DEF Covered
  <2>5. CASE Announces(s.markers, i)
    <3>1. PICK m \in s.markers : m.room \in {event[i].room, None} /\ m.epoch >= event[i].lost
      BY <2>5 DEF Announces
    <3>2. m.room \in Room \cup {None} /\ m.epoch \in Nat
      BY BoundAssumption DEF Marker
    <3>3. heard'[m.room] >= event[i].lost
      BY <1>2, <1>3, <2>3, <3>1, <3>2
    <3>. QED BY <2>1, <3>1, <3>3 DEF Covered
  <2>. QED BY <2>1, <2>4, <2>5
<1>. QED BY <1>4

(* No step leaves a gap the receiver has not heard of.                     *)
LEMMA NextLeavesNoGap ==
  ASSUME Sides, Next, NEW j \in got' \ got, NEW i \in 1..j - 1
  PROVE  i \in got \/ (Lost(i) /\ Covered(i, heard'))
<1>0. LossSide /\ SlotSide /\ WireSide
  BY DEF Sides
<1>1. CASE Commit
  <2>1. Deliver(running) /\ Unsettled
    BY <1>1 DEF Commit, Unsettled
  <2>2. PICK s : s = running
    OBVIOUS
  <2>3. /\ s.work \in 0..Len(event) /\ s.markers \in SUBSET Marker
        /\ Accounted(s.work, s.markers) /\ Deliver(s)
        /\ \A m \in s.markers : m.epoch <= epoch
    BY <1>0, <2>1, <2>2, SlotIsTyped DEF WireSide, Carried
  <2>. QED BY <1>0, <2>3, DeliverLeavesNoGap
<1>2. ASSUME NEW s \in orphans, OrphanCommits(s)
      PROVE  i \in got \/ (Lost(i) /\ Covered(i, heard'))
  <2>1. /\ s.work \in 0..Len(event) /\ s.markers \in SUBSET Marker
        /\ Accounted(s.work, s.markers) /\ Deliver(s)
        /\ \A m \in s.markers : m.epoch <= epoch
    BY <1>0, <1>2, SlotFacts, BoundAssumption DEF WireSide, Carried, OrphanCommits
  <2>. QED BY <1>0, <2>1, DeliverLeavesNoGap
<1>3. CASE \/ \E r \in Room \cup {None} : Drop(r) \/ Emit(r)
           \/ \E k \in 1..Len(queue) : Expire(k)
           \/ Overdue \/ Answer \/ Fail
           \/ Microtask \/ TimerFires \/ Reconnect \/ Stop
  BY <1>3 DEF Drop, Emit, Expire, Overdue, Answer, Fail, Microtask, TimerFires, Reconnect, Stop, other
<1>. QED BY <1>1, <1>2, <1>3 DEF Next

-----------------------------------------------------------------------------
(* The theorems.                                                           *)

(* Every reachable state satisfies the inductive invariant.                *)
THEOREM Inductive == Spec => []IInv
<1>1. Spec => []Sides
  BY InitKeeps, NextKeeps, PTL DEF Spec
<1>. QED BY <1>1, SidesMean, PTL

(* The state keeps its types: pending losses and queue within their limits,*)
(* markers and microtasks about losses and events that exist.              *)
THEOREM TypeCorrect == Spec => []TypeOK
<1>1. IInv => TypeOK
  BY DEF IInv
<1>. QED BY <1>1, Inductive, PTL

(* A loss stays pending until it has been announced, whatever overflows,   *)
(* fails or is answered (queuePendingBridgeLoss, clearPendingBridgeLosses).*)
THEOREM NoLossForgottenHolds == Spec => []NoLossForgotten
<1>1. IInv => NoLossForgotten
  BY DEF IInv
<1>. QED BY <1>1, Inductive, PTL

(* Who receives an event has received every earlier one, or has been told  *)
(* of its loss (executeBridgePublish sends the markers of all pending      *)
(* losses with the event, and the executor frees its slot after the catch).*)
THEOREM NoSilentGapHolds == Spec => NoSilentGap
<1>1. Spec => []Sides
  BY InitKeeps, NextKeeps, PTL DEF Spec
<1>2. Sides /\ [Next]_vars =>
        [\A j \in got' \ got : \A i \in 1..j - 1 :
           i \in got \/ (Lost(i) /\ Covered(i, heard'))]_vars
  BY NextLeavesNoGap
<1>. QED BY <1>1, <1>2, PTL DEF Spec, NoSilentGap

(* While a loss is pending and the bridge is active, the retry timer is    *)
(* set or a flush is under way whose end sets it: the safety half of       *)
(* LossesAreAnnounced (scheduleBridgeLossRetry, flushPendingBridgeLosses). *)
THEOREM RetryIsArmedHolds == Spec => []RetryIsArmed
<1>1. IInv => RetryIsArmed
  BY DEF IInv
<1>. QED BY <1>1, Inductive, PTL

-----------------------------------------------------------------------------
(* The slot is not leaked.                                                 *)

(* A settled publication that still has the slot is about to give it back. *)
SlotIsFreed ==
  running # None /\ ~Unsettled => \E p \in 1..Len(micro) : micro[p].do = "free"

(* Every step keeps it.                                                    *)
LEMMA FreeingKeeps == Sides /\ SlotIsFreed /\ [Next]_vars => SlotIsFreed'
<1>. SUFFICES ASSUME Sides, SlotIsFreed, [Next]_vars PROVE SlotIsFreed'
  OBVIOUS
<1>1. SlotSide
  BY DEF Sides
<1>2. PICK S, m : micro \in Seq(S) /\ m = micro
  BY <1>1 DEF SlotSide
<1>3. ASSUME micro = <<>>, running' # None => running # None /\ running'.at = running.at
      PROVE  SlotIsFreed'
  <2>1. running # None => Unsettled
    BY <1>3 DEF SlotIsFreed
  <2>. QED BY <1>3, <2>1 DEF SlotIsFreed, Unsettled
<1>4. ASSUME running' # None => Unsettled' PROVE SlotIsFreed'
  BY <1>4 DEF SlotIsFreed
<1>5. ASSUME running' = running,
             \A p \in 1..Len(micro) : micro[p].do = "free" =>
               \E q \in 1..Len(micro') : micro'[q].do = "free"
      PROVE  SlotIsFreed'
  BY <1>5 DEF SlotIsFreed, Unsettled
<1>6. ASSUME NEW room \in Room \cup {None}, Emit(room) PROVE SlotIsFreed'
  <2>1. PICK n : n = Len(event) + 1
    OBVIOUS
  <2>2. /\ IF Refused THEN micro' = micro \o Failure(n) /\ UNCHANGED <<queue, running>>
                      ELSE Submit(n) /\ UNCHANGED micro
        /\ n # Flush
    BY <1>1, <1>6, <2>1 DEF Emit, Flush, SlotSide
  <2>3. CASE Refused
    <3>1. PICK c, T : c = [do |-> "report", work |-> n] /\ T = {c} /\ c \in T
      OBVIOUS
    <3>2. micro' = m \o <<c>> /\ running' = running
      BY <1>2, <2>2, <2>3, <3>1 DEF Failure
    <3>3. /\ m \o <<c>> = Append(m, c)
          /\ \A p \in 1..Len(m) : p \in 1..Len(Append(m, c)) /\ Append(m, c)[p] = m[p]
      BY <1>2, <3>1, AppendOne
    <3>. QED BY <1>2, <1>5, <3>2, <3>3
  <2>4. CASE ~Refused /\ running # None
    BY <1>5, <2>2, <2>4 DEF Submit
  <2>5. CASE ~Refused /\ running = None
    <3>1. running' = Started(n, FALSE)
      BY <2>2, <2>5 DEF Submit
    <3>. QED BY <1>4, <3>1 DEF Started, Unsettled
  <2>. QED BY <2>3, <2>4, <2>5
<1>7. ASSUME NEW k \in 1..Len(queue), Expire(k) PROVE SlotIsFreed'
  BY <1>3, <1>7 DEF Expire
<1>8. CASE Overdue
  <2>1. running \in Publication
    BY <1>1, <1>8 DEF Overdue, SlotSide
  <2>2. micro = <<>> /\ running # None /\ running'.at = running.at
    BY <1>8, <2>1 DEF Overdue, Publication
  <2>. QED BY <1>3, <2>2
<1>9. CASE Commit
  <2>1. running \in Publication
    BY <1>1, <1>9 DEF Commit, SlotSide
  <2>2. running'.at = "sent"
    BY <1>9, <2>1 DEF Commit, Publication
  <2>. QED BY <1>4, <2>2 DEF Unsettled
<1>10. CASE Answer \/ Fail
  <2>1. PICK n, w, s, callbacks :
          /\ n \in Nat /\ w \in 0..n /\ n = Len(event) /\ w = running.work /\ s = running
          /\ callbacks \in {Failure(w), Success(w)}
          /\ micro' = Settled(s, callbacks)
    <3>1. Unsettled
      BY <1>10 DEF Answer, Fail, Unsettled
    <3>2. running.work \in 0..Len(event) /\ Len(event) \in Nat
      BY <1>1, <3>1, SlotFacts
    <3>. QED BY <1>10, <3>2 DEF Answer, Fail
  <2>2. s.work = w /\ s.overdue \in BOOLEAN
    BY <1>1, <1>10, <2>1 DEF Answer, Fail, SlotSide, Publication
  <2>3. PICK r : r = Settled(s, callbacks)
    OBVIOUS
  <2>4. Len(r) \in {1, 2} /\ r[Len(r)].do = "free"
    BY <2>1, <2>2, <2>3, SettledIs
  <2>5. Len(r) \in 1..Len(r)
    BY <2>4
  <2>. QED BY <2>1, <2>3, <2>4, <2>5 DEF SlotIsFreed
<1>11. CASE Microtask
  <2>1. /\ micro # <<>> /\ micro' = Tail(micro)
        /\ Len(micro) \in Nat /\ Len(micro') = Len(micro) - 1
        /\ \A p \in 1..Len(micro') : micro'[p] = micro[p + 1]
        /\ Head(micro) = micro[1]
    BY <1>2, <1>11, TaskRuns DEF Microtask
  <2>2. CASE Head(micro).do = "free"
    BY <1>4, <1>11, <2>2 DEF Microtask, Started, Unsettled
  <2>3. CASE Head(micro).do # "free"
    <3>1. running' = running
      BY <1>11, <2>3 DEF Microtask
    <3>2. ASSUME NEW p \in 1..Len(micro), micro[p].do = "free"
          PROVE  \E q \in 1..Len(micro') : micro'[q].do = "free"
      <4>1. p # 1
        BY <2>1, <2>3, <3>2
      <4>2. p - 1 \in 1..Len(micro') /\ (p - 1) + 1 = p
        BY <2>1, <4>1
      <4>. QED BY <2>1, <3>2, <4>2
    <3>. QED BY <1>5, <3>1, <3>2
  <2>. QED BY <2>2, <2>3
<1>12. CASE TimerFires
  <2>1. micro = <<>> /\ (running' = running \/ (running = None /\ running' = Started(Flush, FALSE)))
    BY <1>12 DEF TimerFires, Submit
  <2>2. CASE running' = running
    BY <1>3, <2>1, <2>2
  <2>3. CASE running' = Started(Flush, FALSE)
    BY <1>4, <2>3 DEF Started, Unsettled
  <2>. QED BY <2>1, <2>2, <2>3
<1>13. CASE \/ \E r \in Room \cup {None} : Drop(r)
            \/ \E s \in orphans : OrphanCommits(s)
            \/ Reconnect \/ Stop \/ UNCHANGED vars
  <2>1. running' = running /\ micro' = micro
    BY <1>13 DEF Drop, OrphanCommits, Reconnect, Stop, vars
  <2>. QED BY <1>5, <2>1
<1>. QED BY <1>6, <1>7, <1>8, <1>9, <1>10, <1>11, <1>12, <1>13 DEF Next

(* The slot of the executor is never leaked: whatever way a publication    *)
(* ends, a microtask that frees its slot is waiting until the slot is free *)
(* (the finally of BoundedAsyncExecutor).                                  *)
THEOREM SlotIsFreedHolds == Spec => []SlotIsFreed
<1>1. Spec => []Sides
  BY InitKeeps, NextKeeps, PTL DEF Spec
<1>2. Init => SlotIsFreed
  BY DEF Init, SlotIsFreed
<1>. QED BY <1>1, <1>2, FreeingKeeps, PTL DEF Spec
==============================================================================
