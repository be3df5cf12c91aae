------------------------- MODULE BoardIntentsProofs -------------------------
(***************************************************************************)
(* Proofs about BoardIntents, for any number of intents, requests and      *)
(* servers and any budget.                                                 *)
(***************************************************************************)
EXTENDS BoardIntents, FiniteSetTheorems, TLAPS

(***************************************************************************)
(* Rows.                                                                   *)
(***************************************************************************)

(* Writing a status recomputes the check and leaves the rest of a row.     *)
LEMMA RescheduledRow ==
  ASSUME NEW row \in Rows
  PROVE  /\ Rescheduled(row) \in Rows
         /\ Rescheduled(row).status = row.status
         /\ Rescheduled(row).late = row.late
         /\ Rescheduled(row).auto = row.auto
         /\ Rescheduled(row).escalated = row.escalated
  BY DEF Rescheduled, Rows

(* Expiry ends a row that waits or is approved and is late; it leaves any  *)
(* other alone.                                                            *)
LEMMA ExpiredRow ==
  ASSUME NEW row \in Rows
  PROVE  /\ Expired(row) \in Rows
         /\ Expired(row).auto = row.auto
         /\ Expired(row).status # row.status =>
              row.status \in {"pending", "approved"} /\ Expired(row).status = "expired"
         /\ Expired(row).status = row.status => Expired(row) = row
  <1>1. CASE row.status \in {"pending", "approved"} /\ row.late
    <2> DEFINE x == [row EXCEPT !.status = "expired", !.late = FALSE]
    <2>1. x \in Rows /\ x.status = "expired" /\ x.auto = row.auto
      BY DEF Rows, Statuses
    <2>2. Expired(row) = Rescheduled(x)
      BY <1>1 DEF Expired
    <2> QED
      BY <1>1, <2>1, <2>2, RescheduledRow
  <1>2. CASE ~(row.status \in {"pending", "approved"} /\ row.late)
    BY <1>2 DEF Expired
  <1> QED
    BY <1>1, <1>2

(* What the new row of i and the expiry of the others make of the table.   *)
LEMMA ExpireThenRows ==
  ASSUME TypeOK, NEW i \in Intents, NEW row \in Rows, ExpireThen(i, row)
  PROVE  /\ intent' \in [Intents -> Rows]
         /\ claim' \in [Intents -> Sweepers \cup {None}]
         /\ intent'[i] = row
         /\ \A j \in Intents \ {i} : intent'[j] = Expired(intent[j])
  BY ExpiredRow DEF TypeOK, ExpireThen

(***************************************************************************)
(* Types.                                                                  *)
(***************************************************************************)
SweepRecords ==
  [pc : {"idle", "claimed", "entries", "approve"},
   todo : SUBSET Intents, at : Intents \cup {None},
   optional : BOOLEAN, reach : BOOLEAN]

RequestRecords ==
  [pc : {"idle", "verified", "recheck"}, at : Intents \cup {None}]

(* A request under way carries an intent, and a sweep at an entry holds    *)
(* one.                                                                    *)
Busy ==
  /\ \A r \in Requests : request[r].pc # "idle" => request[r].at \in Intents
  /\ \A s \in Sweepers : sweep[s].pc = "approve" =>
       sweep[s].at \in Intents

(* Every step of a person or an agent keeps the types.                     *)
LEMMA TypePeople ==
  ASSUME TypeOK, Busy, People
  PROVE  TypeOK' /\ Busy'
  <1>1. ASSUME NEW i \in Intents, Register(i)
        PROVE  TypeOK' /\ Busy'
    <2> DEFINE x == [intent[i] EXCEPT !.status = "pending"]
    <2>1. x \in Rows /\ intent[i] \in Rows
      BY DEF TypeOK, Rows, Statuses
    <2>2. Rescheduled(x) \in Rows
      BY <2>1, RescheduledRow
    <2>3. ExpireThen(i, intent[i]) \/ ExpireThen(i, Rescheduled(x))
      BY <1>1 DEF Register
    <2>4. /\ intent' \in [Intents -> Rows]
          /\ claim' \in [Intents -> Sweepers \cup {None}]
      BY <2>1, <2>2, <2>3, ExpireThenRows
    <2> QED
      BY <1>1, <2>4 DEF Register, TypeOK, Busy
  <1>2. ASSUME NEW i \in Intents, Approve(i)
        PROVE  TypeOK' /\ Busy'
    <2> DEFINE x == [intent[i] EXCEPT
                       !.status = IF i \in Direct THEN "used" ELSE "approved"]
    <2>1. x \in Rows
      BY DEF TypeOK, Rows, Statuses
    <2>2. Rescheduled(x) \in Rows
      BY <2>1, RescheduledRow
    <2>3. ExpireThen(i, Rescheduled(x))
      BY <1>2 DEF Approve
    <2>4. /\ intent' \in [Intents -> Rows]
          /\ claim' \in [Intents -> Sweepers \cup {None}]
      BY <2>2, <2>3, ExpireThenRows
    <2>5. done' \in [Intents -> Nat]
      BY <1>2 DEF Approve, TypeOK
    <2> QED
      BY <1>2, <2>4, <2>5 DEF Approve, TypeOK, Busy
  <1>3. ASSUME NEW i \in Intents, Deny(i)
        PROVE  TypeOK' /\ Busy'
    <2> DEFINE x == [intent[i] EXCEPT !.status = "denied"]
    <2>1. x \in Rows
      BY DEF TypeOK, Rows, Statuses
    <2>2. Rescheduled(x) \in Rows
      BY <2>1, RescheduledRow
    <2>3. ExpireThen(i, Rescheduled(x))
      BY <1>3 DEF Deny
    <2>4. /\ intent' \in [Intents -> Rows]
          /\ claim' \in [Intents -> Sweepers \cup {None}]
      BY <2>2, <2>3, ExpireThenRows
    <2> QED
      BY <1>3, <2>4 DEF Deny, TypeOK, Busy
  <1>4. ASSUME NEW r \in Requests, NEW i \in Intents, Present(r, i)
        PROVE  TypeOK' /\ Busy'
    <2>1. /\ request' \in [Requests -> RequestRecords]
          /\ \A q \in Requests : request'[q].pc # "idle" => request'[q].at \in Intents
      BY <1>4 DEF Present, TypeOK, Busy, RequestRecords
    <2> QED
      BY <1>4, <2>1 DEF Present, TypeOK, Busy, RequestRecords
  <1>5. ASSUME NEW r \in Requests, Consume(r)
        PROVE  TypeOK' /\ Busy'
    <2> DEFINE i == request[r].at
               x == [intent[i] EXCEPT !.status = "used"]
    <2>1. i \in Intents
      BY <1>5 DEF Consume, Busy
    <2>2. x \in Rows
      <3>1. intent[i] \in Rows
        BY <2>1 DEF TypeOK
      <3> QED
        BY <3>1 DEF Rows, Statuses
    <2>3. Rescheduled(x) \in Rows
      BY <2>2, RescheduledRow
    <2>4. \/ intent' = intent
          \/ intent' = [intent EXCEPT ![i] = Rescheduled(x)]
      BY <1>5 DEF Consume
    <2>5. intent' \in [Intents -> Rows]
      BY <2>3, <2>4 DEF TypeOK
    <2>6. done' \in [Intents -> Nat]
      BY <1>5, <2>1 DEF Consume, TypeOK
    <2>7. /\ request' \in [Requests -> RequestRecords]
          /\ \A q \in Requests : request'[q].pc # "idle" => request'[q].at \in Intents
      BY <1>5, <2>1 DEF Consume, TypeOK, Busy, Nothing, RequestRecords
    <2> QED
      BY <1>5, <2>5, <2>6, <2>7 DEF Consume, TypeOK, Busy, RequestRecords
  <1>6. ASSUME NEW r \in Requests, Recheck(r)
        PROVE  TypeOK' /\ Busy'
    <2>1. request[r].at \in Intents
      BY <1>6 DEF Recheck, Busy
    <2>2. done' \in [Intents -> Nat]
      BY <1>6, <2>1 DEF Recheck, TypeOK
    <2>3. /\ request' \in [Requests -> RequestRecords]
          /\ \A q \in Requests : request'[q].pc # "idle" => request'[q].at \in Intents
      BY <1>6 DEF Recheck, TypeOK, Busy, Nothing, RequestRecords
    <2> QED
      BY <1>6, <2>2, <2>3 DEF Recheck, TypeOK, Busy, RequestRecords
  <1> QED
    BY <1>1, <1>2, <1>3, <1>4, <1>5, <1>6 DEF People

(* Every step of the room or the clock keeps the types.                    *)
LEMMA TypeRoom ==
  ASSUME TypeOK, Busy, Room
  PROVE  TypeOK' /\ Busy'
  <1> USE BoundsAssumption
  <1>1. ASSUME NEW m \in Modes, SetMode(m)
        PROVE  TypeOK' /\ Busy'
    <2>1. intent' \in [Intents -> Rows]
      BY <1>1 DEF SetMode, Hastened, TypeOK, Rows
    <2>2. claim' \in [Intents -> Sweepers \cup {None}]
      BY <1>1 DEF SetMode, TypeOK
    <2> QED
      BY <1>1, <2>1, <2>2 DEF SetMode, Spend, TypeOK, Busy
  <1>2. ASSUME NEW m \in {"away", "reachable"}, AssignManager(m)
        PROVE  TypeOK' /\ Busy'
    <2>1. \A i \in Intents : [intent[i] EXCEPT !.check = "timer"] \in Rows
      BY DEF TypeOK, Rows
    <2>3. intent' \in [Intents -> Rows]
      BY <1>2, <2>1 DEF AssignManager, TypeOK
    <2>2. claim' \in [Intents -> Sweepers \cup {None}]
      BY <1>2 DEF AssignManager, TypeOK
    <2> QED
      BY <1>2, <2>2, <2>3 DEF AssignManager, Spend, TypeOK, Busy
  <1>3. CASE ReleaseManager
    <2>1. intent' \in [Intents -> Rows]
      BY <1>3 DEF ReleaseManager, Hastened, TypeOK, Rows
    <2>2. claim' \in [Intents -> Sweepers \cup {None}]
      BY <1>3 DEF ReleaseManager, TypeOK
    <2> QED
      BY <1>3, <2>1, <2>2 DEF ReleaseManager, Spend, TypeOK, Busy
  <1>4. CASE ManagerMoves
    BY <1>4 DEF ManagerMoves, TypeOK, Busy
  <1>5. ASSUME NEW i \in Intents, FallDue(i)
        PROVE  TypeOK' /\ Busy'
    <2>1. intent' \in [Intents -> Rows]
      BY <1>5 DEF FallDue, TypeOK, Rows
    <2> QED
      BY <1>5, <2>1 DEF FallDue, TypeOK, Busy
  <1>6. ASSUME NEW i \in Intents, GrowLate(i)
        PROVE  TypeOK' /\ Busy'
    <2>1. intent[i] \in Rows
      BY DEF TypeOK
    <2>2. [intent[i] EXCEPT !.late = TRUE] \in Rows
      BY <2>1 DEF Rows
    <2>3. intent' \in [Intents -> Rows]
      BY <1>6, <2>2 DEF GrowLate, TypeOK
    <2> QED
      BY <1>6, <2>3 DEF GrowLate, TypeOK, Busy
  <1>7. ASSUME NEW i \in Intents, LeaveWindow(i)
        PROVE  TypeOK' /\ Busy'
    BY <1>7 DEF LeaveWindow, TypeOK, Busy
  <1> QED
    BY <1>1, <1>2, <1>3, <1>4, <1>5, <1>6, <1>7 DEF Room

(* A sweep that is done with an entry goes on with the others, or rests.   *)
LEMMA OnwardRecord ==
  ASSUME NEW x \in SweepRecords, NEW todo \in SUBSET Intents
  PROVE  Onward(x, todo) \in SweepRecords /\ Onward(x, todo).pc \in {"idle", "entries"}
  BY DEF Onward, Resting, SweepRecords

(* The steps that end an entry change the record of their sweep alone.     *)
LEMMA EntryEnds ==
  ASSUME TypeOK, Busy, NEW s \in Sweepers, NEW todo \in SUBSET Intents,
         NEW x \in SweepRecords,
         sweep' = [sweep EXCEPT ![s] = Onward(x, todo)]
  PROVE  /\ sweep' \in [Sweepers -> SweepRecords]
         /\ \A t \in Sweepers \ {s} : sweep'[t] = sweep[t]
         /\ sweep'[s].pc # "approve"
         /\ \A t \in Sweepers : sweep'[t].pc = "approve" => sweep'[t].at \in Intents
  <1>1. sweep \in [Sweepers -> SweepRecords]
    BY DEF TypeOK, SweepRecords
  <1>2. sweep'[s] = Onward(x, todo)
    BY <1>1
  <1>3. \A t \in Sweepers \ {s} : sweep'[t] = sweep[t]
    BY <1>1
  <1> QED
    BY <1>1, <1>2, <1>3, OnwardRecord DEF Busy

(* The record of a sweep, with what it has left of the batch.              *)
LEMMA SweepHolds ==
  ASSUME TypeOK, NEW s \in Sweepers
  PROVE  sweep[s] \in SweepRecords /\ sweep[s].todo \in SUBSET Intents
  BY DEF TypeOK, SweepRecords

(* Every step of a sweep keeps the types.                                  *)
LEMMA TypeSweep ==
  ASSUME TypeOK, Busy, NEW s \in Sweepers,
         \/ SweepStep(s)
         \/ \E i \in Intents : EntryFails(s, i)
         \/ SweepDies(s)
  PROVE  TypeOK' /\ Busy'
  <1> USE BoundsAssumption
  <1> DEFINE Held(f) == \A t \in Sweepers : f[t].pc = "approve" => f[t].at \in Intents
  <1>0. Resting \in SweepRecords /\ Resting.pc = "idle"
    BY DEF Resting, SweepRecords
  <1>1. CASE SweepClaim(s)
    <2>1. \A i \in Intents : [intent[i] EXCEPT !.check = "timer"] \in Rows
      BY DEF TypeOK, Rows
    <2>2. \A i \in Intents : Expired(intent[i]) \in Rows
      BY ExpiredRow DEF TypeOK
    <2>3. intent' \in [Intents -> Rows]
      BY <1>1, <2>1, <2>2 DEF SweepClaim
    <2>4. claim' \in [Intents -> Sweepers \cup {None}]
      BY <1>1 DEF SweepClaim, TypeOK
    <2>5. sweep' \in [Sweepers -> SweepRecords] /\ Held(sweep')
      BY <1>1 DEF SweepClaim, TypeOK, Busy, Resting, SweepRecords
    <2> QED
      BY <1>1, <2>3, <2>4, <2>5 DEF SweepClaim, TypeOK, Busy, SweepRecords
  <1>2. CASE SweepRead(s)
    <2> DEFINE x == [sweep[s] EXCEPT !.optional = mode = "manager_optional",
                                     !.reach = manager = "reachable"]
    <2>2. x \in SweepRecords
      BY SweepHolds DEF SweepRecords
    <2>3. \E todo \in SUBSET Intents : sweep' = [sweep EXCEPT ![s] = Onward(x, todo)]
      BY <1>2, SweepHolds DEF SweepRead
    <2> HIDE DEF x
    <2>1. sweep' \in [Sweepers -> SweepRecords] /\ Held(sweep')
      BY <2>2, <2>3, EntryEnds
    <2> QED
      BY <1>2, <2>1 DEF SweepRead, TypeOK, Busy, SweepRecords
  <1>4. ASSUME NEW i \in Intents, Reschedule(s, i)
        PROVE  TypeOK' /\ Busy'
    <2>1. intent' \in [Intents -> Rows]
      BY <1>4 DEF Reschedule, TypeOK, Rows
    <2>2. claim' \in [Intents -> Sweepers \cup {None}]
      BY <1>4 DEF Reschedule, TypeOK
    <2>3. sweep' \in [Sweepers -> SweepRecords] /\ Held(sweep')
      BY <1>4, SweepHolds, EntryEnds DEF Reschedule
    <2> QED
      BY <1>4, <2>1, <2>2, <2>3 DEF Reschedule, TypeOK, Busy, SweepRecords
  <1>5. ASSUME NEW i \in Intents, Choose(s, i)
        PROVE  TypeOK' /\ Busy'
    <2> DEFINE x == [sweep[s] EXCEPT !.pc = "approve", !.at = i]
    <2>2. x \in SweepRecords /\ x.at = i
      BY SweepHolds DEF SweepRecords
    <2>3. sweep \in [Sweepers -> SweepRecords] /\ sweep' = [sweep EXCEPT ![s] = x]
      BY <1>5 DEF Choose, TypeOK, SweepRecords
    <2> HIDE DEF x
    <2>1. sweep' \in [Sweepers -> SweepRecords] /\ Held(sweep')
      BY <2>2, <2>3 DEF Busy
    <2> QED
      BY <1>5, <2>1 DEF Choose, TypeOK, Busy, SweepRecords
  <1>6. CASE AutoApprove(s)
    <2> DEFINE i == sweep[s].at
               x == [intent[i] EXCEPT !.status = "used", !.escalated = TRUE,
                                      !.auto = TRUE]
    <2>1. i \in Intents
      BY <1>6 DEF AutoApprove, Busy
    <2>2. x \in Rows
      <3>1. intent[i] \in Rows
        BY <2>1 DEF TypeOK
      <3> QED
        BY <3>1 DEF Rows, Statuses
    <2>3. Rescheduled(x) \in Rows
      BY <2>2, RescheduledRow
    <2>4. \/ intent' = intent /\ claim' = claim
          \/ ExpireThen(i, Rescheduled(x))
      BY <1>6 DEF AutoApprove
    <2>5. /\ intent' \in [Intents -> Rows]
          /\ claim' \in [Intents -> Sweepers \cup {None}]
      BY <2>1, <2>3, <2>4, ExpireThenRows DEF TypeOK
    <2>6. done' \in [Intents -> Nat] /\ window' \subseteq Intents
      BY <1>6, <2>1 DEF AutoApprove, TypeOK
    <2>7. sweep' \in [Sweepers -> SweepRecords] /\ Held(sweep')
      BY <1>6, SweepHolds, EntryEnds DEF AutoApprove
    <2> QED
      BY <1>6, <2>5, <2>6, <2>7 DEF AutoApprove, TypeOK, Busy, SweepRecords
  <1>7. ASSUME NEW i \in Intents, Notify(s, i)
        PROVE  TypeOK' /\ Busy'
    <2> DEFINE x == [intent[i] EXCEPT !.escalated = TRUE]
    <2>2. x \in Rows
      <3>1. intent[i] \in Rows
        BY DEF TypeOK
      <3> QED
        BY <3>1 DEF Rows
    <2>3. Rescheduled(x) \in Rows
      BY <2>2, RescheduledRow
    <2>4. \/ intent' = intent /\ claim' = claim
          \/ /\ intent' = [intent EXCEPT ![i] = Rescheduled(x)]
             /\ claim' = [claim EXCEPT ![i] = None]
      BY <1>7 DEF Notify
    <2>5. /\ intent' \in [Intents -> Rows]
          /\ claim' \in [Intents -> Sweepers \cup {None}]
      BY <2>3, <2>4 DEF TypeOK
    <2>6. sweep' \in [Sweepers -> SweepRecords] /\ Held(sweep')
      BY <1>7, SweepHolds, EntryEnds DEF Notify
    <2> QED
      BY <1>7, <2>5, <2>6 DEF Notify, TypeOK, Busy, SweepRecords
  <1>8. ASSUME NEW i \in Intents, EntryFails(s, i)
        PROVE  TypeOK' /\ Busy'
    <2>1. sweep' \in [Sweepers -> SweepRecords] /\ Held(sweep')
      BY <1>8, SweepHolds, EntryEnds DEF EntryFails
    <2>2. events' \in 0..MaxEvents
      BY <1>8 DEF EntryFails, Spend, TypeOK
    <2>3. UNCHANGED <<intent, claim, mode, manager, request, done, window>>
      BY <1>8 DEF EntryFails
    <2> QED
      BY <2>1, <2>2, <2>3 DEF TypeOK, Busy, SweepRecords
  <1>9. CASE SweepDies(s)
    <2>1. sweep' \in [Sweepers -> SweepRecords] /\ Held(sweep')
      BY <1>0, <1>9 DEF SweepDies, TypeOK, Busy, SweepRecords
    <2> QED
      BY <1>9, <2>1 DEF SweepDies, Spend, TypeOK, Busy, SweepRecords
  <1> QED
    BY <1>1, <1>2, <1>4, <1>5, <1>6, <1>7, <1>8, <1>9 DEF SweepStep

(* The variables of BoardIntents keep their types.                         *)
THEOREM TypeCorrect == Spec => [](TypeOK /\ Busy)
  <1>1. Init => TypeOK /\ Busy
    BY BoundsAssumption
       DEF Init, TypeOK, Busy, NoRow, Rows, Statuses, Modes, Resting, Nothing
  <1>2. TypeOK /\ Busy /\ [Next]_vars => (TypeOK /\ Busy)'
    <2>1. CASE UNCHANGED vars
      BY <2>1 DEF vars, TypeOK, Busy
    <2>2. CASE Next
      BY <2>2, TypePeople, TypeRoom, TypeSweep DEF Next
    <2> QED
      BY <2>1, <2>2
  <1> QED
    BY <1>1, <1>2, PTL DEF Spec

(***************************************************************************)
(* One effect per intent.                                                  *)
(***************************************************************************)

(* What a request under way knows of its intent: it is decided, and at the *)
(* second look its approval is no longer valid.                            *)
Decided(row) == row.status \notin {"none", "pending"}
Good(row)    == row.status = "approved" /\ ~row.late

Carried ==
  \A r \in Requests : request[r].pc # "idle" =>
    /\ Decided(intent[request[r].at])
    /\ request[r].pc = "recheck" => ~Good(intent[request[r].at])

(* A decided row stays decided, and an approval that is no longer valid    *)
(* never becomes valid again.                                              *)
KeepsDecision(old, new) ==
  Decided(old) => /\ Decided(new)
                  /\ ~Good(old) => ~Good(new)

(* Either nothing is done for an intent and its row is used as before, or  *)
(* its one action is done as the row becomes used.                         *)
OneStepDone(i) ==
  \/ /\ done'[i] = done[i]
     /\ intent'[i].status = "used" <=> intent[i].status = "used"
  \/ /\ done'[i] = done[i] + 1
     /\ intent[i].status # "used"
     /\ intent'[i].status = "used"

RowStep == \A i \in Intents : KeepsDecision(intent[i], intent'[i]) /\ OneStepDone(i)

(* Expiry keeps decisions and uses nothing.                                *)
LEMMA ExpiredKeeps ==
  ASSUME NEW row \in Rows
  PROVE  /\ KeepsDecision(row, Expired(row))
         /\ Expired(row).status = "used" <=> row.status = "used"
  BY ExpiredRow DEF KeepsDecision, Decided, Good

(* The steps of people and agents.                                         *)
LEMMA RowStepPeople ==
  ASSUME TypeOK, Busy, Carried, People
  PROVE  RowStep
  <1>0. \A j \in Intents : intent[j] \in Rows
    BY DEF TypeOK
  <1>1. ASSUME NEW i \in Intents, Register(i)
        PROVE  RowStep
    <2> DEFINE x == [intent[i] EXCEPT !.status = "pending"]
    <2>1. x \in Rows /\ x.status = "pending"
      BY <1>0 DEF Rows, Statuses
    <2>2. Rescheduled(x) \in Rows /\ Rescheduled(x).status = "pending"
      BY <2>1, RescheduledRow
    <2>3. intent[i].status = "none"
      BY <1>1 DEF Register
    <2>4. ExpireThen(i, intent[i]) \/ ExpireThen(i, Rescheduled(x))
      BY <1>1 DEF Register
    <2>5. /\ intent'[i] = intent[i] \/ intent'[i] = Rescheduled(x)
          /\ \A j \in Intents \ {i} : intent'[j] = Expired(intent[j])
      BY <1>0, <2>2, <2>4, ExpireThenRows
    <2>6. done' = done
      BY <1>1 DEF Register
    <2> QED
      BY <1>0, <2>2, <2>3, <2>5, <2>6, ExpiredKeeps
         DEF RowStep, OneStepDone, KeepsDecision, Decided
  <1>2. ASSUME NEW i \in Intents, Approve(i)
        PROVE  RowStep
    <2> DEFINE st == IF i \in Direct THEN "used" ELSE "approved"
               x == [intent[i] EXCEPT !.status = st]
    <2>1. x \in Rows /\ x.status = st
      BY <1>0 DEF Rows, Statuses
    <2>2. Rescheduled(x) \in Rows /\ Rescheduled(x).status = st
      BY <2>1, RescheduledRow
    <2>3. intent[i].status = "pending" /\ ExpireThen(i, Rescheduled(x))
      BY <1>2 DEF Approve, Undecided
    <2>4. /\ intent'[i].status = st
          /\ \A j \in Intents \ {i} : intent'[j] = Expired(intent[j])
      BY <2>2, <2>3, ExpireThenRows
    <2>5. /\ done'[i] = IF i \in Direct THEN done[i] + 1 ELSE done[i]
          /\ \A j \in Intents \ {i} : done'[j] = done[j]
      BY <1>2 DEF Approve, TypeOK
    <2> QED
      BY <1>0, <2>3, <2>4, <2>5, ExpiredKeeps
         DEF RowStep, OneStepDone, KeepsDecision, Decided
  <1>3. ASSUME NEW i \in Intents, Deny(i)
        PROVE  RowStep
    <2> DEFINE x == [intent[i] EXCEPT !.status = "denied"]
    <2>1. x \in Rows /\ x.status = "denied"
      BY <1>0 DEF Rows, Statuses
    <2>2. Rescheduled(x) \in Rows /\ Rescheduled(x).status = "denied"
      BY <2>1, RescheduledRow
    <2>3. intent[i].status = "pending" /\ ExpireThen(i, Rescheduled(x)) /\ done' = done
      BY <1>3 DEF Deny, Undecided
    <2>4. /\ intent'[i].status = "denied"
          /\ \A j \in Intents \ {i} : intent'[j] = Expired(intent[j])
      BY <2>2, <2>3, ExpireThenRows
    <2> QED
      BY <1>0, <2>3, <2>4, ExpiredKeeps
         DEF RowStep, OneStepDone, KeepsDecision, Decided
  <1>4. ASSUME NEW r \in Requests, NEW i \in Intents, Present(r, i)
        PROVE  RowStep
    BY <1>4 DEF Present, RowStep, OneStepDone, KeepsDecision
  <1>5. ASSUME NEW r \in Requests, Consume(r)
        PROVE  RowStep
    <2> DEFINE i == request[r].at
               x == [intent[i] EXCEPT !.status = "used"]
    <2>1. i \in Intents
      BY <1>5 DEF Consume, Busy
    <2>2. x \in Rows /\ x.status = "used"
      BY <1>0, <2>1 DEF Rows, Statuses
    <2>3. Rescheduled(x).status = "used"
      BY <2>2, RescheduledRow
    <2>4. CASE Valid(i)
      <3>1. /\ intent' = [intent EXCEPT ![i] = Rescheduled(x)]
            /\ done' = [done EXCEPT ![i] = @ + 1]
            /\ intent[i].status = "approved"
        BY <1>5, <2>4 DEF Consume, Valid
      <3>2. /\ intent'[i].status = "used" /\ done'[i] = done[i] + 1
            /\ \A j \in Intents \ {i} : intent'[j] = intent[j] /\ done'[j] = done[j]
        BY <2>1, <2>3, <3>1 DEF TypeOK
      <3> QED
        BY <2>1, <3>1, <3>2
           DEF RowStep, OneStepDone, KeepsDecision, Decided, Good
    <2>5. CASE ~Valid(i)
      BY <1>5, <2>5 DEF Consume, RowStep, OneStepDone, KeepsDecision
    <2> QED
      BY <2>4, <2>5
  <1>6. ASSUME NEW r \in Requests, Recheck(r)
        PROVE  RowStep
    <2>1. request[r].at \in Intents /\ ~Valid(request[r].at)
      BY <1>6 DEF Recheck, Busy, Carried, Valid, Good
    <2>2. intent' = intent /\ \A j \in Intents : done'[j] = done[j]
      BY <1>6, <2>1 DEF Recheck, TypeOK
    <2> QED
      BY <2>2 DEF RowStep, OneStepDone, KeepsDecision
  <1> QED
    BY <1>1, <1>2, <1>3, <1>4, <1>5, <1>6 DEF People

(* A step that moves checks and lateness, and nothing else of a row.       *)
LEMMA RowStepRoom ==
  ASSUME TypeOK, Room
  PROVE  RowStep
  <1>1. done' = done
    BY DEF Room, SetMode, AssignManager, ReleaseManager, ManagerMoves, FallDue,
           GrowLate, LeaveWindow
  <1> DEFINE SameButLater ==
               \A j \in Intents :
                 /\ intent'[j].status = intent[j].status
                 /\ intent[j].late => intent'[j].late
  <1>2. SameButLater
    <2>0. \A j \in Intents : intent[j] \in Rows
      BY DEF TypeOK
    <2>1. CASE \E m \in Modes : SetMode(m)
      BY <2>0, <2>1 DEF SetMode, Hastened, Rows
    <2>2. CASE \E m \in {"away", "reachable"} : AssignManager(m)
      BY <2>0, <2>2 DEF AssignManager, Rows
    <2>3. CASE ReleaseManager
      BY <2>0, <2>3 DEF ReleaseManager, Hastened, Rows
    <2>4. CASE ManagerMoves \/ \E i \in Intents : LeaveWindow(i)
      BY <2>4 DEF ManagerMoves, LeaveWindow
    <2>5. ASSUME NEW i \in Intents, FallDue(i) \/ GrowLate(i)
          PROVE  SameButLater
      <3>1. /\ \A j \in Intents \ {i} : intent'[j] = intent[j]
            /\ \/ intent'[i] = [intent[i] EXCEPT !.check = "due"]
               \/ intent'[i] = [intent[i] EXCEPT !.late = TRUE]
        BY <2>5 DEF FallDue, GrowLate, TypeOK
      <3>2. intent'[i].status = intent[i].status /\ (intent[i].late => intent'[i].late)
        BY <2>0, <3>1 DEF Rows
      <3> QED
        BY <3>1, <3>2
    <2> HIDE DEF SameButLater
    <2> QED
      BY <2>1, <2>2, <2>3, <2>4, <2>5 DEF Room
  <1> QED
    BY <1>1, <1>2 DEF RowStep, OneStepDone, KeepsDecision, Decided, Good

(* The steps of a sweep.                                                   *)
LEMMA RowStepSweep ==
  ASSUME TypeOK, Busy, NEW s \in Sweepers,
         \/ SweepStep(s)
         \/ \E i \in Intents : EntryFails(s, i)
         \/ SweepDies(s)
  PROVE  RowStep
  <1>0. \A j \in Intents : intent[j] \in Rows
    BY DEF TypeOK
  <1>1. CASE SweepClaim(s)
    <2>1. done' = done
      BY <1>1 DEF SweepClaim
    <2>2. ASSUME NEW j \in Intents
          PROVE  \/ intent'[j] = Expired(intent[j])
                 \/ /\ intent'[j].status = intent[j].status
                    /\ intent'[j].late = intent[j].late
      <3>1. \/ intent'[j] = Expired(intent[j])
            \/ intent'[j] = [intent[j] EXCEPT !.check = "timer"]
        BY <1>1 DEF SweepClaim
      <3> QED
        BY <1>0, <3>1 DEF Rows
    <2>3. ASSUME NEW j \in Intents
          PROVE  /\ KeepsDecision(intent[j], intent'[j])
                 /\ intent'[j].status = "used" <=> intent[j].status = "used"
      BY <1>0, <2>2, ExpiredKeeps DEF KeepsDecision, Decided, Good
    <2> QED
      BY <2>1, <2>3 DEF RowStep, OneStepDone
  <1>2. CASE UNCHANGED <<intent, done>>
    BY <1>2 DEF RowStep, OneStepDone, KeepsDecision
  <1>3. ASSUME NEW i \in Intents, Reschedule(s, i)
        PROVE  RowStep
    <2>1. done' = done /\ \A j \in Intents : /\ intent'[j].status = intent[j].status
                                            /\ intent'[j].late = intent[j].late
      BY <1>0, <1>3 DEF Reschedule, TypeOK, Rows
    <2> QED
      BY <2>1 DEF RowStep, OneStepDone, KeepsDecision, Decided, Good
  <1>4. CASE AutoApprove(s)
    <2> DEFINE i == sweep[s].at
               x == [intent[i] EXCEPT !.status = "used", !.escalated = TRUE,
                                      !.auto = TRUE]
    <2>1. i \in Intents
      BY <1>4 DEF AutoApprove, Busy
    <2>2. x \in Rows /\ x.status = "used"
      BY <1>0, <2>1 DEF Rows, Statuses
    <2>3. Rescheduled(x) \in Rows /\ Rescheduled(x).status = "used"
      BY <2>2, RescheduledRow
    <2>4. CASE UNCHANGED <<intent, done>>
      BY <2>4, <1>2
    <2>5. CASE ~UNCHANGED <<intent, done>>
      <3>1. /\ intent[i].status = "pending"
            /\ ExpireThen(i, Rescheduled(x))
            /\ done' = [done EXCEPT ![i] = @ + 1]
        BY <1>4, <2>5 DEF AutoApprove, Waiting
      <3>2. /\ intent'[i].status = "used"
            /\ \A j \in Intents \ {i} : intent'[j] = Expired(intent[j])
        BY <2>1, <2>3, <3>1, ExpireThenRows
      <3>3. /\ done'[i] = done[i] + 1
            /\ \A j \in Intents \ {i} : done'[j] = done[j]
        BY <2>1, <3>1 DEF TypeOK
      <3> QED
        BY <1>0, <3>1, <3>2, <3>3, ExpiredKeeps
           DEF RowStep, OneStepDone, KeepsDecision, Decided
    <2> QED
      BY <2>4, <2>5
  <1>5. ASSUME NEW i \in Intents, Notify(s, i)
        PROVE  RowStep
    <2> DEFINE x == [intent[i] EXCEPT !.escalated = TRUE]
    <2>2. x \in Rows /\ x.status = intent[i].status /\ x.late = intent[i].late
      BY <1>0 DEF Rows
    <2>3. /\ Rescheduled(x).status = intent[i].status
          /\ Rescheduled(x).late = intent[i].late
      BY <2>2, RescheduledRow
    <2>4. done' = done /\ (intent' = intent \/ intent' = [intent EXCEPT ![i] = Rescheduled(x)])
      BY <1>5 DEF Notify
    <2>5. \A j \in Intents : /\ intent'[j].status = intent[j].status
                             /\ intent'[j].late = intent[j].late
      BY <2>3, <2>4 DEF TypeOK
    <2> QED
      BY <2>4, <2>5 DEF RowStep, OneStepDone, KeepsDecision, Decided, Good
  <1> QED
    BY <1>1, <1>2, <1>3, <1>4, <1>5
       DEF SweepStep, SweepRead, Choose, EntryFails, SweepDies

(* Every step uses an intent as it acts on it, and takes back no decision. *)
LEMMA EveryRowStep ==
  ASSUME TypeOK, Busy, Carried, Next
  PROVE  RowStep
  BY RowStepPeople, RowStepRoom, RowStepSweep DEF Next

(* What requests know stays true.                                          *)
LEMMA CarriedStep ==
  ASSUME TypeOK, Busy, Carried, Next
  PROVE  Carried'
  <1>1. RowStep
    BY EveryRowStep
  <1>2. CASE request' = request
    BY <1>1, <1>2 DEF RowStep, KeepsDecision, Carried, Busy
  <1>3. ASSUME NEW r \in Requests, NEW i \in Intents, Present(r, i)
        PROVE  Carried'
    <2>1. /\ request'[r] = [pc |-> "verified", at |-> i]
          /\ \A q \in Requests \ {r} : request'[q] = request[q]
          /\ Decided(intent[i])
          /\ intent' = intent
      BY <1>3 DEF Present, TypeOK, Valid, Decided
    <2> QED
      BY <2>1 DEF Carried
  <1>4. ASSUME NEW r \in Requests, Consume(r)
        PROVE  Carried'
    <2> DEFINE i == request[r].at
    <2>1. i \in Intents /\ Decided(intent[i])
      BY <1>4 DEF Consume, Busy, Carried
    <2>2. \A q \in Requests \ {r} : request'[q] = request[q]
      BY <1>4 DEF Consume, TypeOK
    <2>3. \/ request'[r].pc = "idle"
          \/ request'[r].at = i /\ ~Good(intent[i])
      BY <1>4 DEF Consume, TypeOK, Nothing, Valid, Good
    <2> QED
      BY <1>1, <2>1, <2>2, <2>3 DEF RowStep, KeepsDecision, Carried, Busy
  <1>5. ASSUME NEW r \in Requests, Recheck(r)
        PROVE  Carried'
    <2>1. /\ request'[r].pc = "idle"
          /\ \A q \in Requests \ {r} : request'[q] = request[q]
      BY <1>5 DEF Recheck, TypeOK, Nothing
    <2> QED
      BY <1>1, <2>1 DEF RowStep, KeepsDecision, Carried, Busy
  <1> QED
    BY <1>2, <1>3, <1>4, <1>5
       DEF Next, People, Room, SweepStep, Register, Approve, Deny, SetMode,
           AssignManager, ReleaseManager, ManagerMoves, FallDue, GrowLate,
           LeaveWindow, SweepClaim, SweepRead, Reschedule, Choose,
           AutoApprove, Notify, EntryFails, SweepDies

(* Requests that race with one approval, the manager and the sweep perform *)
(* an intent's action once, and exactly when they use it.                  *)
THEOREM OneEffectPerIntentHolds == Spec => []OneEffectPerIntent
  <1>1. Init => Carried /\ OneEffectPerIntent
    BY DEF Init, Carried, OneEffectPerIntent, Nothing, NoRow
  <1>2. /\ TypeOK /\ Busy
        /\ Carried /\ OneEffectPerIntent
        /\ [Next]_vars
        => (Carried /\ OneEffectPerIntent)'
    <2> SUFFICES ASSUME TypeOK, Busy, Carried, OneEffectPerIntent, [Next]_vars
                 PROVE  (Carried /\ OneEffectPerIntent)'
      OBVIOUS
    <2>1. CASE UNCHANGED vars
      BY <2>1 DEF vars, Carried, OneEffectPerIntent
    <2>2. CASE Next
      <3>1. RowStep
        BY <2>2, EveryRowStep
      <3>2. Carried'
        BY <2>2, CarriedStep
      <3>3. OneEffectPerIntent'
        BY <3>1 DEF RowStep, OneStepDone, OneEffectPerIntent
      <3> QED
        BY <3>2, <3>3
    <2> QED
      BY <2>1, <2>2
  <1> QED
    BY <1>1, <1>2, TypeCorrect, PTL DEF Spec

(***************************************************************************)
(* The budget.                                                             *)
(***************************************************************************)

(* Only an approval by the sweep adds to the window, and only while the    *)
(* proposer's count is below the budget at that moment; otherwise the      *)
(* window shrinks or stays.                                                *)
LEMMA WindowStep ==
  ASSUME TypeOK, Busy, [Next]_vars
  PROVE  \/ window' \subseteq window
         \/ \E i \in Intents : Spent(i) < Cap /\ window' = window \cup {i}
  <1>1. ASSUME NEW s \in Sweepers, AutoApprove(s)
        PROVE  \/ window' \subseteq window
               \/ \E i \in Intents : Spent(i) < Cap /\ window' = window \cup {i}
    BY <1>1 DEF AutoApprove, Eligible, Busy
  <1> QED
    BY <1>1
       DEF Next, vars, People, Room, SweepStep, Register, Approve, Deny, Present,
           Consume, Recheck, SetMode, AssignManager, ReleaseManager, ManagerMoves,
           FallDue, GrowLate, LeaveWindow, SweepClaim, SweepRead,
           Reschedule, Choose, Notify, EntryFails, SweepDies

(* The sweeps of all servers together approve at most Cap intents of one   *)
(* proposer within the window: the count is taken inside the transaction   *)
(* that spends it, under the proposer's lock.                              *)
THEOREM CapHoldsAlways == Spec => []CapHolds
  <1>1. Init => CapHolds
    BY DEF Init, CapHolds
  <1>2. TypeOK /\ Busy /\ CapHolds /\ [Next]_vars => CapHolds'
    <2> SUFFICES ASSUME TypeOK, Busy, CapHolds, [Next]_vars,
                        NEW k \in Intents, k \in window'
                 PROVE  Spent(k)' <= Cap
      BY DEF CapHolds
    <2> DEFINE Old(j) == {h \in window : Proposer[h] = Proposer[j]}
               new == {h \in window' : Proposer[h] = Proposer[k]}
    <2>1. IsFiniteSet(window)
      BY IntentsAssumption, FS_Subset DEF TypeOK
    <2>2. \A j \in Intents : IsFiniteSet(Old(j)) /\ Cardinality(Old(j)) = Spent(j)
      <3>1. \A j \in Intents : Old(j) \subseteq window
        OBVIOUS
      <3> QED
        BY <2>1, <3>1, FS_Subset DEF Spent
    <2>3. CASE window' \subseteq window
      <3>1. new \subseteq Old(k)
        BY <2>3
      <3>2. Cardinality(new) \in Nat /\ Cardinality(Old(k)) \in Nat
            /\ Cardinality(new) <= Cardinality(Old(k))
        BY <2>2, <3>1, FS_Subset, FS_CardinalityType
      <3>3. Spent(k) <= Cap
        BY <2>3 DEF CapHolds
      <3> QED
        BY <2>2, <3>2, <3>3, BoundsAssumption DEF Spent
    <2>4. ASSUME NEW i \in Intents, Spent(i) < Cap, window' = window \cup {i}
          PROVE  Spent(k)' <= Cap
      <3>1. CASE Proposer[k] = Proposer[i]
        <4>1. new = Old(i) \cup {i}
          BY <2>4, <3>1
        <4>2. Cardinality(new) <= Cardinality(Old(i)) + 1
              /\ Cardinality(new) \in Nat /\ Cardinality(Old(i)) \in Nat
          BY <2>2, <4>1, FS_AddElement, FS_CardinalityType
        <4> QED
          BY <2>2, <2>4, <4>2, BoundsAssumption DEF Spent
      <3>2. CASE Proposer[k] # Proposer[i]
        <4>1. k \in window /\ new = Old(k)
          BY <2>4, <3>2
        <4> QED
          BY <2>2, <4>1 DEF Spent, CapHolds
      <3> QED
        BY <3>1, <3>2
    <2> QED
      BY <2>3, <2>4, WindowStep
  <1> QED
    BY <1>1, <1>2, TypeCorrect, PTL DEF Spec

(***************************************************************************)
(* Approvals by the sweep.                                                 *)
(***************************************************************************)

(* A sweep about to approve holds a creation by a known proposer.          *)
Chosen ==
  \A s \in Sweepers : sweep[s].pc = "approve" =>
    sweep[s].at \in Creates /\ Proposer[sweep[s].at] # None

(* It stays so: a sweep's choice is made at the moment it takes the entry. *)
LEMMA ChosenStep ==
  ASSUME TypeOK, Busy, Chosen, Next
  PROVE  Chosen'
  <1>1. CASE sweep' = sweep
    BY <1>1 DEF Chosen
  <1>2. ASSUME NEW s \in Sweepers, NEW i \in Intents, Choose(s, i)
        PROVE  Chosen'
    <2>1. /\ \A t \in Sweepers \ {s} : sweep'[t] = sweep[t]
          /\ sweep'[s].at = i
          /\ sweep'[s].pc = "approve" => SelfApproves(s, i)
      BY <1>2 DEF Choose, TypeOK
    <2> QED
      BY <2>1 DEF Chosen, SelfApproves
  <1>3. ASSUME NEW s \in Sweepers, NEW i \in Intents,
               Reschedule(s, i) \/ Notify(s, i) \/ EntryFails(s, i)
        PROVE  Chosen'
    <2>1. /\ \A t \in Sweepers \ {s} : sweep'[t] = sweep[t]
          /\ sweep'[s].pc # "approve"
      BY <1>3, SweepHolds, EntryEnds DEF Reschedule, Notify, EntryFails
    <2> QED
      BY <2>1 DEF Chosen
  <1>4. ASSUME NEW s \in Sweepers,
               \/ SweepClaim(s) \/ SweepRead(s) \/ AutoApprove(s) \/ SweepDies(s)
        PROVE  Chosen'
    <2>1. sweep \in [Sweepers -> SweepRecords]
      BY DEF TypeOK, SweepRecords
    <2>2. /\ \A t \in Sweepers \ {s} : sweep'[t] = sweep[t]
          /\ sweep'[s].pc # "approve"
      <3>1. CASE SweepClaim(s)
        BY <2>1, <3>1 DEF SweepClaim, Resting
      <3>2. CASE SweepRead(s)
        <4> DEFINE x == [sweep[s] EXCEPT !.optional = mode = "manager_optional",
                                         !.reach = manager = "reachable"]
        <4>1. x \in SweepRecords
          BY SweepHolds DEF SweepRecords
        <4>2. \E todo \in SUBSET Intents : sweep' = [sweep EXCEPT ![s] = Onward(x, todo)]
          BY <3>2, SweepHolds DEF SweepRead
        <4> HIDE DEF x
        <4> QED
          BY <4>1, <4>2, EntryEnds
      <3>3. CASE SweepDies(s)
        <4>1. Resting.pc = "idle"
          BY DEF Resting
        <4> QED
          BY <2>1, <3>3, <4>1 DEF SweepDies
      <3>4. CASE AutoApprove(s)
        BY <3>4, SweepHolds, EntryEnds DEF AutoApprove
      <3> QED
        BY <1>4, <3>1, <3>2, <3>3, <3>4
    <2> QED
      BY <2>2 DEF Chosen
  <1> QED
    BY <1>1, <1>2, <1>3, <1>4
       DEF Next, People, Room, SweepStep, Register, Approve, Deny, Present,
           Consume, Recheck, SetMode, AssignManager, ReleaseManager, ManagerMoves,
           FallDue, GrowLate, LeaveWindow

(* No step but an approval by the sweep marks an intent as approved by it. *)
LEMMA AutoStep ==
  ASSUME TypeOK, Busy, Next, NEW i \in Intents,
         intent'[i].auto, ~intent[i].auto
  PROVE  \E s \in Sweepers : /\ sweep[s].pc = "approve"
                             /\ sweep[s].at = i
                             /\ Eligible(i)
  <1>0. \A j \in Intents : intent[j] \in Rows /\ Expired(intent[j]).auto = intent[j].auto
    BY ExpiredRow DEF TypeOK
  <1>1. ASSUME NEW j \in Intents, NEW row \in Rows, ExpireThen(j, row)
        PROVE  i = j /\ row.auto
    BY <1>0, <1>1, ExpireThenRows
  <1>2. ASSUME NEW j \in Intents, NEW st \in Statuses
        PROVE  /\ Rescheduled([intent[j] EXCEPT !.status = st]) \in Rows
               /\ Rescheduled([intent[j] EXCEPT !.status = st]).auto = intent[j].auto
    <2>1. /\ [intent[j] EXCEPT !.status = st] \in Rows
          /\ [intent[j] EXCEPT !.status = st].auto = intent[j].auto
      BY <1>0 DEF Rows
    <2> QED
      BY <2>1, RescheduledRow
  <1>3. \A j \in Intents : ~Register(j) /\ ~Approve(j) /\ ~Deny(j)
    <2>1. ASSUME NEW j \in Intents, Register(j)
          PROVE  FALSE
      <3>1. \/ ExpireThen(j, intent[j])
            \/ ExpireThen(j, Rescheduled([intent[j] EXCEPT !.status = "pending"]))
        BY <2>1 DEF Register
      <3>2. "pending" \in Statuses
        BY DEF Statuses
      <3> QED
        BY <1>0, <1>1, <1>2, <3>1, <3>2
    <2>2. ASSUME NEW j \in Intents, Approve(j) \/ Deny(j)
          PROVE  FALSE
      <3>1. PICK st \in Statuses :
              ExpireThen(j, Rescheduled([intent[j] EXCEPT !.status = st]))
        BY <2>2 DEF Approve, Deny, Statuses
      <3> QED
        BY <1>1, <1>2, <3>1
    <2> QED
      BY <2>1, <2>2
  <1>4. ASSUME NEW r \in Requests, Consume(r)
        PROVE  FALSE
    <2> DEFINE j == request[r].at
               x == Rescheduled([intent[j] EXCEPT !.status = "used"])
    <2>1. j \in Intents
      BY <1>4 DEF Consume, Busy
    <2>2. x.auto = intent[j].auto
      BY <1>2, <2>1 DEF Statuses
    <2>3. intent' = intent \/ intent' = [intent EXCEPT ![j] = x]
      BY <1>4 DEF Consume
    <2> HIDE DEF x
    <2> QED
      BY <2>1, <2>2, <2>3 DEF TypeOK
  <1>5. ~Room
    <2>1. \A m \in Modes : ~SetMode(m)
      BY <1>0 DEF SetMode, Hastened, Rows
    <2>2. \A m \in {"away", "reachable"} : ~AssignManager(m)
      BY <1>0 DEF AssignManager, Rows
    <2>3. ~ReleaseManager
      BY <1>0 DEF ReleaseManager, Hastened, Rows
    <2>4. ~ManagerMoves /\ \A j \in Intents : ~LeaveWindow(j)
      BY DEF ManagerMoves, LeaveWindow
    <2>5. ASSUME NEW j \in Intents, FallDue(j) \/ GrowLate(j)
          PROVE  FALSE
      <3>1. \/ intent'[i] = intent[i]
            \/ intent'[i] = [intent[i] EXCEPT !.check = "due"]
            \/ intent'[i] = [intent[i] EXCEPT !.late = TRUE]
        BY <2>5 DEF FallDue, GrowLate, TypeOK
      <3> QED
        BY <1>0, <3>1 DEF Rows
    <2> QED
      BY <2>1, <2>2, <2>3, <2>4, <2>5 DEF Room
  <1>6. \A s \in Sweepers : ~SweepClaim(s) /\ \A j \in Intents : ~Notify(s, j)
    <2>1. \A s \in Sweepers : ~SweepClaim(s)
      BY <1>0 DEF SweepClaim, Rows
    <2>2. ASSUME NEW s \in Sweepers, NEW j \in Intents, Notify(s, j)
          PROVE  FALSE
      <3> DEFINE x == [intent[j] EXCEPT !.escalated = TRUE]
      <3>2. x \in Rows /\ x.auto = intent[j].auto
        BY <1>0 DEF Rows
      <3>3. Rescheduled(x).auto = intent[j].auto
        BY <3>2, RescheduledRow
      <3> QED
        BY <2>2, <3>3 DEF Notify, TypeOK
    <2> QED
      BY <2>1, <2>2
  <1>7. \A s \in Sweepers, j \in Intents : ~Reschedule(s, j)
    BY <1>0 DEF Reschedule, Rows, TypeOK
  <1>8. PICK s \in Sweepers : AutoApprove(s)
    BY <1>3, <1>4, <1>5, <1>6, <1>7
       DEF Next, People, SweepStep, Present, Recheck, SweepRead, Choose,
           EntryFails, SweepDies
  <1>9. /\ sweep[s].at \in Intents
        /\ Eligible(sweep[s].at)
        /\ ExpireThen(sweep[s].at, intent'[sweep[s].at])
        /\ intent'[sweep[s].at] \in Rows
    <2>1. sweep[s].at \in Intents
      BY <1>8 DEF AutoApprove, Busy
    <2>2. intent' # intent
      OBVIOUS
    <2>3. /\ Eligible(sweep[s].at)
          /\ \E row : ExpireThen(sweep[s].at, row)
      BY <1>8, <2>2 DEF AutoApprove
    <2>4. TypeOK'
      BY <1>8, TypeSweep DEF SweepStep
    <2>5. intent'[sweep[s].at] \in Rows
      BY <2>1, <2>4 DEF TypeOK
    <2>6. ExpireThen(sweep[s].at, intent'[sweep[s].at])
      BY <2>1, <2>3 DEF ExpireThen
    <2> QED
      BY <2>1, <2>3, <2>5, <2>6
  <1> QED
    BY <1>1, <1>8, <1>9 DEF AutoApprove

(* Whatever happened since the sweep looked, it approves only creations of *)
(* known proposers, in a room that leaves the choice open and has no       *)
(* manager within reach.                                                   *)
THEOREM AutoOnlyInVacancyHolds == Spec => AutoOnlyInVacancy
  <1>1. Init => Chosen
    BY DEF Init, Chosen, Resting
  <1>2. TypeOK /\ Busy /\ Chosen /\ [Next]_vars => Chosen'
    BY ChosenStep DEF vars, Chosen
  <1>3. TypeOK /\ Busy /\ Chosen /\ [Next]_vars =>
          [\A i \in Intents : intent'[i].auto /\ ~intent[i].auto =>
             /\ mode = "manager_optional"
             /\ manager # "reachable"
             /\ i \in Creates
             /\ Proposer[i] # None]_vars
    BY AutoStep DEF vars, Chosen, Eligible
  <1> QED
    BY <1>1, <1>2, <1>3, TypeCorrect, PTL DEF Spec, AutoOnlyInVacancy
=============================================================================
