---------------------------- MODULE BoardIntents ----------------------------
(***************************************************************************)
(* The board intents of one room: an agent registers what it wants to do   *)
(* to the board, a Board Manager or an admin decides, the approval is used *)
(* once; and the sweep that escalates what nobody decides.                 *)
(*                                                                         *)
(* The row's escalation_check_at is told apart by what it means: "null",   *)
(* "timer" (in the future), "due".  A sweep claims the due rows by moving  *)
(* them 60 s ahead; claim names the sweep whose value a row still has.     *)
(***************************************************************************)
EXTENDS Naturals, FiniteSets

CONSTANTS Intents,     \* ids of the rows that registrations may create
          Requests,    \* HTTP requests that carry an approval
          Sweepers,    \* API servers, each runs one sweep at a time
          None,
          Payload,     \* [Intents -> action and payload hash]
          Proposer,    \* [Intents -> proposer_actor_key, or None]
          Creates,     \* intents of action task_create
          Direct,      \* intents whose approval performs the action
          Cap,         \* INTENT_AUTO_APPROVE_MAX_PER_WINDOW
          MaxEvents    \* bound on the changes of mode and of assignment,
                       \* and on the sweeps and transactions that fail

ASSUME NoneAssumption == None \notin Intents \cup Sweepers
ASSUME IntentsAssumption == IsFiniteSet(Intents) /\ Creates \subseteq Direct
ASSUME BoundsAssumption == Cap \in Nat /\ MaxEvents \in Nat

VARIABLES
  intent,   \* the rows of board_intents
  claim,    \* the sweep whose claimed_check_at equals the row's value
  mode,     \* manager_mode of the room
  manager,  \* the active assignment and the reach of its worker
  sweep,    \* where each sweep is, what it holds and what it has read
  request,  \* where each request is, and the intent it carries
  done,     \* board actions performed for each intent (history)
  window,   \* intents approved by the sweep within the last hour
  events

vars == <<intent, claim, mode, manager, sweep, request, done, window, events>>

Statuses == {"none", "pending", "approved", "denied", "expired", "used"}
Modes    == {"off", "manager_optional", "intent_required"}
Rows     == [status : Statuses, late : BOOLEAN, escalated : BOOLEAN,
             auto : BOOLEAN, check : {"null", "timer", "due"}]
NoRow    == [status |-> "none", late |-> FALSE, escalated |-> FALSE,
             auto |-> FALSE, check |-> "null"]
Resting  == [pc |-> "idle", todo |-> {}, at |-> None,
             optional |-> FALSE, reach |-> FALSE]
Nothing  == [pc |-> "idle", at |-> None]

Waiting(row) == row.status = "pending" /\ ~row.escalated
Valid(i)     == intent[i].status = "approved" /\ ~intent[i].late

(* Every write of status or escalated_at computes the check anew: a row    *)
(* that waits is looked at 10 minutes after its creation, others never.    *)
Rescheduled(row) ==
  [row EXCEPT !.check = IF Waiting(row) THEN "timer" ELSE "null"]

Expired(row) ==
  IF row.status \in {"pending", "approved"} /\ row.late
    THEN Rescheduled([row EXCEPT !.status = "expired", !.late = FALSE])
    ELSE row

(* expireBoardIntents on the whole room, then the new row of i.            *)
ExpireThen(i, row) ==
  /\ intent' = [j \in Intents |-> IF j = i THEN row ELSE Expired(intent[j])]
  /\ claim' = [j \in Intents |->
       IF intent'[j].check = intent[j].check THEN claim[j] ELSE None]

Spend == events < MaxEvents /\ events' = events + 1

(***************************************************************************)
(* Agents, the manager, admins.                                            *)
(***************************************************************************)

(* createBoardIntent: a pending row with the same payload is returned      *)
(* instead of a new one.                                                   *)
Register(i) ==
  /\ intent[i].status = "none"
  /\ IF \E j \in Intents : /\ Payload[j] = Payload[i]
                           /\ Expired(intent[j]).status = "pending"
       THEN ExpireThen(i, intent[i])
       ELSE ExpireThen(i, Rescheduled([intent[i] EXCEPT !.status = "pending"]))
  /\ UNCHANGED <<mode, manager, sweep, request, done, window, events>>

Undecided(i) == intent[i].status = "pending" /\ ~intent[i].late

(* approveBoardIntent, and for a direct action the task and the            *)
(* consumption of the approval in the same transaction.  The approval of   *)
(* the others is good for 30 minutes from here.                            *)
Approve(i) ==
  /\ Undecided(i)
  /\ ExpireThen(i, Rescheduled([intent[i] EXCEPT
       !.status = IF i \in Direct THEN "used" ELSE "approved"]))
  /\ done' = [done EXCEPT ![i] = IF i \in Direct THEN @ + 1 ELSE @]
  /\ UNCHANGED <<mode, manager, sweep, request, window, events>>

Deny(i) ==
  /\ Undecided(i)
  /\ ExpireThen(i, Rescheduled([intent[i] EXCEPT !.status = "denied"]))
  /\ UNCHANGED <<mode, manager, sweep, request, done, window, events>>

Governed ==
  \/ mode = "intent_required"
  \/ mode = "manager_optional" /\ manager # "none"

(* A slip: the approval is left to the transaction to find.                *)
Present_Unverified(r, i) ==
  /\ request[r].pc = "idle"
  /\ Governed
  /\ intent[i].status # "none"
  /\ request' = [request EXCEPT ![r] = [pc |-> "verified", at |-> i]]
  /\ UNCHANGED <<intent, claim, mode, manager, sweep, done, window, events>>

(* enforceBoardIntentForAgentAction: the approval is looked at before the  *)
(* transaction that performs the action.                                   *)
Present(r, i) ==
  /\ request[r].pc = "idle"
  /\ Governed
  /\ Valid(i)
  /\ request' = [request EXCEPT ![r] = [pc |-> "verified", at |-> i]]
  /\ UNCHANGED <<intent, claim, mode, manager, sweep, done, window, events>>

(* consumeBoardIntentApproval, first statement: at most one request finds  *)
(* the row approved, and its action commits with the mark.                 *)
Consume(r) ==
  LET i == request[r].at IN
  /\ request[r].pc = "verified"
  /\ IF Valid(i)
       THEN /\ intent' = [intent EXCEPT ![i] =
                 Rescheduled([@ EXCEPT !.status = "used"])]
            /\ done' = [done EXCEPT ![i] = @ + 1]
            /\ request' = [request EXCEPT ![r] = Nothing]
       ELSE /\ request' = [request EXCEPT ![r].pc = "recheck"]
            /\ UNCHANGED <<intent, done>>
  /\ UNCHANGED <<claim, mode, manager, sweep, window, events>>

(* ... and its second: verifyBoardIntentApproval, which looks again for    *)
(* the reason.  Were the approval valid now, the action would be allowed   *)
(* without being marked.                                                   *)
Recheck(r) ==
  LET i == request[r].at IN
  /\ request[r].pc = "recheck"
  /\ done' = [done EXCEPT ![i] = IF Valid(i) THEN @ + 1 ELSE @]
  /\ request' = [request EXCEPT ![r] = Nothing]
  /\ UNCHANGED <<intent, claim, mode, manager, sweep, window, events>>

(***************************************************************************)
(* The room and the clock.                                                 *)
(***************************************************************************)

(* LEAST(COALESCE(escalation_check_at, now()), now()): a value that is     *)
(* already due stays as it is, and so does the claim on it.                *)
Hastened(row) == IF Waiting(row) THEN [row EXCEPT !.check = "due"] ELSE row

SetMode(m) ==
  /\ Spend
  /\ mode # m
  /\ mode' = m
  /\ intent' = [i \in Intents |->
       IF Waiting(intent[i]) THEN Hastened(intent[i])
                             ELSE [intent[i] EXCEPT !.check = "null"]]
  /\ claim' = [i \in Intents |->
       IF intent'[i].check = intent[i].check THEN claim[i] ELSE None]
  /\ UNCHANGED <<manager, sweep, request, done, window>>

(* reschedule_room_work_from_manager_assignment: a new manager is given    *)
(* 5 minutes, a vacancy makes the waiting intents due.                     *)
AssignManager(m) ==
  /\ Spend
  /\ manager = "none"
  /\ manager' = m
  /\ intent' = [i \in Intents |->
       IF Waiting(intent[i]) THEN [intent[i] EXCEPT !.check = "timer"]
                             ELSE intent[i]]
  /\ claim' = [i \in Intents |-> IF Waiting(intent[i]) THEN None ELSE claim[i]]
  /\ UNCHANGED <<mode, sweep, request, done, window>>

ReleaseManager ==
  /\ Spend
  /\ manager # "none"
  /\ manager' = "none"
  /\ intent' = [i \in Intents |-> Hastened(intent[i])]
  /\ claim' = [i \in Intents |->
       IF intent'[i].check = intent[i].check THEN claim[i] ELSE None]
  /\ UNCHANGED <<mode, sweep, request, done, window>>

(* The manager's worker loses or regains its delivery: no trigger of the   *)
(* intents looks at that.                                                  *)
ManagerMoves ==
  /\ manager' \in {"away", "reachable"} \ {manager}
  /\ manager # "none"
  /\ UNCHANGED <<intent, claim, mode, sweep, request, done, window, events>>

FallDue(i) ==
  /\ intent[i].check = "timer"
  /\ intent' = [intent EXCEPT ![i].check = "due"]
  /\ UNCHANGED <<claim, mode, manager, sweep, request, done, window, events>>

(* expires_at passes: 24 hours for a pending row, 30 minutes for an        *)
(* approved one.                                                           *)
GrowLate(i) ==
  /\ intent[i].status \in {"pending", "approved"}
  /\ ~intent[i].late
  /\ intent' = [intent EXCEPT ![i].late = TRUE]
  /\ UNCHANGED <<claim, mode, manager, sweep, request, done, window, events>>

LeaveWindow(i) ==
  /\ i \in window
  /\ window' = window \ {i}
  /\ UNCHANGED <<intent, claim, mode, manager, sweep, request, done, events>>

(***************************************************************************)
(* The escalation sweep.                                                   *)
(***************************************************************************)
Claimable(i) ==
  Waiting(intent[i]) /\ ~intent[i].late /\ intent[i].check = "due"

(* A slip: a claimed row is not looked at again unless it is rescheduled.  *)
SweepClaim_ForGood(s) ==
  /\ sweep[s].pc = "idle"
  /\ \E i \in Intents : Claimable(i)
  /\ intent' = [i \in Intents |->
       IF Claimable(i) THEN [intent[i] EXCEPT !.check = "null"]
                       ELSE Expired(intent[i])]
  /\ claim' = [i \in Intents |->
       IF Claimable(i) THEN s
       ELSE IF intent'[i].check = intent[i].check THEN claim[i] ELSE None]
  /\ sweep' = [sweep EXCEPT ![s] = [Resting EXCEPT
       !.pc = "claimed", !.todo = {i \in Intents : Claimable(i)}]]
  /\ UNCHANGED <<mode, manager, request, done, window, events>>

(* listEscalationCandidateBoardIntents: expire, then claim what is due.    *)
SweepClaim(s) ==
  /\ sweep[s].pc = "idle"
  /\ \E i \in Intents : Claimable(i)
  /\ intent' = [i \in Intents |->
       IF Claimable(i) THEN [intent[i] EXCEPT !.check = "timer"]
                       ELSE Expired(intent[i])]
  /\ claim' = [i \in Intents |->
       IF Claimable(i) THEN s
       ELSE IF intent'[i].check = intent[i].check THEN claim[i] ELSE None]
  /\ sweep' = [sweep EXCEPT ![s] = [Resting EXCEPT
       !.pc = "claimed", !.todo = {i \in Intents : Claimable(i)}]]
  /\ UNCHANGED <<mode, manager, request, done, window, events>>

(* The loop over the batch: the sweep is over with its last entry.         *)
Onward(state, todo) ==
  IF todo = {} THEN Resting
  ELSE [state EXCEPT !.pc = "entries", !.at = None, !.todo = todo]

(* The rows that are still pending, the mode and the manager's reach, read *)
(* once for the whole batch.                                               *)
SweepRead(s) ==
  /\ sweep[s].pc = "claimed"
  /\ sweep' = [sweep EXCEPT ![s] = Onward(
       [@ EXCEPT !.optional = mode = "manager_optional",
                 !.reach = manager = "reachable"],
       {i \in @.todo : intent[i].status = "pending"})]
  /\ UNCHANGED <<intent, claim, mode, manager, request, done, window, events>>

(* A live manager keeps the decision: look again in 10 minutes, unless the *)
(* check has been moved since it was claimed.                              *)
Reschedule(s, i) ==
  /\ sweep[s].pc = "entries"
  /\ i \in sweep[s].todo
  /\ sweep[s].reach
  /\ intent' = [intent EXCEPT ![i].check =
       IF claim[i] = s /\ intent[i].status = "pending" THEN "timer" ELSE @]
  /\ claim' = [claim EXCEPT ![i] =
       IF @ = s /\ intent[i].status = "pending" THEN None ELSE @]
  /\ sweep' = [sweep EXCEPT ![s] = Onward(@, @.todo \ {i})]
  /\ UNCHANGED <<mode, manager, request, done, window, events>>

Spent(i) == Cardinality({j \in window : Proposer[j] = Proposer[i]})

(* selectIntentEscalationAction.                                           *)
SelfApproves(s, i) ==
  /\ sweep[s].optional
  /\ i \in Creates
  /\ Proposer[i] # None
  /\ Spent(i) < Cap

Choose(s, i) ==
  /\ sweep[s].pc = "entries"
  /\ i \in sweep[s].todo
  /\ ~sweep[s].reach
  /\ SelfApproves(s, i)
  /\ sweep' = [sweep EXCEPT ![s] = [@ EXCEPT !.pc = "approve", !.at = i]]
  /\ UNCHANGED <<intent, claim, mode, manager, request, done, window, events>>

(* A slip: the second look is at the budget alone.                         *)
Eligible_BudgetOnly(i) == Spent(i) < Cap

(* assertBoardIntentAutoApprovalEligibilityTx, under the advisory lock.    *)
Eligible(i) ==
  /\ mode = "manager_optional"
  /\ manager # "reachable"
  /\ Spent(i) < Cap

(* One transaction: the fence, the second look, the approval, the task and *)
(* the mark, or none of them.                                              *)
AutoApprove(s) ==
  LET i == sweep[s].at IN
  /\ sweep[s].pc = "approve"
  /\ IF Waiting(intent[i]) /\ ~intent[i].late /\ Eligible(i)
       THEN /\ ExpireThen(i, Rescheduled([intent[i] EXCEPT
                 !.status = "used", !.escalated = TRUE, !.auto = TRUE]))
            /\ done' = [done EXCEPT ![i] = @ + 1]
            /\ window' = window \cup {i}
       ELSE UNCHANGED <<intent, claim, done, window>>
  /\ sweep' = [sweep EXCEPT ![s] = Onward(@, @.todo \ {@.at})]
  /\ UNCHANGED <<mode, manager, request, events>>

(* The others are told to people, in one transaction with its own fence,   *)
(* which asks for neither the budget nor the manager.                      *)
Notify(s, i) ==
  /\ sweep[s].pc = "entries"
  /\ i \in sweep[s].todo
  /\ ~sweep[s].reach
  /\ ~SelfApproves(s, i)
  /\ IF Waiting(intent[i])
       THEN /\ intent' = [intent EXCEPT ![i] =
                 Rescheduled([@ EXCEPT !.escalated = TRUE])]
            /\ claim' = [claim EXCEPT ![i] = None]
       ELSE UNCHANGED <<intent, claim>>
  /\ sweep' = [sweep EXCEPT ![s] = Onward(@, @.todo \ {i})]
  /\ UNCHANGED <<mode, manager, request, done, window, events>>

(* A statement for an entry fails: the sweep goes on with the next one.    *)
EntryFails(s, i) ==
  /\ Spend
  /\ i \in sweep[s].todo
  /\ \/ sweep[s].pc = "entries"
     \/ sweep[s].pc = "approve" /\ sweep[s].at = i
  /\ sweep' = [sweep EXCEPT ![s] = Onward(@, @.todo \ {i})]
  /\ UNCHANGED <<intent, claim, mode, manager, request, done, window>>

(* The server dies, or a read of the sweep fails: what it claimed waits    *)
(* for the 60 s it was moved ahead.                                        *)
SweepDies(s) ==
  /\ Spend
  /\ sweep[s].pc # "idle"
  /\ sweep' = [sweep EXCEPT ![s] = Resting]
  /\ UNCHANGED <<intent, claim, mode, manager, request, done, window>>

Init ==
  /\ intent = [i \in Intents |-> NoRow]
  /\ claim = [i \in Intents |-> None]
  /\ mode = "manager_optional"
  /\ manager \in {"none", "away", "reachable"}
  /\ sweep = [s \in Sweepers |-> Resting]
  /\ request = [r \in Requests |-> Nothing]
  /\ done = [i \in Intents |-> 0]
  /\ window = {}
  /\ events = 0

People ==
  \/ \E i \in Intents : Register(i) \/ Approve(i) \/ Deny(i)
  \/ \E r \in Requests : \/ \E i \in Intents : Present(r, i)
                         \/ Consume(r)
                         \/ Recheck(r)

Room ==
  \/ \E m \in Modes : SetMode(m)
  \/ \E m \in {"away", "reachable"} : AssignManager(m)
  \/ ReleaseManager
  \/ ManagerMoves
  \/ \E i \in Intents : FallDue(i) \/ GrowLate(i) \/ LeaveWindow(i)

SweepStep(s) ==
  \/ SweepClaim(s)
  \/ SweepRead(s)
  \/ \E i \in Intents : Reschedule(s, i) \/ Choose(s, i) \/ Notify(s, i)
  \/ AutoApprove(s)

Next ==
  \/ People
  \/ Room
  \/ \E s \in Sweepers : \/ SweepStep(s)
                         \/ \E i \in Intents : EntryFails(s, i)
                         \/ SweepDies(s)

Spec == Init /\ [][Next]_vars

(* The clock moves, and a server runs its sweep every tick and to the end. *)
Fairness ==
  /\ \A i \in Intents : WF_vars(FallDue(i))
  /\ \A s \in Sweepers : WF_vars(SweepStep(s))

FairSpec == Spec /\ Fairness

TypeOK ==
  /\ intent \in [Intents -> Rows]
  /\ claim \in [Intents -> Sweepers \cup {None}]
  /\ mode \in Modes
  /\ manager \in {"none", "away", "reachable"}
  /\ sweep \in [Sweepers ->
       [pc : {"idle", "claimed", "entries", "approve"},
        todo : SUBSET Intents, at : Intents \cup {None},
        optional : BOOLEAN, reach : BOOLEAN]]
  /\ request \in [Requests ->
       [pc : {"idle", "verified", "recheck"}, at : Intents \cup {None}]]
  /\ done \in [Intents -> Nat]
  /\ window \subseteq Intents
  /\ events \in 0..MaxEvents

(***************************************************************************)
(* Properties.                                                             *)
(***************************************************************************)

(* An intent is acted on exactly when it is used, and once: requests that  *)
(* race with one approval, the manager's decision and the sweep never add  *)
(* up to two board actions, and a denied or expired intent has none.       *)
(* (consumeBoardIntentApproval and the fence of the escalation)            *)
OneEffectPerIntent ==
  \A i \in Intents : done[i] = IF intent[i].status = "used" THEN 1 ELSE 0

(* However many servers sweep at once, within any hour at most Cap intents *)
(* of one proposer are approved by the sweep.                              *)
(* (INTENT_AUTO_APPROVE_MAX_PER_WINDOW)                                    *)
CapHolds ==
  \A i \in Intents : i \in window => Spent(i) <= Cap

(* The sweep approves only in a room that still leaves it the choice, for  *)
(* a known proposer, and never past a manager who has come back since the  *)
(* sweep looked.  (assertBoardIntentAutoApprovalEligibilityTx)             *)
AutoOnlyInVacancy ==
  [][\A i \in Intents : intent'[i].auto /\ ~intent[i].auto =>
       /\ mode = "manager_optional"
       /\ manager # "reachable"
       /\ i \in Creates
       /\ Proposer[i] # None]_vars

(* An intent nobody decides does not wait for ever in a room without a     *)
(* reachable manager: it is escalated, though sweeps die, lose races, find *)
(* the budget spent or the room changed.                                   *)
(* (createIntentEscalationSweeper and the triggers of its check)           *)
PendingIsEscalated ==
  \A i \in Intents :
    []<>~(/\ Waiting(intent[i])
          /\ ~intent[i].late
          /\ manager # "reachable")
=============================================================================
