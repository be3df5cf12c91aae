------------------------------ MODULE TaskLeases ------------------------------
(***************************************************************************)
(* One task of a room and its work leases: claims, the writes a lease      *)
(* authorises, handoff and release, and the rebind that moves the lease of *)
(* a dead worker to its successor (src/src/api/db/tasks.ts,                *)
(* db/coordination/task-leases.ts, work-lease-actions.ts, lease-rebind.ts, *)
(* tasks/coordination-enforcement.ts).  The proof that the worker is dead  *)
(* comes from the desktop daemon (src/apps/desktop/daemon/                 *)
(* worker-authority-coordinator.ts, worker-binding-store.ts).              *)
(*                                                                         *)
(* An HTTP request reads the task and its lease, and later writes; what it *)
(* read is kept in req[r].  PostgreSQL runs every transaction at READ      *)
(* COMMITTED: a SELECT sees what is committed and waits for nobody, an     *)
(* UPDATE waits for a row another transaction has changed.  The locks a    *)
(* request holds follow from where it stands:                              *)
(*                                                                         *)
(*    the advisory lock task_lease:<id>   from "fenced", and by `moving`    *)
(*    the row of the task                 from "checked" or "linking"      *)
(*    the row of the lease                from "disposed"                  *)
(*    the advisory lock supervisor_grant  by `moving`                      *)
(*                                                                         *)
(* until it is "idle" again.  Statements that no other request can tell    *)
(* apart are one action.                                                   *)
(***************************************************************************)
EXTENDS Naturals, FiniteSets

CONSTANTS
  Request,        \* HTTP requests in progress at one time
  Agent,          \* agent identities (agent_key)
  Session,        \* worker sessions, registered under one supervisor grant
  AgentOf,        \* the agent a session belongs to
  Lease,          \* work-lease identifiers (`tl_<id>`)
  FirstStatus,    \* the status of the task at the beginning
  Asked,          \* bound: the statuses that reports and decisions ask for
  MaxGeneration,  \* bound: generations of the supervisor grant
  MaxExecutions,  \* bound: provider executions bound to one session
  None            \* SQL NULL

ASSUME AgentAssumption == AgentOf \in [Session -> Agent]
ASSUME BoundAssumption == MaxGeneration \in Nat \ {0} /\ MaxExecutions \in Nat \ {0}

VARIABLES
  task,     \* [status, assignee]: the row of the table tasks
  lease,    \* [Lease -> row of task_leases, kind work]
  session,  \* [Session -> "unborn", "live" or "ended"]
  elders,   \* [Session -> the sessions that had ended when it was created]
  grant,    \* current_generation of the supervisor's grant
  run,      \* [Session -> what the daemon's durable tables say of its executions]
  pass,     \* [Lease -> the daemon's attempt to restore it, or None]
  proof,    \* the table task_lease_rebind_attestations
  moving,   \* the rebind transaction in progress, or None
  req       \* [Request -> what the request is doing and what it has read]

vars == <<task, lease, session, elders, grant, run, pass, proof, moving, req>>
supervision == <<session, elders, grant, run, pass, proof, moving>>

-----------------------------------------------------------------------------
Status == {"proposed", "accepted", "assigned", "in_progress", "blocked",
           "in_review", "merged", "done", "cancelled"}

ASSUME NoneAssumption == None \notin Agent \cup Session \cup Lease \cup Status
ASSUME FirstAssumption == FirstStatus \in Status
ASSUME AskedAssumption == Asked \subseteq Status

VALID_TRANSITIONS ==
  [s \in Status |->
     CASE s = "proposed"    -> {"accepted", "cancelled"}
       [] s = "accepted"    -> {"assigned", "cancelled"}
       [] s = "assigned"    -> {"in_progress", "in_review", "cancelled"}
       [] s = "in_progress" -> {"blocked", "in_review", "done", "cancelled"}
       [] s = "blocked"     -> {"in_progress", "in_review", "cancelled"}
       [] s = "in_review"   -> {"merged", "in_progress", "blocked", "done", "cancelled"}
       [] s = "merged"      -> {"done", "accepted"}
       [] OTHER             -> {"accepted"}]

Progress == {"in_progress", "in_review"}      \* updates that are re-read
Underway == {"assigned", "in_progress", "blocked", "in_review"}
                                              \* LEASE_RECOVERY_ACTIVE_STATUSES

Task == [status : Status, assignee : Agent \cup {None}]

LeaseRow == [status : {"none", "active", "released"},
             session : Session \cup {None}, epoch : Nat]

\* A terminal attestation.  The evidence is the execution: its work attempt
\* and its cause are recorded once and follow from it.
Proof == [lease : Lease, epoch : Nat, session : Session,
          execution : 1..MaxExecutions,
          generation : 1..MaxGeneration, consumed : BOOLEAN]

\* worker_execution_bindings and work_attempt_executions, for one session:
\* the latest execution bound to it, whether one of them is not proven dead,
\* and the generation of a daemon starting one more (0: none).  The first
\* execution of a session is counted from its registration.
Run == [bound : 1..MaxExecutions, alive : BOOLEAN, starting : 0..MaxGeneration]

\* What restoreWorkerLeaseContinuity has read: the successor the daemon has
\* minted, and the execution it will name.
Pass == [to : Session, execution : 1..MaxExecutions]

NoLease == [status |-> "none", session |-> None, epoch |-> 0]

Idle == [op |-> "none", at |-> "idle", lease |-> None, epoch |-> 0,
         session |-> None, to |-> None, seen |-> None, fresh |-> FALSE]

ReqState ==
  [op : {"none", "report", "link", "decide", "claim", "handoff", "release"},
   at : {"idle", "asked", "fenced", "checked", "linking", "read", "disposed"},
   lease : Lease \cup {None}, epoch : Nat,
   session : Session \cup {None},               \* the caller's
   to : Status \cup Session \cup {None},        \* the new status or holder
   seen : Task \cup {None},                     \* the task as it was read
   fresh : BOOLEAN]                             \* its updated_at is unchanged since

Init ==
  /\ task = [status |-> FirstStatus, assignee |-> None]
  /\ lease = [l \in Lease |-> NoLease]
  /\ session = [s \in Session |-> "unborn"]
  /\ elders = [s \in Session |-> {}]
  /\ grant = 1
  /\ run = [s \in Session |-> [bound |-> 1, alive |-> TRUE, starting |-> 0]]
  /\ pass = [l \in Lease |-> None]
  /\ proof = {}
  /\ moving = None
  /\ req = [r \in Request |-> Idle]

Active(l) == lease[l].status = "active"
NoneActive == \A l \in Lease : ~Active(l)
Holder(l) == lease[l].session
Unissued == {l \in Lease : lease[l].status = "none"}

\* A new identifier: which one it is makes no difference.
Fresh(S) == IF S = {} THEN {} ELSE {CHOOSE x \in S : TRUE}

AdvisoryFree(l) == /\ \A r \in Request : ~(req[r].lease = l /\ req[r].at \in {"fenced", "checked", "linking"})
                   /\ (moving # None => moving.lease # l)
TaskRowFree(r) == \A q \in Request \ {r} : req[q].at \notin {"checked", "linking"}
GrantFree == moving = None
LeaseRowFree(l) == \A r \in Request : ~(req[r].lease = l /\ req[r].at = "disposed")

\* A claim or handoff in progress will issue a lease (bound: Lease).
LeaseToSpare ==
  Cardinality({r \in Request : req[r].op \in {"claim", "handoff"}}) < Cardinality(Unissued)

Begin(r, op, at, l, s, to) ==
  req' = [req EXCEPT ![r] =
            [op |-> op, at |-> at, lease |-> l, epoch |-> IF l = None THEN 0 ELSE lease[l].epoch,
             session |-> s, to |-> to, seen |-> task, fresh |-> TRUE]]

Advance(r, at) == req' = [req EXCEPT ![r].at = at]
Leave(r) == req' = [req EXCEPT ![r] = Idle]

\* The end of a request that wrote the task: everyone else's copy is stale.
LeaveWritten(r) ==
  req' = [q \in Request |-> IF q = r THEN Idle ELSE [req[q] EXCEPT !.fresh = FALSE]]

\* The fence of a request against the lease as it is now.
FenceHolds(r) ==
  LET l == req[r].lease
  IN Active(l) /\ lease[l].epoch = req[r].epoch /\ Holder(l) = req[r].session

-----------------------------------------------------------------------------
(* A worker reports progress (status in_progress, in_review or blocked) or *)
(* links a pull request.  Its authority is the work lease it holds; the    *)
(* lease is fenced inside the write transaction.                           *)

\* The route finds the caller's lease, updateTask reads the task and checks
\* the transition; asking for changes in review is a decision, not a report.
Report(r, s, to) ==
  /\ req[r].at = "idle"
  /\ session[s] = "live"
  /\ to \in VALID_TRANSITIONS[task.status] \/ (to = task.status /\ to \in Progress)
  /\ ~(to = "blocked" /\ task.status = "in_review")
  /\ \E l \in Lease : /\ Active(l)
                      /\ Holder(l) = s
                      /\ Begin(r, "report", "asked", l, s, to)
  /\ UNCHANGED <<task, lease, supervision>>

Link(r, s) ==
  /\ req[r].at = "idle"
  /\ session[s] = "live"
  /\ \E l \in Lease : /\ Active(l)
                      /\ Holder(l) = s
                      /\ Begin(r, "link", "asked", l, s, None)
  /\ UNCHANGED <<task, lease, supervision>>

\* acquireLeaseFenceTx: take the advisory lock, look at the lease once more.
Fence(r) ==
  /\ req[r].at = "asked"
  /\ req[r].op \in {"report", "link"}
  /\ AdvisoryFree(req[r].lease)
  /\ IF FenceHolds(r) THEN Advance(r, "fenced") ELSE Leave(r)
  /\ UNCHANGED <<task, lease, supervision>>

\* A progress report reads the task again, FOR UPDATE: an identical report
\* has nothing to write, any other change since the first read is a conflict.
Unchanged(r) == req[r].fresh /\ task.status # req[r].to

Recheck(r) ==
  /\ req[r].at = "fenced"
  /\ req[r].op = "report"
  /\ req[r].to \in Progress
  /\ TaskRowFree(r)
  /\ IF Unchanged(r) THEN Advance(r, "checked") ELSE Leave(r)
  /\ UNCHANGED <<task, lease, supervision>>

\* The UPDATE of tasks, and COMMIT.
CommitReport(r) ==
  /\ req[r].op = "report"
  /\ \/ req[r].at = "checked"
     \/ req[r].at = "fenced" /\ req[r].to \notin Progress /\ TaskRowFree(r)
  /\ task' = [task EXCEPT !.status = req[r].to]
  /\ LeaveWritten(r)
  /\ UNCHANGED <<lease, supervision>>

\* A link writes the task, then the lease's own pr_url.
WriteLink(r) ==
  /\ req[r].at = "fenced"
  /\ req[r].op = "link"
  /\ TaskRowFree(r)
  /\ Advance(r, "linking")
  /\ UNCHANGED <<task, lease, supervision>>

CommitLink(r) ==
  /\ req[r].at = "linking"
  /\ LeaseRowFree(req[r].lease)
  /\ LeaveWritten(r)
  /\ UNCHANGED <<task, lease, supervision>>

-----------------------------------------------------------------------------
(* Decisions of an administrator, the board manager or a reviewer change   *)
(* the status alone; no lease stands behind them and nothing is fenced.    *)
Decide(r, to) ==
  /\ req[r].at = "idle"
  /\ to \in VALID_TRANSITIONS[task.status]
  /\ \/ to \in {"accepted", "cancelled", "merged", "done"}
     \/ to = "blocked" /\ task.status = "in_review"
  /\ Begin(r, "decide", "asked", None, None, to)
  /\ UNCHANGED <<task, lease, supervision>>

CommitDecision(r) ==
  /\ req[r].at = "asked"
  /\ req[r].op = "decide"
  /\ TaskRowFree(r)
  /\ task' = [task EXCEPT !.status = req[r].to]
  /\ LeaveWritten(r)
  /\ UNCHANGED <<lease, supervision>>

-----------------------------------------------------------------------------
(* A worker claims an accepted task, or recovers the lease its assigned    *)
(* task has lost.                                                          *)
Claim(r, s) ==
  /\ req[r].at = "idle"
  /\ session[s] = "live"
  /\ \/ task.status = "accepted"
     \/ task.status = "assigned" /\ task.assignee = AgentOf[s]
  /\ NoneActive
  /\ LeaseToSpare
  /\ Begin(r, "claim", "asked", None, s, None)
  /\ UNCHANGED <<task, lease, supervision>>

\* The task is locked and compared, then the table is searched for a lease.
MayIssue(r) == req[r].fresh /\ NoneActive

\* The new row of a claim or handoff.
NewLease(s) == [status |-> "active", session |-> s, epoch |-> 0]

CommitClaim(r) ==
  /\ req[r].at = "asked"
  /\ req[r].op = "claim"
  /\ TaskRowFree(r)
  /\ IF MayIssue(r)
     THEN LET s == req[r].session
          IN /\ \E l \in Fresh(Unissued) : lease' = [lease EXCEPT ![l] = NewLease(s)]
             /\ task' = [status |-> "assigned", assignee |-> AgentOf[s]]
             /\ LeaveWritten(r)
     ELSE Leave(r) /\ UNCHANGED <<task, lease>>
  /\ UNCHANGED supervision

-----------------------------------------------------------------------------
(* applyTaskWorkLeaseAction: the holder or an administrator hands the lease*)
(* off or releases it.  The transaction does not take the advisory lock.   *)

\* The route resolves the lease and decides what the task will become: a
\* release of a task that is not underway leaves the task as it is.
Handoff(r, s) ==
  /\ req[r].at = "idle"
  /\ session[s] = "live"
  /\ task.status \in Underway
  /\ LeaseToSpare
  /\ \E l \in Lease : Active(l) /\ Begin(r, "handoff", "asked", l, None, s)
  /\ UNCHANGED <<task, lease, supervision>>

Release(r) ==
  /\ req[r].at = "idle"
  /\ \E l \in Lease :
       /\ Active(l)
       /\ Begin(r, "release", "asked", l, None,
                IF task.status \in Underway THEN "accepted" ELSE None)
  /\ UNCHANGED <<task, lease, supervision>>

\* The transaction reads the task without a lock; a target whose delivery is
\* not reachable ends it here.
ReadTask(r) ==
  /\ req[r].at = "asked"
  /\ req[r].op \in {"handoff", "release"}
  /\ \/ req' = [req EXCEPT ![r].at = "read", ![r].seen = task]
     \/ req[r].op = "handoff" /\ Leave(r)
  /\ UNCHANGED <<task, lease, supervision>>

\* The UPDATE of the lease compares its status and epoch.
Current(r) == Active(req[r].lease) /\ lease[req[r].lease].epoch = req[r].epoch

Dispose(r) ==
  /\ req[r].at = "read"
  /\ LeaseRowFree(req[r].lease)
  /\ IF Current(r) THEN Advance(r, "disposed") ELSE Leave(r)
  /\ UNCHANGED <<task, lease, supervision>>

\* The UPDATE of tasks writes all of the assignment, the INSERT a handoff's
\* new lease, and COMMIT makes the disposition visible.
\* Slip: the assignment keeps the key that was read.
Assignment_KeepsKey(r) ==
  [status |-> IF req[r].op = "handoff" THEN "assigned" ELSE req[r].seen.status,
   assignee |-> req[r].seen.assignee]
Assignment(r) ==
  IF req[r].op = "handoff" THEN [status |-> "assigned", assignee |-> AgentOf[req[r].to]]
  ELSE IF req[r].to = "accepted" THEN [status |-> "accepted", assignee |-> None]
  ELSE req[r].seen

CommitDisposition(r) ==
  /\ req[r].at = "disposed"
  /\ TaskRowFree(r)
  /\ task' = Assignment(r)
  /\ LET released == [lease EXCEPT ![req[r].lease].status = "released"]
     IN IF req[r].op = "handoff"
        THEN \E l \in Fresh(Unissued) : lease' = [released EXCEPT ![l] = NewLease(req[r].to)]
        ELSE lease' = released
  /\ LeaveWritten(r)
  /\ UNCHANGED supervision

\* External: PostgreSQL aborts one of two transactions that wait for each
\* other: a link holds the task and waits for the lease, a disposition holds
\* the lease and waits for the task.
DeadlockVictim(r) ==
  /\ \E q \in Request : {req[q].at, req[r].at} = {"linking", "disposed"} /\ req[q].lease = req[r].lease
  /\ Leave(r)
  /\ UNCHANGED <<task, lease, supervision>>

-----------------------------------------------------------------------------
(* The supervisor of the workers, a daemon that may be replaced at any     *)
(* time: it registers sessions, starts executions under them, and moves    *)
(* the lease of a dead worker under the current generation of its grant.   *)

\* Bound: a session ends while a successor can still be registered.
EndSession(s) ==
  /\ session[s] = "live"
  /\ \E t \in Session : session[t] = "unborn" /\ AgentOf[t] = AgentOf[s]
  /\ session' = [session EXCEPT ![s] = "ended"]
  /\ UNCHANGED <<task, lease, elders, grant, run, pass, proof, moving, req>>

\* A daemon mints no successor while it starts an execution of the worker:
\* the launches of one entry are serialised.
Launching(s) == \E t \in Session : AgentOf[t] = AgentOf[s] /\ run[t].starting = grant

Register(s) ==
  /\ GrantFree
  /\ s \in Fresh({t \in Session : session[t] = "unborn" /\ AgentOf[t] = AgentOf[s]})
  /\ ~Launching(s)
  /\ session' = [session EXCEPT ![s] = "live"]
  /\ elders' = [elders EXCEPT ![s] = {t \in Session : session[t] = "ended"}]
  /\ UNCHANGED <<task, lease, grant, run, pass, proof, moving, req>>

\* A new daemon takes the host over (advanceSupervisorHostGrantGeneration);
\* what an older one still sends fails assertSupervisorGrantFenceTx.
AdvanceGeneration ==
  /\ GrantFree
  /\ grant < MaxGeneration
  /\ grant' = grant + 1
  /\ pass' = [l \in Lease |-> None]
  /\ UNCHANGED <<task, lease, session, elders, run, proof, moving, req>>

\* startGeneration admits a new execution when the last one has its terminal,
\* with a proof of death or without; a session may run several.  Bounds:
\* MaxExecutions, and only a session that holds the lease, since nobody asks
\* for the executions of another.
Launch(s) ==
  /\ session[s] = "live"
  /\ \E l \in Lease : Active(l) /\ Holder(l) = s
  /\ run[s].starting = 0
  /\ run[s].bound < MaxExecutions
  /\ run' = [run EXCEPT ![s].starting = grant]
  /\ UNCHANGED <<task, lease, session, elders, grant, pass, proof, moving, req>>

\* recordMintedHostWorkerSession binds the execution before the provider has
\* the session; a launch that fails before leaves nothing behind and is left
\* out.  The generation is checked some awaits before the row is written: a
\* daemon may write it after its successor has taken over, and after the
\* session has ended.
Bind(s) ==
  /\ run[s].starting # 0
  /\ run' = [run EXCEPT ![s] = [bound |-> @.bound + 1, alive |-> TRUE, starting |-> 0]]
  /\ UNCHANGED <<task, lease, session, elders, grant, pass, proof, moving, req>>

\* recordTerminal, with the proof of the native runtime's death; an execution
\* that stops without one stays as it is.  Bound: nobody asks for the proof
\* before the session has ended.
Dies(s) ==
  /\ session[s] = "ended"
  /\ run[s].alive
  /\ run' = [run EXCEPT ![s].alive = FALSE]
  /\ UNCHANGED <<task, lease, session, elders, grant, pass, proof, moving, req>>

\* provenLeasePredecessor: all the executions of the session are proven dead.
Proven(s) == ~run[s].alive

\* The mint of a successor lists the leases of its predecessors and reads
\* their history.  A lease whose holder is not proven dead is left alone.
Restore(l, t) ==
  /\ pass[l] = None
  /\ Active(l)
  /\ session[t] = "live"
  /\ AgentOf[t] = AgentOf[Holder(l)]
  /\ Holder(l) \in elders[t]
  /\ Proven(Holder(l))
  /\ pass' = [pass EXCEPT ![l] = [to |-> t, execution |-> run[Holder(l)].bound]]
  /\ UNCHANGED <<task, lease, session, elders, grant, run, proof, moving, req>>

Pending(l) == {p \in proof : /\ p.lease = l
                             /\ p.epoch = lease[l].epoch
                             /\ p.session = Holder(l)
                             /\ ~p.consumed}

\* A retry that finds the pending row finds its own evidence in it, or is
\* refused: the recorded proof is immutable.
Identical(l, p) == p.execution = pass[l].execution

\* recordRebindAttestation writes a row when none is pending.  Its answer may
\* be lost, and the pass with it.
Attest(l) ==
  /\ pass[l] # None
  /\ GrantFree
  /\ AdvisoryFree(l)
  /\ Active(l)
  /\ session[Holder(l)] = "ended"
  /\ Pending(l) = {}
  /\ proof' = proof \cup {[lease |-> l, epoch |-> lease[l].epoch, session |-> Holder(l),
                           execution |-> pass[l].execution,
                           generation |-> grant, consumed |-> FALSE]}
  /\ pass' \in {pass, [pass EXCEPT ![l] = None]}
  /\ UNCHANGED <<task, lease, session, elders, grant, run, moving, req>>

\* The pass ends in an error, and the mint with it, when its evidence is not
\* the recorded one (evidence_conflict), its lease is no longer active
\* (lease_mismatch) or its successor has ended (session_mismatch).
Refuse(l) ==
  /\ pass[l] # None
  /\ GrantFree
  /\ AdvisoryFree(l)
  /\ \/ \E p \in Pending(l) : ~Identical(l, p)
     \/ ~Active(l)
     \/ session[pass[l].to] = "ended"
  /\ pass' = [pass EXCEPT ![l] = None]
  /\ UNCHANGED <<task, lease, session, elders, grant, run, proof, moving, req>>

\* Death cannot become undone by a daemon handoff: an earlier generation's
\* attestation stays good.
\* Slip: only an attestation of the current generation counts.
Usable_ThisGeneration(p) == p.generation = grant
Usable(p) == p.generation <= grant

\* rebindTaskLease from the advisory lock to the consumed attestation, which
\* nobody else sees before COMMIT.
\* Slip: the rebind does not take the advisory lock.
RebindWaits_Not(l) == GrantFree
RebindWaits(l) == GrantFree /\ AdvisoryFree(l)

ProveDeath(l) ==
  /\ pass[l] # None
  /\ RebindWaits(l)
  /\ Active(l)
  /\ LET t == pass[l].to
     IN /\ session[Holder(l)] = "ended"
        /\ session[t] = "live"
        /\ AgentOf[t] = AgentOf[Holder(l)]
        /\ Holder(l) \in elders[t]
        /\ moving' = [lease |-> l, epoch |-> lease[l].epoch, from |-> Holder(l), to |-> t]
  /\ \E p \in Pending(l) : Usable(p) /\ Identical(l, p)
  /\ UNCHANGED <<task, lease, session, elders, grant, run, pass, proof, req>>

\* The final compare-and-swap; when it matches no row the transaction rolls
\* back, the consumption of the attestation included.
\* Slip: a lost race consumes the attestation all the same.
Spent_Burned(moved) ==
  {IF p.lease = moving.lease /\ p.epoch = moving.epoch /\ p.session = moving.from
   THEN [p EXCEPT !.consumed = TRUE] ELSE p : p \in proof}
Spent(moved) ==
  {IF moved /\ p.lease = moving.lease /\ p.epoch = moving.epoch /\ p.session = moving.from
   THEN [p EXCEPT !.consumed = TRUE] ELSE p : p \in proof}

MoveLease ==
  /\ moving # None
  /\ LeaseRowFree(moving.lease)
  /\ LET l == moving.lease
         moved == Active(l) /\ lease[l].epoch = moving.epoch /\ Holder(l) = moving.from
     IN /\ lease' = IF moved THEN [lease EXCEPT ![l].session = moving.to, ![l].epoch = @ + 1]
                             ELSE lease
        /\ proof' = Spent(moved)
        /\ pass' = [pass EXCEPT ![l] = None]
  /\ moving' = None
  /\ UNCHANGED <<task, session, elders, grant, run, req>>

-----------------------------------------------------------------------------
\* What a request that has begun does next.
Continue(r) ==
  \/ Fence(r) \/ Recheck(r) \/ CommitReport(r)
  \/ WriteLink(r) \/ CommitLink(r)
  \/ CommitDecision(r) \/ CommitClaim(r)
  \/ ReadTask(r) \/ Dispose(r) \/ CommitDisposition(r)
  \/ DeadlockVictim(r)

Next ==
  \/ \E r \in Request :
       \/ Continue(r)
       \/ Release(r)
       \/ \E s \in Session : Link(r, s) \/ Claim(r, s) \/ Handoff(r, s)
       \/ \E s \in Session, to \in Asked \cap {"in_progress", "in_review", "blocked"} : Report(r, s, to)
       \/ \E to \in Asked : Decide(r, to)
  \/ \E s \in Session : EndSession(s) \/ Register(s) \/ Launch(s) \/ Bind(s) \/ Dies(s)
  \/ AdvanceGeneration
  \/ \E l \in Lease : Attest(l) \/ Refuse(l) \/ ProveDeath(l) \/ \E t \in Session : Restore(l, t)
  \/ MoveLease

Spec == Init /\ [][Next]_vars

\* A transaction that has begun comes to its end; the daemon registers a
\* successor, ends a launch, and keeps trying to attest and to rebind.
Fairness ==
  /\ \A r \in Request : WF_vars(Continue(r))
  /\ \A s \in Session : WF_vars(Register(s)) /\ WF_vars(Bind(s))
  /\ \A l \in Lease : /\ WF_vars(\E t \in Session : Restore(l, t))
                      /\ WF_vars(Attest(l)) /\ WF_vars(Refuse(l)) /\ WF_vars(ProveDeath(l))
  /\ WF_vars(MoveLease)

FairSpec == Spec /\ Fairness

-----------------------------------------------------------------------------
(* Properties.                                                             *)

\* The types of the tables and requests; a lease names its session once it is
\* issued, and a launch under way has an execution left.
TypeOK ==
  /\ task \in Task
  /\ lease \in [Lease -> LeaseRow]
  /\ \A l \in Lease : (lease[l].session = None) = (lease[l].status = "none")
  /\ session \in [Session -> {"unborn", "live", "ended"}]
  /\ elders \in [Session -> SUBSET Session]
  /\ grant \in 1..MaxGeneration
  /\ run \in [Session -> Run]
  /\ \A s \in Session : run[s].starting # 0 => run[s].bound < MaxExecutions
  /\ pass \in [Lease -> {None} \cup Pass]
  /\ \A p \in proof : p \in Proof
  /\ moving \in {None} \cup [lease : Lease, epoch : Nat, from : Session, to : Session]
  /\ req \in [Request -> ReqState]

\* One work lease of the task is active at most, and whoever holds it is the
\* assignee of the task, however claims, handoffs, releases, rebinds and status
\* changes interleave (resolveTaskAssignmentState, writeTaskUpdate,
\* rebindTaskLease).
HolderIsAssignee ==
  /\ \A l, m \in Lease : Active(l) /\ Active(m) => l = m
  /\ \A l \in Lease : Active(l) => task.assignee = AgentOf[Holder(l)]

\* One proof buys one move: every epoch a lease has passed has exactly one
\* consumed attestation, of a session that has ended, and no attestation is
\* consumed unless the lease has moved on (the rollback of rebindTaskLease).
MovesAreProved ==
  \A l \in Lease :
    /\ \A e \in 0..(lease[l].epoch - 1) :
         Cardinality({p \in proof : p.lease = l /\ p.epoch = e /\ p.consumed}) = 1
    /\ \A p \in proof : p.lease = l /\ p.consumed =>
         p.epoch < lease[l].epoch /\ session[p.session] = "ended"

Writes(r) == CommitReport(r) \/ CommitLink(r)

\* A write under a lease never follows a rebind of that lease: the shared
\* advisory lock of acquireLeaseFenceTx and rebindTaskLease.
WritesPrecedeRebinds ==
  [][\A r \in Request : Writes(r) =>
       /\ lease[req[r].lease].epoch = req[r].epoch
       /\ Holder(req[r].lease) = req[r].session]_vars

\* What the comment above acquireLeaseFenceTx claims for every lease action:
\* the write of a fenced request finds its lease as the fence found it.
FencedWritesHoldTheLease ==
  [][\A r \in Request : Writes(r) => FenceHolds(r)]_vars

\* A lease whose holder has ended, and is proven dead, does not stay with it:
\* it moves to a successor, or is released or handed off, across daemon
\* takeovers, lost answers and races.  It may stay when the recorded evidence
\* is not what the daemon knows now, since an execution was bound after the
\* attestation: that dispute is refused until someone releases the lease.
Orphaned(s) == session[s] = "ended" /\ \E l \in Lease : Active(l) /\ Holder(l) = s
Disputed(s) == \E l \in Lease : /\ Active(l) /\ Holder(l) = s
                                /\ \E p \in Pending(l) : p.execution # run[s].bound
OrphansAreRecovered ==
  \A s \in Session :
    Orphaned(s) /\ Proven(s) ~> ~Orphaned(s) \/ ~Proven(s) \/ Disputed(s)
==============================================================================
