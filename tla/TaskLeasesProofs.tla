-------------------------- MODULE TaskLeasesProofs --------------------------
(***************************************************************************)
(* Proofs about TaskLeases, for any number of requests, agents, sessions,  *)
(* leases and generations.                                                 *)
(***************************************************************************)
EXTENDS TaskLeases, FiniteSetTheorems, TLAPS

Fencing == {"fenced", "checked", "linking"}    \* holding the advisory lock

(* What a request carries fits what it does.                               *)
Fits(x) ==
  /\ x \in ReqState
  /\ x.op \in {"report", "link", "handoff", "release"} => x.lease \in Lease
  /\ x.op \in {"report", "link", "claim"} => x.session \in Session
  /\ x.op \in {"report", "decide"} => x.to \in Status
  /\ x.op = "handoff" => x.to \in Session
  /\ x.op # "none" => x.seen \in Task
  /\ x.at \in Fencing => x.op \in {"report", "link"}
  /\ x.at \in {"read", "disposed"} => x.op \in {"handoff", "release"}

Carries == \A r \in Request : Fits(req[r])

(* A request that has disposed of a lease keeps it active until it commits,*)
(* since it holds the lease's row.  One inside its fence finds the holder  *)
(* and the epoch it read, and no rebind of its lease is under way.         *)
Holds(x) ==
  /\ x.at = "disposed" => Active(x.lease)
  /\ x.at \in Fencing =>
       /\ lease[x.lease].epoch = x.epoch
       /\ Holder(x.lease) = x.session
       /\ moving # None => moving.lease # x.lease

Fenced == \A r \in Request : Holds(req[r])

(* The row locks admit one disposition at a time: of two, both would have  *)
(* disposed of the one active lease.                                       *)
OneDisposes ==
  \A r, q \in Request : req[r].at = "disposed" /\ req[q].at = "disposed" => r = q

(* The proofs of death: one for each epoch of a lease, up to the current   *)
(* one, of a session that has ended; consumed when the epoch has passed.   *)
Ledger ==
  /\ \A p \in proof :
       /\ lease[p.lease].status # "none"
       /\ session[p.session] = "ended"
       /\ p.epoch <= lease[p.lease].epoch
       /\ p.epoch = lease[p.lease].epoch => ~p.consumed /\ p.session = Holder(p.lease)
  /\ \A p, q \in proof : p.lease = q.lease /\ p.epoch = q.epoch => p = q
  /\ \A l \in Lease : \A e \in 0..(lease[l].epoch - 1) :
       \E p \in proof : p.lease = l /\ p.epoch = e /\ p.consumed

(* A rebind under way goes to a session of the same agent, and has its     *)
(* proof.                                                                  *)
Rebinding ==
  moving # None =>
    /\ AgentOf[moving.to] = AgentOf[moving.from]
    /\ \E p \in proof : /\ p.lease = moving.lease
                        /\ p.epoch = moving.epoch
                        /\ p.session = moving.from

IInv ==
  TypeOK /\ Carries /\ Fenced /\ OneDisposes /\ HolderIsAssignee /\ Ledger /\ Rebinding

(***************************************************************************)
(* Steps that change requests only.                                        *)
(***************************************************************************)

(* Requests that fit and hold what they should keep the invariant.         *)
LEMMA RequestsKeep ==
  ASSUME IInv, req' \in [Request -> ReqState],
         \A r \in Request : Fits(req'[r]) /\ Holds(req'[r]),
         OneDisposes',
         UNCHANGED <<task, lease, supervision>>
  PROVE  IInv'
  <1>1. TypeOK'
    BY DEF IInv, TypeOK, supervision
  <1>2. Carries' /\ Fenced'
    BY DEF Carries, Fenced, Fits, Holds, Active, Holder, supervision
  <1>3. HolderIsAssignee' /\ Ledger' /\ Rebinding'
    BY DEF IInv, HolderIsAssignee, Ledger, Rebinding, Active, Holder, supervision
  <1> QED
    BY <1>1, <1>2, <1>3 DEF IInv

(* A step of one request that writes no table keeps the invariant when     *)
(* what the request then carries fits and holds.                           *)
LEMMA OneRequestKeeps ==
  ASSUME IInv, NEW r \in Request, NEW x, Fits(x), Holds(x),
         x.at = "disposed" => \A q \in Request \ {r} : req[q].at # "disposed",
         req' = [req EXCEPT ![r] = x],
         UNCHANGED <<task, lease, supervision>>
  PROVE  IInv'
  <1>1. x \in ReqState
    BY DEF Fits
  <1>2. req' \in [Request -> ReqState]
    BY <1>1 DEF IInv, TypeOK
  <1>3. \A q \in Request : req'[q] = IF q = r THEN x ELSE req[q]
    BY DEF IInv, TypeOK
  <1>4. OneDisposes'
    BY <1>3 DEF IInv, OneDisposes
  <1> QED
    BY <1>2, <1>3, <1>4, RequestsKeep DEF IInv, Carries, Fenced

(* A request that ends, or moves on with what it has.                      *)
LEMMA IdleFits == Fits(Idle) /\ Holds(Idle) /\ Idle.at = "idle"
  BY DEF Fits, Holds, Idle, ReqState, Fencing

(* A request that gives up or answers carries nothing.                     *)
LEMMA LeaveKeeps ==
  ASSUME IInv, NEW r \in Request, Leave(r), UNCHANGED <<task, lease, supervision>>
  PROVE  IInv'
  BY IdleFits, OneRequestKeeps DEF Leave

(* A request that goes on to its next statement without writing.           *)
LEMMA AdvanceKeeps ==
  ASSUME IInv, NEW r \in Request,
         NEW at \in {"fenced", "checked", "linking", "disposed"}, Advance(r, at),
         at \in Fencing => req[r].op \in {"report", "link"},
         at = "disposed" => /\ req[r].op \in {"handoff", "release"}
                            /\ \A q \in Request \ {r} : req[q].at # "disposed",
         Holds([req[r] EXCEPT !.at = at]),
         UNCHANGED <<task, lease, supervision>>
  PROVE  IInv'
  <1> DEFINE x == [req[r] EXCEPT !.at = at]
  <1>1. req[r] \in ReqState /\ Fits(req[r])
    BY DEF IInv, TypeOK, Carries
  <1>2. /\ x \in ReqState
        /\ x.op = req[r].op /\ x.lease = req[r].lease /\ x.session = req[r].session
        /\ x.to = req[r].to /\ x.seen = req[r].seen /\ x.at = at
    BY <1>1 DEF ReqState
  <1>3. Fits(x)
    BY <1>1, <1>2 DEF Fits, Fencing
  <1>4. req' = [req EXCEPT ![r] = x]
    BY DEF Advance
  <1> QED
    BY <1>2, <1>3, <1>4, OneRequestKeeps

(* A request that begins has read the task and, if it names one, a lease.  *)
LEMMA BeginKeeps ==
  ASSUME IInv, NEW r \in Request,
         NEW op \in {"report", "link", "decide", "claim", "handoff", "release"},
         NEW l \in Lease \cup {None}, NEW s \in Session \cup {None},
         NEW to \in Status \cup Session \cup {None},
         Begin(r, op, "asked", l, s, to),
         op \in {"report", "link", "handoff", "release"} => l \in Lease,
         op \in {"report", "link", "claim"} => s \in Session,
         op \in {"report", "decide"} => to \in Status,
         op = "handoff" => to \in Session,
         UNCHANGED <<task, lease, supervision>>
  PROVE  IInv'
  <1> DEFINE x == [op |-> op, at |-> "asked", lease |-> l,
                   epoch |-> IF l = None THEN 0 ELSE lease[l].epoch,
                   session |-> s, to |-> to, seen |-> task, fresh |-> TRUE]
  <1>1. x.epoch \in Nat
    BY DEF IInv, TypeOK, LeaseRow
  <1>2. x \in ReqState /\ x.seen \in Task
    BY <1>1 DEF ReqState, IInv, TypeOK
  <1>3. Fits(x) /\ Holds(x)
    BY <1>2 DEF Fits, Holds, Fencing
  <1>4. req' = [req EXCEPT ![r] = x]
    BY DEF Begin
  <1> QED
    BY <1>3, <1>4, OneRequestKeeps

(* The first half of a request, up to its first write.                     *)
LEMMA ReadingKeeps ==
  ASSUME IInv, NEW r \in Request,
         \/ Release(r) \/ ReadTask(r) \/ DeadlockVictim(r)
         \/ \E s \in Session : Link(r, s) \/ Claim(r, s) \/ Handoff(r, s)
         \/ \E s \in Session, to \in {"in_progress", "in_review", "blocked"} :
              Report(r, s, to)
         \/ \E to \in Status : Decide(r, to)
  PROVE  IInv'
  <1>0. {"in_progress", "in_review", "blocked", "accepted"} \subseteq Status
    BY DEF Status
  <1>1. CASE Release(r)
    <2>1. PICK l \in Lease : \E to \in {"accepted", None} :
            Begin(r, "release", "asked", l, None, to)
      BY <1>1 DEF Release
    <2> QED
      BY <1>0, <1>1, <2>1, BeginKeeps DEF Release
  <1>2. CASE ReadTask(r)
    <2> DEFINE x == [req[r] EXCEPT !.at = "read", !.seen = task]
    <2>1. CASE Leave(r)
      BY <1>2, <2>1, LeaveKeeps DEF ReadTask
    <2>2. CASE req' = [req EXCEPT ![r].at = "read", ![r].seen = task]
      <3>1. req[r] \in ReqState /\ Fits(req[r]) /\ task \in Task
        BY DEF IInv, TypeOK, Carries
      <3>2. /\ x \in ReqState
            /\ x.op = req[r].op /\ x.lease = req[r].lease /\ x.session = req[r].session
            /\ x.to = req[r].to /\ x.seen = task /\ x.at = "read"
        BY <3>1 DEF ReqState
      <3>3. Fits(x) /\ Holds(x)
        BY <1>2, <3>1, <3>2 DEF Fits, Holds, Fencing, ReadTask
      <3>4. req' = [req EXCEPT ![r] = x]
        BY <2>2 DEF IInv, TypeOK
      <3> QED
        BY <1>2, <3>2, <3>3, <3>4, OneRequestKeeps DEF ReadTask
    <2> QED
      BY <1>2, <2>1, <2>2 DEF ReadTask
  <1>3. CASE DeadlockVictim(r)
    BY <1>3, LeaveKeeps DEF DeadlockVictim
  <1>4. ASSUME NEW s \in Session, Link(r, s)
        PROVE  IInv'
    BY <1>4, BeginKeeps DEF Link
  <1>5. ASSUME NEW s \in Session, Claim(r, s)
        PROVE  IInv'
    BY <1>5, BeginKeeps DEF Claim
  <1>6. ASSUME NEW s \in Session, Handoff(r, s)
        PROVE  IInv'
    BY <1>6, BeginKeeps DEF Handoff
  <1>7. ASSUME NEW s \in Session, NEW to \in {"in_progress", "in_review", "blocked"},
               Report(r, s, to)
        PROVE  IInv'
    BY <1>0, <1>7, BeginKeeps DEF Report
  <1>8. ASSUME NEW to \in Status, Decide(r, to)
        PROVE  IInv'
    BY <1>8, BeginKeeps DEF Decide
  <1> QED
    BY <1>1, <1>2, <1>3, <1>4, <1>5, <1>6, <1>7, <1>8

(* The locks a request takes: what it then holds is what it has just seen. *)
LEMMA LockingKeeps ==
  ASSUME IInv, NEW r \in Request,
         Fence(r) \/ Recheck(r) \/ WriteLink(r) \/ Dispose(r)
  PROVE  IInv'
  <1>0. /\ Fits(req[r]) /\ Holds(req[r]) /\ req[r] \in ReqState
        /\ \A at \in {"fenced", "checked", "linking", "disposed"} :
             LET x == [req[r] EXCEPT !.at = at]
             IN /\ x.at = at /\ x.lease = req[r].lease
                /\ x.epoch = req[r].epoch /\ x.session = req[r].session
    <2>1. Fits(req[r]) /\ Holds(req[r]) /\ req[r] \in ReqState
      BY DEF IInv, TypeOK, Carries, Fenced
    <2> QED
      BY <2>1 DEF ReqState
  <1>1. CASE Fence(r)
    <2>1. CASE FenceHolds(r)
      <3>1. Holds([req[r] EXCEPT !.at = "fenced"])
        BY <1>0, <1>1, <2>1 DEF Fence, FenceHolds, Holds, AdvisoryFree, Fencing
      <3> QED
        BY <1>1, <2>1, <3>1, AdvanceKeeps DEF Fence
    <2> QED
      BY <1>1, <2>1, LeaveKeeps DEF Fence
  <1>2. CASE Recheck(r)
    <2>1. CASE Unchanged(r)
      <3>1. Holds([req[r] EXCEPT !.at = "checked"])
        BY <1>0, <1>2 DEF Recheck, Holds, Fencing
      <3> QED
        BY <1>2, <2>1, <3>1, AdvanceKeeps DEF Recheck
    <2> QED
      BY <1>2, <2>1, LeaveKeeps DEF Recheck
  <1>3. CASE WriteLink(r)
    <2>1. Holds([req[r] EXCEPT !.at = "linking"])
      BY <1>0, <1>3 DEF WriteLink, Holds, Fencing
    <2> QED
      BY <1>3, <2>1, AdvanceKeeps DEF WriteLink
  <1>4. CASE Dispose(r)
    <2>1. CASE Current(r)
      <3>1. Holds([req[r] EXCEPT !.at = "disposed"])
        BY <1>0, <2>1 DEF Current, Holds, Fencing
      <3>2. req[r].op \in {"handoff", "release"} /\ req[r].lease \in Lease
        BY <1>0, <1>4 DEF Dispose, Fits
      <3>3. ASSUME NEW q \in Request, req[q].at = "disposed"
            PROVE  FALSE
        <4>1. Active(req[q].lease) /\ req[q].lease \in Lease
          BY <3>3 DEF IInv, Fenced, Holds, Carries, Fits
        <4>2. req[q].lease = req[r].lease
          BY <2>1, <3>2, <4>1 DEF IInv, HolderIsAssignee, Current
        <4> QED
          BY <1>4, <3>3, <4>2 DEF Dispose, LeaseRowFree
      <3> QED
        BY <1>4, <2>1, <3>1, <3>2, <3>3, AdvanceKeeps DEF Dispose, Fencing
    <2> QED
      BY <1>4, <2>1, LeaveKeeps DEF Dispose
  <1> QED
    BY <1>1, <1>2, <1>3, <1>4

(***************************************************************************)
(* Steps that write the task or a lease.                                   *)
(***************************************************************************)

(* When a request has written the task, the others keep all but freshness. *)
LEMMA WrittenRequests ==
  ASSUME TypeOK, Carries, OneDisposes, NEW r \in Request, LeaveWritten(r)
  PROVE  /\ req' \in [Request -> ReqState] /\ Carries' /\ OneDisposes'
         /\ \A q \in Request :
              \/ req'[q].at = "idle"
              \/ /\ q # r
                 /\ req'[q].at = req[q].at /\ req'[q].lease = req[q].lease
                 /\ req'[q].epoch = req[q].epoch /\ req'[q].session = req[q].session
  <1>1. ASSUME NEW q \in Request
        PROVE  /\ req'[q] \in ReqState /\ Fits(req'[q])
               /\ \/ req'[q].at = "idle"
                  \/ /\ q # r
                     /\ req'[q].at = req[q].at /\ req'[q].lease = req[q].lease
                     /\ req'[q].epoch = req[q].epoch
                     /\ req'[q].session = req[q].session
    <2>1. CASE q = r
      <3>1. req'[q] = Idle
        BY <2>1 DEF LeaveWritten
      <3> QED
        BY <3>1, IdleFits DEF Fits
    <2>2. CASE q # r
      <3> DEFINE x == [req[q] EXCEPT !.fresh = FALSE]
      <3>1. req'[q] = x
        BY <2>2 DEF LeaveWritten
      <3>2. req[q] \in ReqState /\ Fits(req[q])
        BY DEF TypeOK, Carries
      <3>3. /\ x \in ReqState
            /\ x.op = req[q].op /\ x.lease = req[q].lease /\ x.session = req[q].session
            /\ x.to = req[q].to /\ x.seen = req[q].seen /\ x.at = req[q].at
            /\ x.epoch = req[q].epoch
        BY <3>2 DEF ReqState
      <3>4. Fits(x)
        BY <3>2, <3>3 DEF Fits
      <3> QED
        BY <2>2, <3>1, <3>3, <3>4
    <2> QED
      BY <2>1, <2>2
  <1>2. req' \in [Request -> ReqState]
    BY <1>1 DEF LeaveWritten
  <1>3. Carries'
    BY <1>1 DEF Carries, Fits
  <1>4. OneDisposes'
    BY <1>1 DEF OneDisposes
  <1> QED
    BY <1>1, <1>2, <1>3, <1>4

(* Writes that leave the leases and the assignee as they are.              *)
LEMMA StatusKeeps ==
  ASSUME IInv, NEW r \in Request, CommitReport(r) \/ CommitLink(r) \/ CommitDecision(r)
  PROVE  IInv'
  <1>1. LeaveWritten(r) /\ UNCHANGED <<lease, supervision>>
    BY DEF CommitReport, CommitLink, CommitDecision
  <1>2. /\ req' \in [Request -> ReqState] /\ Carries' /\ OneDisposes'
        /\ \A q \in Request :
             \/ req'[q].at = "idle"
             \/ /\ q # r
                /\ req'[q].at = req[q].at /\ req'[q].lease = req[q].lease
                /\ req'[q].epoch = req[q].epoch /\ req'[q].session = req[q].session
    BY <1>1, WrittenRequests DEF IInv
  <1>3. task' \in Task /\ task'.assignee = task.assignee
    <2>1. task \in Task /\ Fits(req[r])
      BY DEF IInv, TypeOK, Carries
    <2>2. CASE CommitLink(r)
      BY <2>1, <2>2 DEF CommitLink
    <2>3. CASE CommitReport(r) \/ CommitDecision(r)
      BY <2>1, <2>3 DEF CommitReport, CommitDecision, Task, Fits
    <2> QED
      BY <2>2, <2>3
  <1>4. TypeOK'
    BY <1>1, <1>2, <1>3 DEF IInv, TypeOK, supervision
  <1>5. Fenced'
    BY <1>1, <1>2 DEF IInv, Fenced, Holds, Fencing, Active, Holder, supervision
  <1>6. HolderIsAssignee' /\ Ledger' /\ Rebinding'
    BY <1>1, <1>3
    DEF IInv, HolderIsAssignee, Ledger, Rebinding, Active, Holder, supervision
  <1> QED
    BY <1>2, <1>4, <1>5, <1>6 DEF IInv

(* Issuing and ending leases does not rewrite the history of an old one.   *)
OldLeasesKeep ==
  \A l \in Lease :
    IF lease[l].status = "none"
    THEN lease'[l] = lease[l] \/ \E s \in Session : lease'[l] = NewLease(s)
    ELSE /\ lease'[l].status # "none"
         /\ lease'[l].epoch = lease[l].epoch /\ lease'[l].session = lease[l].session

(* A statement that changes leases, each at most as OldLeasesKeep allows,  *)
(* keeps what speaks of requests and of the past.                          *)
LEMMA LeasesChange ==
  ASSUME IInv, NEW r \in Request, LeaveWritten(r), task' \in Task,
         lease' \in [Lease -> LeaseRow], OldLeasesKeep, UNCHANGED supervision,
         \A l \in Lease : Active(l) =>
           \/ Active(l)'
           \/ \A q \in Request \ {r} : ~(req[q].at = "disposed" /\ req[q].lease = l)
  PROVE  TypeOK' /\ Carries' /\ Fenced' /\ OneDisposes' /\ Ledger' /\ Rebinding'
  <1>1. /\ req' \in [Request -> ReqState] /\ Carries' /\ OneDisposes'
        /\ \A q \in Request :
             \/ req'[q].at = "idle"
             \/ /\ q # r
                /\ req'[q].at = req[q].at /\ req'[q].lease = req[q].lease
                /\ req'[q].epoch = req[q].epoch /\ req'[q].session = req[q].session
    BY WrittenRequests DEF IInv
  <1>2. \A l \in Lease : (lease'[l].session = None) = (lease'[l].status = "none")
    <2>1. ASSUME NEW l \in Lease
          PROVE  (lease'[l].session = None) = (lease'[l].status = "none")
      BY NoneAssumption DEF IInv, TypeOK, OldLeasesKeep, NewLease
    <2> QED
      BY <2>1
  <1>3. TypeOK'
    BY <1>1, <1>2 DEF IInv, TypeOK, supervision
  <1>4. ASSUME NEW q \in Request
        PROVE  Holds(req[q])' 
    <2>1. CASE req'[q].at = "idle"
      BY <2>1 DEF Holds, Fencing
    <2>2. CASE req'[q].at # "idle"
      <3>1. /\ q # r /\ req'[q].at = req[q].at /\ req'[q].lease = req[q].lease
            /\ req'[q].epoch = req[q].epoch /\ req'[q].session = req[q].session
            /\ Holds(req[q]) /\ Fits(req[q])
        BY <1>1, <2>2 DEF IInv, Fenced, Carries
      <3>2. CASE req[q].at = "disposed"
        <4>1. req[q].lease \in Lease /\ Active(req[q].lease)
          BY <3>1, <3>2 DEF Fits, Holds
        <4>2. Active(req[q].lease)'
          BY <3>1, <3>2, <4>1
        <4> QED
          BY <3>1, <3>2, <4>2 DEF Holds, Fencing, Active
      <3>3. CASE req[q].at \in Fencing
        <4>1. /\ req[q].lease \in Lease /\ Holder(req[q].lease) \in Session
              /\ lease[req[q].lease].epoch = req[q].epoch
              /\ Holder(req[q].lease) = req[q].session
              /\ moving # None => moving.lease # req[q].lease
          BY <3>1, <3>3 DEF Fits, Holds
        <4>2. lease[req[q].lease].status # "none"
          BY <4>1, NoneAssumption DEF IInv, TypeOK, Holder
        <4>3. /\ lease'[req[q].lease].epoch = req[q].epoch
              /\ lease'[req[q].lease].session = req[q].session
          BY <4>1, <4>2 DEF OldLeasesKeep, Holder
        <4> QED
          BY <3>1, <3>3, <4>1, <4>3 DEF Holds, Fencing, Holder, supervision
      <3> QED
        BY <3>1, <3>2, <3>3 DEF Holds
    <2> QED
      BY <2>1, <2>2
  <1>5. Fenced'
    BY <1>4 DEF Fenced
  <1>6. Ledger'
    <2>1. proof' = proof /\ session' = session /\ \A p \in proof : p.lease \in Lease /\ p.epoch \in Nat
      BY DEF supervision, IInv, TypeOK, Proof
    <2>2. \A p \in proof' :
            /\ lease'[p.lease].status # "none"
            /\ session'[p.session] = "ended"
            /\ p.epoch <= lease'[p.lease].epoch
            /\ p.epoch = lease'[p.lease].epoch => ~p.consumed /\ p.session = lease'[p.lease].session
      BY <2>1 DEF IInv, Ledger, OldLeasesKeep, Holder
    <2>3. \A l \in Lease : \A e \in 0..(lease'[l].epoch - 1) :
            \E p \in proof' : p.lease = l /\ p.epoch = e /\ p.consumed
      <3>1. ASSUME NEW l \in Lease, NEW e \in 0..(lease'[l].epoch - 1)
            PROVE  e \in 0..(lease[l].epoch - 1)
        BY <3>1 DEF OldLeasesKeep, NewLease
      <3> QED
        BY <2>1, <3>1 DEF IInv, Ledger
    <2> QED
      BY <2>1, <2>2, <2>3 DEF IInv, Ledger, Holder
  <1>7. Rebinding'
    BY DEF IInv, Rebinding, supervision
  <1> QED
    BY <1>1, <1>3, <1>5, <1>6, <1>7

(* A new identifier is one of those that are free.                         *)
LEMMA FreshMember ==
  ASSUME NEW S, NEW x \in Fresh(S)
  PROVE  x \in S
  BY DEF Fresh

(* A claim issues a lease when none is active.                             *)
LEMMA ClaimKeeps ==
  ASSUME IInv, NEW r \in Request, CommitClaim(r)
  PROVE  IInv'
  <1>1. CASE MayIssue(r)
    <2> DEFINE s == req[r].session
    <2>1. s \in Session /\ AgentOf[s] \in Agent
      BY <1>1, AgentAssumption DEF CommitClaim, IInv, Carries, Fits
    <2>2. PICK m \in Unissued : lease' = [lease EXCEPT ![m] = NewLease(s)]
      BY <1>1, FreshMember DEF CommitClaim
    <2>3. /\ task' = [status |-> "assigned", assignee |-> AgentOf[s]]
          /\ LeaveWritten(r) /\ UNCHANGED supervision
          /\ lease \in [Lease -> LeaseRow] /\ m \in Lease /\ lease[m].status = "none"
          /\ \A l \in Lease : ~Active(l)
      BY <1>1 DEF CommitClaim, MayIssue, NoneActive, IInv, TypeOK, Unissued
    <2>4. NewLease(s) \in LeaseRow /\ task' \in Task
      BY <2>1, <2>3 DEF NewLease, LeaseRow, Task, Status
    <2>5. /\ lease' \in [Lease -> LeaseRow]
          /\ \A l \in Lease : lease'[l] = IF l = m THEN NewLease(s) ELSE lease[l]
      BY <2>2, <2>3, <2>4
    <2>6. OldLeasesKeep
      BY <2>1, <2>3, <2>5 DEF OldLeasesKeep
    <2>7. TypeOK' /\ Carries' /\ Fenced' /\ OneDisposes' /\ Ledger' /\ Rebinding'
      BY <2>3, <2>4, <2>5, <2>6, LeasesChange
    <2>8. HolderIsAssignee'
      BY <2>3, <2>5 DEF HolderIsAssignee, Active, Holder, NewLease
    <2> QED
      BY <2>7, <2>8 DEF IInv
  <1>2. CASE ~MayIssue(r)
    BY <1>2, LeaveKeeps DEF CommitClaim
  <1> QED
    BY <1>1, <1>2

(* A disposition ends the one active lease, and a handoff issues the next  *)
(* one to the agent it makes the assignee.                                 *)
LEMMA DispositionKeeps ==
  ASSUME IInv, NEW r \in Request, CommitDisposition(r)
  PROVE  IInv'
  <1> DEFINE d == req[r].lease
             released == [lease EXCEPT ![d].status = "released"]
  <1>1. /\ req[r].at = "disposed" /\ task' = Assignment(r) /\ LeaveWritten(r)
        /\ UNCHANGED supervision
        /\ lease \in [Lease -> LeaseRow] /\ Fits(req[r]) /\ d \in Lease /\ Active(d)
        /\ \A l \in Lease : Active(l) => l = d
        /\ \A q \in Request \ {r} : req[q].at # "disposed"
    <2>1. Fits(req[r]) /\ Holds(req[r]) /\ req[r].at = "disposed"
      BY DEF CommitDisposition, IInv, Carries, Fenced
    <2>2. d \in Lease /\ Active(d)
      BY <2>1 DEF Fits, Holds
    <2> QED
      BY <2>1, <2>2
      DEF CommitDisposition, IInv, TypeOK, HolderIsAssignee, OneDisposes
  <1>2. /\ released \in [Lease -> LeaseRow]
        /\ \A l \in Lease :
             /\ released[l].epoch = lease[l].epoch /\ released[l].session = lease[l].session
             /\ released[l].status = IF l = d THEN "released" ELSE lease[l].status
             /\ l # d => released[l] = lease[l]
    BY <1>1 DEF LeaseRow
  <1>3. task' \in Task
    BY <1>1, AgentAssumption DEF Assignment, Fits, Task, Status
  <1>4. CASE req[r].op = "handoff"
    <2> DEFINE s == req[r].to
    <2>1. s \in Session /\ task'.assignee = AgentOf[s]
      BY <1>1, <1>4 DEF Fits, Assignment
    <2>2. PICK m \in Unissued : lease' = [released EXCEPT ![m] = NewLease(s)]
      BY <1>4, FreshMember DEF CommitDisposition
    <2>3. m \in Lease /\ lease[m].status = "none" /\ m # d /\ NewLease(s) \in LeaseRow
      BY <1>1, <2>1 DEF Unissued, Active, NewLease, LeaseRow
    <2>4. /\ lease' \in [Lease -> LeaseRow]
          /\ \A l \in Lease : lease'[l] = IF l = m THEN NewLease(s) ELSE released[l]
      BY <1>2, <2>2, <2>3
    <2>5. OldLeasesKeep
      <3>1. ASSUME NEW l \in Lease, lease[l].status = "none"
            PROVE  lease'[l] = lease[l] \/ \E t \in Session : lease'[l] = NewLease(t)
        <4>1. l # d
          BY <1>1, <3>1 DEF Active
        <4> QED
          BY <1>2, <2>1, <2>4, <4>1
      <3>2. ASSUME NEW l \in Lease, lease[l].status # "none"
            PROVE  /\ lease'[l].status # "none" /\ lease'[l].epoch = lease[l].epoch
                   /\ lease'[l].session = lease[l].session
        <4>1. lease'[l] = released[l]
          BY <2>3, <2>4, <3>2
        <4> QED
          BY <1>2, <3>2, <4>1
      <3> QED
        BY <3>1, <3>2 DEF OldLeasesKeep
    <2>6. TypeOK' /\ Carries' /\ Fenced' /\ OneDisposes' /\ Ledger' /\ Rebinding'
      BY <1>1, <1>3, <2>4, <2>5, LeasesChange
    <2>7. HolderIsAssignee'
      <3>1. ASSUME NEW l \in Lease, lease'[l].status = "active"
            PROVE  l = m
        <4>1. CASE l # m
          <5>1. released[l].status = "active"
            BY <2>4, <3>1, <4>1
          <5> QED
            BY <1>1, <1>2, <5>1 DEF Active
        <4> QED
          BY <4>1
      <3>2. lease'[m].session = s
        BY <2>3, <2>4 DEF NewLease
      <3> QED
        BY <2>1, <3>1, <3>2 DEF HolderIsAssignee, Active, Holder
    <2> QED
      BY <2>6, <2>7 DEF IInv
  <1>5. CASE req[r].op # "handoff"
    <2>1. lease' = released
      BY <1>5 DEF CommitDisposition
    <2>2. OldLeasesKeep
      BY <1>1, <1>2, <2>1 DEF OldLeasesKeep, Active
    <2>3. TypeOK' /\ Carries' /\ Fenced' /\ OneDisposes' /\ Ledger' /\ Rebinding'
      BY <1>1, <1>2, <1>3, <2>1, <2>2, LeasesChange
    <2>4. HolderIsAssignee'
      BY <1>1, <1>2, <2>1 DEF HolderIsAssignee, Active
    <2> QED
      BY <2>3, <2>4 DEF IInv
  <1> QED
    BY <1>4, <1>5

(***************************************************************************)
(* Steps of the supervisor.                                                *)
(***************************************************************************)

(* What the daemon notes about executions, and the pass that reads it,     *)
(* touch no lease and no proof.                                            *)
LEMMA NotesKeep ==
  ASSUME IInv, run' \in [Session -> Run],
         \A s \in Session : run'[s].starting # 0 => run'[s].bound < MaxExecutions,
         pass' \in [Lease -> {None} \cup Pass],
         UNCHANGED <<task, lease, session, elders, grant, proof, moving, req>>
  PROVE  IInv'
  <1>1. TypeOK' /\ Carries' /\ Fenced' /\ OneDisposes'
    BY DEF IInv, TypeOK, Carries, Fenced, OneDisposes, Holds, Active, Holder
  <1>2. HolderIsAssignee' /\ Ledger' /\ Rebinding'
    BY DEF IInv, HolderIsAssignee, Ledger, Rebinding, Active, Holder
  <1> QED
    BY <1>1, <1>2 DEF IInv

(* The executions of a worker, and the passes of its daemon.               *)
LEMMA DaemonKeeps ==
  ASSUME IInv,
         \/ \E s \in Session : Launch(s) \/ Bind(s) \/ Dies(s)
         \/ \E l \in Lease : Refuse(l) \/ \E t \in Session : Restore(l, t)
  PROVE  IInv'
  <1>0. /\ run \in [Session -> Run]
        /\ \A s \in Session : run[s].starting # 0 => run[s].bound < MaxExecutions
        /\ pass \in [Lease -> {None} \cup Pass] /\ grant \in 1..MaxGeneration
    BY DEF IInv, TypeOK
  <1>1. ASSUME NEW s \in Session, Launch(s)
        PROVE  IInv'
    <2>1. [run[s] EXCEPT !.starting = grant] \in Run
      BY <1>0, BoundAssumption DEF Run
    <2>2. run' = [run EXCEPT ![s] = [run[s] EXCEPT !.starting = grant]]
      BY <1>0, <1>1 DEF Launch
    <2> QED
      BY <1>0, <1>1, <2>1, <2>2, NotesKeep DEF Launch
  <1>2. ASSUME NEW s \in Session, Bind(s)
        PROVE  IInv'
    <2>1. run[s].bound < MaxExecutions
      BY <1>0, <1>2 DEF Bind
    <2>2. [bound |-> run[s].bound + 1, alive |-> TRUE, starting |-> 0] \in Run
      BY <1>0, <2>1, BoundAssumption DEF Run
    <2> QED
      BY <1>0, <1>2, <2>2, NotesKeep DEF Bind
  <1>3. ASSUME NEW s \in Session, Dies(s)
        PROVE  IInv'
    <2>1. [run[s] EXCEPT !.alive = FALSE] \in Run
      BY <1>0 DEF Run
    <2>2. run' = [run EXCEPT ![s] = [run[s] EXCEPT !.alive = FALSE]]
      BY <1>0, <1>3 DEF Dies
    <2> QED
      BY <1>0, <1>3, <2>1, <2>2, NotesKeep DEF Dies
  <1>4. ASSUME NEW l \in Lease, Refuse(l)
        PROVE  IInv'
    BY <1>0, <1>4, NotesKeep DEF Refuse
  <1>5. ASSUME NEW l \in Lease, NEW t \in Session, Restore(l, t)
        PROVE  IInv'
    <2>1. Holder(l) \in Session
      BY <1>5, NoneAssumption DEF Restore, IInv, TypeOK, LeaseRow, Active, Holder
    <2>2. [to |-> t, execution |-> run[Holder(l)].bound] \in Pass
      BY <1>0, <2>1 DEF Run, Pass
    <2> QED
      BY <1>0, <1>5, <2>2, NotesKeep DEF Restore
  <1> QED
    BY <1>1, <1>2, <1>3, <1>4, <1>5

LEMMA SupervisionKeeps ==
  ASSUME IInv,
         \/ \E s \in Session : EndSession(s) \/ Register(s)
         \/ AdvanceGeneration
         \/ \E l \in Lease : Attest(l) \/ ProveDeath(l)
  PROVE  IInv'
  <1>1. ASSUME NEW s \in Session, EndSession(s) \/ Register(s)
        PROVE  IInv'
    <2>1. /\ UNCHANGED <<task, lease, grant, run, pass, proof, moving, req>>
          /\ \A t \in Session : session[t] = "ended" => session'[t] = "ended"
          /\ session' \in [Session -> {"unborn", "live", "ended"}]
          /\ elders' \in [Session -> SUBSET Session]
      <3>1. CASE EndSession(s)
        BY <3>1 DEF EndSession, IInv, TypeOK
      <3>2. CASE Register(s)
        <4>1. session[s] = "unborn"
          BY <3>2, FreshMember DEF Register
        <4> QED
          BY <3>2, <4>1 DEF Register, IInv, TypeOK
      <3> QED
        BY <1>1, <3>1, <3>2
    <2>2. TypeOK' /\ Carries' /\ Fenced' /\ OneDisposes'
      BY <2>1 DEF IInv, TypeOK, Carries, Fenced, OneDisposes, Holds, Active, Holder
    <2>3. HolderIsAssignee' /\ Ledger' /\ Rebinding'
      <3>1. \A p \in proof : p.session \in Session
        BY DEF IInv, TypeOK, Proof
      <3> QED
        BY <2>1, <3>1 DEF IInv, HolderIsAssignee, Ledger, Rebinding, Active, Holder
    <2> QED
      BY <2>2, <2>3 DEF IInv
  <1>2. CASE AdvanceGeneration
    <2>1. grant' \in 1..MaxGeneration /\ pass' \in [Lease -> {None} \cup Pass]
      BY <1>2, BoundAssumption DEF AdvanceGeneration, IInv, TypeOK
    <2>2. TypeOK' /\ Carries' /\ Fenced' /\ OneDisposes'
      BY <1>2, <2>1
      DEF AdvanceGeneration, IInv, TypeOK, Carries, Fenced, OneDisposes, Holds, Active, Holder
    <2>3. HolderIsAssignee' /\ Ledger' /\ Rebinding'
      BY <1>2 DEF AdvanceGeneration, IInv, HolderIsAssignee, Ledger, Rebinding, Active, Holder
    <2> QED
      BY <2>2, <2>3 DEF IInv
  <1>3. ASSUME NEW l \in Lease, Attest(l)
        PROVE  IInv'
    <2> DEFINE new == [lease |-> l, epoch |-> lease[l].epoch, session |-> Holder(l),
                       execution |-> pass[l].execution,
                       generation |-> grant, consumed |-> FALSE]
    <2>1. /\ proof' = proof \cup {new} /\ Active(l) /\ Pending(l) = {}
          /\ session[Holder(l)] = "ended" /\ pass[l] # None
          /\ pass' \in [Lease -> {None} \cup Pass]
          /\ UNCHANGED <<task, lease, session, elders, grant, run, moving, req>>
      BY <1>3 DEF Attest, IInv, TypeOK
    <2>2. /\ Holder(l) \in Session /\ lease[l].epoch \in Nat /\ grant \in 1..MaxGeneration
          /\ pass[l].execution \in 1..MaxExecutions
      BY <2>1, NoneAssumption DEF IInv, TypeOK, LeaseRow, Active, Holder, Pass
    <2>3. new \in Proof
      BY <2>2 DEF Proof
    <2>4. TypeOK' /\ Carries' /\ Fenced' /\ OneDisposes'
      BY <2>1, <2>3
      DEF IInv, TypeOK, Carries, Fenced, OneDisposes, Holds, Active, Holder
    <2>5. \A p \in proof : ~(p.lease = l /\ p.epoch = lease[l].epoch)
      BY <2>1 DEF IInv, Ledger, Pending
    <2>6. Ledger'
      <3>1. \A p \in proof' :
              /\ lease'[p.lease].status # "none"
              /\ session'[p.session] = "ended"
              /\ p.epoch <= lease'[p.lease].epoch
              /\ p.epoch = lease'[p.lease].epoch =>
                   ~p.consumed /\ p.session = lease'[p.lease].session
        <4>1. ASSUME NEW p \in proof
              PROVE  /\ lease[p.lease].status # "none"
                     /\ session[p.session] = "ended"
                     /\ p.epoch <= lease[p.lease].epoch
                     /\ p.epoch = lease[p.lease].epoch =>
                          ~p.consumed /\ p.session = lease[p.lease].session
          BY DEF IInv, Ledger, Holder
        <4>2. /\ lease[new.lease].status # "none" /\ session[new.session] = "ended"
              /\ new.epoch = lease[new.lease].epoch /\ new.epoch \in Nat
              /\ ~new.consumed /\ new.session = lease[new.lease].session
          BY <2>1, <2>2 DEF Active, Holder
        <4>3. \A p \in proof' : p \in proof \/ p = new
          BY <2>1
        <4> HIDE DEF new
        <4> QED
          BY <2>1, <4>1, <4>2, <4>3
      <3>2. \A p, q \in proof' : p.lease = q.lease /\ p.epoch = q.epoch => p = q
        <4>1. \A p, q \in proof : p.lease = q.lease /\ p.epoch = q.epoch => p = q
          BY DEF IInv, Ledger
        <4>2. new.lease = l /\ new.epoch = lease[l].epoch
          OBVIOUS
        <4>3. \A p \in proof' : p \in proof \/ p = new
          BY <2>1
        <4> HIDE DEF new
        <4> QED
          BY <2>5, <4>1, <4>2, <4>3
      <3>3. \A k \in Lease : \A e \in 0..(lease'[k].epoch - 1) :
              \E p \in proof' : p.lease = k /\ p.epoch = e /\ p.consumed
        BY <2>1 DEF IInv, Ledger
      <3> QED
        BY <3>1, <3>2, <3>3 DEF Ledger, Holder
    <2>7. HolderIsAssignee' /\ Rebinding'
      BY <2>1 DEF IInv, HolderIsAssignee, Rebinding, Active, Holder
    <2> QED
      BY <2>4, <2>6, <2>7 DEF IInv
  <1>4. ASSUME NEW l \in Lease, ProveDeath(l)
        PROVE  IInv'
    <2> DEFINE t == pass[l].to
    <2>0. t \in Session
      BY <1>4 DEF ProveDeath, IInv, TypeOK, Pass
    <2>1. /\ moving' = [lease |-> l, epoch |-> lease[l].epoch, from |-> Holder(l), to |-> t]
          /\ Active(l) /\ AgentOf[t] = AgentOf[Holder(l)] /\ AdvisoryFree(l)
          /\ \E p \in Pending(l) : TRUE
          /\ UNCHANGED <<task, lease, session, elders, grant, run, pass, proof, req>>
      BY <1>4 DEF ProveDeath, RebindWaits
    <2>2. Holder(l) \in Session /\ lease[l].epoch \in Nat
      BY <2>1, NoneAssumption DEF IInv, TypeOK, LeaseRow, Active, Holder
    <2>3. moving' \in [lease : Lease, epoch : Nat, from : Session, to : Session]
      BY <2>0, <2>1, <2>2
    <2>4. TypeOK' /\ Carries' /\ OneDisposes'
      BY <2>1, <2>3 DEF IInv, TypeOK, Carries, OneDisposes
    <2>5. Fenced'
      BY <2>1 DEF IInv, Fenced, Holds, Fencing, AdvisoryFree, Active, Holder
    <2>6. HolderIsAssignee' /\ Ledger'
      BY <2>1 DEF IInv, HolderIsAssignee, Ledger, Active, Holder
    <2>7. Rebinding'
      BY <2>1 DEF Rebinding, Pending
    <2> QED
      BY <2>4, <2>5, <2>6, <2>7 DEF IInv
  <1> QED
    BY <1>1, <1>2, <1>3, <1>4

(* The final compare-and-swap of a rebind.  The lease goes to a session of *)
(* the same agent, and the proof that stood for the old epoch stands for   *)
(* the move.                                                               *)
LEMMA MoveKeeps ==
  ASSUME IInv, MoveLease
  PROVE  IInv'
  <1> DEFINE l == moving.lease
             moved == Active(l) /\ lease[l].epoch = moving.epoch /\ Holder(l) = moving.from
             Bought(p) == p.lease = l /\ p.epoch = moving.epoch /\ p.session = moving.from
             After(p) == IF Bought(p) THEN [p EXCEPT !.consumed = TRUE] ELSE p
  <1>1. /\ l \in Lease /\ moving.epoch \in Nat
        /\ moving.from \in Session /\ moving.to \in Session /\ moving # None
        /\ moving' = None /\ LeaseRowFree(l)
        /\ pass' \in [Lease -> {None} \cup Pass]
        /\ UNCHANGED <<task, session, elders, grant, run, req>>
    BY DEF MoveLease, IInv, TypeOK
  <1>2. CASE moved
    <2>1. /\ lease' = [lease EXCEPT ![l].session = moving.to, ![l].epoch = @ + 1]
          /\ proof' = {After(p) : p \in proof}
      BY <1>2 DEF MoveLease, Spent
    <2>2. /\ lease' \in [Lease -> LeaseRow]
          /\ \A m \in Lease : m # l => lease'[m] = lease[m]
          /\ lease'[l].epoch = moving.epoch + 1 /\ lease'[l].session = moving.to
          /\ lease'[l].status = "active" /\ lease[l].status = "active"
          /\ lease[l].epoch = moving.epoch
      BY <1>1, <1>2, <2>1 DEF IInv, TypeOK, LeaseRow, Active
    <2>3. \A p \in proof :
            /\ After(p) \in Proof
            /\ After(p).lease = p.lease /\ After(p).epoch = p.epoch
            /\ After(p).session = p.session
            /\ After(p).consumed = (p.consumed \/ Bought(p))
            /\ ~Bought(p) => After(p) = p
      BY DEF IInv, TypeOK, Proof
    <2>4. proof' = {After(p) : p \in proof} /\ \A p \in proof : p \in Proof
      BY <2>1 DEF IInv, TypeOK
    <2> HIDE DEF After
    <2>5. TypeOK'
      BY <1>1, <2>2, <2>3, <2>4, NoneAssumption DEF IInv, TypeOK
    <2>6. Carries' /\ OneDisposes'
      BY <1>1 DEF IInv, Carries, OneDisposes
    <2>7. Fenced'
      <3>1. ASSUME NEW q \in Request
            PROVE  Holds(req[q])'
        <4>1. Holds(req[q]) /\ Fits(req[q])
          BY DEF IInv, Fenced, Carries
        <4>2. CASE req[q].at \in Fencing
          BY <1>1, <2>2, <4>1, <4>2 DEF Holds, Fencing, Holder, Fits
        <4>3. CASE req[q].at = "disposed"
          BY <1>1, <2>2, <4>1, <4>3 DEF Holds, Fencing, Active, Fits
        <4>4. CASE req[q].at \notin Fencing \cup {"disposed"}
          BY <1>1, <4>4 DEF Holds, Fencing
        <4> QED
          BY <4>2, <4>3, <4>4
      <3> QED
        BY <3>1 DEF Fenced
    <2>8. HolderIsAssignee'
      <3>1. AgentOf[moving.to] = AgentOf[lease[l].session]
        BY <1>1, <1>2 DEF IInv, Rebinding, Holder
      <3>2. \A m \in Lease : lease'[m].status = lease[m].status
        BY <2>2
      <3> QED
        BY <1>1, <2>2, <3>1, <3>2 DEF IInv, HolderIsAssignee, Active, Holder
    <2>9. Ledger'
      <3>1. ASSUME NEW x \in proof'
            PROVE  /\ lease'[x.lease].status # "none"
                   /\ session'[x.session] = "ended"
                   /\ x.epoch <= lease'[x.lease].epoch
                   /\ x.epoch = lease'[x.lease].epoch =>
                        ~x.consumed /\ x.session = lease'[x.lease].session
        <4>1. PICK p \in proof :
                /\ x.lease = p.lease /\ x.epoch = p.epoch /\ x.session = p.session
                /\ ~Bought(p) => x = p
          BY <2>3, <2>4
        <4>2. /\ p.lease \in Lease /\ p.epoch \in Nat
              /\ lease[p.lease].status # "none" /\ session[p.session] = "ended"
              /\ p.epoch <= lease[p.lease].epoch
              /\ p.epoch = lease[p.lease].epoch =>
                   ~p.consumed /\ p.session = lease[p.lease].session
          BY DEF IInv, TypeOK, Proof, Ledger, Holder
        <4>3. CASE p.lease = l
          <5>1. x.lease = l /\ x.epoch = p.epoch /\ x.session = p.session
            BY <4>1, <4>3
          <5>2. p.epoch \in Nat /\ p.epoch <= moving.epoch /\ session[p.session] = "ended"
            BY <2>2, <4>2, <4>3
          <5> HIDE DEF l
          <5> QED
            BY <1>1, <2>2, <5>1, <5>2
        <4>4. CASE p.lease # l
          <5>1. x = p /\ lease'[p.lease] = lease[p.lease]
            BY <2>2, <4>1, <4>2, <4>4
          <5> QED
            BY <1>1, <4>2, <5>1
        <4> QED
          BY <4>3, <4>4
      <3>2. ASSUME NEW x \in proof', NEW y \in proof', x.lease = y.lease, x.epoch = y.epoch
            PROVE  x = y
        <4>1. PICK p \in proof : x = After(p) /\ x.lease = p.lease /\ x.epoch = p.epoch
          BY <2>3, <2>4
        <4>2. PICK q \in proof : y = After(q) /\ y.lease = q.lease /\ y.epoch = q.epoch
          BY <2>3, <2>4
        <4>3. p = q
          BY <3>2, <4>1, <4>2 DEF IInv, Ledger
        <4> QED
          BY <4>1, <4>2, <4>3
      <3>3. ASSUME NEW m \in Lease, NEW e \in 0..(lease'[m].epoch - 1)
            PROVE  \E x \in proof' : x.lease = m /\ x.epoch = e /\ x.consumed
        <4>1. \E p \in proof : p.lease = m /\ p.epoch = e /\ (p.consumed \/ Bought(p))
          <5>1. CASE m = l /\ e = moving.epoch
            BY <1>1, <5>1 DEF IInv, Rebinding
          <5>2. CASE ~(m = l /\ e = moving.epoch)
            <6>1. e \in 0..(lease[m].epoch - 1)
              BY <1>1, <2>2, <5>2
            <6> QED
              BY <6>1 DEF IInv, Ledger
          <5> QED
            BY <5>1, <5>2
        <4> QED
          BY <2>3, <2>4, <4>1
      <3> QED
        BY <3>1, <3>2, <3>3 DEF Ledger, Holder
    <2>10. Rebinding'
      BY <1>1 DEF Rebinding
    <2> QED
      BY <2>5, <2>6, <2>7, <2>8, <2>9, <2>10 DEF IInv
  <1>3. CASE ~moved
    <2>1. lease' = lease /\ proof' = proof
      BY <1>3 DEF MoveLease, Spent
    <2>2. TypeOK' /\ Carries' /\ Fenced' /\ OneDisposes'
      BY <1>1, <2>1
      DEF IInv, TypeOK, Carries, Fenced, OneDisposes, Holds, Active, Holder
    <2>3. HolderIsAssignee' /\ Ledger' /\ Rebinding'
      BY <1>1, <2>1 DEF IInv, HolderIsAssignee, Ledger, Rebinding, Active, Holder
    <2> QED
      BY <2>2, <2>3 DEF IInv
  <1> QED
    BY <1>2, <1>3

(***************************************************************************)
(* The theorems.                                                           *)
(***************************************************************************)
LEMMA InitKeeps == Init => IInv
  <1> SUFFICES ASSUME Init PROVE IInv
    OBVIOUS
  <1>1. TypeOK
    BY IdleFits, BoundAssumption, NoneAssumption, FirstAssumption
    DEF Init, TypeOK, Run, Task, LeaseRow, NoLease, Fits
  <1>2. Carries /\ Fenced /\ OneDisposes
    BY IdleFits DEF Init, Carries, Fenced, OneDisposes
  <1>3. HolderIsAssignee /\ Rebinding
    BY DEF Init, HolderIsAssignee, Rebinding, Active, NoLease
  <1>4. Ledger
    BY DEF Init, Ledger, NoLease
  <1> QED
    BY <1>1, <1>2, <1>3, <1>4 DEF IInv

(* The invariant is inductive: Init establishes it and every step keeps it.*)
THEOREM Inductive == Spec => []IInv
  <1>1. Init => IInv
    BY InitKeeps
  <1>2. IInv /\ [Next]_vars => IInv'
    <2> SUFFICES ASSUME IInv, [Next]_vars
                 PROVE  IInv'
      OBVIOUS
    <2>1. CASE UNCHANGED vars
      <3>1. UNCHANGED <<task, lease, session, elders, grant, run, pass, proof, moving, req>>
        BY <2>1 DEF vars
      <3>2. TypeOK' /\ Carries' /\ Fenced' /\ OneDisposes'
        BY <3>1 DEF IInv, TypeOK, Carries, Fenced, OneDisposes, Holds, Active, Holder
      <3>3. HolderIsAssignee' /\ Ledger' /\ Rebinding'
        BY <3>1 DEF IInv, HolderIsAssignee, Ledger, Rebinding, Active, Holder
      <3> QED
        BY <3>2, <3>3 DEF IInv
    <2>2. ASSUME NEW r \in Request, Continue(r)
          PROVE  IInv'
      <3>1. CASE Fence(r) \/ Recheck(r) \/ WriteLink(r) \/ Dispose(r)
        BY <3>1, LockingKeeps
      <3>2. CASE CommitReport(r) \/ CommitLink(r) \/ CommitDecision(r)
        BY <3>2, StatusKeeps
      <3>3. CASE CommitClaim(r)
        BY <3>3, ClaimKeeps
      <3>4. CASE CommitDisposition(r)
        BY <3>4, DispositionKeeps
      <3>5. CASE ReadTask(r) \/ DeadlockVictim(r)
        BY <3>5, ReadingKeeps
      <3> QED
        BY <2>2, <3>1, <3>2, <3>3, <3>4, <3>5 DEF Continue
    <2>3. ASSUME NEW r \in Request,
                 \/ Release(r)
                 \/ \E s \in Session : Link(r, s) \/ Claim(r, s) \/ Handoff(r, s)
                 \/ \E s \in Session, to \in {"in_progress", "in_review", "blocked"} :
                      Report(r, s, to)
                 \/ \E to \in Status : Decide(r, to)
          PROVE  IInv'
      BY <2>3, ReadingKeeps
    <2>4. CASE \/ \E s \in Session : EndSession(s) \/ Register(s)
               \/ AdvanceGeneration
               \/ \E l \in Lease : Attest(l) \/ ProveDeath(l)
      BY <2>4, SupervisionKeeps
    <2>5. CASE \/ \E s \in Session : Launch(s) \/ Bind(s) \/ Dies(s)
               \/ \E l \in Lease : Refuse(l) \/ \E t \in Session : Restore(l, t)
      BY <2>5, DaemonKeeps
    <2>6. CASE MoveLease
      BY <2>6, MoveKeeps
    <2> QED
      BY <2>1, <2>2, <2>3, <2>4, <2>5, <2>6, AskedAssumption DEF Next
  <1> QED
    BY <1>1, <1>2, PTL DEF Spec

(* Requests, tables and attestations have their types.                     *)
THEOREM TypeCorrect == Spec => []TypeOK
  <1>1. IInv => TypeOK
    BY DEF IInv
  <1> QED
    BY <1>1, Inductive, PTL

(* One work lease of the task is active at most and its holder is the      *)
(* assignee (resolveTaskAssignmentState, writeTaskUpdate, rebindTaskLease).*)
THEOREM HolderIsAssigneeHolds == Spec => []HolderIsAssignee
  <1>1. IInv => HolderIsAssignee
    BY DEF IInv
  <1> QED
    BY <1>1, Inductive, PTL

(* Every epoch a lease has passed was bought by exactly one consumed proof *)
(* of a session that had ended (rebindTaskLease).                          *)
THEOREM MovesAreProvedHolds == Spec => []MovesAreProved
  <1>1. ASSUME IInv
        PROVE  MovesAreProved
    <2>1. ASSUME NEW l \in Lease, NEW e \in 0..(lease[l].epoch - 1)
          PROVE  Cardinality({p \in proof : p.lease = l /\ p.epoch = e /\ p.consumed}) = 1
      <3>1. PICK q \in proof : q.lease = l /\ q.epoch = e /\ q.consumed
        BY <1>1 DEF IInv, Ledger
      <3>2. {p \in proof : p.lease = l /\ p.epoch = e /\ p.consumed} = {q}
        BY <1>1, <3>1 DEF IInv, Ledger
      <3> QED
        BY <3>2, FS_Singleton
    <2>2. ASSUME NEW l \in Lease, NEW p \in proof, p.lease = l, p.consumed
          PROVE  p.epoch < lease[l].epoch /\ session[p.session] = "ended"
      <3>1. p.epoch \in Nat /\ lease[l].epoch \in Nat
        BY <1>1 DEF IInv, TypeOK, Proof, LeaseRow
      <3> QED
        BY <1>1, <2>2, <3>1 DEF IInv, Ledger
    <2> QED
      BY <2>1, <2>2 DEF MovesAreProved
  <1> QED
    BY <1>1, Inductive, PTL

(* A write under a lease finds the holder and the epoch its fence found    *)
(* (acquireLeaseFenceTx, rebindTaskLease).                                 *)
THEOREM WritesPrecedeRebindsHolds == Spec => WritesPrecedeRebinds
  <1>1. ASSUME IInv, NEW r \in Request, Writes(r)
        PROVE  /\ lease[req[r].lease].epoch = req[r].epoch
               /\ Holder(req[r].lease) = req[r].session
    <2>1. req[r].at \in Fencing
      BY <1>1 DEF Writes, CommitReport, CommitLink, Fencing
    <2> QED
      BY <1>1, <2>1 DEF IInv, Fenced, Holds
  <1>2. IInv /\ [Next]_vars =>
          [\A r \in Request : Writes(r) =>
             /\ lease[req[r].lease].epoch = req[r].epoch
             /\ Holder(req[r].lease) = req[r].session]_vars
    BY <1>1
  <1> QED
    BY <1>2, Inductive, PTL DEF Spec, WritesPrecedeRebinds

=============================================================================
