--------------------------- MODULE WorkflowEffects ---------------------------
(***************************************************************************)
(* The workflow-effect journal (src/src/api/db/workflow-effects.ts), the   *)
(* broker that drives it (src/src/api/workflow-effects/broker.ts) and the  *)
(* GitHub review provider it calls (github-review-provider.ts).            *)
(*                                                                         *)
(* A review verdict is journalled as one row per idempotency key before    *)
(* GitHub is called.  HTTP handlers and the periodic sweep of every API    *)
(* server race on the row; each statement of the journal is one atomic     *)
(* UPDATE guarded by its WHERE clause, so each is one action here.  A POST *)
(* to GitHub is three things: it is sent, it is applied (or refused, or    *)
(* dropped) by GitHub at some later moment, and its answer may or may not  *)
(* reach the process that sent it, which may have crashed.                 *)
(*                                                                         *)
(* Time is three flags of a row that the clock raises and an update        *)
(* lowers: stale (its claim is at least two minutes old), due (its         *)
(* next_attempt_at is null or has passed) and old (it has been untouched   *)
(* for the thirty days of retention).                                      *)
(***************************************************************************)
EXTENDS Naturals, FiniteSets

CONSTANTS
  Server,       \* API server processes; each runs one liveness sweep at a time
  Caller,       \* concurrent review-verdict HTTP handlers of one server
  Key,          \* room-scoped idempotency keys (each has one correlation key)
  Request,      \* review requests: verdict, body and expected head commit
  KeyOf,        \* the idempotency key each request is submitted under
  HeadOf,       \* the expected head commit of each request
  Junk,         \* requests that blockingVerdictQuarantineReason quarantines
  EffectId,     \* row identifiers (`effect_<uuid>`)
  Token,        \* processing tokens (randomUUID)
  MaxAttempts,  \* max_attempts of a row: how many creations it may claim
  MaxCrashes,   \* bound: server crashes in one behaviour
  None          \* SQL NULL, and the absent row

ASSUME KeyAssumption == KeyOf \in [Request -> Key] /\ Junk \subseteq Request
ASSUME BoundAssumption == MaxAttempts \in Nat \ {0} /\ MaxCrashes \in Nat
ASSUME NoneAssumption == None \notin Token \cup EffectId \cup Request \cup Key

VARIABLES
  lease,     \* TRUE while the reviewer holds the active review lease
  row,       \* [Key -> Row or None]: the table workflow_effects
  job,       \* [Job -> JobState]: the broker calls in progress
  sweeping,  \* the servers whose sweepOnce is in progress
  post,      \* [Token -> Post]: the POST made under each processing token
  crashes    \* server crashes so far

vars == <<lease, row, job, sweeping, post, crashes>>

-----------------------------------------------------------------------------
(* A sweep reconciles the rows it listed in parallel, one lane per key; a  *)
(* handler's submission runs in a lane of its own.                         *)
Lane == Caller \cup Key
Job == Server \X Lane

Row == [id : EffectId, req : Request,
        state : {"pending", "succeeded", "failed", "ambiguous"},
        tries : 0..MaxAttempts,                   \* attempt_count
        token : Token \cup {None},                \* processing_token
        ext : Token \cup {None},                  \* external_id: whose review
        stale : BOOLEAN, due : BOOLEAN, old : BOOLEAN]

ASSUME RowAssumption == None \notin Row

JobState == [step : {"idle", "expirePending", "claimFailed", "claimAmbiguous",
                     "create", "await", "lookup", "finish"},
             key : Key \cup {None}, id : EffectId \cup {None},
             token : Token \cup {None},
             outcome : {"none", "succeeded", "failed", "ambiguous", "notFound"},
             ext : Token \cup {None}]

(* The life of a POST: "unsent" once its token is claimed for a creation,  *)
(* "sent", then "created" (the review exists), "void" (certainly no        *)
(* review: a preflight failed, or GitHub refused it) or "lost".            *)
Post == [status : {"none", "unsent", "sent", "created", "void", "lost"},
         id : EffectId \cup {None}, req : Request \cup {None}]

Idle == [step |-> "idle", key |-> None, id |-> None, token |-> None,
         outcome |-> "none", ext |-> None]

NoPost == [status |-> "none", id |-> None, req |-> None]

TypeOK ==
  /\ lease \in BOOLEAN
  /\ row \in [Key -> Row \cup {None}]
  /\ job \in [Job -> JobState]
  /\ sweeping \in SUBSET Server
  /\ post \in [Token -> Post]
  /\ crashes \in 0..MaxCrashes

Init ==
  /\ lease = TRUE
  /\ row = [k \in Key |-> None]
  /\ job = [j \in Job |-> Idle]
  /\ sweeping = {}
  /\ post = [t \in Token |-> NoPost]
  /\ crashes = 0

-----------------------------------------------------------------------------
(* What the WHERE clauses of the journal ask of a row.                     *)

(* randomUUID: a value that nothing in the system still refers to.         *)
FreshToken(t) ==
  /\ post[t] = NoPost
  /\ \A j \in Job : job[j].token # t
  /\ \A k \in Key : row[k] # None => row[k].token # t

FreshId(i) ==
  /\ \A t \in Token : post[t].id # i
  /\ \A j \in Job : job[j].id # i
  /\ \A k \in Key : row[k] # None => row[k].id # i

Quarantined(rw) == rw.req \in Junk

(* Slip: a failed row is retried past max_attempts.                        *)
CanClaimFailed_NoLimit(rw) == rw.state = "failed" /\ rw.token = None /\ rw.due

CanClaimFailed(rw) ==
  /\ rw.state = "failed"
  /\ rw.token = None
  /\ rw.tries < MaxAttempts
  /\ rw.due

(* Slip: nobody takes over the lookup of a worker that died.               *)
CanClaimAmbiguous_NoTakeover(rw) ==
  rw.state = "ambiguous" /\ ~ Quarantined(rw) /\ rw.token = None /\ rw.due

CanClaimAmbiguous(rw) ==
  /\ rw.state = "ambiguous"
  /\ ~ Quarantined(rw)
  /\ \/ rw.token = None /\ rw.due
     \/ rw.token # None /\ rw.stale

CanExpirePending(rw) ==
  /\ rw.state = "pending"
  /\ rw.token # None          \* processing_started_at is null with the token
  /\ rw.stale
  /\ ~ Quarantined(rw)

(* Slip: the sweep lists only rows that something has already given up.    *)
Reconcilable_NoPending(rw) ==
  ~ Quarantined(rw) /\ (CanClaimAmbiguous(rw) \/ CanClaimFailed(rw))

Reconcilable(rw) ==
  /\ ~ Quarantined(rw)
  /\ CanClaimAmbiguous(rw) \/ CanExpirePending(rw) \/ CanClaimFailed(rw)

Closed(rw) ==
  \/ rw.state = "succeeded"
  \/ rw.state = "failed" /\ rw.tries >= MaxAttempts
  \/ Quarantined(rw)

Prunable(rw) == rw.old /\ Closed(rw)

(* The first step of the broker's work on a row it did not just insert,    *)
(* chosen by the state in the row as it was read.                          *)
FirstStep(state) ==
  CASE state = "pending" -> "expirePending"
    [] state = "failed" -> "claimFailed"
    [] state = "ambiguous" -> "claimAmbiguous"
    [] OTHER -> "idle"

(* The row job j works on still exists (WHERE id = ...).                   *)
Holds(j) == job[j].key # None /\ row[job[j].key] # None
            /\ row[job[j].key].id = job[j].id

(* ... and j's claim on it has not been taken over.                        *)
Owned(j) == Holds(j) /\ row[job[j].key].token = job[j].token

SetJob(j, s) == job' = [job EXCEPT ![j] = s]
SetRow(k, rw) == row' = [row EXCEPT ![k] = rw]

(* Job j proceeds at step s under the token t it has just claimed.         *)
Under(j, s, t) == [job[j] EXCEPT !.step = s, !.token = t]

-----------------------------------------------------------------------------
(* submitGitHubReviewVerdict: reserve the row under the review lease and   *)
(* go on according to what was found.                                      *)

(* Slip: the creation that the reservation itself claims is not counted.   *)
NewRow_Uncounted(i, r, t) ==
  [id |-> i, req |-> r, state |-> "pending", tries |-> 0, token |-> t,
   ext |-> None, stale |-> FALSE, due |-> TRUE, old |-> FALSE]

NewRow(i, r, t) ==
  [id |-> i, req |-> r, state |-> "pending",
   tries |-> IF t = None THEN 0 ELSE 1, token |-> t, ext |-> None,
   stale |-> FALSE, due |-> TRUE, old |-> FALSE]

ReserveJunk(j, r) ==
  /\ lease /\ job[j] = Idle /\ row[KeyOf[r]] = None /\ r \in Junk
  /\ \E i \in EffectId : FreshId(i) /\ SetRow(KeyOf[r], NewRow(i, r, None))
  /\ UNCHANGED <<lease, job, sweeping, post, crashes>>

ReserveNew(j, r) ==
  /\ lease /\ job[j] = Idle /\ row[KeyOf[r]] = None /\ r \notin Junk
  /\ \E i \in EffectId, t \in Token :
       /\ FreshId(i) /\ FreshToken(t)
       /\ SetRow(KeyOf[r], NewRow(i, r, t))
       /\ SetJob(j, [Idle EXCEPT !.step = "create", !.key = KeyOf[r],
                                 !.id = i, !.token = t])
       /\ post' = [post EXCEPT ![t] = [status |-> "unsent", id |-> i, req |-> r]]
  /\ UNCHANGED <<lease, sweeping, crashes>>

(* The key is taken: another request under it is an idempotency conflict   *)
(* (the call throws and changes nothing); the same one resumes the effect. *)
ReserveExisting(j, r) ==
  LET rw == row[KeyOf[r]] IN
  /\ lease /\ job[j] = Idle /\ rw # None /\ rw.req = r
  /\ rw.state \in {"failed", "ambiguous"}
  /\ SetJob(j, [Idle EXCEPT !.step = FirstStep(rw.state), !.key = KeyOf[r],
                            !.id = rw.id])
  /\ UNCHANGED <<lease, row, sweeping, post, crashes>>

Submit(s, c, r) == ReserveJunk(<<s, c>>, r) \/ ReserveNew(<<s, c>>, r)
                   \/ ReserveExisting(<<s, c>>, r)

-----------------------------------------------------------------------------
(* The claims: one UPDATE each; the call gives up when it hits no row.     *)

ClaimFailed(j) ==
  LET k == job[j].key  rw == row[k] IN
  /\ job[j].step = "claimFailed"
  /\ IF Holds(j) /\ CanClaimFailed(rw)
     THEN \E t \in Token :
            /\ FreshToken(t)
            /\ SetRow(k, [rw EXCEPT !.state = "pending", !.tries = @ + 1,
                                    !.token = t, !.stale = FALSE,
                                    !.due = TRUE, !.old = FALSE])
            /\ SetJob(j, Under(j, "create", t))
            /\ post' = [post EXCEPT ![t] =
                          [status |-> "unsent", id |-> rw.id, req |-> rw.req]]
     ELSE SetJob(j, Idle) /\ UNCHANGED <<row, post>>
  /\ UNCHANGED <<lease, sweeping, crashes>>

ClaimAmbiguous(j) ==
  LET k == job[j].key  rw == row[k] IN
  /\ job[j].step = "claimAmbiguous"
  /\ IF Holds(j) /\ CanClaimAmbiguous(rw)
     THEN \E t \in Token :
            /\ FreshToken(t)
            /\ SetRow(k, [rw EXCEPT !.token = t, !.stale = FALSE, !.old = FALSE])
            /\ SetJob(j, Under(j, "lookup", t))
     ELSE SetJob(j, Idle) /\ UNCHANGED row
  /\ UNCHANGED <<lease, sweeping, post, crashes>>

ExpirePending(j) ==
  LET k == job[j].key  rw == row[k] IN
  /\ job[j].step = "expirePending"
  /\ IF Holds(j) /\ CanExpirePending(rw)
     THEN /\ SetRow(k, [rw EXCEPT !.state = "ambiguous", !.token = None,
                                  !.stale = FALSE, !.old = FALSE])
          /\ SetJob(j, [job[j] EXCEPT !.step = "claimAmbiguous"])
     ELSE SetJob(j, Idle) /\ UNCHANGED row
  /\ UNCHANGED <<lease, sweeping, post, crashes>>

-----------------------------------------------------------------------------
(* provider.create and provider.lookup.                                    *)

Decide(j, o, t) ==
  SetJob(j, [job[j] EXCEPT !.step = "finish", !.outcome = o, !.ext = t])

(* No credential, no write permission, or the head has moved: nothing is   *)
(* sent and the failure is definite.                                       *)
PreflightFails(j) ==
  /\ job[j].step = "create"
  /\ Decide(j, "failed", None)
  /\ post' = [post EXCEPT ![job[j].token].status = "void"]
  /\ UNCHANGED <<lease, row, sweeping, crashes>>

SendReview(j) ==
  /\ job[j].step = "create"
  /\ SetJob(j, [job[j] EXCEPT !.step = "await"])
  /\ post' = [post EXCEPT ![job[j].token].status = "sent"]
  /\ UNCHANGED <<lease, row, sweeping, crashes>>

(* GitHub, external: it applies, refuses or never sees a POST, and does so *)
(* whether or not the sender still waits for it.                           *)
GitHubHandles(t) ==
  /\ post[t].status = "sent"
  /\ \E o \in {"created", "void", "lost"} : post' = [post EXCEPT ![t].status = o]
  /\ UNCHANGED <<lease, row, job, sweeping, crashes>>

(* The answer: a review with an id, a 4xx, or (a timeout, a 5xx, a broken  *)
(* connection, a reply with no id) no knowledge of what happened.          *)
Answer(j) ==
  LET t == job[j].token IN
  /\ job[j].step = "await"
  /\ \/ post[t].status = "created" /\ Decide(j, "succeeded", t)
     \/ post[t].status = "void" /\ Decide(j, "failed", None)
     \/ Decide(j, "ambiguous", None)
  /\ UNCHANGED <<lease, row, sweeping, post, crashes>>

(* Slip: the marker is enough, whatever commit the review is attached to.  *)
Matches_AnyHead(t, rw) ==
  post[t].status = "created" /\ KeyOf[post[t].req] = KeyOf[rw.req]

(* A review that carries the correlation marker and the expected commit.   *)
Matches(t, rw) ==
  /\ post[t].status = "created"
  /\ KeyOf[post[t].req] = KeyOf[rw.req]
  /\ HeadOf[post[t].req] = HeadOf[rw.req]

(* The request looked up is the one of the row when it was claimed; the    *)
(* row keeps it for as long as it exists.                                  *)
LookupFinds(j) ==
  /\ job[j].step = "lookup"
  /\ Holds(j)
  /\ \E t \in Token : Matches(t, row[job[j].key]) /\ Decide(j, "succeeded", t)
  /\ UNCHANGED <<lease, row, sweeping, post, crashes>>

(* Nothing found in the bounded window of pages, or the call failed.       *)
LookupMisses(j) ==
  /\ job[j].step = "lookup"
  /\ Decide(j, "notFound", None)
  /\ UNCHANGED <<lease, row, sweeping, post, crashes>>

-----------------------------------------------------------------------------
(* finishWithToken: persist the outcome if the row is still owned.  The    *)
(* attempt_count that performCreate compares with max_attempts is that of  *)
(* its claim, which is the row's for as long as the token is the row's.    *)

(* Slip: a POST that timed out is taken for one that failed.               *)
Settled_TimeoutFails(rw, o, t) ==
  LET free == [rw EXCEPT !.token = None, !.stale = FALSE, !.old = FALSE] IN
  CASE o = "succeeded" -> [free EXCEPT !.state = "succeeded", !.ext = t]
    [] o \in {"failed", "ambiguous"} -> [free EXCEPT !.state = "failed"]
    [] OTHER -> [free EXCEPT !.state = "ambiguous", !.due = FALSE]

(* Slip: a review that the lookup does not find is taken for missing.      *)
Settled_MissFails(rw, o, t) ==
  LET free == [rw EXCEPT !.token = None, !.stale = FALSE, !.old = FALSE] IN
  CASE o = "succeeded" -> [free EXCEPT !.state = "succeeded", !.ext = t]
    [] o \in {"failed", "notFound"} -> [free EXCEPT !.state = "failed"]
    [] OTHER -> [free EXCEPT !.state = "ambiguous", !.due = TRUE]

Settled(rw, o, t) ==
  LET free == [rw EXCEPT !.token = None, !.stale = FALSE, !.old = FALSE] IN
  CASE o = "succeeded" -> [free EXCEPT !.state = "succeeded", !.ext = t,
                                       !.due = TRUE]
    [] o = "failed"    -> [free EXCEPT !.state = "failed",
                                       !.due = rw.tries >= MaxAttempts]
    [] o = "ambiguous" -> [free EXCEPT !.state = "ambiguous", !.due = TRUE]
    [] OTHER           -> [free EXCEPT !.state = "ambiguous", !.due = FALSE]

Finish(j) ==
  LET k == job[j].key  rw == row[k] IN
  /\ job[j].step = "finish"
  /\ IF Owned(j)
     THEN SetRow(k, Settled(rw, job[j].outcome, job[j].ext))
     ELSE UNCHANGED row
  /\ SetJob(j, Idle)
  /\ UNCHANGED <<lease, sweeping, post, crashes>>

-----------------------------------------------------------------------------
(* sweepOnce: list, reconcile every listed row in parallel, then prune.    *)

SweepList(s) ==
  /\ s \notin sweeping
  /\ \A k \in Key : job[<<s, k>>] = Idle
  /\ sweeping' = sweeping \cup {s}
  /\ job' = [j \in Job |->
       IF j[1] = s /\ j[2] \in Key /\ row[j[2]] # None /\ Reconcilable(row[j[2]])
       THEN [Idle EXCEPT !.step = FirstStep(row[j[2]].state), !.key = j[2],
                         !.id = row[j[2]].id]
       ELSE job[j]]
  /\ UNCHANGED <<lease, row, post, crashes>>

SweepPrune(s) ==
  /\ s \in sweeping
  /\ \A k \in Key : job[<<s, k>>] = Idle
  /\ sweeping' = sweeping \ {s}
  /\ row' = [k \in Key |-> IF row[k] # None /\ Prunable(row[k])
                           THEN None ELSE row[k]]
  /\ UNCHANGED <<lease, job, post, crashes>>

(* A server dies: its calls are forgotten, the POSTs it sent are not.      *)
Crash(s) ==
  /\ crashes < MaxCrashes
  /\ crashes' = crashes + 1
  /\ sweeping' = sweeping \ {s}
  /\ job' = [j \in Job |-> IF j[1] = s THEN Idle ELSE job[j]]
  /\ UNCHANGED <<lease, row, post>>

-----------------------------------------------------------------------------
(* The clock, and the review lease, which task coordination grants and     *)
(* takes away at any time.                                                 *)

ClaimGoesStale(k) ==
  /\ row[k] # None /\ row[k].token # None /\ ~ row[k].stale
  /\ SetRow(k, [row[k] EXCEPT !.stale = TRUE])
  /\ UNCHANGED <<lease, job, sweeping, post, crashes>>

RetryFallsDue(k) ==
  /\ row[k] # None /\ ~ row[k].due
  /\ SetRow(k, [row[k] EXCEPT !.due = TRUE])
  /\ UNCHANGED <<lease, job, sweeping, post, crashes>>

RetentionEnds(k) ==         \* old is read of a closed row only
  /\ row[k] # None /\ ~ row[k].old /\ Closed(row[k])
  /\ SetRow(k, [row[k] EXCEPT !.old = TRUE])
  /\ UNCHANGED <<lease, job, sweeping, post, crashes>>

LeaseChanges ==
  /\ lease' = ~ lease
  /\ UNCHANGED <<row, job, sweeping, post, crashes>>

-----------------------------------------------------------------------------
Work(j) == \/ ClaimFailed(j) \/ ClaimAmbiguous(j) \/ ExpirePending(j)
           \/ PreflightFails(j) \/ SendReview(j) \/ Answer(j)
           \/ LookupFinds(j) \/ LookupMisses(j) \/ Finish(j)

Clock(k) == ClaimGoesStale(k) \/ RetryFallsDue(k) \/ RetentionEnds(k)

Next ==
  \/ \E s \in Server, c \in Caller, r \in Request : Submit(s, c, r)
  \/ \E j \in Job : Work(j)
  \/ \E t \in Token : GitHubHandles(t)
  \/ \E s \in Server : SweepList(s) \/ SweepPrune(s) \/ Crash(s)
  \/ \E k \in Key : Clock(k)
  \/ LeaseChanges

Spec == Init /\ [][Next]_vars
-----------------------------------------------------------------------------
(* Fairness: live jobs run (every provider call has a timeout), the sweep  *)
(* interval fires and time passes.  A lookup that is tried again and again *)
(* finds its review at last and persists it before a two-minute takeover:  *)
(* each of its provider calls times out after 15 s.  Nothing obliges       *)
(* GitHub to apply a POST, a reviewer to submit, or the retention to end.  *)
FindsInTime(j) == Owned(j) /\ LookupFinds(j)
FinishesInTime(j) == Owned(j) /\ job[j].outcome = "succeeded" /\ Finish(j)

Fairness ==
  /\ \A j \in Job :
       WF_vars(Work(j)) /\ SF_vars(FindsInTime(j)) /\ SF_vars(FinishesInTime(j))
  /\ \A s \in Server : WF_vars(SweepList(s)) /\ WF_vars(SweepPrune(s))
  /\ \A k \in Key : WF_vars(ClaimGoesStale(k)) /\ WF_vars(RetryFallsDue(k))

FairSpec == Spec /\ Fairness

-----------------------------------------------------------------------------
(* Properties.                                                             *)

(* The journal exists for this: whatever crashes, times out or is retried, *)
(* the creations claimed for one row publish at most one review.           *)
AtMostOneReview ==
  \A t, u \in Token :
    (post[t].status = "created" /\ post[u].status = "created" /\ post[t].id = post[u].id)
      => t = u

(* The POST of t can still become a review, or is one.                     *)
MayPublish(t) ==
  \/ post[t].status \in {"sent", "created"}
  \/ post[t].status = "unsent"
     /\ \E j \in Job : job[j].step = "create" /\ job[j].token = t

(* A row is failed, hence open to another creation, only while no earlier  *)
(* creation of it has published a review or could still do so.             *)
FailedIsDefinite ==
  \A k \in Key : row[k] # None /\ row[k].state = "failed" =>
    \A t \in Token : post[t].id = row[k].id => ~ MayPublish(t)

(* A succeeded row names a review that exists, carries the row's marker    *)
(* and is attached to the commit that the reviewer validated.              *)
SucceededHasReview ==
  \A k \in Key : row[k] # None /\ row[k].state = "succeeded" =>
    /\ row[k].ext \in Token
    /\ post[row[k].ext].status = "created"
    /\ LET r == post[row[k].ext].req IN
       KeyOf[r] = k /\ HeadOf[r] = HeadOf[row[k].req]

(* attempt_count is exact: it is the number of creations ever claimed for  *)
(* the row, so max_attempts really bounds them.                            *)
TriesCountCreations ==
  \A k \in Key : row[k] # None =>
    row[k].tries = Cardinality({t \in Token : post[t].id = row[k].id})

(* Once the outcome is uncertain nothing but evidence ends it: an ambiguous*)
(* row is never recreated, failed or pruned, and no creation is claimed.   *)
AmbiguousOnlyLooksUp ==
  [][\A k \in Key : (row[k] # None /\ row[k].state = "ambiguous" /\ ~ Quarantined(row[k])) =>
       /\ row'[k] # None /\ row'[k].id = row[k].id
       /\ row'[k].state \in {"ambiguous", "succeeded"}
       /\ \A t \in Token : post[t].status = "none" /\ post'[t].status # "none"
                             => post'[t].id # row[k].id]_vars

Published(k, i) ==
  /\ row[k] # None /\ row[k].id = i
  /\ \E t \in Token : post[t].id = i /\ post[t].status = "created"

(* A review that was published is found out about, whatever was lost in    *)
(* between: the row that asked for it ends up succeeded.                   *)
PublishedIsReported ==
  \A k \in Key, i \in EffectId :
    Published(k, i) ~> (row[k] # None /\ row[k].id = i => row[k].state = "succeeded")

(* No row waits forever for a worker that is gone: pending is left.        *)
PendingIsLeft ==
  \A k \in Key, i \in EffectId :
    (row[k] # None /\ row[k].id = i /\ row[k].state = "pending" /\ ~ Quarantined(row[k]))
      ~> (row[k] # None /\ row[k].id = i => row[k].state # "pending")

(* What the journal promises, as a specification of its own.               *)
Promise == INSTANCE ReviewEffect WITH
  Effect  <- EffectId,
  Review  <- Token,
  journal <- [i \in EffectId |->
                IF \E k \in Key : row[k] # None /\ row[k].id = i
                THEN (CHOOSE rw \in {row[k] : k \in Key} : rw # None /\ rw.id = i).state
                ELSE "absent"],
  reviews <- [i \in EffectId |->
                {t \in Token : post[t].id = i /\ post[t].status = "created"}]

ImplementsPromise == Promise!Spec
==============================================================================
