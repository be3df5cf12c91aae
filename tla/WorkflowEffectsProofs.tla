------------------------ MODULE WorkflowEffectsProofs ------------------------
(***************************************************************************)
(* Proofs about WorkflowEffects for every number of servers, handlers,     *)
(* keys, requests, rows, tokens and attempts.                              *)
(*                                                                         *)
(* The argument.  A creation is claimed only when a row is inserted or     *)
(* when it is failed.  A row becomes failed only when the owner of its     *)
(* token, hence the only creation claimed since, has learnt that nothing   *)
(* was or will be published.  So the creations of one row are void but for *)
(* at most one.                                                            *)
(*                                                                         *)
(* The second part follows the evidence a handler carries from its call to *)
(* the row: a success names a review that exists, and a row has claimed no *)
(* more creations than it has tries.  With it every step of the journal is *)
(* a step of ReviewEffect, the promise, or leaves it unchanged.            *)
(***************************************************************************)
EXTENDS WorkflowEffects, FiniteSetTheorems, TLAPS

(* The creation claimed under t has not been shown to be without effect.   *)
Alive(t) == post[t].status \in {"unsent", "sent", "created", "lost"}

PostsNameTheirRow ==
  \A t \in Token : \/ post[t] = NoPost
                   \/ post[t].status # "none" /\ post[t].id \in EffectId

(* What a job knows of the POST it is making.                              *)
JobsKnowTheirPost ==
  \A j \in Job :
    LET t == job[j].token IN
    /\ job[j].step \notin {"idle", "finish"} => job[j].outcome = "none"
    /\ job[j].step = "create" =>
         t \in Token /\ post[t].status = "unsent" /\ post[t].id = job[j].id
    /\ job[j].step = "await" =>
         t \in Token /\ post[t].status \notin {"none", "unsent"}
    /\ job[j].outcome = "failed" => t \in Token /\ post[t].status = "void"

TokensAreOwn ==
  \A i, j \in Job : job[i].token = job[j].token /\ job[i].token # None => i = j

RowsHaveOwnIds ==
  \A k, l \in Key :
    row[k] # None /\ row[l] # None /\ row[k].id = row[l].id => k = l

OneAlive ==
  \A t, u \in Token :
    Alive(t) /\ Alive(u) /\ post[t].id = post[u].id => t = u

(* What a row says of the creations claimed for it.                        *)
RowsKnowTheirPosts ==
  \A k \in Key : row[k] # None =>
    LET rw == row[k] IN
    /\ rw.state \in {"failed", "succeeded"} => rw.token = None
    /\ rw.state = "failed" => \A t \in Token : post[t].id = rw.id => ~ Alive(t)
    /\ rw.state = "pending" =>
         \A t \in Token : post[t].id = rw.id /\ Alive(t) => rw.token = t
    /\ rw.state = "ambiguous" /\ rw.token # None => post[rw.token] = NoPost

(* What the rows, the jobs and the posts say of each other.                *)
Consistent ==
  /\ PostsNameTheirRow
  /\ JobsKnowTheirPost
  /\ TokensAreOwn
  /\ RowsHaveOwnIds
  /\ OneAlive
  /\ RowsKnowTheirPosts

(* The inductive invariant.                                                *)
IInv == TypeOK /\ Consistent

-----------------------------------------------------------------------------
(* Type correctness.                                                       *)

(* The state of a handler between two calls.                               *)
LEMMA IdleJob == Idle \in JobState
BY DEF Idle, JobState

(* The empty journal is well typed.                                        *)
LEMMA TypeInit == Init => TypeOK
BY IdleJob, BoundAssumption DEF Init, TypeOK, NoPost, Post

(* Every journal row stays a row: its fields are updated within their type.*)
LEMMA HeldRow ==
  ASSUME TypeOK, NEW j \in Job, Holds(j)
  PROVE  job[j].key \in Key /\ row[job[j].key] \in Row /\ row[job[j].key].id = job[j].id
BY DEF TypeOK, Holds, JobState

(* A decided outcome is well typed.                                        *)
LEMMA DecideType ==
  ASSUME TypeOK, NEW j \in Job, NEW o \in {"succeeded", "failed", "ambiguous", "notFound"},
         NEW t \in Token \cup {None}, Decide(j, o, t)
  PROVE  job' \in [Job -> JobState]
<1>1. [job[j] EXCEPT !.step = "finish", !.outcome = o, !.ext = t] \in JobState
  BY DEF TypeOK, JobState
<1>. QED BY <1>1 DEF TypeOK, Decide, SetJob

(* Only the status of a post changes after its claim.                      *)
LEMMA PostType ==
  ASSUME TypeOK, NEW t \in Token,
         NEW o \in {"unsent", "sent", "created", "void", "lost"},
         post' = [post EXCEPT ![t].status = o]
  PROVE  post' \in [Token -> Post]
<1>1. [post[t] EXCEPT !.status = o] \in Post
  BY DEF TypeOK, Post
<1>. QED BY <1>1 DEF TypeOK

(* The clock only raises a flag of a row.                                  *)
LEMMA ClockType ==
  ASSUME TypeOK, NEW k \in Key, Clock(k)
  PROVE  row' \in [Key -> Row \cup {None}]
<1>1. row[k] \in Row
  BY DEF TypeOK, Clock, ClaimGoesStale, RetryFallsDue, RetentionEnds
<1>2. /\ [row[k] EXCEPT !.stale = TRUE] \in Row
      /\ [row[k] EXCEPT !.due = TRUE] \in Row
      /\ [row[k] EXCEPT !.old = TRUE] \in Row
  BY <1>1 DEF Row
<1>. QED
  BY <1>2 DEF TypeOK, Clock, ClaimGoesStale, RetryFallsDue, RetentionEnds, SetRow

(* So is the row that a settled outcome leaves behind.                     *)
LEMMA SettledType ==
  ASSUME NEW rw \in Row, NEW o, NEW t \in Token \cup {None}
  PROVE  Settled(rw, o, t) \in Row
<1>. DEFINE free == [rw EXCEPT !.token = None, !.stale = FALSE, !.old = FALSE]
            spent == rw.tries >= MaxAttempts
<1>1. free \in Row
  BY DEF Row
<1>2. spent \in BOOLEAN
  OBVIOUS
<1>. HIDE DEF free, spent
<1>3. \A d \in BOOLEAN :
        /\ [free EXCEPT !.state = "failed", !.due = d] \in Row
        /\ [free EXCEPT !.state = "succeeded", !.ext = t, !.due = d] \in Row
        /\ [free EXCEPT !.state = "ambiguous", !.due = d] \in Row
  BY <1>1 DEF Row
<1>4. /\ [free EXCEPT !.state = "succeeded", !.ext = t, !.due = TRUE] \in Row
      /\ [free EXCEPT !.state = "failed", !.due = spent] \in Row
      /\ [free EXCEPT !.state = "ambiguous", !.due = TRUE] \in Row
      /\ [free EXCEPT !.state = "ambiguous", !.due = FALSE] \in Row
  BY <1>2, <1>3, Zenon
<1>. QED BY <1>4 DEF Settled, free, spent

(* Every step keeps the types.                                             *)
LEMMA TypeNext == TypeOK /\ [Next]_vars => TypeOK'
<1>. SUFFICES ASSUME TypeOK, [Next]_vars PROVE TypeOK'
  OBVIOUS
<1>. USE KeyAssumption, BoundAssumption
<1>1. ASSUME NEW s \in Server, NEW c \in Caller, NEW r \in Request, Submit(s, c, r)
      PROVE TypeOK'
  <2>. DEFINE j == <<s, c>>
  <2>1. j \in Job /\ KeyOf[r] \in Key
    BY DEF Job, Lane
  <2>2. CASE ReserveJunk(j, r)
    <3>1. PICK i \in EffectId : row' = [row EXCEPT ![KeyOf[r]] = NewRow(i, r, None)]
      BY <2>2 DEF ReserveJunk, SetRow
    <3>2. NewRow(i, r, None) \in Row
      BY DEF NewRow, Row
    <3>. QED BY <2>1, <2>2, <3>1, <3>2 DEF TypeOK, ReserveJunk
  <2>3. CASE ReserveNew(j, r)
    <3>1. PICK i \in EffectId, t \in Token :
            /\ row' = [row EXCEPT ![KeyOf[r]] = NewRow(i, r, t)]
            /\ job' = [job EXCEPT ![j] =
                         [Idle EXCEPT !.step = "create", !.key = KeyOf[r],
                                      !.id = i, !.token = t]]
            /\ post' = [post EXCEPT ![t] = [status |-> "unsent", id |-> i, req |-> r]]
      BY <2>3 DEF ReserveNew, SetRow, SetJob
    <3>2. NewRow(i, r, t) \in Row
      BY DEF NewRow, Row
    <3>3. [Idle EXCEPT !.step = "create", !.key = KeyOf[r], !.id = i, !.token = t]
            \in JobState
      BY <2>1 DEF Idle, JobState
    <3>4. [status |-> "unsent", id |-> i, req |-> r] \in Post
      BY DEF Post
    <3>. QED BY <2>1, <2>3, <3>1, <3>2, <3>3, <3>4 DEF TypeOK, ReserveNew
  <2>4. CASE ReserveExisting(j, r)
    <3>1. row[KeyOf[r]] \in Row
      BY <2>1, <2>4 DEF TypeOK, ReserveExisting
    <3>2. [Idle EXCEPT !.step = FirstStep(row[KeyOf[r]].state), !.key = KeyOf[r],
                       !.id = row[KeyOf[r]].id] \in JobState
      BY <2>1, <3>1 DEF Idle, JobState, FirstStep, Row
    <3>. QED BY <2>1, <2>4, <3>2 DEF TypeOK, ReserveExisting, SetJob
  <2>. QED BY <1>1, <2>2, <2>3, <2>4 DEF Submit
<1>2. ASSUME NEW j \in Job, Work(j) PROVE TypeOK'
  <2>1. CASE ClaimFailed(j)
    <3>1. CASE Holds(j) /\ CanClaimFailed(row[job[j].key])
      <4>. DEFINE k == job[j].key
                  rw == row[k]
      <4>1. k \in Key /\ rw \in Row
        BY <3>1, HeldRow
      <4>2. PICK t \in Token :
              /\ row' = [row EXCEPT ![k] =
                   [rw EXCEPT !.state = "pending", !.tries = @ + 1, !.token = t,
                              !.stale = FALSE, !.due = TRUE, !.old = FALSE]]
              /\ job' = [job EXCEPT ![j] = Under(j, "create", t)]
              /\ post' = [post EXCEPT ![t] =
                   [status |-> "unsent", id |-> rw.id, req |-> rw.req]]
        BY <2>1, <3>1 DEF ClaimFailed, SetRow, SetJob
      <4>3. [rw EXCEPT !.state = "pending", !.tries = @ + 1, !.token = t,
                       !.stale = FALSE, !.due = TRUE, !.old = FALSE] \in Row
        <5>1. rw.tries + 1 \in 0..MaxAttempts
          BY <3>1, <4>1 DEF Row, CanClaimFailed
        <5>2. \A n \in 0..MaxAttempts :
                [rw EXCEPT !.state = "pending", !.tries = n, !.token = t,
                           !.stale = FALSE, !.due = TRUE, !.old = FALSE] \in Row
          BY <4>1 DEF Row
        <5>. QED BY <5>1, <5>2
      <4>4. Under(j, "create", t) \in JobState
        BY DEF Under, TypeOK, JobState
      <4>5. [status |-> "unsent", id |-> rw.id, req |-> rw.req] \in Post
        BY <4>1 DEF Post, Row
      <4>. QED BY <2>1, <4>1, <4>2, <4>3, <4>4, <4>5 DEF TypeOK, ClaimFailed
    <3>2. CASE ~ (Holds(j) /\ CanClaimFailed(row[job[j].key]))
      BY <2>1, <3>2, IdleJob DEF TypeOK, ClaimFailed, SetJob
    <3>. QED BY <3>1, <3>2
  <2>2. CASE ClaimAmbiguous(j)
    <3>1. CASE Holds(j) /\ CanClaimAmbiguous(row[job[j].key])
      <4>. DEFINE k == job[j].key
                  rw == row[k]
      <4>1. k \in Key /\ rw \in Row
        BY <3>1, HeldRow
      <4>2. PICK t \in Token :
              /\ row' = [row EXCEPT ![k] =
                           [rw EXCEPT !.token = t, !.stale = FALSE, !.old = FALSE]]
              /\ job' = [job EXCEPT ![j] = Under(j, "lookup", t)]
        BY <2>2, <3>1 DEF ClaimAmbiguous, SetRow, SetJob
      <4>3. [rw EXCEPT !.token = t, !.stale = FALSE, !.old = FALSE] \in Row
        BY <4>1 DEF Row
      <4>4. Under(j, "lookup", t) \in JobState
        BY DEF Under, TypeOK, JobState
      <4>. QED BY <2>2, <4>1, <4>2, <4>3, <4>4 DEF TypeOK, ClaimAmbiguous
    <3>2. CASE ~ (Holds(j) /\ CanClaimAmbiguous(row[job[j].key]))
      BY <2>2, <3>2, IdleJob DEF TypeOK, ClaimAmbiguous, SetJob
    <3>. QED BY <3>1, <3>2
  <2>3. CASE ExpirePending(j)
    <3>1. CASE Holds(j) /\ CanExpirePending(row[job[j].key])
      <4>1. job[j].key \in Key /\ row[job[j].key] \in Row
        BY <3>1, HeldRow
      <4>2. [row[job[j].key] EXCEPT !.state = "ambiguous", !.token = None,
                                    !.stale = FALSE, !.old = FALSE] \in Row
        BY <4>1 DEF Row
      <4>3. [job[j] EXCEPT !.step = "claimAmbiguous"] \in JobState
        BY DEF TypeOK, JobState
      <4>. QED BY <2>3, <3>1, <4>1, <4>2, <4>3 DEF TypeOK, ExpirePending, SetRow, SetJob
    <3>2. CASE ~ (Holds(j) /\ CanExpirePending(row[job[j].key]))
      BY <2>3, <3>2, IdleJob DEF TypeOK, ExpirePending, SetJob
    <3>. QED BY <3>1, <3>2
  <2>4. CASE PreflightFails(j)
    <3>1. job' \in [Job -> JobState]
      BY <2>4, DecideType DEF PreflightFails
    <3>2. post' \in [Token -> Post]
      <4>1. CASE job[j].token \in Token
        BY <2>4, <4>1, PostType DEF PreflightFails
      <4>2. CASE job[j].token \notin Token
        BY <2>4, <4>2 DEF PreflightFails, TypeOK
      <4>. QED BY <4>1, <4>2
    <3>. QED BY <2>4, <3>1, <3>2 DEF TypeOK, PreflightFails
  <2>5. CASE SendReview(j)
    <3>1. [job[j] EXCEPT !.step = "await"] \in JobState
      BY DEF TypeOK, JobState
    <3>2. post' \in [Token -> Post]
      <4>1. CASE job[j].token \in Token
        BY <2>5, <4>1, PostType DEF SendReview
      <4>2. CASE job[j].token \notin Token
        BY <2>5, <4>2 DEF SendReview, TypeOK
      <4>. QED BY <4>1, <4>2
    <3>. QED BY <2>5, <3>1, <3>2 DEF TypeOK, SendReview, SetJob
  <2>6. CASE Answer(j)
    <3>1. job' \in [Job -> JobState]
      <4>1. job[j].token \in Token \cup {None}
        BY DEF TypeOK, JobState
      <4>. QED BY <2>6, <4>1, DecideType DEF Answer
    <3>. QED BY <2>6, <3>1 DEF TypeOK, Answer
  <2>7. CASE LookupFinds(j)
    <3>1. job' \in [Job -> JobState]
      BY <2>7, DecideType DEF LookupFinds
    <3>. QED BY <2>7, <3>1 DEF TypeOK, LookupFinds
  <2>8. CASE LookupMisses(j)
    <3>1. job' \in [Job -> JobState]
      BY <2>8, DecideType DEF LookupMisses
    <3>. QED BY <2>8, <3>1 DEF TypeOK, LookupMisses
  <2>9. CASE Finish(j)
    <3>1. CASE Owned(j)
      <4>1. job[j].key \in Key /\ row[job[j].key] \in Row /\ job[j] \in JobState
        BY <3>1, HeldRow DEF Owned, TypeOK
      <4>2. Settled(row[job[j].key], job[j].outcome, job[j].ext) \in Row
        BY <4>1, SettledType DEF JobState
      <4>. QED BY <2>9, <3>1, <4>1, <4>2, IdleJob DEF TypeOK, Finish, SetRow, SetJob
    <3>2. CASE ~ Owned(j)
      BY <2>9, <3>2, IdleJob DEF TypeOK, Finish, SetJob
    <3>. QED BY <3>1, <3>2
  <2>. QED BY <1>2, <2>1, <2>2, <2>3, <2>4, <2>5, <2>6, <2>7, <2>8, <2>9 DEF Work
<1>3. ASSUME NEW t \in Token, GitHubHandles(t) PROVE TypeOK'
  BY <1>3, PostType DEF TypeOK, GitHubHandles
<1>4. ASSUME NEW s \in Server, SweepList(s) PROVE TypeOK'
  <2>1. ASSUME NEW j \in Job, j[2] \in Key, row[j[2]] # None
        PROVE  [Idle EXCEPT !.step = FirstStep(row[j[2]].state), !.key = j[2],
                            !.id = row[j[2]].id] \in JobState
    BY <2>1 DEF TypeOK, Idle, JobState, FirstStep, Row
  <2>. QED BY <1>4, <2>1 DEF TypeOK, SweepList
<1>5. ASSUME NEW s \in Server, SweepPrune(s) PROVE TypeOK'
  BY <1>5 DEF TypeOK, SweepPrune
<1>6. ASSUME NEW s \in Server, Crash(s) PROVE TypeOK'
  BY <1>6, IdleJob DEF TypeOK, Crash
<1>7. ASSUME NEW k \in Key, Clock(k) PROVE TypeOK'
  <2>1. row' \in [Key -> Row \cup {None}]
    BY <1>7, ClockType
  <2>. QED BY <1>7, <2>1 DEF TypeOK, Clock, ClaimGoesStale, RetryFallsDue, RetentionEnds
<1>8. CASE LeaseChanges
  BY <1>8 DEF TypeOK, LeaseChanges
<1>9. CASE UNCHANGED vars
  BY <1>9 DEF TypeOK, vars
<1>. QED BY <1>1, <1>2, <1>3, <1>4, <1>5, <1>6, <1>7, <1>8, <1>9 DEF Next

(* The tables, the broker calls and the posts keep the shape the schema    *)
(* and the types of the code give them.                                    *)
THEOREM TypeCorrect == Spec => []TypeOK
BY TypeInit, TypeNext, PTL DEF Spec
-----------------------------------------------------------------------------
(* The inductive invariant.                                                *)

USE DEF Consistent

(* The empty journal is consistent.                                        *)
LEMMA InvInit == Init => IInv
<1>. SUFFICES ASSUME Init PROVE IInv
  OBVIOUS
<1>1. TypeOK
  BY TypeInit
<1>. QED
  BY <1>1 DEF Init, IInv, PostsNameTheirRow, JobsKnowTheirPost, TokensAreOwn,
              RowsHaveOwnIds, OneAlive, RowsKnowTheirPosts, Alive, Idle, NoPost

(* A token that is fresh is nobody's, and has no creation behind it.       *)
LEMMA FreshFacts ==
  ASSUME NEW t \in Token, FreshToken(t)
  PROVE  /\ post[t] = NoPost /\ ~ Alive(t)
         /\ \A j \in Job : job[j].token # t
         /\ \A k \in Key : row[k] # None => row[k].token # t
BY DEF FreshToken, Alive, NoPost

(* A step that leaves the journal and the posts alone cannot disturb what  *)
(* they say of each other.                                                 *)
LEMMA SameTables ==
  ASSUME IInv, UNCHANGED <<row, post>>
  PROVE  PostsNameTheirRow' /\ RowsHaveOwnIds' /\ OneAlive' /\ RowsKnowTheirPosts'
BY DEF IInv, PostsNameTheirRow, RowsHaveOwnIds, OneAlive, RowsKnowTheirPosts, Alive

(* A job that gives up or that starts without a token holds nothing.       *)
LEMMA JobLetsGo ==
  ASSUME IInv, UNCHANGED post, NEW j \in Job, NEW s \in JobState,
         job' = [job EXCEPT ![j] = s],
         s.token = None, s.outcome = "none",
         s.step \notin {"create", "await"}
  PROVE  JobsKnowTheirPost' /\ TokensAreOwn'
<1>1. JobsKnowTheirPost'
  BY DEF IInv, TypeOK, JobsKnowTheirPost
<1>2. TokensAreOwn'
  BY DEF IInv, TypeOK, TokensAreOwn
<1>. QED BY <1>1, <1>2

(* A job moves on, keeping its token, and learns the outcome o.            *)
LEMMA JobMoves ==
  ASSUME IInv, UNCHANGED post, NEW j \in Job, NEW s \in JobState,
         job' = [job EXCEPT ![j] = s],
         s.token = job[j].token,
         s.step \notin {"create", "await"},
         s.step \in {"idle", "finish"} \/ s.outcome = "none",
         s.outcome = "failed" => job[j].token \in Token /\ post[job[j].token].status = "void"
  PROVE  JobsKnowTheirPost' /\ TokensAreOwn'
<1>1. JobsKnowTheirPost'
  BY DEF IInv, TypeOK, JobsKnowTheirPost
<1>2. TokensAreOwn'
  BY DEF IInv, TypeOK, TokensAreOwn
<1>. QED BY <1>1, <1>2

(* A handler decides failed only when its POST is known to be void.        *)
LEMMA DecideInv ==
  ASSUME IInv, UNCHANGED post, NEW j \in Job,
         NEW o \in {"succeeded", "failed", "ambiguous", "notFound"},
         NEW t \in Token \cup {None}, Decide(j, o, t),
         o = "failed" => job[j].token \in Token /\ post[job[j].token].status = "void"
  PROVE  JobsKnowTheirPost' /\ TokensAreOwn'
<1>. DEFINE s == [job[j] EXCEPT !.step = "finish", !.outcome = o, !.ext = t]
<1>1. /\ s \in JobState /\ s.token = job[j].token
      /\ s.step = "finish" /\ s.outcome = o
  BY DEF IInv, TypeOK, JobState
<1>2. job' = [job EXCEPT ![j] = s]
  BY DEF Decide, SetJob
<1>. HIDE DEF s
<1>. QED BY <1>1, <1>2, JobMoves

(* A creation is claimed: row k, which has no creation alive, becomes      *)
(* pending under a fresh token, and job j is to create.                    *)
LEMMA ClaimCreation ==
  ASSUME IInv, NEW j \in Job, NEW k \in Key, NEW t \in Token, NEW r \in Request,
         NEW rw \in Row, NEW s \in JobState, FreshToken(t),
         row' = [row EXCEPT ![k] = rw],
         job' = [job EXCEPT ![j] = s],
         post' = [post EXCEPT ![t] = [status |-> "unsent", id |-> rw.id, req |-> r]],
         rw.state = "pending", rw.token = t,
         s.step = "create", s.outcome = "none", s.token = t, s.id = rw.id,
         \A u \in Token : post[u].id = rw.id => ~ Alive(u),
         \A l \in Key : row[l] # None /\ row[l].id = rw.id => l = k
  PROVE  Consistent'
<1>1. /\ post[t] = NoPost /\ ~ Alive(t)
      /\ \A i \in Job : job[i].token # t
      /\ \A l \in Key : row[l] # None => row[l].token # t
  BY FreshFacts
<1>2. /\ post'[t].status = "unsent" /\ post'[t].id = rw.id
      /\ \A u \in Token : u # t => post'[u] = post[u]
  BY DEF IInv, TypeOK
<1>3. /\ row'[k] = rw /\ rw.id \in EffectId /\ rw # None
      /\ \A l \in Key : l # k => row'[l] = row[l]
  BY RowAssumption DEF IInv, TypeOK, Row
<1>4. job'[j] = s /\ \A i \in Job : i # j => job'[i] = job[i]
  BY DEF IInv, TypeOK
<1>5. PostsNameTheirRow'
  BY <1>2, <1>3 DEF IInv, PostsNameTheirRow
<1>6. JobsKnowTheirPost'
  BY <1>1, <1>2, <1>4 DEF IInv, JobsKnowTheirPost, NoPost
<1>7. TokensAreOwn'
  BY <1>1, <1>4 DEF IInv, TokensAreOwn
<1>8. RowsHaveOwnIds'
  BY <1>3 DEF IInv, RowsHaveOwnIds
<1>9. \A u \in Token : u # t => (Alive(u)' <=> Alive(u))
  BY <1>2 DEF Alive
<1>10. OneAlive'
  BY <1>2, <1>9 DEF IInv, OneAlive
<1>11. RowsKnowTheirPosts'
  <2>. SUFFICES ASSUME NEW l \in Key, row'[l] # None
                PROVE  /\ row'[l].state \in {"failed", "succeeded"} => row'[l].token = None
                       /\ row'[l].state = "failed" =>
                            \A u \in Token : post'[u].id = row'[l].id => ~ Alive(u)'
                       /\ row'[l].state = "pending" =>
                            \A u \in Token : post'[u].id = row'[l].id /\ Alive(u)'
                                            => row'[l].token = u
                       /\ row'[l].state = "ambiguous" /\ row'[l].token # None
                            => post'[row'[l].token] = NoPost
    BY DEF RowsKnowTheirPosts
  <2>1. CASE l = k
    BY <2>1, <1>2, <1>3, <1>9
  <2>2. CASE l # k
    <3>1. row'[l] = row[l] /\ row[l] \in Row /\ row[l].id # rw.id /\ row[l].token # t
      BY <2>2, <1>1, <1>3 DEF IInv, TypeOK
    <3>2. row[l].token # None => row[l].token \in Token
      BY <3>1 DEF Row
    <3>. QED BY <3>1, <3>2, <1>2, <1>9 DEF IInv, RowsKnowTheirPosts
  <2>. QED BY <2>1, <2>2
<1>. QED BY <1>5, <1>6, <1>7, <1>8, <1>10, <1>11
(* A row changes alone, keeping its id, into a state with no claim on a    *)
(* creation that it did not have.                                          *)
LEMMA RowMoves ==
  ASSUME IInv, UNCHANGED post, NEW k \in Key, row[k] # None, NEW rw \in Row,
         row' = [row EXCEPT ![k] = rw], rw.id = row[k].id,
         rw.state \in {"failed", "succeeded"} => rw.token = None,
         rw.state = "failed" => \A t \in Token : post[t].id = rw.id => ~ Alive(t),
         rw.state = "pending" => row[k].state = "pending" /\ rw.token = row[k].token,
         rw.state = "ambiguous" /\ rw.token # None => post[rw.token] = NoPost
  PROVE  PostsNameTheirRow' /\ RowsHaveOwnIds' /\ OneAlive' /\ RowsKnowTheirPosts'
<1>1. /\ row'[k] = rw /\ rw # None
      /\ \A l \in Key : l # k => row'[l] = row[l]
  BY RowAssumption DEF IInv, TypeOK
<1>2. \A t \in Token : Alive(t)' <=> Alive(t)
  BY DEF Alive
<1>3. PostsNameTheirRow' /\ OneAlive'
  BY <1>2 DEF IInv, PostsNameTheirRow, OneAlive
<1>4. RowsHaveOwnIds'
  BY <1>1 DEF IInv, RowsHaveOwnIds
<1>5. RowsKnowTheirPosts'
  BY <1>1, <1>2 DEF IInv, RowsKnowTheirPosts
<1>. QED BY <1>3, <1>4, <1>5

(* The status of the creation t that job j holds unsent goes to o.         *)
LEMMA PostMoves ==
  ASSUME IInv, NEW t \in Token, NEW o \in {"sent", "created", "void", "lost"},
         post[t].status \in {"unsent", "sent"},
         post' = [post EXCEPT ![t].status = o], UNCHANGED row
  PROVE  /\ PostsNameTheirRow' /\ RowsHaveOwnIds' /\ OneAlive' /\ RowsKnowTheirPosts'
         /\ post'[t].status = o /\ post'[t].id = post[t].id
         /\ \A u \in Token : u # t => post'[u] = post[u]
<1>1. /\ post'[t].status = o /\ post'[t].id = post[t].id
      /\ \A u \in Token : u # t => post'[u] = post[u]
  <2>. DEFINE p == [post[t] EXCEPT !.status = o]
  <2>1. post[t] \in Post /\ post \in [Token -> Post]
    BY DEF IInv, TypeOK
  <2>2. p.status = o /\ p.id = post[t].id
    BY <2>1 DEF Post
  <2>. HIDE DEF p
  <2>3. post' = [post EXCEPT ![t] = p]
    BY DEF p
  <2>. QED BY <2>1, <2>2, <2>3
<1>2. \A u \in Token : Alive(u)' => Alive(u)
  BY <1>1 DEF Alive
<1>3. \A u \in Token : post'[u].id = post[u].id
  BY <1>1
<1>4. post[t] # NoPost
  BY DEF NoPost
<1>5. PostsNameTheirRow'
  BY <1>1, <1>3, <1>4 DEF IInv, PostsNameTheirRow
<1>6. OneAlive'
  BY <1>2, <1>3 DEF IInv, OneAlive
<1>7. RowsKnowTheirPosts'
  <2>. SUFFICES ASSUME NEW k \in Key, row[k] # None
                PROVE  /\ row[k].state \in {"failed", "succeeded"} => row[k].token = None
                       /\ row[k].state = "failed" =>
                            \A u \in Token : post'[u].id = row[k].id => ~ Alive(u)'
                       /\ row[k].state = "pending" =>
                            \A u \in Token : post'[u].id = row[k].id /\ Alive(u)'
                                            => row[k].token = u
                       /\ row[k].state = "ambiguous" /\ row[k].token # None
                            => post'[row[k].token] = NoPost
    BY DEF RowsKnowTheirPosts
  <2>1. row[k].token \in Token \cup {None}
    BY DEF IInv, TypeOK, Row
  <2>. QED BY <2>1, <1>1, <1>2, <1>3, <1>4 DEF IInv, RowsKnowTheirPosts
<1>8. RowsHaveOwnIds'
  BY DEF IInv, RowsHaveOwnIds
<1>. QED BY <1>1, <1>5, <1>6, <1>7, <1>8

(* An HTTP request opens a row with a creation of its own, or leaves what  *)
(* it finds to its owner.                                                  *)
LEMMA InvSubmit ==
  ASSUME IInv, NEW s \in Server, NEW c \in Caller, NEW r \in Request, Submit(s, c, r)
  PROVE  Consistent'
<1>. DEFINE j == <<s, c>>
            k == KeyOf[r]
<1>. USE KeyAssumption
<1>0. j \in Job /\ k \in Key /\ TypeOK
  BY DEF Job, Lane, IInv
<1>. HIDE DEF j
<1>1. CASE ReserveJunk(j, r)
  <2>1. PICK i \in EffectId : FreshId(i) /\ row' = [row EXCEPT ![k] = NewRow(i, r, None)]
    BY <1>1 DEF ReserveJunk, SetRow
  <2>. DEFINE rw == NewRow(i, r, None)
  <2>2. /\ rw \in Row /\ rw.id = i /\ rw.state = "pending" /\ rw.token = None
    BY BoundAssumption DEF NewRow, Row
  <2>. HIDE DEF rw
  <2>3. /\ row'[k] = rw /\ rw # None /\ UNCHANGED <<job, post>>
        /\ \A l \in Key : l # k => row'[l] = row[l]
    BY <1>0, <1>1, <2>1, <2>2, RowAssumption DEF ReserveJunk, TypeOK, rw
  <2>4. /\ \A l \in Key : row[l] # None => row[l].id # i
        /\ \A t \in Token : post[t].id # i
    BY <2>1 DEF FreshId
  <2>5. RowsHaveOwnIds'
    BY <2>2, <2>3, <2>4 DEF IInv, RowsHaveOwnIds
  <2>6. RowsKnowTheirPosts'
    BY <2>2, <2>3, <2>4 DEF IInv, RowsKnowTheirPosts, Alive
  <2>7. PostsNameTheirRow' /\ JobsKnowTheirPost' /\ TokensAreOwn' /\ OneAlive'
    BY <2>3 DEF IInv, PostsNameTheirRow, JobsKnowTheirPost, TokensAreOwn, OneAlive, Alive
  <2>. QED BY <2>5, <2>6, <2>7
<1>2. CASE ReserveNew(j, r)
  <2>1. PICK i \in EffectId, t \in Token :
          /\ FreshId(i) /\ FreshToken(t)
          /\ row' = [row EXCEPT ![k] = NewRow(i, r, t)]
          /\ job' = [job EXCEPT ![j] =
                       [Idle EXCEPT !.step = "create", !.key = k, !.id = i, !.token = t]]
          /\ post' = [post EXCEPT ![t] = [status |-> "unsent", id |-> i, req |-> r]]
    BY <1>2 DEF ReserveNew, SetRow, SetJob
  <2>. DEFINE rw == NewRow(i, r, t)
              sj == [Idle EXCEPT !.step = "create", !.key = k, !.id = i, !.token = t]
  <2>2. rw \in Row /\ rw.id = i /\ rw.state = "pending" /\ rw.token = t
    BY BoundAssumption DEF NewRow, Row
  <2>3. /\ sj \in JobState /\ sj.step = "create" /\ sj.outcome = "none"
        /\ sj.token = t /\ sj.id = i
    BY <1>0 DEF Idle, JobState
  <2>4. /\ \A l \in Key : row[l] # None => row[l].id # i
        /\ \A u \in Token : post[u].id # i
    BY <2>1 DEF FreshId
  <2>5. row' = [row EXCEPT ![k] = rw] /\ job' = [job EXCEPT ![j] = sj]
    BY <2>1
  <2>. HIDE DEF rw, sj
  <2>6. post' = [post EXCEPT ![t] = [status |-> "unsent", id |-> rw.id, req |-> r]]
    BY <2>1, <2>2
  <2>7. /\ \A u \in Token : post[u].id = rw.id => ~ Alive(u)
        /\ \A l \in Key : row[l] # None /\ row[l].id = rw.id => l = k
    BY <2>2, <2>4
  <2>8. FreshToken(t) /\ sj.id = rw.id
    BY <2>1, <2>2, <2>3
  <2>. HIDE DEF k
  <2>. QED BY <1>0, <2>2, <2>3, <2>5, <2>6, <2>7, <2>8, ClaimCreation
<1>3. CASE ReserveExisting(j, r)
  <2>. DEFINE sj == [Idle EXCEPT !.step = FirstStep(row[k].state), !.key = k, !.id = row[k].id]
  <2>1. row[k] \in Row /\ row[k].state \in {"failed", "ambiguous"}
    BY <1>0, <1>3 DEF TypeOK, ReserveExisting
  <2>2. /\ sj \in JobState /\ sj.token = None /\ sj.outcome = "none"
        /\ sj.step \notin {"create", "await"}
    BY <1>0, <2>1 DEF Idle, JobState, FirstStep, Row
  <2>3. job' = [job EXCEPT ![j] = sj] /\ UNCHANGED <<row, post>>
    BY <1>3 DEF ReserveExisting, SetJob
  <2>. HIDE DEF sj
  <2>. QED BY <1>0, <2>2, <2>3, JobLetsGo, SameTables
<1>. QED BY <1>1, <1>2, <1>3 DEF Submit, j

(* A retry claims a new creation: the row has failed, so none is alive.    *)
LEMMA InvClaimFailed ==
  ASSUME IInv, NEW j \in Job, ClaimFailed(j)
  PROVE  Consistent'
<1>. DEFINE k == job[j].key
            old == row[k]
<1>0. TypeOK /\ job[j] \in JobState /\ job[j].step = "claimFailed" /\ job[j].outcome = "none"
  BY DEF IInv, TypeOK, ClaimFailed, JobsKnowTheirPost
<1>1. CASE Holds(j) /\ CanClaimFailed(old)
  <2>1. /\ k \in Key /\ old \in Row /\ old # None /\ old.id = job[j].id
        /\ old.state = "failed" /\ old.tries + 1 \in 0..MaxAttempts
    BY <1>0, <1>1, HeldRow, RowAssumption, BoundAssumption DEF CanClaimFailed, Row
  <2>2. PICK t \in Token :
          /\ FreshToken(t)
          /\ row' = [row EXCEPT ![k] =
               [old EXCEPT !.state = "pending", !.tries = @ + 1, !.token = t,
                           !.stale = FALSE, !.due = TRUE, !.old = FALSE]]
          /\ job' = [job EXCEPT ![j] = Under(j, "create", t)]
          /\ post' = [post EXCEPT ![t] =
               [status |-> "unsent", id |-> old.id, req |-> old.req]]
    BY <1>1 DEF ClaimFailed, SetRow, SetJob
  <2>. DEFINE rw == [old EXCEPT !.state = "pending", !.tries = @ + 1, !.token = t,
                                !.stale = FALSE, !.due = TRUE, !.old = FALSE]
              sj == Under(j, "create", t)
              r == old.req
  <2>3. \A n \in 0..MaxAttempts :
          LET new == [old EXCEPT !.state = "pending", !.tries = n, !.token = t,
                                 !.stale = FALSE, !.due = TRUE, !.old = FALSE]
          IN new \in Row /\ new.id = old.id /\ new.state = "pending" /\ new.token = t
    BY <2>1 DEF Row
  <2>4. rw \in Row /\ rw.id = old.id /\ rw.state = "pending" /\ rw.token = t
    BY <2>1, <2>3
  <2>5. /\ sj \in JobState /\ sj.step = "create" /\ sj.outcome = "none"
        /\ sj.token = t /\ sj.id = old.id
    BY <1>0, <2>1 DEF Under, JobState
  <2>6. r \in Request
    BY <2>1 DEF Row
  <2>7. row' = [row EXCEPT ![k] = rw] /\ job' = [job EXCEPT ![j] = sj]
    BY <2>2
  <2>8. FreshToken(t)
    BY <2>2
  <2>. HIDE DEF rw, sj
  <2>9. /\ post' = [post EXCEPT ![t] = [status |-> "unsent", id |-> rw.id, req |-> r]]
        /\ sj.id = rw.id
    BY <2>2, <2>4, <2>5
  <2>10. /\ \A u \in Token : post[u].id = rw.id => ~ Alive(u)
         /\ \A l \in Key : row[l] # None /\ row[l].id = rw.id => l = k
    BY <2>1, <2>4 DEF IInv, RowsKnowTheirPosts, RowsHaveOwnIds
  <2>11. k \in Key /\ rw.state = "pending" /\ rw.token = t /\ rw \in Row
    BY <2>1, <2>4
  <2>12. sj \in JobState /\ sj.step = "create" /\ sj.outcome = "none" /\ sj.token = t
    BY <2>5
  <2>. HIDE DEF old, r, k
  <2>. QED BY <2>6, <2>7, <2>8, <2>9, <2>10, <2>11, <2>12, ClaimCreation
<1>2. CASE ~ (Holds(j) /\ CanClaimFailed(old))
  <2>1. job' = [job EXCEPT ![j] = Idle] /\ UNCHANGED <<row, post>>
    BY <1>2 DEF ClaimFailed, SetJob
  <2>2. Idle.token = None /\ Idle.outcome = "none" /\ Idle.step = "idle"
    BY DEF Idle
  <2>. QED BY <2>1, <2>2, IdleJob, JobLetsGo, SameTables
<1>. QED BY <1>1, <1>2

(* A job that gives up leaves everything else as it was.                   *)
LEMMA InvGivesUp ==
  ASSUME IInv, NEW j \in Job, job' = [job EXCEPT ![j] = Idle], UNCHANGED <<row, post>>
  PROVE  Consistent'
<1>1. Idle.token = None /\ Idle.outcome = "none" /\ Idle.step = "idle"
  BY DEF Idle
<1>. QED BY <1>1, IdleJob, JobLetsGo, SameTables

(* The sweep's claim of an ambiguous row is a lookup's.                    *)
LEMMA InvClaimAmbiguous ==
  ASSUME IInv, NEW j \in Job, ClaimAmbiguous(j)
  PROVE  Consistent'
<1>. DEFINE k == job[j].key
            old == row[k]
<1>0. TypeOK /\ job[j] \in JobState /\ job[j].outcome = "none" /\ UNCHANGED post
  BY DEF IInv, TypeOK, ClaimAmbiguous, JobsKnowTheirPost
<1>1. CASE Holds(j) /\ CanClaimAmbiguous(old)
  <2>1. k \in Key /\ old \in Row /\ old # None /\ old.state = "ambiguous"
    BY <1>0, <1>1, HeldRow, RowAssumption DEF CanClaimAmbiguous
  <2>2. PICK t \in Token :
          /\ FreshToken(t)
          /\ row' = [row EXCEPT ![k] =
                       [old EXCEPT !.token = t, !.stale = FALSE, !.old = FALSE]]
          /\ job' = [job EXCEPT ![j] = Under(j, "lookup", t)]
    BY <1>1 DEF ClaimAmbiguous, SetRow, SetJob
  <2>. DEFINE rw == [old EXCEPT !.token = t, !.stale = FALSE, !.old = FALSE]
              sj == Under(j, "lookup", t)
  <2>3. rw \in Row /\ rw.id = old.id /\ rw.state = "ambiguous" /\ rw.token = t
    BY <2>1 DEF Row
  <2>4. sj \in JobState /\ sj.step = "lookup" /\ sj.outcome = "none" /\ sj.token = t
    BY <1>0 DEF Under, JobState
  <2>5. row' = [row EXCEPT ![k] = rw] /\ job' = [job EXCEPT ![j] = sj]
    BY <2>2
  <2>6. post[t] = NoPost /\ \A i \in Job : job[i].token # t
    BY <2>2, FreshFacts
  <2>. HIDE DEF rw, sj
  <2>7. PostsNameTheirRow' /\ RowsHaveOwnIds' /\ OneAlive' /\ RowsKnowTheirPosts'
    BY <1>0, <2>1, <2>3, <2>5, <2>6, RowMoves
  <2>8. JobsKnowTheirPost' /\ TokensAreOwn'
    BY <1>0, <2>4, <2>5, <2>6 DEF IInv, TypeOK, JobsKnowTheirPost, TokensAreOwn
  <2>. QED BY <2>7, <2>8
<1>2. CASE ~ (Holds(j) /\ CanClaimAmbiguous(old))
  BY <1>2, InvGivesUp DEF ClaimAmbiguous, SetJob
<1>. QED BY <1>1, <1>2

(* The takeover of a stale claim leaves the creation alive and makes the   *)
(* row ambiguous.                                                          *)
LEMMA InvExpirePending ==
  ASSUME IInv, NEW j \in Job, ExpirePending(j)
  PROVE  Consistent'
<1>. DEFINE k == job[j].key
            old == row[k]
<1>0. TypeOK /\ job[j] \in JobState /\ job[j].outcome = "none" /\ UNCHANGED post
  BY DEF IInv, TypeOK, ExpirePending, JobsKnowTheirPost
<1>1. CASE Holds(j) /\ CanExpirePending(old)
  <2>1. k \in Key /\ old \in Row /\ old # None
    BY <1>0, <1>1, HeldRow, RowAssumption
  <2>. DEFINE rw == [old EXCEPT !.state = "ambiguous", !.token = None,
                                !.stale = FALSE, !.old = FALSE]
              sj == [job[j] EXCEPT !.step = "claimAmbiguous"]
  <2>2. rw \in Row /\ rw.id = old.id /\ rw.state = "ambiguous" /\ rw.token = None
    BY <2>1 DEF Row
  <2>3. /\ sj \in JobState /\ sj.step = "claimAmbiguous" /\ sj.outcome = "none"
        /\ sj.token = job[j].token
    BY <1>0 DEF JobState
  <2>4. row' = [row EXCEPT ![k] = rw] /\ job' = [job EXCEPT ![j] = sj]
    BY <1>1 DEF ExpirePending, SetRow, SetJob
  <2>. HIDE DEF rw, sj
  <2>5. PostsNameTheirRow' /\ RowsHaveOwnIds' /\ OneAlive' /\ RowsKnowTheirPosts'
    BY <1>0, <2>1, <2>2, <2>4, RowMoves
  <2>6. JobsKnowTheirPost' /\ TokensAreOwn'
    BY <1>0, <2>3, <2>4, JobMoves
  <2>. QED BY <2>5, <2>6
<1>2. CASE ~ (Holds(j) /\ CanExpirePending(old))
  BY <1>2, InvGivesUp DEF ExpirePending, SetJob
<1>. QED BY <1>1, <1>2

(* The POST of a job about to create is settled (o is "void", and the job  *)
(* is done) or sent (and the job awaits its answer).                       *)
LEMMA InvCreate ==
  ASSUME IInv, NEW j \in Job, PreflightFails(j) \/ SendReview(j)
  PROVE  Consistent'
<1>. DEFINE t == job[j].token
<1>1. /\ t \in Token /\ post[t].status = "unsent" /\ job[j] \in JobState
      /\ job[j].outcome = "none" /\ UNCHANGED row /\ t # None
  BY NoneAssumption DEF IInv, TypeOK, PreflightFails, SendReview, JobsKnowTheirPost
<1>2. \A i \in Job : i # j => job[i].token # t
  BY <1>1 DEF IInv, TokensAreOwn
<1>3. ASSUME NEW o \in {"sent", "void"}, post' = [post EXCEPT ![t].status = o],
             NEW sj \in JobState, job' = [job EXCEPT ![j] = sj], sj.token = t,
             \/ o = "sent" /\ sj.step = "await" /\ sj.outcome = "none"
             \/ o = "void" /\ sj.step = "finish" /\ sj.outcome = "failed"
      PROVE  Consistent'
  <2>. HIDE DEF t
  <2>1. /\ PostsNameTheirRow' /\ RowsHaveOwnIds' /\ OneAlive' /\ RowsKnowTheirPosts'
        /\ post'[t].status = o
        /\ \A u \in Token : u # t => post'[u] = post[u]
    BY <1>1, <1>3, PostMoves
  <2>2. job'[j] = sj /\ \A i \in Job : i # j => job'[i] = job[i]
    BY <1>3 DEF IInv, TypeOK
  <2>3. JobsKnowTheirPost'
    BY <1>1, <1>2, <1>3, <2>1, <2>2 DEF IInv, JobsKnowTheirPost
  <2>4. TokensAreOwn'
    BY <1>2, <1>3, <2>2 DEF IInv, TokensAreOwn
  <2>. QED BY <2>1, <2>3, <2>4
<1>4. CASE PreflightFails(j)
  <2>. DEFINE sj == [job[j] EXCEPT !.step = "finish", !.outcome = "failed", !.ext = None]
  <2>1. sj \in JobState /\ sj.token = t /\ sj.step = "finish" /\ sj.outcome = "failed"
    BY <1>1 DEF JobState
  <2>2. job' = [job EXCEPT ![j] = sj] /\ post' = [post EXCEPT ![t].status = "void"]
    BY <1>4 DEF PreflightFails, Decide, SetJob
  <2>. HIDE DEF sj, t
  <2>. QED BY <2>1, <2>2, <1>3
<1>5. CASE SendReview(j)
  <2>. DEFINE sj == [job[j] EXCEPT !.step = "await"]
  <2>1. sj \in JobState /\ sj.token = t /\ sj.step = "await" /\ sj.outcome = "none"
    BY <1>1 DEF JobState
  <2>2. job' = [job EXCEPT ![j] = sj] /\ post' = [post EXCEPT ![t].status = "sent"]
    BY <1>5 DEF SendReview, SetJob
  <2>. HIDE DEF sj, t
  <2>. QED BY <2>1, <2>2, <1>3
<1>. QED BY <1>4, <1>5

(* The answer of GitHub, or its absence, decides the outcome.              *)
LEMMA InvAnswer ==
  ASSUME IInv, NEW j \in Job, Answer(j) \/ LookupFinds(j) \/ LookupMisses(j)
  PROVE  Consistent'
<1>1. UNCHANGED <<row, post>> /\ job[j].token \in Token \cup {None}
  BY DEF IInv, TypeOK, JobState, Answer, LookupFinds, LookupMisses
<1>2. PICK o \in {"succeeded", "failed", "ambiguous", "notFound"},
           t \in Token \cup {None} :
        /\ Decide(j, o, t)
        /\ o = "failed" => job[j].step = "await" /\ post[job[j].token].status = "void"
  BY <1>1 DEF Answer, LookupFinds, LookupMisses
<1>3. o = "failed" => job[j].token \in Token /\ post[job[j].token].status = "void"
  BY <1>2 DEF IInv, JobsKnowTheirPost
<1>. QED BY <1>1, <1>2, <1>3, DecideInv, SameTables

(* The owner of the row persists what it learnt: the row fails only when   *)
(* the creation that its token stands for is void.                         *)
LEMMA InvFinish ==
  ASSUME IInv, NEW j \in Job, Finish(j)
  PROVE  Consistent'
<1>. DEFINE k == job[j].key
            old == row[k]
            t == job[j].token
            o == job[j].outcome
<1>1. /\ TypeOK /\ job[j] \in JobState /\ UNCHANGED post
      /\ job' = [job EXCEPT ![j] = Idle]
  BY DEF IInv, TypeOK, Finish, SetJob
<1>2. CASE Owned(j)
  <2>. DEFINE rw == Settled(old, o, job[j].ext)
  <2>1. k \in Key /\ old \in Row /\ old # None /\ old.token = t
    BY <1>1, <1>2, HeldRow, RowAssumption DEF Owned
  <2>2. rw \in Row
    BY <1>1, <2>1, SettledType DEF JobState
  <2>3. /\ rw.id = old.id /\ rw.token = None
        /\ rw.state \in {"succeeded", "failed", "ambiguous"}
        /\ rw.state = "failed" => o = "failed"
    BY <2>1 DEF Settled, Row
  <2>4. row' = [row EXCEPT ![k] = rw]
    BY <1>2 DEF Finish, SetRow
  <2>5. o = "failed" => \A u \in Token : post[u].id = old.id => ~ Alive(u)
    <3>. SUFFICES ASSUME o = "failed", NEW u \in Token, post[u].id = old.id, Alive(u)
                  PROVE  FALSE
      OBVIOUS
    <3>1. t \in Token /\ post[t].status = "void"
      BY DEF IInv, JobsKnowTheirPost
    <3>2. ~ Alive(t) /\ post[t] # NoPost /\ t # None
      BY <3>1, NoneAssumption DEF Alive, NoPost
    <3>3. old.state = "pending"
      BY <2>1, <3>1, <3>2 DEF IInv, RowsKnowTheirPosts, Row
    <3>4. old.token = u
      BY <2>1, <3>3 DEF IInv, RowsKnowTheirPosts
    <3>. QED BY <2>1, <3>2, <3>4
  <2>. HIDE DEF rw
  <2>6. PostsNameTheirRow' /\ RowsHaveOwnIds' /\ OneAlive' /\ RowsKnowTheirPosts'
    BY <1>1, <2>1, <2>2, <2>3, <2>4, <2>5, RowMoves
  <2>7. JobsKnowTheirPost' /\ TokensAreOwn'
    <3>1. Idle.token = None /\ Idle.outcome = "none" /\ Idle.step = "idle"
      BY DEF Idle
    <3>. QED BY <1>1, <3>1, IdleJob, JobLetsGo
  <2>. QED BY <2>6, <2>7
<1>3. CASE ~ Owned(j)
  BY <1>1, <1>3, InvGivesUp DEF Finish
<1>. QED BY <1>2, <1>3

(* GitHub applies or refuses a POST, perhaps after its sender has gone.    *)
LEMMA InvGitHub ==
  ASSUME IInv, NEW t \in Token, GitHubHandles(t)
  PROVE  Consistent'
<1>1. PICK o \in {"created", "void", "lost"} : post' = [post EXCEPT ![t].status = o]
  BY DEF GitHubHandles
<1>2. post[t].status = "sent" /\ UNCHANGED <<row, job>>
  BY DEF GitHubHandles
<1>3. /\ PostsNameTheirRow' /\ RowsHaveOwnIds' /\ OneAlive' /\ RowsKnowTheirPosts'
      /\ post'[t].status = o
      /\ \A u \in Token : u # t => post'[u] = post[u]
  BY <1>1, <1>2, PostMoves
<1>4. JobsKnowTheirPost'
  BY <1>2, <1>3 DEF IInv, JobsKnowTheirPost
<1>5. TokensAreOwn'
  BY <1>2 DEF IInv, TokensAreOwn
<1>. QED BY <1>3, <1>4, <1>5

(* A sweep starts idle lanes and a crash idles them: neither holds a token.*)
LEMMA InvServer ==
  ASSUME IInv, NEW s \in Server, SweepList(s) \/ Crash(s)
  PROVE  Consistent'
<1>1. UNCHANGED <<row, post>> /\ TypeOK
  BY DEF IInv, SweepList, Crash
<1>2. \A j \in Job :
        \/ job'[j] = job[j]
        \/ /\ job'[j].token = None /\ job'[j].outcome = "none"
           /\ job'[j].step \notin {"create", "await"}
  <2>. SUFFICES ASSUME NEW j \in Job, job'[j] # job[j]
                PROVE  /\ job'[j].token = None /\ job'[j].outcome = "none"
                       /\ job'[j].step \notin {"create", "await"}
    OBVIOUS
  <2>1. CASE SweepList(s)
    <3>1. job'[j] = [Idle EXCEPT !.step = FirstStep(row[j[2]].state), !.key = j[2],
                                 !.id = row[j[2]].id]
      BY <2>1 DEF SweepList
    <3>2. FirstStep(row[j[2]].state) \notin {"create", "await"}
      BY DEF FirstStep
    <3>. QED BY <3>1, <3>2 DEF Idle
  <2>2. CASE Crash(s)
    BY <2>2 DEF Crash, Idle
  <2>. QED BY <2>1, <2>2
<1>3. JobsKnowTheirPost'
  BY <1>1, <1>2 DEF IInv, JobsKnowTheirPost
<1>4. TokensAreOwn'
  BY <1>1, <1>2 DEF IInv, TokensAreOwn
<1>. QED BY <1>1, <1>3, <1>4, SameTables

(* Pruning removes rows and changes nothing else.                          *)
LEMMA InvPrune ==
  ASSUME IInv, NEW s \in Server, SweepPrune(s)
  PROVE  Consistent'
<1>1. UNCHANGED <<job, post>> /\ \A k \in Key : row'[k] \in {row[k], None}
  BY DEF SweepPrune
<1>2. \A k \in Key : row'[k] # None => row'[k] = row[k]
  BY <1>1
<1>3. RowsHaveOwnIds'
  BY <1>2 DEF IInv, RowsHaveOwnIds
<1>4. RowsKnowTheirPosts'
  BY <1>1, <1>2 DEF IInv, RowsKnowTheirPosts, Alive
<1>. QED
  BY <1>1, <1>3, <1>4 DEF IInv, PostsNameTheirRow, JobsKnowTheirPost, TokensAreOwn,
                          OneAlive, Alive

(* Time passes for rows; no creation is claimed or decided.                *)
LEMMA InvClock ==
  ASSUME IInv, NEW k \in Key, Clock(k)
  PROVE  Consistent'
<1>. DEFINE old == row[k]
<1>1. TypeOK /\ UNCHANGED <<job, post>> /\ old # None /\ old \in Row
  BY DEF IInv, TypeOK, Clock, ClaimGoesStale, RetryFallsDue, RetentionEnds
<1>2. PICK rw \in {[old EXCEPT !.stale = TRUE], [old EXCEPT !.due = TRUE],
                   [old EXCEPT !.old = TRUE]} : row' = [row EXCEPT ![k] = rw]
  BY DEF Clock, ClaimGoesStale, RetryFallsDue, RetentionEnds, SetRow
<1>3. /\ rw \in Row /\ rw.id = old.id /\ rw.state = old.state /\ rw.token = old.token
  BY <1>1, <1>2 DEF Row
<1>4. /\ old.state \in {"failed", "succeeded"} => old.token = None
      /\ old.state = "failed" => \A t \in Token : post[t].id = old.id => ~ Alive(t)
      /\ old.state = "ambiguous" /\ old.token # None => post[old.token] = NoPost
  BY <1>1 DEF IInv, RowsKnowTheirPosts
<1>5. PostsNameTheirRow' /\ RowsHaveOwnIds' /\ OneAlive' /\ RowsKnowTheirPosts'
  BY <1>1, <1>2, <1>3, <1>4, RowMoves
<1>6. JobsKnowTheirPost' /\ TokensAreOwn'
  BY <1>1 DEF IInv, JobsKnowTheirPost, TokensAreOwn
<1>. QED BY <1>5, <1>6

(* Every step keeps the invariant.                                         *)
LEMMA InvNext == IInv /\ [Next]_vars => IInv'
<1>. SUFFICES ASSUME IInv, [Next]_vars
              PROVE  Consistent'
  BY TypeNext DEF IInv
<1>1. ASSUME NEW s \in Server, NEW c \in Caller, NEW r \in Request, Submit(s, c, r)
      PROVE  Consistent'
  BY <1>1, InvSubmit
<1>2. ASSUME NEW j \in Job, Work(j)
      PROVE  Consistent'
  BY <1>2, InvClaimFailed, InvClaimAmbiguous, InvExpirePending, InvCreate,
     InvAnswer, InvFinish DEF Work
<1>3. ASSUME NEW t \in Token, GitHubHandles(t)
      PROVE  Consistent'
  BY <1>3, InvGitHub
<1>4. ASSUME NEW s \in Server, SweepList(s) \/ SweepPrune(s) \/ Crash(s)
      PROVE  Consistent'
  BY <1>4, InvServer, InvPrune
<1>5. ASSUME NEW k \in Key, Clock(k)
      PROVE  Consistent'
  BY <1>5, InvClock
<1>6. CASE LeaseChanges \/ UNCHANGED vars
  BY <1>6 DEF LeaseChanges, vars, IInv, PostsNameTheirRow, JobsKnowTheirPost,
              TokensAreOwn, RowsHaveOwnIds, OneAlive, RowsKnowTheirPosts, Alive
<1>. QED BY <1>1, <1>2, <1>3, <1>4, <1>5, <1>6 DEF Next

(* The invariant holds in every behaviour.                                 *)
LEMMA Invariance == Spec => []IInv
BY InvInit, InvNext, PTL DEF Spec

(* At most one review per journalled effect, whatever crashes, is lost,    *)
(* times out or is retried: the promise finishWithToken, claimFailed and   *)
(* claimAmbiguous are written for.                                         *)
THEOREM AtMostOneReviewHolds == Spec => []AtMostOneReview
<1>1. IInv => AtMostOneReview
  BY DEF IInv, OneAlive, Alive, AtMostOneReview
<1>. QED BY <1>1, Invariance, PTL

(* A failed row, which claimFailed may create again for, has no creation   *)
(* behind it that published a review or still could.                       *)
THEOREM FailedIsDefiniteHolds == Spec => []FailedIsDefinite
<1>1. IInv => FailedIsDefinite
  BY DEF IInv, RowsKnowTheirPosts, Alive, MayPublish, FailedIsDefinite
<1>. QED BY <1>1, Invariance, PTL

-----------------------------------------------------------------------------
(* The evidence behind a success, and the count of creations.  A review    *)
(* that a job has seen is one of the row it works on, because the posts of *)
(* a row carry the row's request; a row that is deleted and inserted again *)
(* has an id that no job and no post knows.                                *)

(* The creations ever claimed for the row i.                               *)
Creations(i) == {t \in Token : post[t].id = i}

(* What job j may report.                                                  *)
EvidenceOf(j) ==
  LET b == job[j] IN
  /\ b.step \in {"create", "await", "lookup", "finish"} => b.token \in Token
  /\ b.step = "await" => post[b.token].id = b.id
  /\ b.outcome = "succeeded" =>
       /\ b.ext \in Token /\ post[b.ext].status = "created"
       /\ Holds(j) => Matches(b.ext, row[b.key])

(* What the row of key k says of the request it stands for, of its review  *)
(* and of its creations.                                                   *)
RecordOf(k) ==
  LET rw == row[k] IN
  rw # None =>
    /\ KeyOf[rw.req] = k
    /\ Quarantined(rw) => rw.state = "pending" /\ rw.token = None
    /\ \A t \in Creations(rw.id) : post[t].req = rw.req
    /\ rw.state = "succeeded" => rw.ext \in Token /\ Matches(rw.ext, rw)
    /\ IsFiniteSet(Creations(rw.id)) /\ rw.tries = Cardinality(Creations(rw.id))

(* The inductive invariant, with the evidence and the records.             *)
EInv ==
  /\ IInv
  /\ \A j \in Job : EvidenceOf(j)
  /\ \A k \in Key : RecordOf(k)

(* No creation changes hands or is undone.                                 *)
PostsContinue ==
  \A t \in Token : post[t] # NoPost =>
    /\ post'[t].id = post[t].id /\ post'[t].req = post[t].req
    /\ post[t].status = "created" => post'[t].status = "created"

(* A row keeps its id and request, or is one no job works on.              *)
RowsContinue ==
  \A k \in Key : row'[k] # None =>
    \/ row[k] # None /\ row'[k].id = row[k].id /\ row'[k].req = row[k].req
    \/ \A j \in Job : job[j].id # row'[k].id

(* What the job knew stays true while others move.                         *)
LEMMA EvidenceStays ==
  ASSUME EInv, PostsContinue, RowsContinue, NEW j \in Job, job'[j] = job[j]
  PROVE  EvidenceOf(j)'
<1>0. PICK b : b = job[j] /\ b = job'[j]
  OBVIOUS
<1>1. b \in JobState /\ EvidenceOf(j)
  BY <1>0 DEF EInv, IInv, TypeOK
<1>2. b.step = "await" => post[b.token] # NoPost
  BY <1>0 DEF EInv, IInv, JobsKnowTheirPost, NoPost
<1>3. b.step = "await" => post'[b.token].id = b.id
  BY <1>0, <1>1, <1>2 DEF EvidenceOf, PostsContinue
<1>4. ASSUME b.outcome = "succeeded"
      PROVE  /\ b.ext \in Token /\ post'[b.ext].status = "created"
             /\ Holds(j)' => Matches(b.ext, row[b.key])'
  <2>1. /\ b.ext \in Token /\ post[b.ext].status = "created"
        /\ Holds(j) => Matches(b.ext, row[b.key])
    BY <1>0, <1>1, <1>4 DEF EvidenceOf
  <2>2. post[b.ext] # NoPost
    BY <2>1 DEF NoPost
  <2>3. post'[b.ext].status = "created" /\ post'[b.ext].req = post[b.ext].req
    BY <2>1, <2>2 DEF PostsContinue
  <2>4. ASSUME Holds(j)' PROVE Matches(b.ext, row[b.key])'
    <3>1. b.key \in Key /\ row'[b.key] # None /\ row'[b.key].id = b.id
      BY <1>0, <1>1, <2>4 DEF Holds, JobState
    <3>2. row[b.key] # None /\ row[b.key].id = b.id /\ row'[b.key].req = row[b.key].req
      BY <1>0, <3>1 DEF RowsContinue
    <3>3. Matches(b.ext, row[b.key])
      BY <1>0, <2>1, <3>1, <3>2, NoneAssumption DEF Holds
    <3>. QED BY <2>3, <3>2, <3>3 DEF Matches
  <2>. QED BY <2>1, <2>3, <2>4
<1>. QED BY <1>0, <1>1, <1>3, <1>4 DEF EvidenceOf

(* A job that has seen no review has little to prove.                      *)
LEMMA EvidenceNone ==
  ASSUME NEW j \in Job, job'[j].outcome # "succeeded",
         job'[j].step \in {"create", "lookup", "finish"} => job'[j].token \in Token,
         job'[j].step # "await"
  PROVE  EvidenceOf(j)'
BY DEF EvidenceOf

(* A row keeps its record when it keeps what it stands for and no creation *)
(* is claimed for it.                                                      *)
LEMMA RecordStays ==
  ASSUME EInv, PostsContinue, NEW k \in Key, row[k] # None, row'[k] # None,
         row'[k].id = row[k].id, row'[k].req = row[k].req, row'[k].tries = row[k].tries,
         Quarantined(row[k]) => row'[k].state = "pending" /\ row'[k].token = None,
         row'[k].state = "succeeded" =>
           row'[k].ext \in Token /\ Matches(row'[k].ext, row[k]),
         \A t \in Token : post[t] = NoPost => post'[t] = NoPost \/ post'[t].id # row[k].id
  PROVE  RecordOf(k)'
<1>. DEFINE i == row[k].id
            t1 == row'[k].ext
<1>1. RecordOf(k) /\ i \in EffectId
  BY DEF EInv, IInv, TypeOK, Row
<1>2. \A t \in Token : post'[t].id = i <=> post[t].id = i
  <2>. SUFFICES ASSUME NEW t \in Token PROVE post'[t].id = i <=> post[t].id = i
    OBVIOUS
  <2>1. CASE post[t] = NoPost
    <3>1. post[t].id # i
      BY <1>1, <2>1, NoneAssumption DEF NoPost
    <3>2. post'[t].id # i
      BY <1>1, <2>1, NoneAssumption DEF NoPost
    <3>. QED BY <3>1, <3>2
  <2>2. CASE post[t] # NoPost
    BY <2>2 DEF PostsContinue
  <2>. QED BY <2>1, <2>2
<1>3. \A c : c = i => Creations(c)' = Creations(c)
  BY <1>2 DEF Creations
<1>4. \A t \in Creations(i) : t \in Token /\ post[t] # NoPost
  BY <1>1, NoneAssumption DEF Creations, NoPost
<1>5. \A t \in Creations(i) : post'[t].req = row[k].req
  BY <1>1, <1>4 DEF RecordOf, PostsContinue
<1>6. row'[k].state = "succeeded" =>
        /\ t1 \in Token /\ post'[t1].status = "created"
        /\ KeyOf[post'[t1].req] = KeyOf[row[k].req]
        /\ HeadOf[post'[t1].req] = HeadOf[row[k].req]
  BY DEF Matches, PostsContinue, NoPost
<1>7. {t \in Token : post'[t].id = row'[k].id} = {t \in Token : post[t].id = row[k].id}
  BY <1>2
<1>. QED BY <1>1, <1>5, <1>6, <1>7 DEF RecordOf, Creations, Matches, Quarantined

(* Nothing is asked of an absent row.                                      *)
LEMMA RecordNone ==
  ASSUME NEW k \in Key, row'[k] = None
  PROVE  RecordOf(k)'
BY DEF RecordOf

(* One job moves.                                                          *)
LEMMA EvidenceOfAll ==
  ASSUME EInv, PostsContinue, RowsContinue, NEW j \in Job, NEW s,
         job' = [job EXCEPT ![j] = s], EvidenceOf(j)'
  PROVE  \A i \in Job : EvidenceOf(i)'
<1>. SUFFICES ASSUME NEW i \in Job, i # j PROVE EvidenceOf(i)'
  OBVIOUS
<1>1. job'[i] = job[i]
  BY DEF EInv, IInv, TypeOK
<1>. QED BY <1>1, EvidenceStays

(* One job moves on having seen no review, or gives up.                    *)
LEMMA EvidenceOfMover ==
  ASSUME EInv, PostsContinue, RowsContinue, NEW j \in Job, NEW s \in JobState,
         job' = [job EXCEPT ![j] = s], s.outcome # "succeeded",
         s.step \in {"create", "lookup", "finish"} => s.token \in Token,
         s.step # "await"
  PROVE  \A i \in Job : EvidenceOf(i)'
<1>1. job'[j] = s
  BY DEF EInv, IInv, TypeOK
<1>2. EvidenceOf(j)'
  BY <1>1, EvidenceNone
<1>. QED BY <1>2, EvidenceOfAll

(* The journal is not touched and no creation is claimed.                  *)
LEMMA RecordsRest ==
  ASSUME EInv, UNCHANGED row, PostsContinue,
         \A t \in Token : post[t] = NoPost => post'[t] = NoPost
  PROVE  RowsContinue /\ \A k \in Key : RecordOf(k)'
<1>1. RowsContinue
  BY DEF RowsContinue
<1>2. ASSUME NEW k \in Key PROVE RecordOf(k)'
  <2>1. CASE row[k] = None
    BY <2>1, RecordNone
  <2>2. CASE row[k] # None
    <3>1. RecordOf(k)
      BY DEF EInv
    <3>2. /\ row'[k] = row[k]
          /\ Quarantined(row[k]) => row'[k].state = "pending" /\ row'[k].token = None
          /\ row'[k].state = "succeeded" =>
               row'[k].ext \in Token /\ Matches(row'[k].ext, row[k])
      BY <2>2, <3>1 DEF RecordOf
    <3>. QED BY <2>2, <3>2, RecordStays
  <2>. QED BY <2>1, <2>2
<1>. QED BY <1>1, <1>2

(* Posts that do not change continue.                                      *)
LEMMA SamePosts == UNCHANGED post => PostsContinue
BY DEF PostsContinue

(* One row changes under its id, request and attempt count.                *)
LEMMA RecordsOfRow ==
  ASSUME EInv, UNCHANGED post, NEW k \in Key, row[k] # None, NEW rw \in Row,
         row' = [row EXCEPT ![k] = rw],
         rw.id = row[k].id, rw.req = row[k].req, rw.tries = row[k].tries,
         Quarantined(rw) => rw.state = "pending" /\ rw.token = None,
         rw.state = "succeeded" => rw.ext \in Token /\ Matches(rw.ext, rw)
  PROVE  /\ PostsContinue /\ RowsContinue
         /\ \A l \in Key : RecordOf(l)'
<1>1. /\ row'[k] = rw /\ rw # None
      /\ \A l \in Key : l # k => row'[l] = row[l]
  BY RowAssumption DEF EInv, IInv, TypeOK
<1>2. PostsContinue
  BY SamePosts
<1>3. RowsContinue
  BY <1>1 DEF RowsContinue
<1>4. ASSUME NEW l \in Key PROVE RecordOf(l)'
  <2>1. CASE row'[l] = None
    BY <2>1, RecordNone
  <2>2. CASE l = k
    <3>1. /\ row'[l].id = row[l].id /\ row'[l].req = row[l].req /\ row'[l].tries = row[l].tries
          /\ Quarantined(row[l]) => row'[l].state = "pending" /\ row'[l].token = None
          /\ row'[l].state = "succeeded" =>
               row'[l].ext \in Token /\ Matches(row'[l].ext, row[l])
          /\ row[l] # None /\ row'[l] # None
      BY <1>1, <2>2 DEF Quarantined, Matches
    <3>. QED BY <1>2, <3>1, RecordStays
  <2>3. CASE l # k /\ row'[l] # None
    <3>1. RecordOf(l) /\ row'[l] = row[l] /\ row[l] # None
      BY <1>1, <2>3 DEF EInv
    <3>2. /\ Quarantined(row[l]) => row'[l].state = "pending" /\ row'[l].token = None
          /\ row'[l].state = "succeeded" =>
               row'[l].ext \in Token /\ Matches(row'[l].ext, row[l])
      BY <3>1 DEF RecordOf
    <3>. QED BY <1>2, <3>1, <3>2, RecordStays
  <2>. QED BY <2>1, <2>2, <2>3
<1>. QED BY <1>2, <1>3, <1>4

(* A creation is claimed for row k under a fresh token, and counted.       *)
LEMMA RecordsOfClaim ==
  ASSUME EInv, NEW k \in Key, NEW t \in Token, NEW rw \in Row, FreshToken(t),
         row' = [row EXCEPT ![k] = rw],
         post' = [post EXCEPT ![t] = [status |-> "unsent", id |-> rw.id, req |-> rw.req]],
         KeyOf[rw.req] = k, rw.req \notin Junk, rw.state = "pending",
         IsFiniteSet(Creations(rw.id)), rw.tries = Cardinality(Creations(rw.id)) + 1,
         \A u \in Creations(rw.id) : post[u].req = rw.req,
         \A l \in Key : row[l] # None /\ row[l].id = rw.id => l = k,
         \/ row[k] # None /\ rw.id = row[k].id /\ rw.req = row[k].req
         \/ \A i \in Job : job[i].id # rw.id
  PROVE  /\ PostsContinue /\ RowsContinue
         /\ \A l \in Key : RecordOf(l)'
<1>1. /\ row'[k] = rw /\ rw # None /\ rw.id \in EffectId
      /\ \A l \in Key : l # k => row'[l] = row[l]
  BY RowAssumption DEF EInv, IInv, TypeOK, Row
<1>2. /\ post[t] = NoPost
      /\ post'[t].status = "unsent" /\ post'[t].id = rw.id /\ post'[t].req = rw.req
      /\ \A u \in Token : u # t => post'[u] = post[u]
  BY FreshFacts DEF EInv, IInv, TypeOK
<1>3. PostsContinue
  BY <1>2 DEF PostsContinue
<1>4. RowsContinue
  BY <1>1 DEF RowsContinue
<1>5. ASSUME NEW l \in Key, l # k PROVE RecordOf(l)'
  <2>1. CASE row'[l] = None
    BY <2>1, RecordNone
  <2>2. CASE row'[l] # None
    <3>1. RecordOf(l) /\ row'[l] = row[l] /\ row[l] # None /\ row[l].id # rw.id
      BY <1>1, <1>5, <2>2 DEF EInv
    <3>2. /\ Quarantined(row[l]) => row'[l].state = "pending" /\ row'[l].token = None
          /\ row'[l].state = "succeeded" =>
               row'[l].ext \in Token /\ Matches(row'[l].ext, row[l])
      BY <3>1 DEF RecordOf
    <3>3. \A u \in Token : post[u] = NoPost => post'[u] = NoPost \/ post'[u].id # row[l].id
      BY <1>2, <3>1
    <3>. QED BY <1>3, <3>1, <3>2, <3>3, RecordStays
  <2>. QED BY <2>1, <2>2
<1>6. RecordOf(k)'
  <2>. DEFINE C == {u \in Token : post[u].id = rw.id}
              D == {u \in Token : post'[u].id = rw.id}
  <2>1. t \notin C
    BY <1>1, <1>2, NoneAssumption DEF NoPost
  <2>2. D = C \cup {t}
    BY <1>2
  <2>3. C = Creations(rw.id)
    BY DEF Creations
  <2>4. \A u \in D : post'[u].req = rw.req
    BY <1>2 DEF Creations
  <2>5. {u \in Token : post'[u].id = row'[k].id} = D
    BY <1>1
  <2>. HIDE DEF C, D
  <2>6. IsFiniteSet(D) /\ Cardinality(D) = Cardinality(C) + 1
    BY <2>1, <2>2, <2>3, FS_AddElement
  <2>7. rw.tries = Cardinality(D)
    BY <2>3, <2>6
  <2>8. /\ IsFiniteSet({u \in Token : post'[u].id = row'[k].id})
        /\ row'[k].tries = Cardinality({u \in Token : post'[u].id = row'[k].id})
        /\ \A u \in {v \in Token : post'[v].id = row'[k].id} : post'[u].req = row'[k].req
    BY <1>1, <2>4, <2>5, <2>6, <2>7
  <2>9. /\ KeyOf[row'[k].req] = k /\ row'[k].req \notin Junk
        /\ row'[k].state # "succeeded"
    BY <1>1
  <2>. QED BY <2>8, <2>9 DEF RecordOf, Creations, Quarantined
<1>. QED BY <1>3, <1>4, <1>5, <1>6

(* A reservation inserts a row whose id no job and no post knows.          *)
LEMMA EvidenceSubmit ==
  ASSUME EInv, NEW s \in Server, NEW c \in Caller, NEW r \in Request, Submit(s, c, r)
  PROVE  (\A i \in Job : EvidenceOf(i)') /\ (\A l \in Key : RecordOf(l)')
<1>. DEFINE j == <<s, c>>
            k == KeyOf[r]
<1>. USE KeyAssumption
<1>0. j \in Job /\ k \in Key /\ TypeOK
  BY DEF Job, Lane, EInv, IInv
<1>. HIDE DEF j
<1>1. CASE ReserveJunk(j, r)
  <2>1. PICK i \in EffectId : FreshId(i) /\ row' = [row EXCEPT ![k] = NewRow(i, r, None)]
    BY <1>1 DEF ReserveJunk, SetRow
  <2>. DEFINE rw == NewRow(i, r, None)
  <2>2. /\ rw \in Row /\ rw.id = i /\ rw.state = "pending" /\ rw.token = None
        /\ rw.req = r /\ rw.tries = 0
    BY BoundAssumption DEF NewRow, Row
  <2>. HIDE DEF rw
  <2>3. /\ row'[k] = rw /\ rw # None /\ UNCHANGED <<job, post>>
        /\ \A l \in Key : l # k => row'[l] = row[l]
    BY <1>0, <1>1, <2>1, <2>2, RowAssumption DEF ReserveJunk, TypeOK, rw
  <2>4. PostsContinue
    BY <2>3, SamePosts
  <2>5. RowsContinue
    BY <2>1, <2>2, <2>3 DEF RowsContinue, FreshId
  <2>6. \A i1 \in Job : EvidenceOf(i1)'
    BY <2>3, <2>4, <2>5, EvidenceStays
  <2>7. ASSUME NEW l \in Key, l # k PROVE RecordOf(l)'
    <3>1. CASE row'[l] = None
      BY <3>1, RecordNone
    <3>2. CASE row'[l] # None
      <4>1. RecordOf(l) /\ row'[l] = row[l] /\ row[l] # None
        BY <2>3, <2>7, <3>2 DEF EInv
      <4>2. /\ Quarantined(row[l]) => row'[l].state = "pending" /\ row'[l].token = None
            /\ row'[l].state = "succeeded" =>
                 row'[l].ext \in Token /\ Matches(row'[l].ext, row[l])
        BY <4>1 DEF RecordOf
      <4>. QED BY <2>3, <2>4, <4>1, <4>2, RecordStays
    <3>. QED BY <3>1, <3>2
  <2>8. RecordOf(k)'
    <3>1. {t \in Token : post'[t].id = row'[k].id} = {}
      BY <2>1, <2>2, <2>3 DEF FreshId
    <3>2. /\ IsFiniteSet({t \in Token : post'[t].id = row'[k].id})
          /\ row'[k].tries = Cardinality({t \in Token : post'[t].id = row'[k].id})
      BY <2>2, <2>3, <3>1, FS_EmptySet
    <3>3. /\ KeyOf[row'[k].req] = k /\ row'[k].state = "pending" /\ row'[k].token = None
      BY <2>2, <2>3
    <3>. QED BY <3>1, <3>2, <3>3 DEF RecordOf, Creations, Quarantined
  <2>. QED BY <2>6, <2>7, <2>8
<1>2. CASE ReserveNew(j, r)
  <2>1. PICK i \in EffectId, t \in Token :
          /\ FreshId(i) /\ FreshToken(t)
          /\ row' = [row EXCEPT ![k] = NewRow(i, r, t)]
          /\ job' = [job EXCEPT ![j] =
                       [Idle EXCEPT !.step = "create", !.key = k, !.id = i, !.token = t]]
          /\ post' = [post EXCEPT ![t] = [status |-> "unsent", id |-> i, req |-> r]]
    BY <1>2 DEF ReserveNew, SetRow, SetJob
  <2>. DEFINE rw == NewRow(i, r, t)
              sj == [Idle EXCEPT !.step = "create", !.key = k, !.id = i, !.token = t]
  <2>2. /\ rw \in Row /\ rw.id = i /\ rw.state = "pending" /\ rw.req = r /\ rw.tries = 1
    BY BoundAssumption, NoneAssumption DEF NewRow, Row
  <2>3. /\ sj \in JobState /\ sj.step = "create" /\ sj.outcome = "none" /\ sj.token = t
    BY <1>0 DEF Idle, JobState
  <2>4. /\ \A l \in Key : row[l] # None => row[l].id # i
        /\ \A u \in Token : post[u].id # i
        /\ \A i1 \in Job : job[i1].id # i
    BY <2>1 DEF FreshId
  <2>5. row' = [row EXCEPT ![k] = rw] /\ job' = [job EXCEPT ![j] = sj]
    BY <2>1
  <2>. HIDE DEF rw, sj
  <2>6. post' = [post EXCEPT ![t] = [status |-> "unsent", id |-> rw.id, req |-> rw.req]]
    BY <2>1, <2>2
  <2>7. Creations(rw.id) = {}
    BY <2>2, <2>4 DEF Creations
  <2>8. /\ IsFiniteSet(Creations(rw.id)) /\ rw.tries = Cardinality(Creations(rw.id)) + 1
        /\ \A u \in Creations(rw.id) : post[u].req = rw.req
    BY <2>2, <2>7, FS_EmptySet
  <2>9. /\ \A l \in Key : row[l] # None /\ row[l].id = rw.id => l = k
        /\ \A i1 \in Job : job[i1].id # rw.id
    BY <2>2, <2>4
  <2>10. KeyOf[rw.req] = k /\ rw.req \notin Junk
    BY <1>2, <2>2 DEF ReserveNew
  <2>. HIDE DEF k
  <2>11. /\ PostsContinue /\ RowsContinue
         /\ \A l \in Key : RecordOf(l)'
    <3>1. FreshToken(t) /\ rw \in Row /\ rw.state = "pending" /\ k \in Key
      BY <1>0, <2>1, <2>2
    <3>2. row' = [row EXCEPT ![k] = rw]
      BY <2>5
    <3>. QED BY <2>6, <2>8, <2>9, <2>10, <3>1, <3>2, RecordsOfClaim
  <2>12. \A i1 \in Job : EvidenceOf(i1)'
    BY <1>0, <2>3, <2>5, <2>11, EvidenceOfMover
  <2>. QED BY <2>11, <2>12
<1>3. CASE ReserveExisting(j, r)
  <2>. DEFINE sj == [Idle EXCEPT !.step = FirstStep(row[k].state), !.key = k, !.id = row[k].id]
  <2>1. row[k] \in Row /\ row[k].state \in {"failed", "ambiguous"}
    BY <1>0, <1>3 DEF TypeOK, ReserveExisting
  <2>2. /\ sj \in JobState /\ sj.outcome = "none"
        /\ sj.step \notin {"create", "await", "lookup", "finish"}
    BY <1>0, <2>1 DEF Idle, JobState, FirstStep, Row
  <2>3. job' = [job EXCEPT ![j] = sj] /\ UNCHANGED <<row, post>>
    BY <1>3 DEF ReserveExisting, SetJob
  <2>. HIDE DEF sj
  <2>4. PostsContinue /\ RowsContinue /\ \A l \in Key : RecordOf(l)'
    BY <2>3, SamePosts, RecordsRest
  <2>. QED BY <1>0, <2>2, <2>3, <2>4, EvidenceOfMover
<1>. QED BY <1>1, <1>2, <1>3 DEF Submit, j

(* A job that gives up proves nothing and disturbs nothing.                *)
LEMMA EvidenceGivesUp ==
  ASSUME EInv, NEW j \in Job, job' = [job EXCEPT ![j] = Idle], UNCHANGED <<row, post>>
  PROVE  (\A i \in Job : EvidenceOf(i)') /\ (\A l \in Key : RecordOf(l)')
<1>1. Idle.outcome = "none" /\ Idle.step = "idle"
  BY DEF Idle
<1>2. PostsContinue /\ RowsContinue /\ \A l \in Key : RecordOf(l)'
  BY SamePosts, RecordsRest
<1>. QED BY <1>1, <1>2, IdleJob, EvidenceOfMover

(* A retry is one more creation of the same request.                       *)
LEMMA EvidenceClaimFailed ==
  ASSUME EInv, NEW j \in Job, ClaimFailed(j)
  PROVE  (\A i \in Job : EvidenceOf(i)') /\ (\A l \in Key : RecordOf(l)')
<1>. DEFINE k == job[j].key
            old == row[k]
<1>0. TypeOK /\ job[j] \in JobState /\ job[j].outcome = "none"
  BY DEF EInv, IInv, TypeOK, ClaimFailed, JobsKnowTheirPost
<1>1. CASE Holds(j) /\ CanClaimFailed(old)
  <2>1. /\ k \in Key /\ old \in Row /\ old # None
        /\ old.state = "failed" /\ old.tries + 1 \in 0..MaxAttempts
    BY <1>0, <1>1, HeldRow, RowAssumption, BoundAssumption DEF CanClaimFailed, Row
  <2>2. PICK t \in Token :
          /\ FreshToken(t)
          /\ row' = [row EXCEPT ![k] =
               [old EXCEPT !.state = "pending", !.tries = @ + 1, !.token = t,
                           !.stale = FALSE, !.due = TRUE, !.old = FALSE]]
          /\ job' = [job EXCEPT ![j] = Under(j, "create", t)]
          /\ post' = [post EXCEPT ![t] =
               [status |-> "unsent", id |-> old.id, req |-> old.req]]
    BY <1>1 DEF ClaimFailed, SetRow, SetJob
  <2>. DEFINE rw == [old EXCEPT !.state = "pending", !.tries = @ + 1, !.token = t,
                                !.stale = FALSE, !.due = TRUE, !.old = FALSE]
              sj == Under(j, "create", t)
  <2>3. \A n \in 0..MaxAttempts :
          LET new == [old EXCEPT !.state = "pending", !.tries = n, !.token = t,
                                 !.stale = FALSE, !.due = TRUE, !.old = FALSE]
          IN new \in Row /\ new.id = old.id /\ new.state = "pending"
             /\ new.req = old.req /\ new.tries = n
    BY <2>1 DEF Row
  <2>4. /\ rw \in Row /\ rw.id = old.id /\ rw.state = "pending" /\ rw.req = old.req
        /\ rw.tries = old.tries + 1
    BY <2>1, <2>3
  <2>5. sj \in JobState /\ sj.step = "create" /\ sj.outcome = "none" /\ sj.token = t
    BY <1>0 DEF Under, JobState
  <2>6. row' = [row EXCEPT ![k] = rw] /\ job' = [job EXCEPT ![j] = sj] /\ FreshToken(t)
    BY <2>2
  <2>. HIDE DEF rw, sj
  <2>7. post' = [post EXCEPT ![t] = [status |-> "unsent", id |-> rw.id, req |-> rw.req]]
    BY <2>2, <2>4
  <2>8. RecordOf(k)
    BY <2>1 DEF EInv
  <2>9. /\ KeyOf[rw.req] = k /\ rw.req \notin Junk
        /\ IsFiniteSet(Creations(rw.id)) /\ rw.tries = Cardinality(Creations(rw.id)) + 1
        /\ \A u \in Creations(rw.id) : post[u].req = rw.req
    BY <2>1, <2>4, <2>8 DEF RecordOf, Quarantined
  <2>10. \A l \in Key : row[l] # None /\ row[l].id = rw.id => l = k
    BY <2>1, <2>4 DEF EInv, IInv, RowsHaveOwnIds
  <2>11. row[k] # None /\ rw.id = row[k].id /\ rw.req = row[k].req
    BY <2>1, <2>4
  <2>. HIDE DEF old, k
  <2>12. /\ PostsContinue /\ RowsContinue
         /\ \A l \in Key : RecordOf(l)'
    BY <2>1, <2>4, <2>6, <2>7, <2>9, <2>10, <2>11, RecordsOfClaim
  <2>13. \A i \in Job : EvidenceOf(i)'
    BY <2>5, <2>6, <2>12, EvidenceOfMover
  <2>. QED BY <2>12, <2>13
<1>2. CASE ~ (Holds(j) /\ CanClaimFailed(old))
  BY <1>2, EvidenceGivesUp DEF ClaimFailed, SetJob
<1>. QED BY <1>1, <1>2

(* A lookup is claimed, or an abandoned creation given up: the row keeps   *)
(* its request and its count.                                              *)
LEMMA EvidenceClaimAmbiguous ==
  ASSUME EInv, NEW j \in Job, ClaimAmbiguous(j) \/ ExpirePending(j)
  PROVE  (\A i \in Job : EvidenceOf(i)') /\ (\A l \in Key : RecordOf(l)')
<1>. DEFINE k == job[j].key
            old == row[k]
<1>0. TypeOK /\ job[j] \in JobState /\ job[j].outcome = "none" /\ UNCHANGED post
  BY DEF EInv, IInv, TypeOK, ClaimAmbiguous, ExpirePending, JobsKnowTheirPost
<1>1. ASSUME NEW rw \in Row, NEW sj \in JobState, k \in Key, old # None,
             row' = [row EXCEPT ![k] = rw], job' = [job EXCEPT ![j] = sj],
             rw.id = old.id, rw.req = old.req, rw.tries = old.tries,
             rw.state = "ambiguous", ~ Quarantined(rw),
             sj.outcome = "none", sj.step \notin {"create", "await", "finish"},
             sj.step = "lookup" => sj.token \in Token
      PROVE  (\A i \in Job : EvidenceOf(i)') /\ (\A l \in Key : RecordOf(l)')
  <2>. HIDE DEF k
  <2>1. /\ PostsContinue /\ RowsContinue
        /\ \A l \in Key : RecordOf(l)'
    BY <1>0, <1>1, RecordsOfRow
  <2>. QED BY <1>1, <2>1, EvidenceOfMover
<1>2. CASE ClaimAmbiguous(j) /\ Holds(j) /\ CanClaimAmbiguous(old)
  <2>1. k \in Key /\ old \in Row /\ old # None /\ old.state = "ambiguous"
    BY <1>0, <1>2, HeldRow, RowAssumption DEF CanClaimAmbiguous
  <2>2. PICK t \in Token :
          /\ row' = [row EXCEPT ![k] =
                       [old EXCEPT !.token = t, !.stale = FALSE, !.old = FALSE]]
          /\ job' = [job EXCEPT ![j] = Under(j, "lookup", t)]
    BY <1>2 DEF ClaimAmbiguous, SetRow, SetJob
  <2>. DEFINE rw == [old EXCEPT !.token = t, !.stale = FALSE, !.old = FALSE]
              sj == Under(j, "lookup", t)
  <2>3. /\ rw \in Row /\ rw.id = old.id /\ rw.req = old.req /\ rw.tries = old.tries
        /\ rw.state = "ambiguous" /\ ~ Quarantined(rw)
    BY <1>2, <2>1 DEF Row, CanClaimAmbiguous, Quarantined
  <2>4. sj \in JobState /\ sj.step = "lookup" /\ sj.outcome = "none" /\ sj.token = t
    BY <1>0 DEF Under, JobState
  <2>5. row' = [row EXCEPT ![k] = rw] /\ job' = [job EXCEPT ![j] = sj]
    BY <2>2
  <2>. HIDE DEF rw, sj
  <2>. QED BY <1>1, <2>1, <2>3, <2>4, <2>5
<1>3. CASE ExpirePending(j) /\ Holds(j) /\ CanExpirePending(old)
  <2>1. k \in Key /\ old \in Row /\ old # None
    BY <1>0, <1>3, HeldRow, RowAssumption
  <2>. DEFINE rw == [old EXCEPT !.state = "ambiguous", !.token = None,
                                !.stale = FALSE, !.old = FALSE]
              sj == [job[j] EXCEPT !.step = "claimAmbiguous"]
  <2>2. /\ rw \in Row /\ rw.id = old.id /\ rw.req = old.req /\ rw.tries = old.tries
        /\ rw.state = "ambiguous" /\ ~ Quarantined(rw)
    BY <1>3, <2>1 DEF Row, CanExpirePending, Quarantined
  <2>3. sj \in JobState /\ sj.step = "claimAmbiguous" /\ sj.outcome = "none"
    BY <1>0 DEF JobState
  <2>4. row' = [row EXCEPT ![k] = rw] /\ job' = [job EXCEPT ![j] = sj]
    BY <1>3 DEF ExpirePending, SetRow, SetJob
  <2>. HIDE DEF rw, sj
  <2>. QED BY <1>1, <2>1, <2>2, <2>3, <2>4
<1>4. CASE \/ ClaimAmbiguous(j) /\ ~ (Holds(j) /\ CanClaimAmbiguous(old))
           \/ ExpirePending(j) /\ ~ (Holds(j) /\ CanExpirePending(old))
  BY <1>4, EvidenceGivesUp DEF ClaimAmbiguous, ExpirePending, SetJob
<1>. QED BY <1>2, <1>3, <1>4

(* The creation is refused before it is sent, or sent: the job keeps the   *)
(* token of a post of its row.                                             *)
LEMMA EvidenceCreate ==
  ASSUME EInv, NEW j \in Job, PreflightFails(j) \/ SendReview(j)
  PROVE  (\A i \in Job : EvidenceOf(i)') /\ (\A l \in Key : RecordOf(l)')
<1>0. PICK t : t = job[j].token
  OBVIOUS
<1>1. /\ t \in Token /\ post[t].status = "unsent" /\ post[t].id = job[j].id
      /\ job[j] \in JobState /\ job[j].outcome = "none" /\ UNCHANGED row /\ TypeOK
  BY <1>0 DEF EInv, IInv, TypeOK, PreflightFails, SendReview, JobsKnowTheirPost
<1>2. PICK o \in {"void", "sent"} : post' = [post EXCEPT ![t].status = o]
  BY <1>0 DEF PreflightFails, SendReview
<1>3. /\ post'[t].id = post[t].id /\ post'[t].req = post[t].req
      /\ \A u \in Token : u # t => post'[u] = post[u]
  <2>1. post[t] \in Post /\ post \in [Token -> Post]
    BY <1>1 DEF TypeOK
  <2>. DEFINE p == [post[t] EXCEPT !.status = o]
  <2>2. p.id = post[t].id /\ p.req = post[t].req
    BY <2>1 DEF Post
  <2>3. post' = [post EXCEPT ![t] = p]
    BY <1>2
  <2>. HIDE DEF p
  <2>. QED BY <1>1, <2>1, <2>2, <2>3
<1>4. post[t] # NoPost /\ PostsContinue
  BY <1>1, <1>3 DEF PostsContinue, NoPost
<1>5. RowsContinue /\ \A l \in Key : RecordOf(l)'
  <2>1. \A u \in Token : post[u] = NoPost => post'[u] = NoPost
    BY <1>3, <1>4
  <2>. QED BY <1>1, <1>4, <2>1, RecordsRest
<1>6. CASE PreflightFails(j)
  <2>. DEFINE sj == [job[j] EXCEPT !.step = "finish", !.outcome = "failed", !.ext = None]
  <2>1. sj \in JobState /\ sj.token = t /\ sj.step = "finish" /\ sj.outcome = "failed"
    BY <1>0, <1>1 DEF JobState
  <2>2. job' = [job EXCEPT ![j] = sj]
    BY <1>6 DEF PreflightFails, Decide, SetJob
  <2>. HIDE DEF sj
  <2>. QED BY <1>1, <1>4, <1>5, <2>1, <2>2, EvidenceOfMover
<1>7. CASE SendReview(j)
  <2>. DEFINE sj == [job[j] EXCEPT !.step = "await"]
  <2>1. /\ sj \in JobState /\ sj.token = t /\ sj.step = "await" /\ sj.outcome = "none"
        /\ sj.id = job[j].id
    BY <1>0, <1>1 DEF JobState
  <2>2. job' = [job EXCEPT ![j] = sj]
    BY <1>7 DEF SendReview, SetJob
  <2>. HIDE DEF sj
  <2>3. job'[j] = sj
    BY <2>2 DEF EInv, IInv, TypeOK
  <2>4. EvidenceOf(j)'
    BY <1>1, <1>3, <2>1, <2>3 DEF EvidenceOf
  <2>. QED BY <1>4, <1>5, <2>2, <2>4, EvidenceOfAll
<1>. QED BY <1>6, <1>7

(* The review the answer names is that of the job's own creation; the one  *)
(* a lookup finds matches the row it was made for.                         *)
LEMMA EvidenceAnswer ==
  ASSUME EInv, NEW j \in Job, Answer(j) \/ LookupFinds(j) \/ LookupMisses(j)
  PROVE  (\A i \in Job : EvidenceOf(i)') /\ (\A l \in Key : RecordOf(l)')
<1>0. PICK b : b = job[j]
  OBVIOUS
<1>1. /\ UNCHANGED <<row, post>> /\ TypeOK /\ b \in JobState /\ b.token \in Token
      /\ EvidenceOf(j)
  BY <1>0 DEF EInv, IInv, TypeOK, EvidenceOf, Answer, LookupFinds, LookupMisses
<1>2. PostsContinue /\ RowsContinue /\ \A l \in Key : RecordOf(l)'
  BY <1>1, SamePosts, RecordsRest
<1>3. PICK o \in {"succeeded", "failed", "ambiguous", "notFound"},
           t \in Token \cup {None} :
        /\ job' = [job EXCEPT ![j] = [b EXCEPT !.step = "finish", !.outcome = o, !.ext = t]]
        /\ o = "succeeded" =>
             \/ b.step = "await" /\ t = b.token /\ post[t].status = "created"
             \/ t \in Token /\ Matches(t, row[b.key])
  BY <1>0, <1>1 DEF Answer, LookupFinds, LookupMisses, Decide, SetJob
<1>. DEFINE sj == [b EXCEPT !.step = "finish", !.outcome = o, !.ext = t]
<1>4. /\ sj \in JobState /\ sj.step = "finish" /\ sj.outcome = o /\ sj.ext = t
      /\ sj.token = b.token /\ sj.key = b.key /\ sj.id = b.id
  BY <1>1 DEF JobState
<1>5. job' = [job EXCEPT ![j] = sj]
  BY <1>3
<1>. HIDE DEF sj
<1>6. job'[j] = sj
  BY <1>1, <1>5 DEF TypeOK
<1>7. ASSUME o = "succeeded"
      PROVE  /\ t \in Token /\ post[t].status = "created"
             /\ (b.key # None /\ row[b.key] # None /\ row[b.key].id = b.id)
                  => Matches(t, row[b.key])
  <2>1. CASE t \in Token /\ Matches(t, row[b.key])
    BY <2>1 DEF Matches
  <2>2. CASE b.step = "await" /\ t = b.token /\ post[t].status = "created"
    <3>. SUFFICES ASSUME b.key # None, row[b.key] # None, row[b.key].id = b.id
                  PROVE  Matches(t, row[b.key])
      BY <1>1, <2>2
    <3>1. b.key \in Key /\ post[t].id = b.id
      BY <1>0, <1>1, <2>2 DEF JobState, EvidenceOf
    <3>2. RecordOf(b.key) /\ t \in Creations(row[b.key].id)
      BY <1>1, <2>2, <3>1 DEF EInv, Creations
    <3>3. post[t].req = row[b.key].req
      BY <3>2 DEF RecordOf
    <3>. QED BY <2>2, <3>3 DEF Matches
  <2>. QED BY <1>3, <1>7, <2>1, <2>2
<1>8. EvidenceOf(j)'
  <2>1. /\ job'[j].step = "finish" /\ job'[j].token \in Token /\ job'[j].outcome = o
        /\ job'[j].ext = t /\ job'[j].key = b.key /\ job'[j].id = b.id
    BY <1>1, <1>4, <1>6
  <2>. QED BY <1>1, <1>7, <2>1 DEF EvidenceOf, Holds, Matches
<1>. QED BY <1>2, <1>5, <1>8, EvidenceOfAll

(* The owner of the row persists what it has seen.                         *)
LEMMA EvidenceFinish ==
  ASSUME EInv, NEW j \in Job, Finish(j)
  PROVE  (\A i \in Job : EvidenceOf(i)') /\ (\A l \in Key : RecordOf(l)')
<1>. DEFINE k == job[j].key
            old == row[k]
            o == job[j].outcome
<1>1. /\ TypeOK /\ job[j] \in JobState /\ UNCHANGED post
      /\ job' = [job EXCEPT ![j] = Idle] /\ EvidenceOf(j)
  BY DEF EInv, IInv, TypeOK, Finish, SetJob
<1>2. CASE Owned(j)
  <2>. DEFINE rw == Settled(old, o, job[j].ext)
  <2>1. k \in Key /\ old \in Row /\ old # None /\ old.token = job[j].token /\ Holds(j)
    BY <1>1, <1>2, HeldRow, RowAssumption DEF Owned
  <2>2. rw \in Row
    BY <1>1, <2>1, SettledType DEF JobState
  <2>3. /\ rw.id = old.id /\ rw.req = old.req /\ rw.tries = old.tries
        /\ rw.state = "succeeded" => o = "succeeded" /\ rw.ext = job[j].ext
    BY <2>1 DEF Settled, Row
  <2>4. row' = [row EXCEPT ![k] = rw]
    BY <1>2 DEF Finish, SetRow
  <2>5. old.token # None
    BY <1>1, <2>1, NoneAssumption DEF EvidenceOf, Finish
  <2>6. ~ Quarantined(old)
    BY <2>1, <2>5 DEF EInv, RecordOf
  <2>. HIDE DEF rw
  <2>7. ~ Quarantined(rw)
    BY <2>3, <2>6 DEF Quarantined
  <2>8. rw.state = "succeeded" => rw.ext \in Token /\ Matches(rw.ext, rw)
    BY <1>1, <2>1, <2>3 DEF EvidenceOf, Matches
  <2>9. /\ PostsContinue /\ RowsContinue
        /\ \A l \in Key : RecordOf(l)'
    BY <1>1, <2>1, <2>2, <2>3, <2>4, <2>7, <2>8, RecordsOfRow
  <2>10. Idle.outcome = "none" /\ Idle.step = "idle"
    BY DEF Idle
  <2>. QED BY <1>1, <2>9, <2>10, IdleJob, EvidenceOfMover
<1>3. CASE ~ Owned(j)
  BY <1>1, <1>3, EvidenceGivesUp DEF Finish
<1>. QED BY <1>2, <1>3

(* GitHub decides about a post: it stays the post it was.                  *)
LEMMA EvidenceGitHub ==
  ASSUME EInv, NEW t \in Token, GitHubHandles(t)
  PROVE  (\A i \in Job : EvidenceOf(i)') /\ (\A l \in Key : RecordOf(l)')
<1>1. PICK o \in {"created", "void", "lost"} : post' = [post EXCEPT ![t].status = o]
  BY DEF GitHubHandles
<1>2. post[t].status = "sent" /\ UNCHANGED <<row, job>>
  BY DEF GitHubHandles
<1>3. /\ post'[t].id = post[t].id /\ post'[t].req = post[t].req
      /\ \A u \in Token : u # t => post'[u] = post[u]
  <2>1. post[t] \in Post /\ post \in [Token -> Post]
    BY DEF EInv, IInv, TypeOK
  <2>. DEFINE p == [post[t] EXCEPT !.status = o]
  <2>2. p.id = post[t].id /\ p.req = post[t].req
    BY <2>1 DEF Post
  <2>3. post' = [post EXCEPT ![t] = p]
    BY <1>1
  <2>. HIDE DEF p
  <2>. QED BY <2>1, <2>2, <2>3
<1>4. post[t] # NoPost /\ PostsContinue
  BY <1>2, <1>3 DEF PostsContinue, NoPost
<1>5. RowsContinue /\ \A l \in Key : RecordOf(l)'
  <2>1. \A u \in Token : post[u] = NoPost => post'[u] = NoPost
    BY <1>3, <1>4
  <2>. QED BY <1>2, <1>4, <2>1, RecordsRest
<1>. QED BY <1>2, <1>4, <1>5, EvidenceStays

(* A sweep starts idle lanes, a crash idles them.                          *)
LEMMA EvidenceServer ==
  ASSUME EInv, NEW s \in Server, SweepList(s) \/ Crash(s)
  PROVE  (\A i \in Job : EvidenceOf(i)') /\ (\A l \in Key : RecordOf(l)')
<1>1. UNCHANGED <<row, post>>
  BY DEF SweepList, Crash
<1>2. PostsContinue /\ RowsContinue /\ \A l \in Key : RecordOf(l)'
  BY <1>1, SamePosts, RecordsRest
<1>3. ASSUME NEW j \in Job, job'[j] # job[j] PROVE EvidenceOf(j)'
  <2>1. CASE SweepList(s)
    <3>1. job'[j] = [Idle EXCEPT !.step = FirstStep(row[j[2]].state), !.key = j[2],
                                 !.id = row[j[2]].id]
      BY <1>3, <2>1 DEF SweepList
    <3>2. FirstStep(row[j[2]].state) \notin {"create", "await", "lookup", "finish"}
      BY DEF FirstStep
    <3>3. /\ job'[j].step \notin {"create", "await", "lookup", "finish"}
          /\ job'[j].outcome = "none"
      BY <3>1, <3>2 DEF Idle
    <3>. QED BY <3>3, EvidenceNone
  <2>2. CASE Crash(s)
    <3>1. job'[j].step = "idle" /\ job'[j].outcome = "none"
      BY <1>3, <2>2 DEF Crash, Idle
    <3>. QED BY <3>1, EvidenceNone
  <2>. QED BY <2>1, <2>2
<1>4. \A j \in Job : EvidenceOf(j)'
  BY <1>2, <1>3, EvidenceStays
<1>. QED BY <1>2, <1>4

(* Pruning deletes rows; nothing that is left changes.                     *)
LEMMA EvidencePrune ==
  ASSUME EInv, NEW s \in Server, SweepPrune(s)
  PROVE  (\A i \in Job : EvidenceOf(i)') /\ (\A l \in Key : RecordOf(l)')
<1>1. UNCHANGED <<job, post>> /\ \A k \in Key : row'[k] \in {row[k], None}
  BY DEF SweepPrune
<1>2. PostsContinue
  BY <1>1, SamePosts
<1>3. RowsContinue
  BY <1>1 DEF RowsContinue
<1>4. ASSUME NEW k \in Key PROVE RecordOf(k)'
  <2>1. CASE row'[k] = None
    BY <2>1, RecordNone
  <2>2. CASE row'[k] # None
    <3>1. RecordOf(k) /\ row'[k] = row[k] /\ row[k] # None
      BY <1>1, <2>2 DEF EInv
    <3>2. /\ Quarantined(row[k]) => row'[k].state = "pending" /\ row'[k].token = None
          /\ row'[k].state = "succeeded" =>
               row'[k].ext \in Token /\ Matches(row'[k].ext, row[k])
      BY <3>1 DEF RecordOf
    <3>. QED BY <1>1, <1>2, <3>1, <3>2, RecordStays
  <2>. QED BY <2>1, <2>2
<1>. QED BY <1>1, <1>2, <1>3, <1>4, EvidenceStays

(* The clock raises a flag.                                                *)
LEMMA EvidenceClock ==
  ASSUME EInv, NEW k \in Key, Clock(k)
  PROVE  (\A i \in Job : EvidenceOf(i)') /\ (\A l \in Key : RecordOf(l)')
<1>. DEFINE old == row[k]
<1>1. TypeOK /\ UNCHANGED <<job, post>> /\ old # None /\ old \in Row /\ RecordOf(k)
  BY DEF EInv, IInv, TypeOK, Clock, ClaimGoesStale, RetryFallsDue, RetentionEnds
<1>2. PICK rw \in {[old EXCEPT !.stale = TRUE], [old EXCEPT !.due = TRUE],
                   [old EXCEPT !.old = TRUE]} : row' = [row EXCEPT ![k] = rw]
  BY DEF Clock, ClaimGoesStale, RetryFallsDue, RetentionEnds, SetRow
<1>3. /\ rw \in Row /\ rw.id = old.id /\ rw.state = old.state /\ rw.token = old.token
      /\ rw.req = old.req /\ rw.tries = old.tries /\ rw.ext = old.ext
  BY <1>1, <1>2 DEF Row
<1>4. /\ Quarantined(rw) => rw.state = "pending" /\ rw.token = None
      /\ rw.state = "succeeded" => rw.ext \in Token /\ Matches(rw.ext, rw)
  BY <1>1, <1>3 DEF RecordOf, Quarantined, Matches
<1>5. PostsContinue /\ RowsContinue /\ \A l \in Key : RecordOf(l)'
  BY <1>1, <1>2, <1>3, <1>4, RecordsOfRow
<1>. QED BY <1>1, <1>5, EvidenceStays

(* The empty journal has nothing to show evidence of.                      *)
LEMMA EInvInit == Init => EInv
<1>. SUFFICES ASSUME Init PROVE EInv
  OBVIOUS
<1>1. IInv
  BY InvInit
<1>2. \A j \in Job : EvidenceOf(j)
  BY DEF Init, EvidenceOf, Idle
<1>3. \A k \in Key : RecordOf(k)
  BY DEF Init, RecordOf
<1>. QED BY <1>1, <1>2, <1>3 DEF EInv

(* Every step keeps the evidence.                                          *)
LEMMA EInvNext == EInv /\ [Next]_vars => EInv'
<1>. SUFFICES ASSUME EInv, [Next]_vars
              PROVE  (\A i \in Job : EvidenceOf(i)') /\ (\A l \in Key : RecordOf(l)')
  BY InvNext DEF EInv
<1>1. ASSUME NEW s \in Server, NEW c \in Caller, NEW r \in Request, Submit(s, c, r)
      PROVE  (\A i \in Job : EvidenceOf(i)') /\ (\A l \in Key : RecordOf(l)')
  BY <1>1, EvidenceSubmit
<1>2. ASSUME NEW j \in Job, Work(j)
      PROVE  (\A i \in Job : EvidenceOf(i)') /\ (\A l \in Key : RecordOf(l)')
  BY <1>2, EvidenceClaimFailed, EvidenceClaimAmbiguous, EvidenceCreate,
     EvidenceAnswer, EvidenceFinish DEF Work
<1>3. ASSUME NEW t \in Token, GitHubHandles(t)
      PROVE  (\A i \in Job : EvidenceOf(i)') /\ (\A l \in Key : RecordOf(l)')
  BY <1>3, EvidenceGitHub
<1>4. ASSUME NEW s \in Server, SweepList(s) \/ SweepPrune(s) \/ Crash(s)
      PROVE  (\A i \in Job : EvidenceOf(i)') /\ (\A l \in Key : RecordOf(l)')
  BY <1>4, EvidenceServer, EvidencePrune
<1>5. ASSUME NEW k \in Key, Clock(k)
      PROVE  (\A i \in Job : EvidenceOf(i)') /\ (\A l \in Key : RecordOf(l)')
  BY <1>5, EvidenceClock
<1>6. CASE LeaseChanges \/ UNCHANGED vars
  <2>1. UNCHANGED <<row, job, post>>
    BY <1>6 DEF LeaseChanges, vars
  <2>2. PostsContinue /\ RowsContinue /\ \A l \in Key : RecordOf(l)'
    BY <2>1, SamePosts, RecordsRest
  <2>. QED BY <2>1, <2>2, EvidenceStays
<1>. QED BY <1>1, <1>2, <1>3, <1>4, <1>5, <1>6 DEF Next

(* The evidence holds in every behaviour.                                  *)
LEMMA Evidence == Spec => []EInv
BY EInvInit, EInvNext, PTL DEF Spec

(* A succeeded row names a review that exists, carries the marker of the   *)
(* row's key and is attached to the commit the reviewer validated: whether *)
(* the answer or a lookup by another server, after a crash or a takeover,  *)
(* is what finishWithToken persisted.                                      *)
THEOREM SucceededHasReviewHolds == Spec => []SucceededHasReview
<1>1. EInv => SucceededHasReview
  BY DEF EInv, RecordOf, Matches, SucceededHasReview
<1>. QED BY <1>1, Evidence, PTL

(* attempt_count is exact, so max_attempts bounds the creations of a row.  *)
THEOREM TriesCountCreationsHolds == Spec => []TriesCountCreations
<1>1. EInv => TriesCountCreations
  BY DEF EInv, RecordOf, Creations, TriesCountCreations
<1>. QED BY <1>1, Evidence, PTL

-----------------------------------------------------------------------------
(* The steps of the system, by what they do to the journal and the posts.  *)

(* The only thing that happens to the posts is a claim for row i.          *)
OnlyClaims(i) ==
  \A t \in Token :
    \/ post'[t] = post[t]
    \/ post[t] = NoPost /\ post'[t].status = "unsent" /\ post'[t].id = i

OpenStep ==
  \E k \in Key, rw \in Row :
    /\ row[k] = None /\ FreshId(rw.id) /\ rw.state = "pending"
    /\ row' = [row EXCEPT ![k] = rw] /\ OnlyClaims(rw.id)

RetryStep ==
  \E k \in Key, rw \in Row :
    /\ row[k] # None /\ row[k].state = "failed"
    /\ rw.id = row[k].id /\ rw.state = "pending"
    /\ row' = [row EXCEPT ![k] = rw] /\ OnlyClaims(rw.id)

(* A row fails only when every creation of it is known to have had no      *)
(* effect, and succeeds only when some review exists.                      *)
MoveStep ==
  \E k \in Key, rw \in Row :
    /\ row[k] # None /\ rw.id = row[k].id
    /\ row' = [row EXCEPT ![k] = rw] /\ UNCHANGED post
    /\ \/ rw.state = row[k].state
       \/ row[k].state = "pending" /\ rw.state = "ambiguous"
       \/ /\ row[k].state = "pending" /\ rw.state = "failed"
          /\ \A t \in Creations(rw.id) : ~ Alive(t)
       \/ /\ row[k].state \in {"pending", "ambiguous"} /\ rw.state = "succeeded"
          /\ \E t \in Token : post[t].status = "created"

PostStep ==
  /\ UNCHANGED row
  /\ \E t \in Token, o \in {"sent", "created", "void", "lost"} :
       /\ post[t].status \in {"unsent", "sent"}
       /\ o = "created" => post[t].status = "sent"
       /\ post' = [post EXCEPT ![t].status = o]

ForgetStep ==
  /\ UNCHANGED post
  /\ \A k \in Key : \/ row'[k] = row[k]
                    \/ row[k] # None /\ row'[k] = None /\ row[k].state # "ambiguous"

(* A review verdict opens an effect, or resumes one.                       *)
LEMMA ShapeSubmit ==
  ASSUME EInv, NEW s \in Server, NEW c \in Caller, NEW r \in Request, Submit(s, c, r)
  PROVE  OpenStep \/ UNCHANGED <<row, post>>
<1>. DEFINE j == <<s, c>>
            k == KeyOf[r]
<1>0. k \in Key
  BY KeyAssumption
<1>. HIDE DEF j
<1>1. CASE ReserveJunk(j, r)
  <2>1. PICK i \in EffectId : FreshId(i) /\ row' = [row EXCEPT ![k] = NewRow(i, r, None)]
    BY <1>1 DEF ReserveJunk, SetRow
  <2>. DEFINE rw == NewRow(i, r, None)
  <2>2. rw \in Row /\ rw.id = i /\ rw.state = "pending"
    BY BoundAssumption DEF NewRow, Row
  <2>3. row[k] = None /\ UNCHANGED post
    BY <1>1 DEF ReserveJunk
  <2>4. row' = [row EXCEPT ![k] = rw] /\ FreshId(rw.id)
    BY <2>1, <2>2
  <2>5. OnlyClaims(rw.id)
    BY <2>3 DEF OnlyClaims
  <2>. HIDE DEF rw, k
  <2>. QED BY <1>0, <2>2, <2>3, <2>4, <2>5 DEF OpenStep
<1>2. CASE ReserveNew(j, r)
  <2>1. PICK i \in EffectId, t \in Token :
          /\ FreshId(i) /\ FreshToken(t)
          /\ row' = [row EXCEPT ![k] = NewRow(i, r, t)]
          /\ post' = [post EXCEPT ![t] = [status |-> "unsent", id |-> i, req |-> r]]
    BY <1>2 DEF ReserveNew, SetRow
  <2>. DEFINE rw == NewRow(i, r, t)
  <2>2. rw \in Row /\ rw.id = i /\ rw.state = "pending"
    BY BoundAssumption DEF NewRow, Row
  <2>3. row[k] = None
    BY <1>2 DEF ReserveNew
  <2>4. row' = [row EXCEPT ![k] = rw] /\ FreshId(rw.id)
    BY <2>1, <2>2
  <2>5. OnlyClaims(rw.id)
    BY <2>1, <2>2, FreshFacts DEF OnlyClaims, EInv, IInv, TypeOK
  <2>. HIDE DEF rw, k
  <2>. QED BY <1>0, <2>2, <2>3, <2>4, <2>5 DEF OpenStep
<1>3. CASE ReserveExisting(j, r)
  BY <1>3 DEF ReserveExisting
<1>. QED BY <1>1, <1>2, <1>3 DEF Submit, j

(* What the owner of a row persists when it finishes.                      *)
LEMMA ShapeFinish ==
  ASSUME EInv, NEW j \in Job, Finish(j), Owned(j)
  PROVE  MoveStep
<1>. DEFINE k == job[j].key
            old == row[k]
            o == job[j].outcome
            t == job[j].token
            rw == Settled(old, o, job[j].ext)
<1>1. /\ TypeOK /\ job[j] \in JobState /\ UNCHANGED post /\ EvidenceOf(j) /\ t \in Token
  BY DEF EInv, IInv, TypeOK, Finish, EvidenceOf
<1>2. /\ k \in Key /\ old \in Row /\ old # None /\ old.token = t /\ Holds(j)
  BY <1>1, HeldRow, RowAssumption DEF Owned
<1>3. old.token # None
  BY <1>1, <1>2, NoneAssumption
<1>4. old.state \in {"pending", "ambiguous"}
  BY <1>2, <1>3 DEF EInv, IInv, RowsKnowTheirPosts, Row
<1>5. /\ rw \in Row
      /\ rw.id = old.id
      /\ \/ rw.state = "succeeded" /\ o = "succeeded"
         \/ rw.state = "failed" /\ o = "failed"
         \/ rw.state = "ambiguous"
  <2>1. rw \in Row
    BY <1>1, <1>2, SettledType DEF JobState
  <2>2. /\ rw.id = old.id
        /\ \/ rw.state = "succeeded" /\ o = "succeeded"
           \/ rw.state = "failed" /\ o = "failed"
           \/ rw.state = "ambiguous"
    BY <1>2 DEF Settled, Row
  <2>. QED BY <2>1, <2>2
<1>6. row' = [row EXCEPT ![k] = rw]
  BY DEF Finish, SetRow
<1>7. o = "failed" => old.state = "pending" /\ \A u \in Creations(old.id) : ~ Alive(u)
  <2>. SUFFICES ASSUME o = "failed"
                PROVE  old.state = "pending" /\ \A u \in Creations(old.id) : ~ Alive(u)
    OBVIOUS
  <2>1. post[t].status = "void"
    BY DEF EInv, IInv, JobsKnowTheirPost
  <2>2. ~ Alive(t) /\ post[t] # NoPost
    BY <2>1 DEF Alive, NoPost
  <2>3. old.state = "pending"
    BY <1>2, <1>3, <1>4, <2>2 DEF EInv, IInv, RowsKnowTheirPosts
  <2>4. \A u \in Token : post[u].id = old.id /\ Alive(u) => u = t
    BY <1>2, <2>3 DEF EInv, IInv, RowsKnowTheirPosts
  <2>. QED BY <2>2, <2>3, <2>4 DEF Creations
<1>8. o = "succeeded" => \E u \in Token : post[u].status = "created"
  BY <1>1 DEF EvidenceOf
<1>. HIDE DEF rw, o, t
<1>9. \/ rw.state = old.state
      \/ old.state = "pending" /\ rw.state = "ambiguous"
      \/ /\ old.state = "pending" /\ rw.state = "failed"
         /\ \A u \in Creations(rw.id) : ~ Alive(u)
      \/ /\ old.state \in {"pending", "ambiguous"} /\ rw.state = "succeeded"
         /\ \E u \in Token : post[u].status = "created"
  BY <1>4, <1>5, <1>7, <1>8
<1>. HIDE DEF k
<1>. QED BY <1>1, <1>2, <1>5, <1>6, <1>9 DEF MoveStep

(* What a broker call does.                                                *)
LEMMA ShapeWork ==
  ASSUME EInv, NEW j \in Job, Work(j)
  PROVE  RetryStep \/ MoveStep \/ PostStep \/ UNCHANGED <<row, post>>
<1>. DEFINE k == job[j].key
            old == row[k]
<1>0. TypeOK /\ job[j] \in JobState
  BY DEF EInv, IInv, TypeOK
<1>1. CASE ClaimFailed(j)
  <2>1. CASE Holds(j) /\ CanClaimFailed(old)
    <3>1. /\ k \in Key /\ old \in Row /\ old # None
          /\ old.state = "failed" /\ old.tries + 1 \in 0..MaxAttempts
      BY <1>0, <2>1, HeldRow, RowAssumption, BoundAssumption DEF CanClaimFailed, Row
    <3>2. PICK t \in Token :
            /\ FreshToken(t)
            /\ row' = [row EXCEPT ![k] =
                 [old EXCEPT !.state = "pending", !.tries = @ + 1, !.token = t,
                             !.stale = FALSE, !.due = TRUE, !.old = FALSE]]
            /\ post' = [post EXCEPT ![t] =
                 [status |-> "unsent", id |-> old.id, req |-> old.req]]
      BY <1>1, <2>1 DEF ClaimFailed, SetRow
    <3>. DEFINE rw == [old EXCEPT !.state = "pending", !.tries = @ + 1, !.token = t,
                                  !.stale = FALSE, !.due = TRUE, !.old = FALSE]
    <3>3. \A n \in 0..MaxAttempts :
            LET new == [old EXCEPT !.state = "pending", !.tries = n, !.token = t,
                                   !.stale = FALSE, !.due = TRUE, !.old = FALSE]
            IN new \in Row /\ new.id = old.id /\ new.state = "pending"
      BY <3>1 DEF Row
    <3>4. rw \in Row /\ rw.id = old.id /\ rw.state = "pending"
      BY <3>1, <3>3
    <3>5. row' = [row EXCEPT ![k] = rw]
      BY <3>2
    <3>. HIDE DEF rw
    <3>6. OnlyClaims(rw.id)
      BY <1>0, <3>2, <3>4, FreshFacts DEF OnlyClaims, TypeOK
    <3>. HIDE DEF k
    <3>7. RetryStep
      BY <3>1, <3>4, <3>5, <3>6 DEF RetryStep
    <3>. QED BY <3>7
  <2>2. CASE ~ (Holds(j) /\ CanClaimFailed(old))
    BY <1>1, <2>2 DEF ClaimFailed
  <2>. QED BY <2>1, <2>2
<1>2. CASE ClaimAmbiguous(j)
  <2>1. CASE Holds(j) /\ CanClaimAmbiguous(old)
    <3>1. k \in Key /\ old \in Row /\ old # None
      BY <1>0, <2>1, HeldRow, RowAssumption
    <3>2. PICK t \in Token :
            row' = [row EXCEPT ![k] = [old EXCEPT !.token = t, !.stale = FALSE, !.old = FALSE]]
      BY <1>2, <2>1 DEF ClaimAmbiguous, SetRow
    <3>. DEFINE rw == [old EXCEPT !.token = t, !.stale = FALSE, !.old = FALSE]
    <3>3. rw \in Row /\ rw.id = old.id /\ rw.state = old.state
      BY <3>1 DEF Row
    <3>4. row' = [row EXCEPT ![k] = rw] /\ UNCHANGED post
      BY <1>2, <3>2 DEF ClaimAmbiguous
    <3>. HIDE DEF rw, k
    <3>. QED BY <3>1, <3>3, <3>4 DEF MoveStep
  <2>2. CASE ~ (Holds(j) /\ CanClaimAmbiguous(old))
    BY <1>2, <2>2 DEF ClaimAmbiguous
  <2>. QED BY <2>1, <2>2
<1>3. CASE ExpirePending(j)
  <2>1. CASE Holds(j) /\ CanExpirePending(old)
    <3>1. k \in Key /\ old \in Row /\ old # None /\ old.state = "pending"
      BY <1>0, <2>1, HeldRow, RowAssumption DEF CanExpirePending
    <3>. DEFINE rw == [old EXCEPT !.state = "ambiguous", !.token = None,
                                  !.stale = FALSE, !.old = FALSE]
    <3>2. rw \in Row /\ rw.id = old.id /\ rw.state = "ambiguous"
      BY <3>1 DEF Row
    <3>3. row' = [row EXCEPT ![k] = rw] /\ UNCHANGED post
      BY <1>3, <2>1 DEF ExpirePending, SetRow
    <3>. HIDE DEF rw, k
    <3>. QED BY <3>1, <3>2, <3>3 DEF MoveStep
  <2>2. CASE ~ (Holds(j) /\ CanExpirePending(old))
    BY <1>3, <2>2 DEF ExpirePending
  <2>. QED BY <2>1, <2>2
<1>4. CASE PreflightFails(j) \/ SendReview(j)
  <2>1. job[j].token \in Token /\ post[job[j].token].status = "unsent"
    BY <1>4 DEF EInv, IInv, JobsKnowTheirPost, PreflightFails, SendReview
  <2>. QED BY <1>4, <2>1 DEF PreflightFails, SendReview, PostStep
<1>5. CASE Answer(j) \/ LookupFinds(j) \/ LookupMisses(j)
  BY <1>5 DEF Answer, LookupFinds, LookupMisses
<1>6. CASE Finish(j)
  <2>1. CASE Owned(j)
    BY <1>6, <2>1, ShapeFinish
  <2>2. CASE ~ Owned(j)
    BY <1>6, <2>2 DEF Finish
  <2>. QED BY <2>1, <2>2
<1>. QED BY <1>1, <1>2, <1>3, <1>4, <1>5, <1>6 DEF Work

(* Every step has one of these shapes.                                     *)
LEMMA Shapes ==
  ASSUME EInv, [Next]_vars
  PROVE  \/ OpenStep \/ RetryStep \/ MoveStep \/ PostStep \/ ForgetStep
         \/ UNCHANGED <<row, post>>
<1>1. ASSUME NEW t \in Token, GitHubHandles(t)
      PROVE  PostStep
  BY <1>1 DEF GitHubHandles, PostStep
<1>2. ASSUME NEW s \in Server, SweepPrune(s)
      PROVE  ForgetStep
  <2>1. UNCHANGED post /\ row' = [k \in Key |-> IF row[k] # None /\ Prunable(row[k])
                                                THEN None ELSE row[k]]
    BY <1>2 DEF SweepPrune
  <2>2. ASSUME NEW k \in Key, row[k] # None, Prunable(row[k])
        PROVE  row[k].state # "ambiguous"
    BY <2>2 DEF Prunable, Closed, EInv, RecordOf
  <2>. QED BY <2>1, <2>2 DEF ForgetStep
<1>3. ASSUME NEW s \in Server, SweepList(s) \/ Crash(s)
      PROVE  UNCHANGED <<row, post>>
  BY <1>3 DEF SweepList, Crash
<1>4. ASSUME NEW k \in Key, Clock(k)
      PROVE  MoveStep
  <2>. DEFINE old == row[k]
  <2>1. TypeOK /\ UNCHANGED post /\ old # None /\ old \in Row
    BY <1>4 DEF EInv, IInv, TypeOK, Clock, ClaimGoesStale, RetryFallsDue, RetentionEnds
  <2>2. PICK rw \in {[old EXCEPT !.stale = TRUE], [old EXCEPT !.due = TRUE],
                     [old EXCEPT !.old = TRUE]} : row' = [row EXCEPT ![k] = rw]
    BY <1>4 DEF Clock, ClaimGoesStale, RetryFallsDue, RetentionEnds, SetRow
  <2>3. rw \in Row /\ rw.id = old.id /\ rw.state = old.state
    BY <2>1, <2>2 DEF Row
  <2>. QED BY <2>1, <2>2, <2>3 DEF MoveStep
<1>5. CASE LeaseChanges \/ UNCHANGED vars
  BY <1>5 DEF LeaseChanges, vars
<1>6. ASSUME NEW s \in Server, NEW c \in Caller, NEW r \in Request, Submit(s, c, r)
      PROVE  OpenStep \/ UNCHANGED <<row, post>>
  BY <1>6, ShapeSubmit
<1>7. ASSUME NEW j \in Job, Work(j)
      PROVE  RetryStep \/ MoveStep \/ PostStep \/ UNCHANGED <<row, post>>
  BY <1>7, ShapeWork
<1>. QED BY <1>1, <1>2, <1>3, <1>4, <1>5, <1>6, <1>7 DEF Next

-----------------------------------------------------------------------------
(* An uncertain row is only looked up.                                     *)

(* An ambiguous row is neither recreated, failed nor pruned, and no        *)
(* creation is claimed for it: only a review ends its uncertainty.         *)
THEOREM AmbiguousOnlyLooksUpHolds == Spec => AmbiguousOnlyLooksUp
<1>. DEFINE Step ==
       \A k \in Key : (row[k] # None /\ row[k].state = "ambiguous" /\ ~ Quarantined(row[k])) =>
         /\ row'[k] # None /\ row'[k].id = row[k].id
         /\ row'[k].state \in {"ambiguous", "succeeded"}
         /\ \A t \in Token : post[t].status = "none" /\ post'[t].status # "none"
                               => post'[t].id # row[k].id
<1>1. EInv /\ [Next]_vars => Step
  <2>. SUFFICES ASSUME EInv, [Next]_vars,
                       NEW k \in Key, row[k] # None, row[k].state = "ambiguous"
                PROVE  /\ row'[k] # None /\ row'[k].id = row[k].id
                       /\ row'[k].state \in {"ambiguous", "succeeded"}
                       /\ \A t \in Token : post[t].status = "none" /\ post'[t].status # "none"
                                             => post'[t].id # row[k].id
    OBVIOUS
  <2>0. TypeOK
    BY DEF EInv, IInv
  <2>1. CASE OpenStep
    <3>1. PICK l \in Key, rw \in Row :
            /\ row[l] = None /\ FreshId(rw.id)
            /\ row' = [row EXCEPT ![l] = rw] /\ OnlyClaims(rw.id)
      BY <2>1 DEF OpenStep
    <3>2. row'[k] = row[k] /\ row[k].id # rw.id
      BY <2>0, <3>1 DEF TypeOK, FreshId
    <3>. QED BY <3>1, <3>2 DEF OnlyClaims
  <2>2. CASE RetryStep
    <3>1. PICK l \in Key, rw \in Row :
            /\ row[l] # None /\ row[l].state = "failed" /\ rw.id = row[l].id
            /\ row' = [row EXCEPT ![l] = rw] /\ OnlyClaims(rw.id)
      BY <2>2 DEF RetryStep
    <3>2. row'[k] = row[k] /\ row[k].id # rw.id
      BY <2>0, <3>1 DEF TypeOK, EInv, IInv, RowsHaveOwnIds
    <3>. QED BY <3>1, <3>2 DEF OnlyClaims
  <2>3. CASE MoveStep
    <3>1. PICK l \in Key, rw \in Row :
            /\ row[l] # None /\ rw.id = row[l].id
            /\ row' = [row EXCEPT ![l] = rw] /\ UNCHANGED post
            /\ row[l].state = "ambiguous" => rw.state \in {"ambiguous", "succeeded"}
      BY <2>3 DEF MoveStep
    <3>. QED BY <2>0, <3>1, RowAssumption DEF TypeOK
  <2>4. CASE PostStep
    <3>1. UNCHANGED row
      BY <2>4 DEF PostStep
    <3>2. ASSUME NEW t \in Token, post[t].status = "none" PROVE post'[t].status = "none"
      BY <2>4, <3>2 DEF PostStep
    <3>. QED BY <3>1, <3>2
  <2>5. CASE ForgetStep
    BY <2>5 DEF ForgetStep
  <2>6. CASE UNCHANGED <<row, post>>
    BY <2>6
  <2>. QED BY <2>1, <2>2, <2>3, <2>4, <2>5, <2>6, Shapes
<1>2. EInv /\ [Next]_vars => [Step]_vars
  BY <1>1
<1>. QED BY <1>2, Evidence, PTL DEF Spec, AmbiguousOnlyLooksUp

-----------------------------------------------------------------------------
(* The journal implements its promise, ReviewEffect.                       *)

(* What the journal r says of each row id, and the reviews of each: the    *)
(* values that the refinement gives to the variables of ReviewEffect.      *)
JournalIn(r) ==
  [i \in EffectId |->
     IF \E k \in Key : r[k] # None /\ r[k].id = i
     THEN (CHOOSE rw \in {r[k] : k \in Key} : rw # None /\ rw.id = i).state
     ELSE "absent"]

ReviewsIn(p) == [i \in EffectId |-> {t \in Token : p[t].id = i /\ p[t].status = "created"}]

(* The actions of ReviewEffect, under the refinement.                      *)
LEMMA PromiseInit ==
  Promise!Init <=> /\ JournalIn(row) = [i \in EffectId |-> "absent"]
                   /\ ReviewsIn(post) = [i \in EffectId |-> {}]
BY DEF Promise!Init, JournalIn, ReviewsIn

(* A move of one effect of the promise, in terms of the mapped state.      *)
LEMMA PromiseMoves ==
  ASSUME NEW e, NEW from, NEW to
  PROVE  Promise!Moves(e, from, to) <=>
           /\ JournalIn(row)[e] = from
           /\ JournalIn(row') = [JournalIn(row) EXCEPT ![e] = to]
           /\ ReviewsIn(post') = ReviewsIn(post)
BY DEF Promise!Moves, JournalIn, ReviewsIn

(* The promise opens an effect that has no review.                         *)
LEMMA PromiseOpen ==
  ASSUME NEW e
  PROVE  Promise!Open(e) <=> ReviewsIn(post)[e] = {} /\ Promise!Moves(e, "absent", "pending")
BY DEF Promise!Open, JournalIn, ReviewsIn

(* The promise fails an effect that has no review.                         *)
LEMMA PromiseFail ==
  ASSUME NEW e
  PROVE  Promise!Fail(e) <=> ReviewsIn(post)[e] = {} /\ Promise!Moves(e, "pending", "failed")
BY DEF Promise!Fail, JournalIn, ReviewsIn

(* The promise's success needs a review that was published.                *)
LEMMA PromiseSucceed ==
  ASSUME NEW e
  PROVE  Promise!Succeed(e) <=>
           /\ \E f \in EffectId : ReviewsIn(post)[f] # {}
           /\ \/ Promise!Moves(e, "pending", "succeeded")
              \/ Promise!Moves(e, "ambiguous", "succeeded")
BY DEF Promise!Succeed, JournalIn, ReviewsIn

(* The promise publishes a review of an effect that has none and has not   *)
(* failed.                                                                 *)
LEMMA PromisePublish ==
  ASSUME NEW e, NEW r
  PROVE  Promise!Publish(e, r) <=>
           /\ ReviewsIn(post)[e] = {} /\ JournalIn(row)[e] # "failed"
           /\ ReviewsIn(post') = [ReviewsIn(post) EXCEPT ![e] = {r}]
           /\ JournalIn(row') = JournalIn(row)
BY DEF Promise!Publish, JournalIn, ReviewsIn

(* The promise forgets any effects but ambiguous ones.                     *)
LEMMA PromiseForget ==
  Promise!Forget <=>
    /\ \E E \in SUBSET {e \in EffectId : JournalIn(row)[e] # "ambiguous"} :
         JournalIn(row') = [e \in EffectId |-> IF e \in E THEN "absent" ELSE JournalIn(row)[e]]
    /\ ReviewsIn(post') = ReviewsIn(post)
BY DEF Promise!Forget, JournalIn, ReviewsIn

(* The promise sees nothing of a step that keeps the mapped state.         *)
LEMMA PromiseStutters ==
  JournalIn(row') = JournalIn(row) /\ ReviewsIn(post') = ReviewsIn(post)
    => UNCHANGED Promise!vars
BY DEF Promise!vars, JournalIn, ReviewsIn

(* Rows with ids of their own are each found under their id.               *)
LEMMA JournalAt ==
  ASSUME NEW r, NEW i \in EffectId,
         \A k, l \in Key : r[k] # None /\ r[l] # None /\ r[k].id = r[l].id => k = l
  PROVE  /\ \A k \in Key : r[k] # None /\ r[k].id = i => JournalIn(r)[i] = r[k].state
         /\ (\A k \in Key : r[k] # None => r[k].id # i) => JournalIn(r)[i] = "absent"
<1>1. ASSUME NEW k \in Key, r[k] # None, r[k].id = i
      PROVE  JournalIn(r)[i] = r[k].state
  <2>. DEFINE Found(rw) == rw # None /\ rw.id = i
              found == CHOOSE rw \in {r[l] : l \in Key} : Found(rw)
  <2>1. r[k] \in {r[l] : l \in Key} /\ Found(r[k])
    BY <1>1
  <2>2. \A rw \in {r[l] : l \in Key} : Found(rw) => rw = r[k]
    BY <1>1
  <2>3. found = r[k]
    <3>. HIDE DEF Found
    <3>1. found \in {r[l] : l \in Key} /\ Found(found)
      BY <2>1
    <3>. HIDE DEF found
    <3>. QED BY <2>2, <3>1
  <2>4. JournalIn(r)[i] = found.state
    BY <1>1 DEF JournalIn
  <2>. HIDE DEF found
  <2>. QED BY <2>3, <2>4
<1>2. ASSUME \A k \in Key : r[k] # None => r[k].id # i
      PROVE  JournalIn(r)[i] = "absent"
  BY <1>2 DEF JournalIn
<1>. QED BY <1>1, <1>2

(* A row that is inserted or changed under its id changes the journal      *)
(* there alone.                                                            *)
LEMMA JournalUpdate ==
  ASSUME NEW r \in [Key -> Row \cup {None}], NEW k \in Key, NEW rw \in Row,
         \A l, m \in Key : r[l] # None /\ r[m] # None /\ r[l].id = r[m].id => l = m,
         \/ r[k] = None /\ \A l \in Key : r[l] # None => r[l].id # rw.id
         \/ r[k] # None /\ r[k].id = rw.id
  PROVE  JournalIn([r EXCEPT ![k] = rw]) = [JournalIn(r) EXCEPT ![rw.id] = rw.state]
<1>. DEFINE q == [r EXCEPT ![k] = rw]
<1>1. /\ q[k] = rw /\ rw # None /\ rw.id \in EffectId
      /\ \A l \in Key : l # k => q[l] = r[l]
  BY RowAssumption DEF Row
<1>. HIDE DEF q
<1>2. \A l, m \in Key : q[l] # None /\ q[m] # None /\ q[l].id = q[m].id => l = m
  BY <1>1
<1>3. JournalIn(q)[rw.id] = rw.state
  BY <1>1, <1>2, JournalAt
<1>4. ASSUME NEW i \in EffectId, i # rw.id
      PROVE  JournalIn(q)[i] = JournalIn(r)[i]
  <2>1. CASE \E l \in Key : r[l] # None /\ r[l].id = i
    <3>1. PICK l \in Key : r[l] # None /\ r[l].id = i
      BY <2>1
    <3>2. l # k /\ q[l] = r[l]
      BY <1>1, <1>4, <3>1
    <3>3. JournalIn(q)[i] = q[l].state /\ JournalIn(r)[i] = r[l].state
      BY <1>2, <3>1, <3>2, JournalAt
    <3>. QED BY <3>2, <3>3
  <2>2. CASE \A l \in Key : r[l] # None => r[l].id # i
    <3>1. \A l \in Key : q[l] # None => q[l].id # i
      BY <1>1, <1>4, <2>2
    <3>. QED BY <1>2, <2>2, <3>1, JournalAt
  <2>. QED BY <2>1, <2>2
<1>5. /\ JournalIn(q) = [i \in EffectId |-> JournalIn(q)[i]]
      /\ JournalIn(r) = [i \in EffectId |-> JournalIn(r)[i]]
  BY DEF JournalIn
<1>6. JournalIn(q) = [JournalIn(r) EXCEPT ![rw.id] = rw.state]
  BY <1>1, <1>3, <1>4, <1>5
<1>. QED BY <1>6 DEF q

(* Claims and posts that are not created leave the reviews as they were.   *)
LEMMA ReviewsSame ==
  ASSUME NEW p, NEW q,
         \A t \in Token :
           \/ q[t].id = p[t].id /\ (q[t].status = "created" <=> p[t].status = "created")
           \/ q[t].status # "created" /\ p[t].status # "created"
  PROVE  ReviewsIn(q) = ReviewsIn(p)
<1>1. \A i \in EffectId : {t \in Token : q[t].id = i /\ q[t].status = "created"}
                          = {t \in Token : p[t].id = i /\ p[t].status = "created"}
  OBVIOUS
<1>. QED BY <1>1 DEF ReviewsIn

(* Every step of the journal is a step of its promise, or changes nothing  *)
(* the promise speaks of.                                                  *)
LEMMA PromiseNext ==
  ASSUME EInv, EInv', [Next]_vars
  PROVE  [Promise!Next]_(Promise!vars)
<1>0. /\ row \in [Key -> Row \cup {None}] /\ post \in [Token -> Post]
      /\ \A k, l \in Key : row[k] # None /\ row[l] # None /\ row[k].id = row[l].id => k = l
      /\ \A k, l \in Key : row'[k] # None /\ row'[l] # None /\ row'[k].id = row'[l].id => k = l
  BY DEF EInv, IInv, TypeOK, RowsHaveOwnIds
<1>00. PICK r0, r1, p0, p1 : r0 = row /\ r1 = row' /\ p0 = post /\ p1 = post'
  OBVIOUS
<1>01. /\ r0 \in [Key -> Row \cup {None}]
       /\ \A k, l \in Key : r0[k] # None /\ r0[l] # None /\ r0[k].id = r0[l].id => k = l
  BY <1>0, <1>00
<1>1. ASSUME NEW i, OnlyClaims(i) PROVE ReviewsIn(post') = ReviewsIn(post)
  <2>1. \A t \in Token :
          \/ p1[t].id = p0[t].id /\ (p1[t].status = "created" <=> p0[t].status = "created")
          \/ p1[t].status # "created" /\ p0[t].status # "created"
    BY <1>1, <1>00 DEF OnlyClaims, NoPost
  <2>. QED BY <2>1, <1>00, ReviewsSame
<1>2. ASSUME NEW k \in Key, NEW rw \in Row, row' = [row EXCEPT ![k] = rw],
             \/ row[k] = None /\ FreshId(rw.id)
             \/ row[k] # None /\ rw.id = row[k].id
      PROVE  /\ rw.id \in EffectId
             /\ JournalIn(row)[rw.id] = IF row[k] = None THEN "absent" ELSE row[k].state
             /\ JournalIn(row') = [JournalIn(row) EXCEPT ![rw.id] = rw.state]
  <2>1. rw.id \in EffectId
    BY DEF Row
  <2>2. \/ r0[k] = None /\ \A l \in Key : r0[l] # None => r0[l].id # rw.id
        \/ r0[k] # None /\ r0[k].id = rw.id
    BY <1>2, <1>00 DEF FreshId
  <2>3. JournalIn([r0 EXCEPT ![k] = rw]) = [JournalIn(r0) EXCEPT ![rw.id] = rw.state]
    BY <1>01, <2>2, JournalUpdate
  <2>4. JournalIn(r0)[rw.id] = IF r0[k] = None THEN "absent" ELSE r0[k].state
    BY <1>0, <1>00, <2>1, <2>2, JournalAt
  <2>5. r1 = [r0 EXCEPT ![k] = rw]
    BY <1>2, <1>00
  <2>. QED BY <1>00, <2>1, <2>3, <2>4, <2>5
<1>3. CASE OpenStep
  <2>1. PICK k \in Key, rw \in Row :
          /\ row[k] = None /\ FreshId(rw.id) /\ rw.state = "pending"
          /\ row' = [row EXCEPT ![k] = rw] /\ OnlyClaims(rw.id)
    BY <1>3 DEF OpenStep
  <2>2. /\ rw.id \in EffectId /\ JournalIn(row)[rw.id] = "absent"
        /\ JournalIn(row') = [JournalIn(row) EXCEPT ![rw.id] = "pending"]
        /\ ReviewsIn(post') = ReviewsIn(post)
    BY <1>1, <1>2, <2>1
  <2>3. ReviewsIn(post)[rw.id] = {}
    BY <2>1, <2>2 DEF FreshId, ReviewsIn
  <2>4. Promise!Open(rw.id)
    BY <2>2, <2>3, PromiseMoves, PromiseOpen
  <2>. QED BY <2>2, <2>4 DEF Promise!Next
<1>4. CASE RetryStep
  <2>1. PICK k \in Key, rw \in Row :
          /\ row[k] # None /\ row[k].state = "failed" /\ rw.id = row[k].id
          /\ rw.state = "pending"
          /\ row' = [row EXCEPT ![k] = rw] /\ OnlyClaims(rw.id)
    BY <1>4 DEF RetryStep
  <2>2. /\ rw.id \in EffectId /\ JournalIn(row)[rw.id] = "failed"
        /\ JournalIn(row') = [JournalIn(row) EXCEPT ![rw.id] = "pending"]
        /\ ReviewsIn(post') = ReviewsIn(post)
    BY <1>1, <1>2, <2>1
  <2>3. Promise!Moves(rw.id, "failed", "pending")
    BY <2>2, PromiseMoves
  <2>4. Promise!Retry(rw.id)
    BY <2>3 DEF Promise!Retry
  <2>. QED BY <2>2, <2>4 DEF Promise!Next
<1>5. CASE MoveStep
  <2>1. PICK k \in Key, rw \in Row :
          /\ row[k] # None /\ rw.id = row[k].id
          /\ row' = [row EXCEPT ![k] = rw] /\ UNCHANGED post
          /\ \/ rw.state = row[k].state
             \/ row[k].state = "pending" /\ rw.state = "ambiguous"
             \/ /\ row[k].state = "pending" /\ rw.state = "failed"
                /\ \A t \in Creations(rw.id) : ~ Alive(t)
             \/ /\ row[k].state \in {"pending", "ambiguous"} /\ rw.state = "succeeded"
                /\ \E t \in Token : post[t].status = "created"
    BY <1>5 DEF MoveStep
  <2>2. /\ rw.id \in EffectId /\ JournalIn(row)[rw.id] = row[k].state
        /\ JournalIn(row') = [JournalIn(row) EXCEPT ![rw.id] = rw.state]
        /\ ReviewsIn(post') = ReviewsIn(post)
    BY <1>2, <2>1
  <2>3. CASE rw.state = row[k].state
    <3>1. JournalIn(row') = JournalIn(row)
      BY <2>2, <2>3 DEF JournalIn
    <3>. QED BY <2>2, <3>1, PromiseStutters
  <2>4. CASE row[k].state = "pending" /\ rw.state = "ambiguous"
    <3>1. Promise!Moves(rw.id, "pending", "ambiguous")
      BY <2>2, <2>4, PromiseMoves
    <3>2. Promise!LoseTrack(rw.id)
      BY <3>1 DEF Promise!LoseTrack
    <3>. QED BY <2>2, <3>2 DEF Promise!Next
  <2>5. CASE /\ row[k].state = "pending" /\ rw.state = "failed"
             /\ \A t \in Creations(rw.id) : ~ Alive(t)
    <3>1. ReviewsIn(post)[rw.id] = {}
      BY <2>2, <2>5 DEF ReviewsIn, Creations, Alive
    <3>2. Promise!Moves(rw.id, "pending", "failed")
      BY <2>2, <2>5, PromiseMoves
    <3>3. Promise!Fail(rw.id)
      BY <3>1, <3>2, PromiseFail
    <3>. QED BY <2>2, <3>3 DEF Promise!Next
  <2>6. CASE /\ row[k].state \in {"pending", "ambiguous"} /\ rw.state = "succeeded"
             /\ \E t \in Token : post[t].status = "created"
    <3>1. PICK t \in Token : post[t].status = "created"
      BY <2>6
    <3>2. post[t].id \in EffectId
      BY <3>1 DEF EInv, IInv, PostsNameTheirRow, NoPost
    <3>3. ReviewsIn(post)[post[t].id] # {}
      BY <3>1, <3>2 DEF ReviewsIn
    <3>4. \/ Promise!Moves(rw.id, "pending", "succeeded")
          \/ Promise!Moves(rw.id, "ambiguous", "succeeded")
      BY <2>2, <2>6, PromiseMoves
    <3>5. Promise!Succeed(rw.id)
      BY <3>2, <3>3, <3>4, PromiseSucceed
    <3>. QED BY <2>2, <3>5 DEF Promise!Next
  <2>. QED BY <2>1, <2>3, <2>4, <2>5, <2>6
<1>6. CASE PostStep
  <2>1. PICK t \in Token, o \in {"sent", "created", "void", "lost"} :
          /\ post[t].status \in {"unsent", "sent"}
          /\ o = "created" => post[t].status = "sent"
          /\ post' = [post EXCEPT ![t].status = o]
    BY <1>6 DEF PostStep
  <2>2. /\ post'[t].status = o /\ post'[t].id = post[t].id
        /\ \A u \in Token : u # t => post'[u] = post[u]
    <3>. DEFINE p == [post[t] EXCEPT !.status = o]
    <3>1. p.status = o /\ p.id = post[t].id
      BY <1>0 DEF Post
    <3>2. post' = [post EXCEPT ![t] = p]
      BY <2>1
    <3>. HIDE DEF p
    <3>. QED BY <1>0, <3>1, <3>2
  <2>3. row' = row
    BY <1>6 DEF PostStep
  <2>4. JournalIn(row') = JournalIn(row)
    BY <2>3
  <2>5. CASE o # "created"
    <3>1. \A u \in Token :
            \/ p1[u].id = p0[u].id /\ (p1[u].status = "created" <=> p0[u].status = "created")
            \/ p1[u].status # "created" /\ p0[u].status # "created"
      BY <1>00, <2>1, <2>2, <2>5
    <3>2. ReviewsIn(post') = ReviewsIn(post)
      BY <1>00, <3>1, ReviewsSame
    <3>. QED BY <2>4, <3>2, PromiseStutters
  <2>6. CASE o = "created"
    <3>0. PICK e : e = post[t].id
      OBVIOUS
    <3>1. Alive(t) /\ post[t] # NoPost
      BY <2>1 DEF Alive, NoPost
    <3>2. e \in EffectId
      BY <3>0, <3>1 DEF EInv, IInv, PostsNameTheirRow
    <3>3. \A u \in Token : post[u].id = e /\ Alive(u) => u = t
      BY <3>0, <3>1 DEF EInv, IInv, OneAlive
    <3>4. \A u \in Token : post[u].id = e => post[u].status # "created"
      BY <2>1, <3>3 DEF Alive
    <3>5. ReviewsIn(post)[e] = {}
      BY <3>2, <3>4 DEF ReviewsIn
    <3>6. JournalIn(row)[e] # "failed"
      <4>1. CASE \E k \in Key : row[k] # None /\ row[k].id = e
        <5>1. PICK k \in Key : row[k] # None /\ row[k].id = e
          BY <4>1
        <5>2. row[k].state # "failed"
          BY <3>0, <3>1, <5>1 DEF EInv, IInv, RowsKnowTheirPosts
        <5>3. JournalIn(r0)[e] = r0[k].state
          BY <1>0, <1>00, <3>2, <5>1, JournalAt
        <5>. QED BY <1>00, <5>2, <5>3
      <4>2. CASE \A k \in Key : row[k] # None => row[k].id # e
        <5>1. JournalIn(r0)[e] = "absent"
          BY <1>0, <1>00, <3>2, <4>2, JournalAt
        <5>. QED BY <1>00, <5>1
      <4>. QED BY <4>1, <4>2
    <3>7. ReviewsIn(post') = [ReviewsIn(post) EXCEPT ![e] = {t}]
      <4>1. ASSUME NEW i \in EffectId, i # e
            PROVE  {u \in Token : p1[u].id = i /\ p1[u].status = "created"}
                   = {u \in Token : p0[u].id = i /\ p0[u].status = "created"}
        BY <1>00, <2>2, <3>0, <4>1
      <4>2. {u \in Token : p1[u].id = e /\ p1[u].status = "created"} = {t}
        BY <1>00, <2>2, <2>6, <3>0, <3>4
      <4>3. ReviewsIn(p1) = [ReviewsIn(p0) EXCEPT ![e] = {t}]
        BY <4>1, <4>2 DEF ReviewsIn
      <4>. QED BY <1>00, <4>3
    <3>8. Promise!Publish(e, t)
      BY <2>4, <3>5, <3>6, <3>7, PromisePublish
    <3>. QED BY <3>2, <3>8 DEF Promise!Next
  <2>. QED BY <2>5, <2>6
<1>7. CASE ForgetStep
  <2>1. /\ post' = post
        /\ \A k \in Key : \/ row'[k] = row[k]
                          \/ row[k] # None /\ row'[k] = None /\ row[k].state # "ambiguous"
    BY <1>7 DEF ForgetStep
  <2>. DEFINE E == {i \in EffectId : \E k \in Key : row[k] # None /\ row'[k] = None /\ row[k].id = i}
  <2>2. \A i \in E : JournalIn(row)[i] # "ambiguous"
    <3>. SUFFICES ASSUME NEW i \in EffectId, NEW k \in Key,
                         row[k] # None, row'[k] = None, row[k].id = i
                  PROVE  JournalIn(row)[i] # "ambiguous"
      OBVIOUS
    <3>1. row[k].state # "ambiguous"
      BY <2>1
    <3>2. JournalIn(r0)[i] = r0[k].state
      BY <1>0, <1>00, JournalAt
    <3>. QED BY <1>00, <3>1, <3>2
  <2>3. ASSUME NEW i \in EffectId
        PROVE  JournalIn(row')[i] = IF i \in E THEN "absent" ELSE JournalIn(row)[i]
    <3>1. CASE i \in E
      <4>1. \A k \in Key : row'[k] # None => row'[k].id # i
        BY <1>0, <2>1, <3>1
      <4>2. JournalIn(r1)[i] = "absent"
        BY <1>0, <1>00, <4>1, JournalAt
      <4>. QED BY <1>00, <3>1, <4>2
    <3>2. CASE i \notin E /\ \E k \in Key : row[k] # None /\ row[k].id = i
      <4>1. PICK k \in Key : row[k] # None /\ row[k].id = i
        BY <3>2
      <4>2. row'[k] = row[k]
        BY <2>1, <3>2, <4>1
      <4>3. JournalIn(r1)[i] = r1[k].state /\ JournalIn(r0)[i] = r0[k].state
        BY <1>0, <1>00, <4>1, <4>2, JournalAt
      <4>. QED BY <1>00, <3>2, <4>2, <4>3
    <3>3. CASE i \notin E /\ \A k \in Key : row[k] # None => row[k].id # i
      <4>1. \A k \in Key : row'[k] # None => row'[k].id # i
        BY <2>1, <3>3
      <4>2. JournalIn(r1)[i] = "absent" /\ JournalIn(r0)[i] = "absent"
        BY <1>0, <1>00, <3>3, <4>1, JournalAt
      <4>. QED BY <1>00, <3>3, <4>2
    <3>. QED BY <3>1, <3>2, <3>3
  <2>4. E \in SUBSET {i \in EffectId : JournalIn(row)[i] # "ambiguous"}
    BY <2>2
  <2>. HIDE DEF E
  <2>5. JournalIn(row') = [i \in EffectId |-> IF i \in E THEN "absent" ELSE JournalIn(row)[i]]
    <3>1. JournalIn(row') = [i \in EffectId |-> JournalIn(row')[i]]
      BY DEF JournalIn
    <3>. QED BY <2>3, <3>1
  <2>6. ReviewsIn(post') = ReviewsIn(post)
    BY <2>1
  <2>7. Promise!Forget
    BY <2>4, <2>5, <2>6, PromiseForget
  <2>. QED BY <2>7 DEF Promise!Next
<1>8. CASE UNCHANGED <<row, post>>
  <2>1. JournalIn(row') = JournalIn(row) /\ ReviewsIn(post') = ReviewsIn(post)
    BY <1>8
  <2>. QED BY <2>1, PromiseStutters
<1>. QED BY <1>3, <1>4, <1>5, <1>6, <1>7, <1>8, Shapes

(* The journal, the broker and GitHub together implement what the journal  *)
(* promises: each effect published at most once and never once failed,     *)
(* reported a success only when a review stands for it, and never made to  *)
(* disappear while its outcome is uncertain.                               *)
THEOREM ImplementsPromiseHolds == Spec => ImplementsPromise
<1>1. Init => Promise!Init
  <2>. SUFFICES ASSUME Init PROVE Promise!Init
    OBVIOUS
  <2>1. JournalIn(row) = [i \in EffectId |-> "absent"]
    BY DEF Init, JournalIn
  <2>2. ReviewsIn(post) = [i \in EffectId |-> {}]
    BY DEF Init, ReviewsIn, NoPost
  <2>. QED BY <2>1, <2>2, PromiseInit
<1>2. EInv /\ EInv' /\ [Next]_vars => [Promise!Next]_(Promise!vars)
  BY PromiseNext
<1>. QED BY <1>1, <1>2, Evidence, PTL DEF Spec, ImplementsPromise, Promise!Spec
==============================================================================
