------------------------ MODULE SupervisedInboxProofs ------------------------
(***************************************************************************)
(* Proofs about SupervisedInbox, for any number of messages, failures,     *)
(* restarts and presses.                                                   *)
(***************************************************************************)
EXTENDS SupervisedInbox, TLAPS

RowState == Final \cup InFlight \cup
              {"none", "pending", "publishing", "retryable", "blocked"}
Outcome == {"none", "reply", "no_reply", "unreadable", "failed"}
TurnState == {"running", "reply", "no_reply", "failed"}
Step == {"idle", "claimed", "entered", "started", "waiting", "result", "saved",
         "awaiting", "publishing", "posted", "caught", "judging", "backoff",
         "ending"}

Row == [state : RowState, turn : Nat, outcome : Outcome,
        debt : [Domains -> 0..Budget]]

Pump == [at : Step, m : 0..Last, turn : Nat, old : BOOLEAN, reread : BOOLEAN,
         found : Outcome, err : {"none", "plain", "ambiguous"}, late : BOOLEAN,
         aborted : BOOLEAN]

Journals == [status : {"none", "prepared", "dispatching", "uncertain", "retryable",
                       "completed"},
             m : 0..Last, turn : Nat]

StopRequest == [at : {"idle", "prepared", "captured", "calling", "returned", "finish"},
                cut : BOOLEAN, mark : BOOLEAN, original : RowState]

(* Full types of the variables; TypeOK names those the reader cares about. *)
Typed ==
  /\ row \in [Messages -> Row]
  /\ native \in [Messages -> Seq(TurnState)]
  /\ posted \in [Messages -> Nat]
  /\ asked \in [Messages -> Nat]
  /\ ready \in BOOLEAN
  /\ hold \in {"none", "pending", "resume", "cancelled", "freeze"}
  /\ pump \in Pump
  /\ ctl \in Journals
  /\ stop \in StopRequest

(* What a row says is what the provider did and what the room shows.  A    *)
(* turn is saved before its outcome, an outcome before its publication, and*)
(* neither is ever replaced.                                               *)
Sound(r, turns, reply) ==
  /\ r.turn <= Len(turns)
  /\ r.turn = 0 => /\ r.outcome = "none"
                   /\ r.state \in {"none", "pending", "dispatching", "blocked",
                                   "cancelled_by_user"}
  /\ r.state = "none" => r.turn = 0
  /\ r.outcome \in {"reply", "no_reply", "failed"} => turns[r.turn] = r.outcome
  /\ reply # 0 => reply = r.turn /\ r.outcome = "reply"
  /\ r.state = "publishing" => r.outcome = "reply"
  /\ r.state = "acknowledged" => r.outcome = "reply" /\ reply = r.turn
  /\ r.state = "acknowledged_no_reply" => r.outcome = "no_reply"
  /\ r.state = "acknowledged_failed" => r.outcome = "failed"
  /\ r.state = "cancelled_by_user" => r.outcome \in {"none", "unreadable"}

Receipts == \A m \in Messages : Sound(row[m], native[m], posted[m])

(* Every turn but the first was asked for, and one that a row may still    *)
(* start has been asked for already.                                       *)
Paid(r, turns, asks) ==
  /\ Len(turns) <= 1 + asks
  /\ r.turn = 0 /\ r.state \in {"none", "pending"} => Len(turns) <= asks

Runs == \A m \in Messages : Paid(row[m], native[m], asked[m])

(* The poll fills the lane from its beginning.                             *)
Prefix ==
  \A m, n \in Messages : m < n /\ row[n].state # "none" => row[m].state # "none"

(* A delivery that has not started a turn yet, and may: it is paid for, its*)
(* message is the head of the lane and no Stop is unresolved.              *)
Starting ==
  pump.at \in {"claimed", "entered"} /\ row[pump.m].turn = 0 =>
    /\ Len(native[pump.m]) <= asked[pump.m]
    /\ row[pump.m].state = "dispatching"
    /\ \A n \in Messages : n < pump.m => row[n].state \in Final
    /\ ctl.status \in {"none", "completed"}

(* What a delivery remembers is what its row says.                         *)
Delivery ==
  /\ pump.at # "idle" => pump.m \in Messages /\ row[pump.m].state # "none"
  /\ pump.at = "claimed" => /\ pump.turn = row[pump.m].turn
                            /\ pump.old = (pump.turn # 0)
  /\ pump.at \in {"entered", "started"} => row[pump.m].turn = 0
  /\ pump.at = "started" => Len(native[pump.m]) # 0
  /\ pump.at \in {"waiting", "result"} => /\ pump.turn # 0
                                          /\ pump.turn = row[pump.m].turn
  /\ pump.at = "result" =>
       pump.found \in {"unreadable", native[pump.m][pump.turn]} \ {"running"}
  /\ pump.at = "saved" => pump.found = row[pump.m].outcome /\ pump.found # "none"
  /\ pump.at = "awaiting" => /\ pump.found = row[pump.m].outcome
                             /\ pump.found \in {"reply", "no_reply", "unreadable"}
  /\ pump.at \in {"publishing", "posted"} => row[pump.m].outcome = "reply"
  /\ pump.at = "posted" => posted[pump.m] = row[pump.m].turn

(* The journal of a Stop names a turn that was saved, and stands where the *)
(* request stands.                                                         *)
Journal ==
  /\ ctl.status # "none" => /\ ctl.m \in Messages
                            /\ ctl.turn # 0 /\ ctl.turn = row[ctl.m].turn
  /\ stop.at \in {"prepared", "captured"} => ctl.status = "prepared"
  /\ stop.at = "calling" => ctl.status = "dispatching"
  /\ stop.at = "returned" => ctl.status \in {"prepared", "dispatching"}
  /\ stop.at = "finish" => ctl.status = "completed"
  /\ hold # "none" => pump.at # "idle"

Rows == Receipts /\ Runs /\ Prefix

IInv == Typed /\ Rows /\ Starting /\ Delivery /\ Journal
(* The smaller of two numbers is one of them.                              *)
LEMMA MinOfTwo ==
  ASSUME NEW a \in Nat, NEW b \in Nat
  PROVE  Min({a, b}) \in {a, b} /\ Min({a, b}) <= a /\ Min({a, b}) <= b
  <1>1. \E x \in {a, b} : \A y \in {a, b} : x <= y
    OBVIOUS
  <1> QED
    BY <1>1 DEF Min

(***************************************************************************)
(* Rows.                                                                   *)
(***************************************************************************)

(* The row of m gets another state; its turn and its outcome stay.         *)
Restates(m, next) ==
  /\ row' \in [Messages -> Row]
  /\ \A n \in Messages : n # m => row'[n] = row[n]
  /\ row'[m].state = next
  /\ row'[m].turn = row[m].turn /\ row'[m].outcome = row[m].outcome

(* The state says no more than the outcome does.                           *)
Allowed(m, next) ==
  /\ next \in RowState /\ next # "none"
  /\ row[m].turn = 0 =>
       next \in {"pending", "dispatching", "blocked", "cancelled_by_user"}
  /\ next = "publishing" => row[m].outcome = "reply"
  /\ next = "acknowledged" => /\ row[m].outcome = "reply"
                              /\ posted[m] = row[m].turn
  /\ next = "acknowledged_no_reply" => row[m].outcome = "no_reply"
  /\ next = "acknowledged_failed" => row[m].outcome = "failed"
  /\ next = "cancelled_by_user" => row[m].outcome \in {"none", "unreadable"}

(* A written transition changes the state of its row alone.                *)
LEMMA PutRestates ==
  ASSUME Typed, NEW m \in Messages, NEW next \in RowState, Put(m, next)
  PROVE  Restates(m, next)
  BY DEF Typed, Put, Restates, Row

(* The rows stay sound under a transition whose outcome allows it.         *)
LEMMA RestatedRows ==
  ASSUME Typed, Rows, NEW m \in Messages, row[m].state # "none", NEW next,
         Restates(m, next),
         Allowed(m, next), UNCHANGED <<native, posted>>,
         asked' \in [Messages -> Nat],
         \A n \in Messages : asked[n] <= asked'[n],
         row[m].turn = 0 /\ next = "pending" => Len(native[m]) <= asked'[m]
  PROVE  Rows'
  <1>1. \A n \in Messages :
        /\ native[n] \in Seq(TurnState) /\ Len(native[n]) \in Nat
        /\ asked[n] \in Nat /\ asked'[n] \in Nat
    BY DEF Typed
  <1>2. Receipts'
    <2>1. ASSUME NEW n \in Messages
          PROVE  Sound(row'[n], native[n], posted[n])
      BY DEF Rows, Receipts, Sound, Restates, Allowed
    <2> QED
      BY <2>1 DEF Receipts
  <1>3. Runs'
    <2>1. ASSUME NEW n \in Messages
          PROVE  Paid(row'[n], native[n], asked'[n])
      BY <1>1 DEF Rows, Runs, Paid, Restates, Allowed
    <2> QED
      BY <2>1 DEF Runs
  <1>4. Prefix'
    <2>1. \A n \in Messages : row'[n].state = "none" => row[n].state = "none"
      BY DEF Restates, Allowed
    <2>2. \A n \in Messages : n # m => row'[n] = row[n]
      BY DEF Restates
    <2>3. \A n \in Messages : row'[n].state # "none" => row[n].state # "none"
      BY <2>2
    <2> QED
      BY <2>1, <2>3 DEF Rows, Prefix
  <1> QED
    BY <1>2, <1>3, <1>4 DEF Rows

(***************************************************************************)
(* Steps of the pump.                                                      *)
(***************************************************************************)

(* Where a delivery that ends, or goes to its error handler, may stand.    *)
Quiet == {"caught", "judging", "backoff", "ending"}

(* The steps of deliver() stay within the type of the pump.                *)
LEMMA Moves ==
  ASSUME Typed
  PROVE  /\ Rest \in Pump /\ Rest.at = "idle"
         /\ Finish => pump' \in Pump /\ pump'.at = "ending" /\ pump'.m = pump.m
         /\ \A err \in {"plain", "ambiguous"} :
              Throw(err) => pump' \in Pump /\ pump'.at \in Quiet /\ pump'.m = pump.m
         /\ \A at \in Step : Go(at) =>
              /\ pump' \in Pump /\ pump'.at = at /\ pump'.m = pump.m
              /\ pump'.turn = pump.turn /\ pump'.old = pump.old
              /\ pump'.found = pump.found
  <1>1. Rest \in Pump /\ Rest.at = "idle" /\ pump \in Pump
    BY InboxAssumption DEF Rest, Pump, Step, Outcome, Typed
  <1>2. ASSUME Finish
        PROVE  pump' \in Pump /\ pump'.at = "ending" /\ pump'.m = pump.m
    BY <1>1, <1>2 DEF Finish, Pump, Step
  <1>3. ASSUME NEW err \in {"plain", "ambiguous"}, Throw(err)
        PROVE  pump' \in Pump /\ pump'.at \in Quiet /\ pump'.m = pump.m
    BY <1>1, <1>3 DEF Throw, Pump, Step, Outcome, Quiet
  <1>4. ASSUME NEW at \in Step, Go(at)
        PROVE  /\ pump' \in Pump /\ pump'.at = at /\ pump'.m = pump.m
               /\ pump'.turn = pump.turn /\ pump'.old = pump.old
               /\ pump'.found = pump.found
    BY <1>1, <1>4 DEF Go, Pump
  <1> QED
    BY <1>1, <1>2, <1>3, <1>4

(* The pump writes the state of its own row and goes on to a step that     *)
(* starts no turn; what the step needs to remember is still to be shown.   *)
LEMMA PumpWrites ==
  ASSUME IInv, pump.at # "idle", pump' \in Pump, pump'.m = pump.m,
         pump'.at \notin {"idle", "claimed", "entered"}, Delivery',
         \/ UNCHANGED row
         \/ \E next : /\ Restates(pump.m, next) /\ Allowed(pump.m, next)
                      /\ ~(row[pump.m].turn = 0 /\ next = "pending"),
         UNCHANGED <<ctl, native, posted, ready, hold, stop, asked>>
  PROVE  IInv'
  <1>1. pump.m \in Messages /\ row[pump.m].state # "none"
    BY DEF IInv, Delivery
  <1>2. row' \in [Messages -> Row] /\ Rows'
    <2>1. CASE UNCHANGED row
      BY <2>1 DEF IInv, Typed, Rows, Receipts, Runs, Prefix
    <2>2. ASSUME NEW next, Restates(pump.m, next), Allowed(pump.m, next),
                 ~(row[pump.m].turn = 0 /\ next = "pending")
          PROVE  row' \in [Messages -> Row] /\ Rows'
      <3>1. asked' \in [Messages -> Nat] /\ \A n \in Messages : asked[n] <= asked'[n]
        BY DEF IInv, Typed
      <3>2. Rows'
        BY <1>1, <2>2, <3>1, RestatedRows DEF IInv
      <3> QED
        BY <2>2, <3>2 DEF Restates
    <2> QED
      BY <2>1, <2>2
  <1>3. \A n \in Messages : row'[n].turn = row[n].turn
    BY DEF Restates
  <1>4. Typed' /\ Starting' /\ Journal'
    BY <1>2, <1>3 DEF IInv, Typed, Starting, Journal
  <1> QED
    BY <1>2, <1>4 DEF IInv

(* Once a delivery is quiet, its row may be left as it is, or restated.    *)
LEMMA QuietKeeps ==
  ASSUME IInv, pump.at # "idle", pump' \in Pump, pump'.m = pump.m,
         pump'.at \in Quiet,
         \/ UNCHANGED row
         \/ \E next : /\ Restates(pump.m, next) /\ Allowed(pump.m, next)
                      /\ ~(row[pump.m].turn = 0 /\ next = "pending"),
         UNCHANGED <<ctl, native, posted, ready, hold, stop, asked>>
  PROVE  IInv'
  <1>1. Delivery'
    BY DEF IInv, Delivery, Quiet, Restates, Allowed
  <1> QED
    BY <1>1, PumpWrites DEF Quiet

(* A transition that the store may refuse.                                 *)
LEMMA WriteKeeps ==
  ASSUME IInv, pump.at # "idle", NEW next \in RowState,
         NEW at \in {"ending", "awaiting", "publishing"}, Write(next, at),
         Allowed(pump.m, next), row[pump.m].turn # 0,
         at = "awaiting" => /\ pump.found = row[pump.m].outcome
                            /\ pump.found \in {"reply", "no_reply", "unreadable"},
         at = "publishing" => row[pump.m].outcome = "reply",
         UNCHANGED <<ctl, native, posted, ready, hold, stop, asked>>
  PROVE  IInv'
  <1>1. Typed /\ pump.m \in Messages
    BY DEF IInv, Delivery
  <1>2. CASE May(pump.m, next)
    <2>1. Restates(pump.m, next)
      BY <1>1, <1>2, PutRestates DEF Write
    <2>2. CASE at = "ending"
      BY <1>1, <1>2, <2>1, <2>2, Moves, QuietKeeps DEF Write, Quiet
    <2>3. CASE at # "ending"
      <3>1. /\ pump' \in Pump /\ pump'.at = at /\ pump'.m = pump.m
            /\ pump'.found = pump.found
        BY <1>1, <1>2, <2>3, Moves DEF Write, Step
      <3>2. Delivery'
        BY <1>1, <2>1, <2>3, <3>1 DEF Delivery, Restates, Allowed
      <3> QED
        BY <2>1, <2>3, <3>1, <3>2, PumpWrites
    <2> QED
      BY <2>2, <2>3
  <1>3. CASE ~May(pump.m, next)
    <2>1. UNCHANGED row /\ Throw("plain")
      BY <1>3 DEF Write
    <2> QED
      BY <1>1, <2>1, Moves, QuietKeeps
  <1> QED
    BY <1>2, <1>3

(* The head is claimed when everything before it is finished; if it has no *)
(* turn, no Stop is unresolved and the turn to come is paid for.           *)
LEMMA ClaimKeeps ==
  ASSUME IInv, NEW m \in Messages, claimHead(m)
  PROVE  IInv'
  <1>1. /\ row[m] \in Row /\ native[m] \in Seq(TurnState) /\ asked[m] \in Nat
        /\ m \in 0..Last /\ row[m].state \in {"pending", "result_recovery"}
        /\ UNCHANGED <<ctl, native, posted, ready, hold, stop, asked>>
    BY DEF IInv, Typed, claimHead, world, bounds, Messages
  <1>2. /\ pump' \in Pump /\ pump'.at = "claimed" /\ pump'.m = m
        /\ pump'.turn = row[m].turn /\ pump'.old = (row[m].turn # 0)
    <2>1. Rest \in Pump
      BY Moves DEF IInv
    <2> QED
      BY <1>1, <2>1 DEF claimHead, Pump, Step, Row
  <1>3. /\ row' \in [Messages -> Row] /\ Rows'
        /\ \A n \in Messages : /\ row'[n].turn = row[n].turn
                               /\ row'[n].outcome = row[n].outcome
                               /\ n # m => row'[n] = row[n]
        /\ row'[m].state = IF row[m].state = "pending" THEN "dispatching"
                                                      ELSE row[m].state
    <2>1. CASE row[m].state = "pending"
      <3>1. Restates(m, "dispatching")
        BY <2>1, PutRestates DEF IInv, claimHead, RowState, InFlight
      <3>2. Allowed(m, "dispatching")
        BY DEF Allowed, RowState, InFlight
      <3>3. \A n \in Messages : asked[n] <= asked'[n]
        BY <1>1 DEF IInv, Typed
      <3> QED
        BY <1>1, <2>1, <3>1, <3>2, <3>3, RestatedRows DEF IInv, Typed, Restates
    <2>2. CASE row[m].state # "pending"
      BY <1>1, <2>2 DEF claimHead, IInv, Typed, Rows, Receipts, Runs, Prefix
    <2> QED
      BY <2>1, <2>2
  <1>4. ASSUME row[m].turn = 0
        PROVE  /\ Len(native[m]) <= asked[m] /\ row'[m].state = "dispatching"
               /\ \A n \in Messages : n < m => row'[n].state \in Final
               /\ ctl.status \in {"none", "completed"}
    <2>1. row[m].state = "pending"
      BY <1>1, <1>4 DEF IInv, Rows, Receipts, Sound
    <2>2. Len(native[m]) <= asked[m]
      BY <1>4, <2>1 DEF IInv, Rows, Runs, Paid
    <2>3. ASSUME NEW n \in Messages, n < m
          PROVE  row'[n].state \in Final
      <3>1. row[n].state \in Final \cup {"none"}
        BY <2>3 DEF claimHead, IsHead, Live
      <3>2. row[n].state # "none"
        BY <2>1, <2>3 DEF IInv, Rows, Prefix
      <3>3. row'[n] = row[n]
        <4>1. n # m
          BY <2>3, InboxAssumption DEF Messages
        <4> QED
          BY <1>3, <4>1
      <3> QED
        BY <3>1, <3>2, <3>3
    <2>4. ctl.status \in {"none", "completed"}
      BY <1>4 DEF claimHead, BarsClaim, IInv, Journal, Typed, Journals
    <2> QED
      BY <1>3, <2>1, <2>2, <2>3, <2>4
  <1>5. Typed'
    BY <1>1, <1>2, <1>3 DEF IInv, Typed
  <1>6. Journal'
    BY <1>1, <1>2, <1>3 DEF IInv, Journal
  <1>7. Starting'
    BY <1>1, <1>2, <1>3, <1>4 DEF Starting
  <1>8. Delivery'
    BY <1>1, <1>2, <1>3 DEF Delivery
  <1> QED
    BY <1>3, <1>5, <1>6, <1>7, <1>8 DEF IInv

(* A delivery begins: what is saved is used, and only a row without a turn *)
(* leads to the provider.                                                  *)
LEMMA BeginKeeps ==
  ASSUME IInv, Begin
  PROVE  IInv'
  <1> DEFINE r == row[pump.m]
  <1>1. /\ pump.at = "claimed" /\ pump.m \in Messages /\ Typed /\ r \in Row
        /\ r.state # "none" /\ Sound(r, native[pump.m], posted[pump.m])
        /\ pump.turn = r.turn /\ pump.old = (r.turn # 0) /\ pump \in Pump
        /\ UNCHANGED <<ctl, native, posted, ready, hold, stop, asked>>
    BY DEF Begin, IInv, Delivery, Typed, Rows, Receipts, world, bounds
  <1>2. CASE r.outcome = "failed"
    <2>1. Write("acknowledged_failed", "ending")
      BY <1>2 DEF Begin
    <2>2. Allowed(pump.m, "acknowledged_failed") /\ r.turn # 0
      BY <1>1, <1>2 DEF Sound, Allowed, RowState, Final
    <2> QED
      BY <1>1, <2>1, <2>2, WriteKeeps DEF Allowed
  <1>3. CASE r.outcome = "no_reply"
    <2>1. Put(pump.m, "acknowledged_no_reply") /\ Finish
      BY <1>3 DEF Begin
    <2>2. Allowed(pump.m, "acknowledged_no_reply")
      BY <1>1, <1>3 DEF Sound, Allowed, RowState, Final
    <2>3. Restates(pump.m, "acknowledged_no_reply")
      BY <1>1, <2>1, <2>2, PutRestates DEF Allowed
    <2> QED
      BY <1>1, <2>1, <2>2, <2>3, Moves, QuietKeeps DEF Quiet
  <1>4. CASE r.outcome = "reply"
    <2> DEFINE next == IF r.state = "dispatching" THEN "awaiting_result" ELSE r.state
    <2>1. /\ row' = [row EXCEPT ![pump.m].state = next]
          /\ pump' = [pump EXCEPT !.at = "awaiting", !.found = "reply"]
      BY <1>1, <1>4 DEF Begin, Typed
    <2>2. next \in RowState /\ next # "none" /\ r.turn # 0
      BY <1>1, <1>4 DEF Row, RowState, InFlight, Sound
    <2>3. Put(pump.m, next)
      BY <2>1 DEF Put
    <2>4. Restates(pump.m, next)
      BY <1>1, <2>2, <2>3, PutRestates
    <2>5. Allowed(pump.m, next)
      BY <1>1, <1>4, <2>2 DEF Sound, Allowed
    <2>6. /\ pump' \in Pump /\ pump'.at = "awaiting" /\ pump'.m = pump.m
          /\ pump'.found = "reply"
      BY <1>1, <2>1 DEF Pump, Step, Outcome
    <2>7. Delivery'
      BY <1>1, <1>4, <2>4, <2>5, <2>6 DEF Delivery, Restates, Allowed
    <2> QED
      BY <1>1, <2>2, <2>4, <2>5, <2>6, <2>7, PumpWrites
  <1>5. CASE r.outcome \notin {"failed", "no_reply", "reply"}
    <2>1. UNCHANGED row /\ Go(IF pump.old THEN "waiting" ELSE "entered")
      BY <1>5 DEF Begin
    <2>2. CASE pump.old
      <3>1. /\ pump' \in Pump /\ pump'.at = "waiting" /\ pump'.m = pump.m
            /\ pump'.turn = pump.turn
        BY <1>1, <2>1, <2>2, Moves DEF Step
      <3>2. Delivery'
        BY <1>1, <2>1, <2>2, <3>1 DEF Delivery
      <3> QED
        BY <1>1, <2>1, <3>1, <3>2, PumpWrites
    <2>3. CASE ~pump.old
      <3>1. /\ pump' \in Pump /\ pump'.at = "entered" /\ pump'.m = pump.m
            /\ pump'.turn = pump.turn
        BY <1>1, <2>1, <2>3, Moves DEF Step
      <3>2. Delivery'
        BY <1>1, <2>1, <2>3, <3>1 DEF Delivery
      <3>3. Typed' /\ Rows' /\ Starting' /\ Journal'
        BY <1>1, <2>1, <3>1
        DEF IInv, Typed, Rows, Receipts, Runs, Prefix, Starting, Journal
      <3> QED
        BY <3>2, <3>3 DEF IInv
    <2> QED
      BY <2>2, <2>3
  <1> QED
    BY <1>2, <1>3, <1>4, <1>5

(* The turn that is started is paid for; its message has none yet.         *)
LEMMA StartKeeps ==
  ASSUME IInv, StartTurn
  PROVE  IInv'
  <1> DEFINE m == pump.m
             turns == Append(native[m], "running")
  <1>1. /\ pump.at = "entered" /\ m \in Messages /\ row[m].turn = 0
        /\ native[m] \in Seq(TurnState) /\ native \in [Messages -> Seq(TurnState)]
        /\ Sound(row[m], native[m], posted[m]) /\ asked[m] \in Nat
        /\ Len(native[m]) <= asked[m] /\ row[m].state = "dispatching"
        /\ UNCHANGED <<row, ctl, posted, ready, hold, stop, asked>>
    BY DEF StartTurn, IInv, Delivery, Starting, Typed, Rows, Receipts, durable, bounds
  <1>2. /\ turns \in Seq(TurnState) /\ Len(turns) = Len(native[m]) + 1
        /\ Len(native[m]) \in Nat
    BY <1>1 DEF TurnState
  <1>3. /\ native' \in [Messages -> Seq(TurnState)]
        /\ \A n \in Messages : native'[n] = IF n = m THEN turns ELSE native[n]
    BY <1>1, <1>2 DEF StartTurn
  <1>4. /\ pump' \in Pump /\ pump'.at = "started" /\ pump'.m = m
    BY Moves DEF IInv, StartTurn, Step
  <1>5. Typed' /\ Journal' /\ Starting'
    BY <1>1, <1>3, <1>4 DEF IInv, Typed, Journal, Starting
  <1>6. Delivery'
    BY <1>1, <1>2, <1>3, <1>4 DEF Delivery
  <1>7. Receipts'
    <2>1. Sound(row[m], turns, posted[m])
      BY <1>1, <1>2 DEF Sound
    <2>2. ASSUME NEW n \in Messages
          PROVE  Sound(row[n], native'[n], posted[n])
      BY <1>3, <2>1 DEF IInv, Rows, Receipts
    <2> QED
      BY <1>1, <2>2 DEF Receipts
  <1>8. Runs'
    <2>1. Paid(row[m], turns, asked[m])
      BY <1>1, <1>2 DEF Paid
    <2>2. ASSUME NEW n \in Messages
          PROVE  Paid(row[n], native'[n], asked[n])
      BY <1>3, <2>1 DEF IInv, Rows, Runs
    <2> QED
      BY <1>1, <2>2 DEF Runs
  <1>9. Prefix'
    BY <1>1 DEF IInv, Rows, Prefix
  <1> QED
    BY <1>5, <1>6, <1>7, <1>8, <1>9 DEF IInv, Rows

(* The turn of a row, or its outcome, is saved: the state stays.           *)
LEMMA SavingKeeps ==
  ASSUME IInv, pump.at # "idle", NEW x \in Row,
         row' = [row EXCEPT ![pump.m] = x],
         x.state = row[pump.m].state, x.turn # 0,
         Sound(x, native[pump.m], posted[pump.m]),
         ctl.m = pump.m /\ ctl.status # "none" => x.turn = row[pump.m].turn,
         pump' \in Pump, pump'.at \notin {"idle", "claimed", "entered"},
         Delivery',
         UNCHANGED <<ctl, native, posted, ready, hold, stop, asked>>
  PROVE  IInv'
  <1>1. /\ pump.m \in Messages
        /\ row' \in [Messages -> Row]
        /\ \A n \in Messages : row'[n] = IF n = pump.m THEN x ELSE row[n]
    BY DEF IInv, Delivery, Typed
  <1>2. Receipts'
    <2>1. ASSUME NEW n \in Messages
          PROVE  Sound(row'[n], native[n], posted[n])
      BY <1>1 DEF IInv, Rows, Receipts
    <2> QED
      BY <2>1 DEF Receipts
  <1>3. Runs'
    <2>1. ASSUME NEW n \in Messages
          PROVE  Paid(row'[n], native[n], asked[n])
      BY <1>1 DEF IInv, Rows, Runs, Paid
    <2> QED
      BY <2>1 DEF Runs
  <1>4. Prefix'
    BY <1>1 DEF IInv, Rows, Prefix
  <1>5. Typed' /\ Starting' /\ Journal'
    BY <1>1 DEF IInv, Typed, Starting, Journal
  <1> QED
    BY <1>2, <1>3, <1>4, <1>5 DEF IInv, Rows

(* checkpointTurnStarted saves the turn that has just been started.        *)
LEMMA CheckpointStartKeeps ==
  ASSUME IInv, checkpointTurnStarted
  PROVE  IInv'
  <1> DEFINE m == pump.m
             k == Len(native[m])
             x == [row[m] EXCEPT !.turn = k]
  <1>1. /\ pump.at = "started" /\ m \in Messages /\ row[m].turn = 0 /\ k # 0
        /\ row[m].state # "none"
        /\ native[m] \in Seq(TurnState) /\ row[m] \in Row /\ pump \in Pump
        /\ Sound(row[m], native[m], posted[m]) /\ posted[m] \in Nat
        /\ ~(ctl.m = m /\ ctl.status # "none")
        /\ UNCHANGED <<ctl, native, posted, ready, hold, stop, asked>>
    BY DEF checkpointTurnStarted, IInv, Delivery, Typed, Rows, Receipts, Journal, world, bounds
  <1>2. /\ x \in Row /\ x.turn = k /\ x.state = row[m].state
        /\ x.outcome = row[m].outcome /\ k \in Nat
    BY <1>1 DEF Row
  <1>3. Sound(x, native[m], posted[m])
    BY <1>1, <1>2 DEF Sound
  <1>4. /\ pump' \in Pump /\ pump'.at = "waiting" /\ pump'.m = m /\ pump'.turn = k
    BY <1>1, <1>2 DEF checkpointTurnStarted, Pump, Step
  <1>5. row' = [row EXCEPT ![m] = x]
    BY DEF checkpointTurnStarted
  <1>6. row'[m] = x
    BY <1>1, <1>5 DEF IInv, Typed
  <1>7. Delivery'
    BY <1>1, <1>2, <1>4, <1>6 DEF Delivery
  <1> HIDE DEF x
  <1> QED
    BY <1>1, <1>2, <1>3, <1>4, <1>5, <1>7, SavingKeeps

(* What the provider reports is how the turn ended, or that its answer is  *)
(* not readable.                                                           *)
LEMMA AwaitKeeps ==
  ASSUME IInv, AwaitResult
  PROVE  IInv'
  <1> DEFINE end == native[pump.m][pump.turn]
  <1>1. /\ pump.at = "waiting" /\ pump.m \in Messages /\ row[pump.m].state # "none"
        /\ pump.turn # 0 /\ pump.turn = row[pump.m].turn
        /\ pump \in Pump /\ native[pump.m] \in Seq(TurnState) /\ row[pump.m] \in Row
        /\ pump.turn <= Len(native[pump.m]) /\ Typed
        /\ UNCHANGED <<row, ctl, native, posted, ready, hold, stop, asked>>
    BY DEF AwaitResult, IInv, Delivery, Typed, Rows, Receipts, Sound, durable, world, bounds
  <1>2. end \in TurnState
    BY <1>1 DEF Row
  <1>3. CASE Finish
    BY <1>1, <1>3, Moves, QuietKeeps DEF Quiet
  <1>4. ASSUME NEW f \in {end, "unreadable"}, end # "running",
               pump' = [pump EXCEPT !.at = "result", !.found = f]
        PROVE  IInv'
    <2>1. /\ pump' \in Pump /\ pump'.at = "result" /\ pump'.m = pump.m
          /\ pump'.turn = pump.turn /\ pump'.found = f
      BY <1>1, <1>2, <1>4 DEF Pump, Step, Outcome, TurnState
    <2>2. Delivery'
      BY <1>1, <1>4, <2>1 DEF Delivery
    <2> QED
      BY <1>1, <2>1, <2>2, PumpWrites
  <1>5. ASSUME NEW e \in {"plain", "ambiguous"}, Throw(e)
        PROVE  IInv'
    BY <1>1, <1>5, Moves, QuietKeeps
  <1> QED
    BY <1>3, <1>4, <1>5 DEF AwaitResult

(* An outcome is saved for the turn it is the outcome of, and a definitive *)
(* one stays.                                                              *)
LEMMA CheckpointResultKeeps ==
  ASSUME IInv, checkpointTerminalResult
  PROVE  IInv'
  <1> DEFINE m == pump.m
             r == row[m]
             kept == IF r.outcome \in {"none", "unreadable"} THEN pump.found
                     ELSE r.outcome
             x == [r EXCEPT !.outcome = kept]
  <1>1. /\ pump.at = "result" /\ m \in Messages /\ r.state # "none"
        /\ pump.turn # 0 /\ pump.turn = r.turn /\ r \in Row /\ pump \in Pump /\ Typed
        /\ pump.found \in {"unreadable", native[m][r.turn]} /\ pump.found # "running"
        /\ Sound(r, native[m], posted[m]) /\ native[m] \in Seq(TurnState)
        /\ UNCHANGED <<ctl, native, posted, ready, hold, stop, asked>>
    BY DEF checkpointTerminalResult, IInv, Delivery, Typed, Rows, Receipts, world, bounds
  <1>2. CASE UNCHANGED row /\ (Finish \/ Throw("plain"))
    BY <1>1, <1>2, Moves, QuietKeeps DEF Quiet
  <1>3. CASE /\ r.state \in InFlight
             /\ row' = [row EXCEPT ![m].outcome = kept]
             /\ pump' = [pump EXCEPT !.at = "saved", !.found = kept]
    <2>1. native[m][r.turn] \in TurnState
      BY <1>1 DEF Sound, Row
    <2>2. kept \in Outcome /\ kept # "none"
      BY <1>1, <2>1 DEF Row, Outcome, TurnState
    <2>3. /\ x \in Row /\ x.turn = r.turn /\ x.state = r.state /\ x.outcome = kept
      BY <1>1, <2>2 DEF Row
    <2>4. Sound(x, native[m], posted[m])
      <3>1. kept \in {"reply", "no_reply", "failed"} => native[m][r.turn] = kept
        BY <1>1 DEF Sound
      <3>2. r.outcome = "reply" => kept = "reply"
        OBVIOUS
      <3> HIDE DEF kept, x
      <3> QED
        BY <1>1, <1>3, <2>3, <3>1, <3>2 DEF Sound, InFlight
    <2>5. /\ pump' \in Pump /\ pump'.at = "saved" /\ pump'.m = m /\ pump'.found = kept
          /\ row' = [row EXCEPT ![m] = x]
      BY <1>1, <1>3, <2>2 DEF Pump, Step
    <2> HIDE DEF kept, x
    <2>6. row'[m] = x
      BY <1>1, <2>5 DEF Typed
    <2>7. Delivery'
      BY <1>1, <2>2, <2>3, <2>5, <2>6 DEF Delivery
    <2> QED
      BY <1>1, <2>3, <2>4, <2>5, <2>7, SavingKeeps
  <1> QED
    BY <1>1, <1>2, <1>3 DEF checkpointTerminalResult, InFlight

(* A saved result sends the row to its publication or its end.             *)
LEMMA AcceptKeeps ==
  ASSUME IInv, Accept
  PROVE  IInv'
  <1> DEFINE r == row[pump.m]
  <1>1. /\ pump.at = "saved" /\ pump.m \in Messages /\ Typed /\ r \in Row
        /\ r.state # "none" /\ pump.found = r.outcome /\ pump.found # "none"
        /\ Sound(r, native[pump.m], posted[pump.m])
        /\ UNCHANGED <<ctl, native, posted, ready, hold, stop, asked>>
    BY DEF Accept, IInv, Delivery, Typed, Rows, Receipts, world, bounds
  <1>2. r.turn # 0
    BY <1>1 DEF Sound
  <1>3. CASE UNCHANGED row /\ Finish
    BY <1>1, <1>3, Moves, QuietKeeps DEF Quiet
  <1>4. CASE pump.found = "failed" /\ Write("acknowledged_failed", "ending")
    <2>1. Allowed(pump.m, "acknowledged_failed") /\ "acknowledged_failed" \in RowState
      BY <1>1, <1>2, <1>4 DEF Allowed, RowState, Final
    <2> QED
      BY <1>1, <1>2, <1>4, <2>1, WriteKeeps
  <1>5. CASE pump.found # "failed" /\ UNCHANGED row /\ Go("awaiting")
    <2>1. /\ pump' \in Pump /\ pump'.at = "awaiting" /\ pump'.m = pump.m
          /\ pump'.found = pump.found
      BY <1>1, <1>5, Moves DEF Step
    <2>2. Delivery'
      BY <1>1, <1>5, <2>1 DEF Delivery, Row, Outcome
    <2> QED
      BY <1>1, <1>5, <2>1, <2>2, PumpWrites
  <1>6. CASE pump.found # "failed" /\ Write("awaiting_result", "awaiting")
    <2>1. Allowed(pump.m, "awaiting_result") /\ "awaiting_result" \in RowState
      BY <1>1, <1>2 DEF Allowed, RowState, InFlight
    <2>2. pump.found \in {"reply", "no_reply", "unreadable"}
      BY <1>1, <1>6 DEF Row, Outcome
    <2> QED
      BY <1>1, <1>2, <1>6, <2>1, <2>2, WriteKeeps
  <1> QED
    BY <1>3, <1>4, <1>5, <1>6 DEF Accept

(* A recovered or just read result does the same.                          *)
LEMMA ConcludeKeeps ==
  ASSUME IInv, Conclude
  PROVE  IInv'
  <1> DEFINE r == row[pump.m]
  <1>1. /\ pump.at = "awaiting" /\ pump.m \in Messages /\ Typed /\ r \in Row
        /\ r.state # "none" /\ pump.found = r.outcome
        /\ pump.found \in {"reply", "no_reply", "unreadable"}
        /\ Sound(r, native[pump.m], posted[pump.m])
        /\ UNCHANGED <<ctl, native, posted, ready, hold, stop, asked>>
    BY DEF Conclude, IInv, Delivery, Typed, Rows, Receipts, world, bounds
  <1>2. r.turn # 0
    BY <1>1 DEF Sound
  <1>3. CASE pump.found = "unreadable"
    <2>1. PICK next \in {"blocked", "result_recovery"} : Write(next, "ending")
      BY <1>3 DEF Conclude
    <2>2. Allowed(pump.m, next) /\ next \in RowState
      BY <1>1, <1>2 DEF Allowed, RowState, InFlight
    <2> QED
      BY <1>1, <1>2, <2>1, <2>2, WriteKeeps
  <1>4. CASE pump.found = "no_reply"
    <2>1. CASE UNCHANGED row /\ Finish
      BY <1>1, <2>1, Moves, QuietKeeps DEF Quiet
    <2>2. CASE Write("acknowledged_no_reply", "ending")
      <3>1. /\ Allowed(pump.m, "acknowledged_no_reply")
            /\ "acknowledged_no_reply" \in RowState
        BY <1>1, <1>2, <1>4 DEF Allowed, RowState, Final
      <3> QED
        BY <1>1, <1>2, <2>2, <3>1, WriteKeeps
    <2> QED
      BY <1>4, <2>1, <2>2 DEF Conclude
  <1>5. CASE pump.found = "reply"
    <2>1. Write("publishing", "publishing")
      BY <1>5 DEF Conclude
    <2>2. Allowed(pump.m, "publishing") /\ "publishing" \in RowState
      BY <1>1, <1>2, <1>5 DEF Allowed, RowState
    <2> QED
      BY <1>1, <1>2, <1>5, <2>1, <2>2, WriteKeeps
  <1> QED
    BY <1>1, <1>3, <1>4, <1>5

(* The room keeps the first reply, which is the one of the saved turn.     *)
LEMMA PublishKeeps ==
  ASSUME IInv, publish
  PROVE  IInv'
  <1> DEFINE m == pump.m
  <1>1. /\ pump.at = "publishing" /\ m \in Messages /\ Typed /\ row[m] \in Row
        /\ row[m].state # "none" /\ row[m].outcome = "reply" /\ posted[m] \in Nat
        /\ Sound(row[m], native[m], posted[m])
        /\ UNCHANGED <<row, ctl, native, ready, hold, stop, asked>>
    BY DEF publish, IInv, Delivery, Typed, Rows, Receipts, durable, bounds
  <1>2. row[m].turn \in Nat /\ row[m].turn # 0
    BY <1>1 DEF Sound, Row
  <1>3. CASE UNCHANGED posted /\ Throw("plain")
    BY <1>1, <1>3, Moves, QuietKeeps
  <1>4. CASE /\ posted' = [posted EXCEPT ![m] = IF @ = 0 THEN row[m].turn ELSE @]
             /\ Go("posted") \/ Throw("plain")
    <2>1. /\ posted' \in [Messages -> Nat] /\ posted'[m] = row[m].turn
          /\ \A n \in Messages : n # m => posted'[n] = posted[n]
      BY <1>1, <1>2, <1>4 DEF Typed, Sound
    <2>2. /\ pump' \in Pump /\ pump'.m = m /\ pump'.at \in Quiet \cup {"posted"}
      BY <1>1, <1>4, Moves DEF Step
    <2>3. Typed' /\ Starting' /\ Delivery' /\ Journal'
      BY <1>1, <2>1, <2>2 DEF IInv, Typed, Starting, Delivery, Journal, Quiet
    <2>4. Receipts'
      <3>1. Sound(row[m], native[m], posted'[m])
        BY <1>1, <1>2, <2>1 DEF Sound
      <3>2. ASSUME NEW n \in Messages
            PROVE  Sound(row[n], native[n], posted'[n])
        BY <2>1, <3>1 DEF IInv, Rows, Receipts
      <3> QED
        BY <1>1, <3>2 DEF Receipts
    <2>5. Runs' /\ Prefix'
      BY <1>1 DEF IInv, Rows, Runs, Prefix
    <2> QED
      BY <2>3, <2>4, <2>5 DEF IInv, Rows
  <1> QED
    BY <1>3, <1>4 DEF publish

(* The receipt follows the message that has been posted.                   *)
LEMMA CheckpointPublicationKeeps ==
  ASSUME IInv, checkpointPublication
  PROVE  IInv'
  <1>1. /\ pump.at = "posted" /\ pump.m \in Messages
        /\ row[pump.m].outcome = "reply" /\ posted[pump.m] = row[pump.m].turn
        /\ Sound(row[pump.m], native[pump.m], posted[pump.m])
        /\ UNCHANGED <<ctl, native, posted, ready, hold, stop, asked>>
    BY DEF checkpointPublication, IInv, Delivery, Rows, Receipts, world, bounds
  <1>2. row[pump.m].turn # 0 /\ "acknowledged" \in RowState
    BY <1>1 DEF Sound, RowState, Final
  <1>3. Allowed(pump.m, "acknowledged")
    BY <1>1, <1>2 DEF Allowed
  <1> QED
    BY <1>1, <1>2, <1>3, WriteKeeps DEF checkpointPublication

(* The error handler goes by what the row says.                            *)
LEMMA JudgeKeeps ==
  ASSUME IInv, Judge
  PROVE  IInv'
  <1> DEFINE m == pump.m
             r == row[m]
  <1>1. /\ pump.at = "judging" /\ m \in Messages /\ Typed /\ r \in Row
        /\ r.state # "none" /\ Sound(r, native[m], posted[m]) /\ pump \in Pump
        /\ UNCHANGED <<ctl, native, posted, ready, hold, stop, asked>>
    BY DEF Judge, IInv, Delivery, Typed, Rows, Receipts, world, bounds
  <1>2. CASE UNCHANGED row /\ Finish
    BY <1>1, <1>2, Moves, QuietKeeps DEF Quiet
  <1>3. ASSUME NEW next \in RowState, Allowed(m, next), next # "pending",
               Put(m, next), Finish
        PROVE  IInv'
    <2>1. Restates(m, next)
      BY <1>1, <1>3, PutRestates
    <2> QED
      BY <1>1, <1>3, <2>1, Moves, QuietKeeps DEF Quiet
  <1>4. ASSUME NEW next \in RowState, Allowed(m, next), next # "pending", Settle(next)
        PROVE  IInv'
    BY <1>2, <1>3, <1>4 DEF Settle
  <1>5. Allowed(m, "blocked") /\ "blocked" \in RowState
    BY DEF Allowed, RowState
  <1>6. CASE r.outcome = "failed" /\ Settle("acknowledged_failed")
    <2>1. Allowed(m, "acknowledged_failed") /\ "acknowledged_failed" \in RowState
      BY <1>1, <1>6 DEF Sound, Allowed, RowState, Final
    <2> QED
      BY <1>4, <1>6, <2>1
  <1>7. CASE r.outcome = "no_reply" /\ Put(m, "acknowledged_no_reply") /\ Finish
    <2>1. Allowed(m, "acknowledged_no_reply") /\ "acknowledged_no_reply" \in RowState
      BY <1>1, <1>7 DEF Sound, Allowed, RowState, Final
    <2> QED
      BY <1>3, <1>7, <2>1
  <1>8. CASE /\ r.outcome = "reply" /\ Put(m, "publishing")
             /\ pump' = [pump EXCEPT !.at = "publishing", !.late = TRUE]
    <2>1. Allowed(m, "publishing") /\ "publishing" \in RowState
      BY <1>1, <1>8 DEF Sound, Allowed, RowState
    <2>2. Restates(m, "publishing")
      BY <1>1, <1>8, <2>1, PutRestates
    <2>3. pump' \in Pump /\ pump'.at = "publishing" /\ pump'.m = m
      BY <1>1, <1>8 DEF Pump, Step
    <2>4. Delivery'
      BY <1>1, <1>8, <2>2, <2>3 DEF Delivery, Restates
    <2> QED
      BY <1>1, <2>1, <2>2, <2>3, <2>4, PumpWrites
  <1>9. CASE Settle("blocked")
    BY <1>4, <1>5, <1>9
  <1>10. ASSUME NEW domain \in Domains, recordRetryFailure(domain),
                r.turn # 0
         PROVE  IInv'
    <2> DEFINE debt == Min({r.debt[domain] + 1, Budget})
               next == IF debt = Budget THEN "blocked"
                       ELSE IF r.state = "result_recovery" THEN r.state ELSE "retryable"
               x == [r EXCEPT !.state = next, !.debt[domain] = debt]
    <2>1. CASE row' = [row EXCEPT ![m] = x] /\ (Finish \/ Go("backoff"))
      <3>1. r.debt \in [Domains -> 0..Budget] /\ Budget \in Nat /\ r.debt[domain] \in 0..Budget
        BY <1>1, InboxAssumption DEF Row
      <3>2. debt \in 0..Budget
        BY <3>1, InboxAssumption, MinOfTwo
      <3>3. next \in {"blocked", "result_recovery", "retryable"}
        OBVIOUS
      <3>4. [r.debt EXCEPT ![domain] = debt] \in [Domains -> 0..Budget]
        BY <3>1, <3>2
      <3> HIDE DEF debt, next
      <3>5. x \in Row /\ x.state = next /\ x.turn = r.turn /\ x.outcome = r.outcome
        BY <1>1, <3>3, <3>4 DEF Row, RowState, InFlight
      <3> HIDE DEF x
      <3>6. Restates(m, next)
        BY <1>1, <2>1, <3>5 DEF Restates, Typed
      <3>7. Allowed(m, next)
        BY <1>1, <1>10, <3>3 DEF Allowed, RowState, InFlight
      <3>8. pump' \in Pump /\ pump'.at \in Quiet /\ pump'.m = m
        BY <1>1, <2>1, Moves DEF Quiet, Step
      <3> QED
        BY <1>1, <1>10, <3>6, <3>7, <3>8, QuietKeeps
    <2>2. CASE UNCHANGED row /\ Finish
      BY <1>2, <2>2
    <2> QED
      BY <1>10, <2>1, <2>2 DEF recordRetryFailure
  <1>11. CASE r.state = "publishing" /\ recordRetryFailure("publication")
    <2>1. r.turn # 0
      BY <1>1, <1>11 DEF Sound
    <2> QED
      BY <1>10, <1>11, <2>1 DEF Domains
  <1>12. CASE r.turn # 0 /\ recordRetryFailure("result_recovery")
    BY <1>10, <1>12 DEF Domains
  <1> QED
    BY <1>2, <1>6, <1>7, <1>8, <1>9, <1>11, <1>12 DEF Judge

(* After a failed attempt a retryable row is made pending again.           *)
LEMMA BackoffKeeps ==
  ASSUME IInv, Backoff
  PROVE  IInv'
  <1>1. /\ pump.at = "backoff" /\ pump.m \in Messages /\ Typed /\ Finish
        /\ Sound(row[pump.m], native[pump.m], posted[pump.m])
        /\ UNCHANGED <<ctl, native, posted, ready, hold, stop, asked>>
    BY DEF Backoff, IInv, Delivery, Rows, Receipts, world, bounds
  <1>2. CASE UNCHANGED row
    BY <1>1, <1>2, Moves, QuietKeeps DEF Quiet
  <1>3. CASE row[pump.m].state = "retryable" /\ Put(pump.m, "pending")
    <2>1. /\ Allowed(pump.m, "pending") /\ "pending" \in RowState
          /\ row[pump.m].turn # 0
      BY <1>1, <1>3 DEF Sound, Allowed, RowState
    <2>2. Restates(pump.m, "pending")
      BY <1>1, <1>3, <2>1, PutRestates
    <2> QED
      BY <1>1, <2>1, <2>2, Moves, QuietKeeps DEF Quiet
  <1> QED
    BY <1>2, <1>3 DEF Backoff

(* The pump comes to rest.                                                 *)
LEMMA RestKeeps ==
  ASSUME IInv, EndDelivery
  PROVE  IInv'
  <1>1. /\ pump' = Rest /\ hold' = "none" /\ Rest \in Pump /\ Rest.at = "idle"
        /\ UNCHANGED <<row, ctl, native, posted, ready, stop, asked>>
    BY Moves DEF EndDelivery, IInv, durable, world, bounds
  <1>2. Typed' /\ Starting' /\ Delivery' /\ Journal'
    BY <1>1 DEF IInv, Typed, Starting, Delivery, Journal
  <1>3. Rows'
    BY <1>1 DEF IInv, Rows, Receipts, Runs, Prefix
  <1> QED
    BY <1>2, <1>3 DEF IInv

(* A delivery that fails, or waits for the decision of a Stop.             *)
LEMMA HandlerKeeps ==
  ASSUME IInv, StartFails \/ awaitInterruptReservationDecision
  PROVE  IInv'
  <1>1. /\ pump.at # "idle" /\ Typed
        /\ Throw("plain") \/ Finish \/ Go("judging")
        /\ UNCHANGED <<row, ctl, native, posted, ready, hold, stop, asked>>
    BY DEF StartFails, awaitInterruptReservationDecision, IInv, durable, world, bounds
  <1> QED
    BY <1>1, Moves, QuietKeeps DEF Quiet, Step

(***************************************************************************)
(* Steps around the pump.                                                  *)
(***************************************************************************)

(* The poll and the normalization rewrite many rows, none while a delivery *)
(* is about to start a turn of that row.                                   *)
LEMMA IngestKeeps ==
  ASSUME IInv, NEW n \in Messages, Ingest(n)
  PROVE  IInv'
  <1>1. /\ Typed
        /\ UNCHANGED <<ctl, native, posted, ready, pump, hold, stop, asked>>
    BY DEF Ingest, IInv, world, memory, bounds
  <1>2. ASSUME NEW m \in Messages
        PROVE  /\ row'[m] \in Row /\ row'[m].turn = row[m].turn
               /\ row'[m].outcome = row[m].outcome
               /\ IF m <= n /\ row[m].state = "none" THEN row'[m].state = "pending"
                                                     ELSE row'[m] = row[m]
    BY <1>1 DEF Ingest, Typed, Row, RowState
  <1>3. row' \in [Messages -> Row]
    BY <1>2 DEF Ingest
  <1>4. ASSUME NEW m \in Messages
        PROVE  Sound(row'[m], native[m], posted[m]) /\ Paid(row'[m], native[m], asked[m])
    BY <1>2 DEF IInv, Rows, Receipts, Runs, Sound, Paid
  <1>5. Receipts' /\ Runs'
    BY <1>1, <1>4 DEF Receipts, Runs
  <1>6. Prefix'
    <2>1. ASSUME NEW k \in Messages, NEW m \in Messages, k < m, row'[m].state # "none"
          PROVE  row'[k].state # "none"
      <3>1. CASE row[m].state # "none"
        BY <1>2, <2>1, <3>1 DEF IInv, Rows, Prefix
      <3>2. CASE row[m].state = "none"
        <4>1. m <= n
          BY <1>2, <2>1, <3>2
        <4>2. k <= n
          BY <2>1, <4>1, InboxAssumption DEF Messages
        <4> QED
          BY <1>2, <4>2
      <3> QED
        BY <3>1, <3>2
    <2> QED
      BY <2>1 DEF Prefix
  <1>7. Typed' /\ Journal'
    BY <1>1, <1>2, <1>3 DEF IInv, Typed, Journal
  <1>8. Starting'
    <2>1. \A m \in Messages : row[m].state # "none" => row'[m] = row[m]
      BY <1>2
    <2>2. \A m \in Messages : row[m].state \in Final => row'[m] = row[m]
      BY <2>1 DEF Final
    <2>3. pump.at # "idle" => pump.m \in Messages /\ row[pump.m].state # "none"
      BY DEF IInv, Delivery
    <2> QED
      BY <1>1, <2>1, <2>2, <2>3 DEF IInv, Starting
  <1>9. Delivery'
    BY <1>1, <1>2 DEF IInv, Delivery
  <1> QED
    BY <1>3, <1>5, <1>6, <1>7, <1>8, <1>9 DEF IInv, Rows

(* What is taken up again after a start is proved by what was saved.       *)
LEMMA NormalizedRow ==
  ASSUME NEW m \in Messages, Typed, Rows
  PROVE  LET s == Normalized(row[m])
         IN /\ s \in RowState /\ (s = "none" <=> row[m].state = "none")
            /\ s # "none" => Allowed(m, s)
            /\ row[m].turn = 0 /\ s = "pending" => row[m].state = "pending"
  <1>1. row[m] \in Row /\ Sound(row[m], native[m], posted[m])
    BY DEF Typed, Rows, Receipts
  <1>2. Normalized(row[m]) \in {row[m].state, "acknowledged_failed", "pending",
                                "acknowledged_no_reply", "result_recovery", "blocked"}
    BY DEF Normalized
  <1>3. Normalized(row[m]) \in RowState
    BY <1>1, <1>2 DEF Row, RowState, InFlight, Final
  <1>4. Normalized(row[m]) = "none" <=> row[m].state = "none"
    BY DEF Normalized, Final
  <1>5. row[m].state # "none" => Allowed(m, Normalized(row[m]))
    BY <1>1, <1>3, <1>4 DEF Normalized, Allowed, Sound, Final
  <1>6. row[m].turn = 0 /\ Normalized(row[m]) = "pending" => row[m].state = "pending"
    BY <1>1 DEF Normalized, Sound
  <1> QED
    BY <1>3, <1>4, <1>5, <1>6

(* The repair at a restart requeues nothing that has a saved turn.         *)
LEMMA NormalizeKeeps ==
  ASSUME IInv, Normalize
  PROVE  IInv'
  <1>1. /\ pump.at = "idle" /\ Typed /\ Rows /\ ready' = TRUE
        /\ UNCHANGED <<ctl, native, posted, pump, hold, stop, asked>>
    BY DEF Normalize, IInv, world, bounds
  <1>2. ASSUME NEW m \in Messages
        PROVE  /\ row'[m] \in Row /\ row'[m].turn = row[m].turn
               /\ row'[m].outcome = row[m].outcome
               /\ row'[m].state = Normalized(row[m])
    <2>1. row[m] \in Row /\ Normalized(row[m]) \in RowState
      BY <1>1, NormalizedRow DEF Typed
    <2>2. row'[m] = [row[m] EXCEPT !.state = Normalized(row[m])]
      BY DEF Normalize
    <2> HIDE DEF Normalized
    <2> QED
      BY <2>1, <2>2 DEF Row
  <1>3. row' \in [Messages -> Row]
    BY <1>2 DEF Normalize
  <1>4. ASSUME NEW m \in Messages
        PROVE  Sound(row'[m], native[m], posted[m]) /\ Paid(row'[m], native[m], asked[m])
    <2>1. /\ Sound(row[m], native[m], posted[m]) /\ Paid(row[m], native[m], asked[m])
          /\ row[m].state = "none" => row'[m].state = "none"
          /\ row'[m].state = "none" => row[m].state = "none"
          /\ row[m].state # "none" => Allowed(m, row'[m].state)
          /\ row[m].turn = 0 /\ row'[m].state = "pending" => row[m].state = "pending"
      BY <1>1, <1>2, NormalizedRow DEF Rows, Receipts, Runs
    <2>2. CASE row[m].state = "none"
      BY <1>2, <2>1, <2>2 DEF Sound, Paid
    <2>3. CASE row[m].state # "none"
      BY <1>2, <2>1, <2>3 DEF Sound, Paid, Allowed
    <2> QED
      BY <2>2, <2>3
  <1>5. Receipts' /\ Runs'
    BY <1>1, <1>4 DEF Receipts, Runs
  <1>6. Prefix'
    <2>1. \A m \in Messages : row'[m].state = "none" <=> row[m].state = "none"
      BY <1>1, <1>2, NormalizedRow
    <2> QED
      BY <1>1, <2>1 DEF Rows, Prefix
  <1>7. Typed' /\ Starting' /\ Delivery' /\ Journal'
    BY <1>1, <1>2, <1>3 DEF IInv, Typed, Starting, Delivery, Journal
  <1> QED
    BY <1>3, <1>5, <1>6, <1>7 DEF IInv, Rows

(* A crash forgets the memory and settles the journal.                     *)
LEMMA RestartKeeps ==
  ASSUME IInv, Restart
  PROVE  IInv'
  <1>1. /\ pump' = Rest /\ hold' = "none" /\ stop' = NoStop /\ ready' = FALSE
        /\ ctl' = [ctl EXCEPT !.status = RecoveredStatus]
        /\ Rest \in Pump /\ Rest.at = "idle" /\ Typed
        /\ UNCHANGED <<row, native, posted, asked>>
    BY Moves DEF Restart, IInv, world
  <1>2. /\ ctl'.m = ctl.m /\ ctl'.turn = ctl.turn /\ ctl'.status = RecoveredStatus
        /\ RecoveredStatus \in {"completed", "uncertain", ctl.status}
        /\ RecoveredStatus # "none" => ctl.status # "none"
    BY <1>1 DEF Typed, Journals, RecoveredStatus
  <1>3. Typed'
    BY <1>1, <1>2 DEF Typed, NoStop, RowState, Journals, StopRequest
  <1>4. Starting' /\ Delivery' /\ Journal'
    BY <1>1, <1>2 DEF IInv, Starting, Delivery, Journal, NoStop
  <1>5. Rows'
    BY <1>1 DEF IInv, Rows, Receipts, Runs, Prefix
  <1> QED
    BY <1>3, <1>4, <1>5 DEF IInv

(* A turn that runs comes to an end, by itself or by the Stop: no outcome  *)
(* was saved for it.                                                       *)
LEMMA NativeKeeps ==
  ASSUME IInv, NEW m \in Messages, NEW k \in 1..Len(native[m]),
         NEW end \in TurnState, native[m][k] = "running",
         native' = [native EXCEPT ![m][k] = end],
         UNCHANGED <<row, posted, asked>>
  PROVE  Rows' /\ native' \in [Messages -> Seq(TurnState)]
         /\ (UNCHANGED pump => Delivery') /\ (UNCHANGED <<pump, ctl>> => Starting')
  <1> DEFINE turns == [native[m] EXCEPT ![k] = end]
  <1>1. native \in [Messages -> Seq(TurnState)] /\ native[m] \in Seq(TurnState)
    BY DEF IInv, Typed
  <1>2. /\ turns \in Seq(TurnState) /\ Len(turns) = Len(native[m])
        /\ \A i \in 1..Len(native[m]) : i # k => turns[i] = native[m][i]
    BY <1>1
  <1>3. native' = [native EXCEPT ![m] = turns]
    OBVIOUS
  <1> HIDE DEF turns
  <1>4. /\ native' \in [Messages -> Seq(TurnState)]
        /\ \A n \in Messages : native'[n] = IF n = m THEN turns ELSE native[n]
    BY <1>1, <1>2, <1>3
  <1>5. \A n \in Messages : row[n].turn \in Nat /\ row[n].turn <= Len(native[n])
    BY DEF IInv, Typed, Row, Rows, Receipts, Sound
  <1>6. \A n \in Messages, i \in Nat :
          i # 0 /\ i <= Len(native[n]) /\ native[n][i] # "running" =>
            native'[n][i] = native[n][i]
    BY <1>1, <1>2, <1>4
  <1>7. \A n \in Messages : Len(native'[n]) = Len(native[n])
    BY <1>2, <1>4
  <1>8. Receipts'
    <2>1. ASSUME NEW n \in Messages
          PROVE  Sound(row[n], native'[n], posted[n])
      <3>1. Sound(row[n], native[n], posted[n])
        BY DEF IInv, Rows, Receipts
      <3>2. row[n].outcome \in {"reply", "no_reply", "failed"} =>
              native'[n][row[n].turn] = row[n].outcome
        BY <1>5, <1>6, <3>1 DEF Sound
      <3> QED
        BY <1>7, <3>1, <3>2 DEF Sound
    <2> QED
      BY <2>1 DEF Receipts
  <1>9. Runs'
    BY <1>7 DEF IInv, Rows, Runs, Paid
  <1>10. Prefix'
    BY DEF IInv, Rows, Prefix
  <1>11. ASSUME UNCHANGED <<pump, ctl>>
         PROVE  Starting'
    BY <1>7, <1>11 DEF IInv, Starting, Delivery
  <1>12. ASSUME UNCHANGED pump
         PROVE  Delivery'
    <2>1. pump.at = "result" =>
            pump.found \in {"unreadable", native'[pump.m][pump.turn]} \ {"running"}
      BY <1>5, <1>6 DEF IInv, Delivery
    <2>2. pump.at = "started" => Len(native'[pump.m]) # 0
      BY <1>7 DEF IInv, Delivery
    <2> QED
      BY <1>12, <2>1, <2>2 DEF IInv, Delivery
  <1> QED
    BY <1>4, <1>8, <1>9, <1>10, <1>11, <1>12 DEF Rows

(* The provider ends a turn; the row learns of it later.                   *)
LEMMA TurnEndsKeeps ==
  ASSUME IInv, NEW m \in Messages, TurnEnds(m)
  PROVE  IInv'
  <1>1. PICK k \in DOMAIN native[m], end \in {"reply", "no_reply", "failed"} :
          native[m][k] = "running" /\ native' = [native EXCEPT ![m][k] = end]
    BY DEF TurnEnds
  <1>2. UNCHANGED <<row, ctl, posted, ready, pump, hold, stop, asked>>
    BY DEF TurnEnds, durable, memory, bounds
  <1>3. k \in 1..Len(native[m]) /\ end \in TurnState
    BY DEF IInv, Typed, TurnState
  <1>4. Rows' /\ native' \in [Messages -> Seq(TurnState)] /\ Starting' /\ Delivery'
    BY <1>1, <1>2, <1>3, NativeKeeps
  <1>5. Typed' /\ Journal'
    BY <1>2, <1>4 DEF IInv, Typed, Journal
  <1> QED
    BY <1>4, <1>5 DEF IInv

(***************************************************************************)
(* Stop, and what people press.                                            *)
(***************************************************************************)

(* A Stop names a turn that was saved, so no delivery is about to start the*)
(* turn of its message, nor of a later one.                                *)
LEMMA PrepareKeeps ==
  ASSUME IInv, NEW m \in Messages, prepareTurnControl(m)
  PROVE  IInv'
  <1>1. /\ Typed /\ row[m] \in Row /\ m \in 0..Last
        /\ UNCHANGED <<row, native, posted, ready, pump, hold, asked>>
        /\ ctl' = [status |-> "prepared", m |-> m, turn |-> row[m].turn]
        /\ stop' = [NoStop EXCEPT !.at = "prepared"]
    BY DEF prepareTurnControl, IInv, Typed, world, Messages
  <1>2. row[m].turn # 0
    BY DEF prepareTurnControl, IInv, Journal
  <1>3. Typed'
    BY <1>1 DEF Typed, NoStop, RowState, Row, Journals, StopRequest
  <1>4. Starting'
    <2>1. ASSUME pump.at \in {"claimed", "entered"}, row[pump.m].turn = 0
          PROVE  FALSE
      <3>1. /\ row[pump.m].state = "dispatching" /\ pump.m \in Messages
            /\ \A n \in Messages : n < pump.m => row[n].state \in Final
            /\ ctl.status \in {"none", "completed"}
        BY <2>1 DEF IInv, Starting, Delivery
      <3>2. IsHead(m)
        BY <3>1 DEF prepareTurnControl
      <3>3. m # pump.m
        BY <1>2, <2>1
      <3>4. m < pump.m \/ pump.m < m
        BY <3>1, <3>3, InboxAssumption DEF Messages
      <3> QED
        BY <3>1, <3>2, <3>4 DEF IsHead, Live, Final
    <2> QED
      BY <1>1, <2>1 DEF Starting
  <1>5. Delivery' /\ Rows'
    BY <1>1 DEF IInv, Delivery, Rows, Receipts, Runs, Prefix
  <1>6. Journal'
    BY <1>1, <1>2 DEF IInv, Journal, NoStop
  <1> QED
    BY <1>3, <1>4, <1>5, <1>6 DEF IInv

(* Steps of a Stop that leave rows and turns alone.                        *)
LEMMA StopMoves ==
  ASSUME IInv, captureActiveDeliveryInterrupt \/ markDispatched \/ ControlSkipped
                 \/ ControlRefused \/ CommitRefused \/ finishActiveDeliveryInterrupt
  PROVE  IInv'
  <1>1. Typed /\ UNCHANGED <<row, native, posted, ready, asked>>
    BY DEF captureActiveDeliveryInterrupt, markDispatched, ControlSkipped,
           ControlRefused, CommitRefused, finishActiveDeliveryInterrupt, IInv, durable, world, bounds
  <1>2. pump' \in Pump /\ (UNCHANGED pump \/ pump' = [pump EXCEPT !.aborted = TRUE])
    BY <1>1
    DEF captureActiveDeliveryInterrupt, markDispatched, ControlSkipped,
        ControlRefused, CommitRefused, finishActiveDeliveryInterrupt, Aborts, Typed, Pump
  <1>3. /\ pump'.at = pump.at /\ pump'.m = pump.m /\ pump'.turn = pump.turn
        /\ pump'.old = pump.old /\ pump'.found = pump.found
    BY <1>1, <1>2 DEF Typed, Pump
  <1>4. /\ hold' \in {"none", "pending", "resume", "cancelled", "freeze"}
        /\ hold' # "none" => pump.at # "idle"
    BY <1>1
    DEF captureActiveDeliveryInterrupt, markDispatched, ControlSkipped,
        ControlRefused, CommitRefused, finishActiveDeliveryInterrupt, Active, Decide, IInv, Typed, Journal
  <1>5. \/ /\ ctl' = ctl
           /\ \/ stop.at \in {"prepared", "captured"} /\ \E at \in {"returned", "captured"} :
                                           stop' = [stop EXCEPT !.at = at]
              \/ stop' = NoStop
        \/ /\ stop.at = "captured" /\ ctl' = [ctl EXCEPT !.status = "dispatching"]
           /\ stop' = [stop EXCEPT !.at = "calling", !.mark = TRUE]
        \/ /\ stop.at \in {"prepared", "captured", "calling", "returned"}
           /\ \E st \in {"retryable", "uncertain"} : ctl' = [ctl EXCEPT !.status = st]
           /\ stop' = NoStop
    BY DEF captureActiveDeliveryInterrupt, markDispatched, ControlSkipped,
           ControlRefused, CommitRefused, finishActiveDeliveryInterrupt, durable
  <1>6. /\ ctl'.m = ctl.m /\ ctl'.turn = ctl.turn
        /\ \/ ctl' = ctl
           \/ /\ ctl.status \in {"prepared", "dispatching"}
              /\ ctl'.status \in {"dispatching", "retryable", "uncertain"}
        /\ ctl' \in Journals /\ stop' \in StopRequest
        /\ stop'.at \in {"prepared", "captured"} => ctl'.status = "prepared"
        /\ stop'.at = "calling" => ctl'.status = "dispatching"
        /\ stop'.at = "returned" => ctl'.status \in {"prepared", "dispatching"}
        /\ stop'.at # "finish"
    <2>1. ctl \in Journals /\ stop \in StopRequest /\ NoStop \in StopRequest /\ NoStop.at = "idle"
      BY <1>1 DEF Typed, NoStop, StopRequest, RowState
    <2>2. CASE ctl' = ctl /\ stop' = NoStop
      BY <2>1, <2>2
    <2>3. CASE /\ ctl' = ctl /\ stop.at \in {"prepared", "captured"}
               /\ \E at \in {"returned", "captured"} : stop' = [stop EXCEPT !.at = at]
      BY <2>1, <2>3 DEF IInv, Journal, StopRequest
    <2>4. CASE /\ stop.at = "captured" /\ ctl' = [ctl EXCEPT !.status = "dispatching"]
               /\ stop' = [stop EXCEPT !.at = "calling", !.mark = TRUE]
      BY <2>1, <2>4 DEF IInv, Journal, StopRequest, Journals
    <2>5. CASE /\ stop.at \in {"prepared", "captured", "calling", "returned"}
               /\ \E st \in {"retryable", "uncertain"} : ctl' = [ctl EXCEPT !.status = st]
               /\ stop' = NoStop
      BY <2>1, <2>5 DEF IInv, Journal, Journals
    <2> QED
      BY <1>5, <2>2, <2>3, <2>4, <2>5
  <1>7. Typed' /\ Journal'
    BY <1>1, <1>2, <1>3, <1>4, <1>6 DEF IInv, Typed, Journal
  <1>8. Starting' /\ Delivery'
    BY <1>1, <1>3, <1>6 DEF IInv, Starting, Delivery
  <1>9. Rows'
    BY <1>1 DEF IInv, Rows, Receipts, Runs, Prefix
  <1> QED
    BY <1>7, <1>8, <1>9 DEF IInv

(* The interruption ends a turn that runs.                                 *)
LEMMA ControlKeeps ==
  ASSUME IInv, ControlReturns \/ ControlUncertain
  PROVE  IInv'
  <1>1. /\ Typed /\ ctl.status = "dispatching"
        /\ ctl.m \in Messages /\ ctl.turn # 0 /\ ctl.turn = row[ctl.m].turn
        /\ UNCHANGED <<row, posted, ready, pump, asked>>
    BY DEF ControlReturns, ControlUncertain, IInv, Journal, durable, bounds
  <1>2. ctl.turn \in 1..Len(native[ctl.m])
    <2>1. ctl.turn \in Nat /\ ctl.turn <= Len(native[ctl.m]) /\ native[ctl.m] \in Seq(TurnState)
      BY <1>1 DEF IInv, Typed, Row, Rows, Receipts, Sound
    <2> QED
      BY <1>1, <2>1
  <1>3. \/ UNCHANGED native
        \/ /\ native[ctl.m][ctl.turn] = "running"
           /\ native' = [native EXCEPT ![ctl.m][ctl.turn] = "failed"]
    BY DEF ControlReturns, ControlUncertain
  <1>4. Rows' /\ native' \in [Messages -> Seq(TurnState)] /\ Delivery'
    <2>1. CASE UNCHANGED native
      BY <1>1, <2>1 DEF IInv, Typed, Rows, Receipts, Runs, Prefix, Delivery
    <2>2. CASE ~UNCHANGED native
      <3>1. "failed" \in TurnState
        BY DEF TurnState
      <3> QED
        BY <1>1, <1>2, <1>3, <2>2, <3>1, NativeKeeps
    <2> QED
      BY <2>1, <2>2
  <1>5. hold' \in {"none", "pending", "resume", "cancelled", "freeze"} /\ (hold' # "none" => hold # "none")
    BY <1>1 DEF ControlReturns, ControlUncertain, Decide, Typed
  <1>6. Starting'
    BY <1>1 DEF IInv, Starting
  <1>7. CASE ControlReturns
    <2>1. ctl' = ctl /\ \E cut \in BOOLEAN : stop' = [stop EXCEPT !.at = "returned", !.cut = cut]
      BY <1>7 DEF ControlReturns, durable
    <2>2. stop' \in StopRequest /\ stop'.at = "returned"
      BY <1>1, <2>1 DEF Typed, StopRequest
    <2>3. Typed' /\ Journal'
      BY <1>1, <1>4, <1>5, <2>1, <2>2 DEF IInv, Typed, Journal
    <2> QED
      BY <1>4, <1>6, <2>3 DEF IInv
  <1>8. CASE ControlUncertain
    <2>1. stop' = NoStop /\ ctl' = [ctl EXCEPT !.status = "uncertain"]
      BY <1>8 DEF ControlUncertain
    <2>2. /\ stop' \in StopRequest /\ stop'.at = "idle" /\ ctl' \in Journals
          /\ ctl'.status = "uncertain" /\ ctl'.m = ctl.m /\ ctl'.turn = ctl.turn
      BY <1>1, <2>1 DEF Typed, StopRequest, Journals, NoStop, RowState
    <2>3. Typed' /\ Journal'
      BY <1>1, <1>4, <1>5, <2>2 DEF IInv, Typed, Journal
    <2> QED
      BY <1>4, <1>6, <2>3 DEF IInv
  <1> QED
    BY <1>7, <1>8

(* What a commit makes of a row says no more than its outcome does, and    *)
(* leaves a finished one finished.                                         *)
LEMMA CommittedRow ==
  ASSUME IInv, ctl.status # "none", NEW applied \in BOOLEAN, NEW notApplied \in BOOLEAN
  PROVE  LET s == Committed(row[ctl.m], applied, notApplied)
         IN /\ Allowed(ctl.m, s) /\ row[ctl.m].state # "none"
            /\ row[ctl.m].state \in Final => s \in Final
  <1> DEFINE r == row[ctl.m]
             s == Committed(r, applied, notApplied)
  <1>1. /\ ctl.m \in Messages /\ r \in Row /\ r.turn # 0
        /\ Sound(r, native[ctl.m], posted[ctl.m]) /\ r.state # "none"
    BY DEF IInv, Journal, Typed, Rows, Receipts, Sound
  <1>2. CASE r.state = "cancelled_by_user"
    BY <1>1, <1>2 DEF Committed, Allowed, Sound, Row
  <1>3. CASE r.state # "cancelled_by_user" /\ r.outcome = "reply"
    BY <1>1, <1>3 DEF Committed, Allowed, Sound, Row, RowState, Final
  <1>4. CASE r.state # "cancelled_by_user" /\ r.outcome = "no_reply"
    BY <1>1, <1>4 DEF Committed, Allowed, Sound, RowState, Final
  <1>5. CASE r.state # "cancelled_by_user" /\ r.outcome = "failed"
    BY <1>1, <1>5 DEF Committed, Allowed, Sound, RowState, Final
  <1>6. CASE r.state # "cancelled_by_user" /\ r.outcome \in {"none", "unreadable"}
    <2>1. r.state \notin Final
      BY <1>1, <1>6 DEF Sound, Final
    <2>2. s \in {r.state, "pending", "cancelled_by_user"}
      BY <1>6 DEF Committed
    <2> QED
      BY <1>1, <1>6, <2>1, <2>2 DEF Allowed, Sound, Row, RowState, Final
  <1> QED
    BY <1>1, <1>2, <1>3, <1>4, <1>5, <1>6 DEF Row, Outcome

(* A row is restated by somebody else than the pump.                       *)
LEMMA OthersRestate ==
  ASSUME IInv, NEW m \in Messages, NEW next, Restates(m, next), Allowed(m, next),
         row[m].state # "none",
         row[m].state \in Final => next \in Final,
         row[m].turn # 0 \/ row[m].state # "dispatching",
         asked' \in [Messages -> Nat], \A n \in Messages : asked[n] <= asked'[n],
         row[m].turn = 0 /\ next = "pending" => Len(native[m]) <= asked'[m],
         UNCHANGED <<native, posted>>,
         pump'.at = pump.at, pump'.m = pump.m, pump'.turn = pump.turn,
         pump'.old = pump.old, pump'.found = pump.found,
         ctl.status \in {"none", "completed"} => ctl' = ctl
  PROVE  Rows' /\ row' \in [Messages -> Row] /\ Starting' /\ Delivery'
         /\ \A n \in Messages : row'[n].turn = row[n].turn
  <1>1. Rows' /\ row' \in [Messages -> Row]
    BY RestatedRows DEF IInv, Restates
  <1>2. /\ \A n \in Messages : row'[n].turn = row[n].turn /\ row'[n].outcome = row[n].outcome
        /\ \A n \in Messages : n # m => row'[n] = row[n]
        /\ row'[m].state = next /\ next # "none"
    BY DEF Restates, Allowed
  <1>3. Starting'
    <2>1. SUFFICES ASSUME pump.at \in {"claimed", "entered"}, row[pump.m].turn = 0
                   PROVE  /\ Len(native[pump.m]) <= asked'[pump.m]
                          /\ row'[pump.m].state = "dispatching"
                          /\ \A n \in Messages : n < pump.m => row'[n].state \in Final
                          /\ ctl'.status \in {"none", "completed"}
      BY <1>2 DEF Starting, IInv, Delivery
    <2>2. /\ pump.m \in Messages /\ Len(native[pump.m]) <= asked[pump.m]
          /\ row[pump.m].state = "dispatching"
          /\ \A n \in Messages : n < pump.m => row[n].state \in Final
          /\ ctl.status \in {"none", "completed"}
      BY <2>1 DEF IInv, Starting, Delivery
    <2>3. m # pump.m
      BY <2>1, <2>2
    <2>4. Len(native[pump.m]) <= asked'[pump.m]
      BY <2>2 DEF IInv, Typed
    <2> QED
      BY <1>2, <2>2, <2>3, <2>4
  <1>4. Delivery'
    BY <1>2 DEF IInv, Delivery
  <1> QED
    BY <1>1, <1>2, <1>3, <1>4

(* The commit of a Stop decides the row by what is saved of its turn.      *)
LEMMA CommitStopKeeps ==
  ASSUME IInv, CommitStop
  PROVE  IInv'
  <1> DEFINE s == Committed(row[ctl.m], stop.cut, FALSE)
  <1>1. /\ stop.at = "returned" /\ ctl.status \in {"prepared", "dispatching"} /\ Typed
        /\ ctl.m \in Messages /\ row[ctl.m].turn # 0 /\ stop.cut \in BOOLEAN
        /\ Put(ctl.m, s) /\ ctl' = [ctl EXCEPT !.status = "completed"]
        /\ stop' = [stop EXCEPT !.at = "finish", !.original = row'[ctl.m].state]
        /\ UNCHANGED <<native, posted, ready, pump, hold, asked>>
    BY DEF CommitStop, commitTurnControlState, IInv, Journal, Typed, StopRequest, world, bounds
  <1>2. /\ Allowed(ctl.m, s) /\ row[ctl.m].state # "none"
        /\ row[ctl.m].state \in Final => s \in Final
    BY <1>1, CommittedRow
  <1> HIDE DEF s
  <1>3. Restates(ctl.m, s)
    BY <1>1, <1>2, PutRestates DEF Allowed
  <1>4. asked' \in [Messages -> Nat] /\ \A n \in Messages : asked[n] <= asked'[n]
    BY <1>1 DEF Typed
  <1>5. /\ Rows' /\ row' \in [Messages -> Row] /\ Starting' /\ Delivery'
        /\ \A n \in Messages : row'[n].turn = row[n].turn
    BY <1>1, <1>2, <1>3, <1>4, OthersRestate
  <1>6. Typed'
    BY <1>1, <1>5 DEF Typed, Row, Journals, StopRequest
  <1>7. Journal'
    BY <1>1, <1>5 DEF IInv, Journal, Typed, Journals, StopRequest
  <1> QED
    BY <1>5, <1>6, <1>7 DEF IInv

(* So does a person who resolves an uncertain Stop.                        *)
LEMMA ResolveKeeps ==
  ASSUME IInv, NEW applied \in BOOLEAN, Resolve(applied)
  PROVE  IInv'
  <1> DEFINE s == Committed(row[ctl.m], applied, ~applied)
  <1>1. /\ stop.at = "idle" /\ ctl.status = "uncertain" /\ Typed
        /\ ctl.m \in Messages /\ row[ctl.m].turn # 0
        /\ Put(ctl.m, s) /\ ctl' = [ctl EXCEPT !.status = "completed"]
        /\ pump' = pump \/ pump' = [pump EXCEPT !.aborted = TRUE]
        /\ UNCHANGED <<native, posted, ready, stop, hold, asked>>
    BY DEF Resolve, commitTurnControlState, Aborts, IInv, Journal, world
  <1>2. /\ Allowed(ctl.m, s) /\ row[ctl.m].state # "none"
        /\ row[ctl.m].state \in Final => s \in Final
    BY <1>1, CommittedRow
  <1> HIDE DEF s
  <1>3. Restates(ctl.m, s)
    BY <1>1, <1>2, PutRestates DEF Allowed
  <1>4. asked' \in [Messages -> Nat] /\ \A n \in Messages : asked[n] <= asked'[n]
    BY <1>1 DEF Typed
  <1>5. /\ pump' \in Pump /\ pump'.at = pump.at /\ pump'.m = pump.m
        /\ pump'.turn = pump.turn /\ pump'.old = pump.old /\ pump'.found = pump.found
    BY <1>1 DEF Typed, Pump
  <1>6. /\ Rows' /\ row' \in [Messages -> Row] /\ Starting' /\ Delivery'
        /\ \A n \in Messages : row'[n].turn = row[n].turn
    BY <1>1, <1>2, <1>3, <1>4, <1>5, OthersRestate
  <1>7. Typed'
    BY <1>1, <1>5, <1>6 DEF Typed, Journals
  <1>8. Journal'
    BY <1>1, <1>5, <1>6 DEF IInv, Journal, Typed, Journals
  <1> QED
    BY <1>6, <1>7, <1>8 DEF IInv

(* Retry and Skip concern a blocked row; a retry without a saved turn asks *)
(* for one.                                                                *)
LEMMA PressKeeps ==
  ASSUME IInv, NEW m \in Messages, retryBlocked(m) \/ skipBlocked(m)
  PROVE  IInv'
  <1>1. /\ Typed /\ row[m].state = "blocked"
        /\ UNCHANGED <<ctl, native, posted, ready, pump, hold, stop>>
    BY DEF retryBlocked, skipBlocked, IInv, world, memory
  <1>2. PICK next \in {"pending", "cancelled_by_user"} :
          /\ Put(m, next)
          /\ next = "pending" => asked' = [asked EXCEPT ![m] = @ + 1]
          /\ next = "cancelled_by_user" => UNCHANGED asked /\ row[m].outcome = "none"
    BY DEF retryBlocked, skipBlocked
  <1>3. Allowed(m, next) /\ next \in RowState
    BY <1>2 DEF Allowed, RowState, Final
  <1>4. Restates(m, next)
    BY <1>1, <1>2, <1>3, PutRestates
  <1>5. /\ asked' \in [Messages -> Nat] /\ \A n \in Messages : asked[n] <= asked'[n]
        /\ next = "pending" => asked'[m] = asked[m] + 1
    <2>1. asked \in [Messages -> Nat]
      BY <1>1 DEF Typed
    <2>2. CASE next = "pending"
      BY <1>2, <2>1, <2>2
    <2>3. CASE next = "cancelled_by_user"
      BY <1>2, <2>1, <2>3
    <2> QED
      BY <2>2, <2>3
  <1>6. next = "pending" => Len(native[m]) <= asked'[m]
    BY <1>1, <1>5 DEF IInv, Rows, Runs, Paid, Typed
  <1>7. row[m].state \notin Final
    BY <1>1 DEF Final
  <1>8. /\ Rows' /\ row' \in [Messages -> Row] /\ Starting' /\ Delivery'
        /\ \A n \in Messages : row'[n].turn = row[n].turn
    BY <1>1, <1>3, <1>4, <1>5, <1>6, <1>7, OthersRestate
  <1>9. Typed' /\ Journal'
    BY <1>1, <1>5, <1>8 DEF IInv, Typed, Journal
  <1> QED
    BY <1>8, <1>9 DEF IInv

(***************************************************************************)
(* The theorems.                                                           *)
(***************************************************************************)
LEMMA InitKeeps == Init => IInv
  <1> SUFFICES ASSUME Init PROVE IInv
    OBVIOUS
  <1>1. /\ Absent \in Row /\ Absent.state = "none" /\ Absent.turn = 0
        /\ Absent.outcome = "none"
    <2>1. 0 \in 0..Budget
      BY InboxAssumption
    <2> DEFINE free == [d \in Domains |-> 0]
    <2>2. free \in [Domains -> 0..Budget]
      BY <2>1
    <2>3. Absent = [state |-> "none", turn |-> 0, outcome |-> "none", debt |-> free]
      BY DEF Absent
    <2> HIDE DEF free
    <2> QED
      BY <2>2, <2>3 DEF Row, RowState, Outcome
  <1>2. Rest \in Pump /\ Rest.at = "idle"
    BY InboxAssumption DEF Rest, Pump, Step, Outcome
  <1>3. <<>> \in Seq(TurnState) /\ Len(<<>>) = 0
    OBVIOUS
  <1>4. Typed
    <2>1. /\ row \in [Messages -> Row] /\ pump \in Pump
          /\ posted \in [Messages -> Nat] /\ asked \in [Messages -> Nat]
      BY <1>1, <1>2 DEF Init
    <2>2. native \in [Messages -> Seq(TurnState)]
      BY <1>3 DEF Init
    <2>3. stop \in StopRequest /\ ctl \in Journals
      BY InboxAssumption DEF Init, NoStop, RowState, Journals, StopRequest
    <2> QED
      BY <2>1, <2>2, <2>3 DEF Init, Typed
  <1>5. Rows
    BY <1>1, <1>3 DEF Init, Rows, Receipts, Runs, Prefix, Sound, Paid
  <1>6. Starting /\ Delivery /\ Journal
    BY <1>2 DEF Init, Starting, Delivery, Journal, NoStop
  <1> QED
    BY <1>4, <1>5, <1>6 DEF IInv

(* All steps of the delivery.                                              *)
LEMMA PumpKeeps ==
  ASSUME IInv, PumpStep
  PROVE  IInv'
  <1>1. ASSUME NEW m \in Messages, claimHead(m)
        PROVE  IInv'
    BY <1>1, ClaimKeeps
  <1> QED
    BY <1>1, NormalizeKeeps, BeginKeeps, StartKeeps, HandlerKeeps, CheckpointStartKeeps,
       AwaitKeeps, CheckpointResultKeeps, AcceptKeeps, ConcludeKeeps, PublishKeeps,
       CheckpointPublicationKeeps, JudgeKeeps, BackoffKeeps, RestKeeps
    DEF PumpStep

(* All steps of a Stop.                                                    *)
LEMMA StopKeeps ==
  ASSUME IInv, StopStep
  PROVE  IInv'
  BY StopMoves, ControlKeeps, CommitStopKeeps DEF StopStep

(* Nothing changes.                                                        *)
LEMMA StutterKeeps ==
  ASSUME IInv, UNCHANGED vars
  PROVE  IInv'
  <1>1. UNCHANGED <<row, ctl, native, posted, ready, pump, hold, stop, asked>>
    BY DEF vars
  <1>2. Typed' /\ Rows'
    BY <1>1 DEF IInv, Typed, Rows, Receipts, Runs, Prefix
  <1>3. Starting' /\ Delivery' /\ Journal'
    BY <1>1 DEF IInv, Starting, Delivery, Journal
  <1> QED
    BY <1>2, <1>3 DEF IInv

(* The invariant is inductive: Init establishes it and every step keeps it.*)
THEOREM Inductive == Spec => []IInv
  <1>1. Init => IInv
    BY InitKeeps
  <1>2. IInv /\ [Next]_vars => IInv'
    <2> SUFFICES ASSUME IInv, [Next]_vars
                 PROVE  IInv'
      OBVIOUS
    <2>1. ASSUME NEW m \in Messages,
                 \/ Ingest(m) \/ TurnEnds(m) \/ prepareTurnControl(m)
                 \/ retryBlocked(m) \/ skipBlocked(m)
          PROVE  IInv'
      BY <2>1, IngestKeeps, TurnEndsKeeps, PrepareKeeps, PressKeeps
    <2>2. CASE PumpStep
      BY <2>2, PumpKeeps
    <2>3. CASE StopStep
      BY <2>3, StopKeeps
    <2>4. ASSUME NEW applied \in BOOLEAN, Resolve(applied)
          PROVE  IInv'
      BY <2>4, ResolveKeeps
    <2>5. CASE Restart
      BY <2>5, RestartKeeps
    <2>6. CASE UNCHANGED vars
      BY <2>6, StutterKeeps
    <2> QED
      BY <2>1, <2>2, <2>3, <2>4, <2>5, <2>6 DEF Next
  <1> QED
    BY <1>1, <1>2, PTL DEF Spec

(* Rows, turns and the requests in memory have their types.                *)
THEOREM TypeCorrect == Spec => []TypeOK
  <1>1. ASSUME IInv
        PROVE  TypeOK
    <2>1. ASSUME NEW m \in Messages
          PROVE  /\ row[m].turn \in 0..Len(native[m])
                 /\ posted[m] \in 0..Len(native[m])
      <3>1. /\ row[m].turn \in Nat /\ posted[m] \in Nat /\ Len(native[m]) \in Nat
            /\ Sound(row[m], native[m], posted[m])
        BY <1>1 DEF IInv, Typed, Row, Rows, Receipts
      <3> QED
        BY <3>1 DEF Sound
    <2>2. ASSUME NEW m \in Messages
          PROVE  row[m].state \in RowState /\ row[m].outcome \in Outcome
      BY <1>1 DEF IInv, Typed, Row
    <2>3. /\ ctl.status \in {"none", "prepared", "dispatching", "uncertain",
                             "retryable", "completed"}
          /\ hold \in {"none", "pending", "resume", "cancelled", "freeze"}
          /\ hold # "none" => pump.at # "idle"
      BY <1>1 DEF IInv, Typed, Journals, Journal
    <2> QED
      BY <2>1, <2>2, <2>3 DEF TypeOK, RowState, Outcome
  <1> QED
    BY <1>1, Inductive, PTL

(* The provider runs once for a message, and once more for each time a     *)
(* person asked (normalizeStartupRecovery, deliver, retryBlocked).         *)
THEOREM NoSecondRunHolds == Spec => []NoSecondRun
  <1>1. IInv => NoSecondRun
    BY DEF IInv, Rows, Runs, Paid, NoSecondRun
  <1> QED
    BY <1>1, Inductive, PTL

(* The state a message ends in tells what the provider did and what the    *)
(* room shows (checkpointNormalizedTerminal, checkpointPublication,        *)
(* commitTurnControlState).                                                *)
THEOREM ReceiptIsTrueHolds == Spec => []ReceiptIsTrue
  <1>1. ASSUME IInv
        PROVE  ReceiptIsTrue
    <2>1. ASSUME NEW m \in Messages
          PROVE  LET r == row[m] IN
                 /\ r.state = "acknowledged" =>
                      native[m][r.turn] = "reply" /\ posted[m] = r.turn
                 /\ r.state = "acknowledged_no_reply" =>
                      native[m][r.turn] = "no_reply" /\ posted[m] = 0
                 /\ r.state = "acknowledged_failed" =>
                      native[m][r.turn] = "failed" /\ posted[m] = 0
                 /\ r.state = "cancelled_by_user" => posted[m] = 0
      BY <1>1 DEF IInv, Rows, Receipts, Sound
    <2> QED
      BY <2>1 DEF ReceiptIsTrue
  <1> QED
    BY <1>1, Inductive, PTL

(* Only the start of a turn adds one to the turns of a message.            *)
LEMMA OnlyStartsRun ==
  ASSUME IInv, Next, NEW m \in Messages, Len(native'[m]) > Len(native[m])
  PROVE  StartTurn /\ m = pump.m
  <1>1. native \in [Messages -> Seq(TurnState)] /\ Len(native[m]) \in Nat
    BY DEF IInv, Typed
  <1>2. native' # native
    BY <1>1
  <1>3. CASE StartTurn
    <2>1. native' = [native EXCEPT ![pump.m] = Append(@, "running")]
      BY <1>3 DEF StartTurn
    <2>2. m = pump.m
      BY <1>1, <2>1
    <2> QED
      BY <1>3, <2>2
  <1>4. CASE \E n \in Messages : \E k \in DOMAIN native[n], end \in TurnState :
               native' = [native EXCEPT ![n][k] = end]
    <2>1. PICK n \in Messages : \E k \in DOMAIN native[n], end \in TurnState :
            native' = [native EXCEPT ![n][k] = end]
      BY <1>4
    <2>2. PICK k \in DOMAIN native[n], end \in TurnState :
            native' = [native EXCEPT ![n][k] = end]
      BY <2>1
    <2>3. native[n] \in Seq(TurnState)
      BY <1>1
    <2>4. Len([native[n] EXCEPT ![k] = end]) = Len(native[n])
      BY <2>3
    <2>5. Len(native'[m]) = Len(native[m])
      BY <1>1, <2>2, <2>4
    <2> QED
      BY <1>1, <2>5
  <1>5. CASE PumpStep /\ ~StartTurn
    BY <1>2, <1>5
    DEF PumpStep, Normalize, claimHead, Begin, StartFails, checkpointTurnStarted,
        AwaitResult, checkpointTerminalResult, Accept, Conclude, publish,
        checkpointPublication, awaitInterruptReservationDecision, Judge, Backoff,
        EndDelivery, world
  <1>6. CASE ControlReturns \/ ControlUncertain
    <2>1. native' = [native EXCEPT ![ctl.m][ctl.turn] = "failed"]
      BY <1>2, <1>6 DEF ControlReturns, ControlUncertain
    <2>2. /\ ctl.m \in Messages /\ ctl.turn # 0 /\ ctl.turn \in Nat
          /\ ctl.turn <= Len(native[ctl.m])
      BY <1>6
      DEF ControlReturns, ControlUncertain, IInv, Journal, Typed, Journals, Rows,
          Receipts, Sound
    <2>3. native[ctl.m] \in Seq(TurnState) /\ "failed" \in TurnState
      BY <1>1, <2>2 DEF TurnState
    <2>4. ctl.turn \in DOMAIN native[ctl.m]
      BY <2>2, <2>3
    <2> QED
      BY <1>4, <2>1, <2>2, <2>3, <2>4
  <1>7. CASE StopStep /\ ~(ControlReturns \/ ControlUncertain)
    BY <1>2, <1>7
    DEF StopStep, captureActiveDeliveryInterrupt, markDispatched, ControlSkipped,
        ControlRefused, CommitStop, CommitRefused, finishActiveDeliveryInterrupt, world
  <1>8. ASSUME NEW n \in Messages, TurnEnds(n)
        PROVE  StartTurn /\ m = pump.m
    <2>1. {"reply", "no_reply", "failed"} \subseteq TurnState
      BY DEF TurnState
    <2> QED
      BY <1>4, <1>8, <2>1 DEF TurnEnds
  <1>9. CASE \/ \E n \in Messages : \/ Ingest(n) \/ prepareTurnControl(n)
                                    \/ retryBlocked(n) \/ skipBlocked(n)
             \/ \E applied \in BOOLEAN : Resolve(applied)
             \/ Restart
    BY <1>2, <1>9
    DEF Ingest, prepareTurnControl, retryBlocked, skipBlocked, Resolve, Restart, world
  <1> QED
    BY <1>3, <1>5, <1>6, <1>7, <1>8, <1>9 DEF Next

(* No turn starts while a Stop is unresolved or an earlier message is not  *)
(* finished (claimHead, prepareTurnControlState).                          *)
THEOREM StopHoldsTheLaneHolds == Spec => StopHoldsTheLane
  <1> DEFINE Held == \A m \in Messages : Len(native'[m]) > Len(native[m]) =>
                       /\ ctl.status \in {"none", "completed"}
                       /\ \A n \in Messages : n < m => row[n].state \in Final
  <1>1. ASSUME IInv, Next, NEW m \in Messages, Len(native'[m]) > Len(native[m])
        PROVE  /\ ctl.status \in {"none", "completed"}
               /\ \A n \in Messages : n < m => row[n].state \in Final
    <2>1. StartTurn /\ m = pump.m
      BY <1>1, OnlyStartsRun
    <2> QED
      BY <1>1, <2>1 DEF IInv, Starting, Delivery, StartTurn
  <1>2. IInv /\ [Next]_vars => [Held]_vars
    BY <1>1
  <1> QED
    BY <1>2, Inductive, PTL DEF Spec, StopHoldsTheLane
=============================================================================
