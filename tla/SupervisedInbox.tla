-------------------------- MODULE SupervisedInbox --------------------------
(***************************************************************************)
(* The inbox of one supervised agent in the desktop daemon: room messages  *)
(* are stored in a durable first-in-first-out lane                         *)
(* (supervised-agent-inbox-store.ts), a pump claims the head, runs one     *)
(* turn of the model provider for it and publishes the reply               *)
(* (supervised-agent-delivery.ts), and a person may stop the running turn  *)
(* (turn-control-coordinator.ts), whose outcome is arbitrated in the       *)
(* manifest (manifest-store.ts).  The daemon may crash between any two     *)
(* transactions; a provider turn outlives it.                              *)
(*                                                                         *)
(* One agent on one continuation of a provider that acknowledges a turn    *)
(* only after it started (every provider but Cursor); Stop without a       *)
(* correction.  Room moves, drains, task continuations and the repair of a *)
(* lost conversation are left out, and an error of the local database is a *)
(* crash.                                                                  *)
(***************************************************************************)
EXTENDS Naturals, Sequences, FiniteSetsExt

CONSTANTS
  Last,         \* room messages 1..Last, in room order
  Budget,       \* failures of one kind after which a message is blocked
  MaxCrashes,   \* bound: restarts of the daemon
  MaxPresses    \* bound: what people press (Stop, Retry, Skip, resolve)

ASSUME InboxAssumption ==
  /\ Last \in Nat \ {0}
  /\ Budget \in Nat \ {0}
  /\ MaxCrashes \in Nat
  /\ MaxPresses \in Nat

Messages == 1..Last

VARIABLES
  row,      \* durable: the inbox row of each message
  ctl,      \* durable: the journal of the last Stop and the turn it names
  native,   \* the provider: what became of each turn started for a message
  posted,   \* the room: the turn whose reply stands for a message, 0 if none
  ready,    \* memory: the rows were normalized since the daemon started
  pump,     \* memory: the delivery under way
  hold,     \* memory: the Stop's reservation of that delivery
  stop,     \* memory: the Stop request under way
  asked,    \* history: how often a person asked to retry a message
  crashes,
  presses

durable == <<row, ctl>>
world == <<native, posted>>
memory == <<ready, pump, hold, stop>>
bounds == <<asked, crashes, presses>>
vars == <<row, ctl, native, posted, ready, pump, hold, stop, asked, crashes,
          presses>>

Final == {"acknowledged", "acknowledged_no_reply", "acknowledged_failed",
          "cancelled_by_user"}
InFlight == {"dispatching", "awaiting_result", "result_recovery"}

\* What a row may become.
transitions ==
  {<<"pending", "dispatching">>, <<"pending", "blocked">>,
   <<"dispatching", "awaiting_result">>, <<"dispatching", "retryable">>,
   <<"dispatching", "acknowledged_failed">>, <<"dispatching", "blocked">>,
   <<"awaiting_result", "result_recovery">>,
   <<"awaiting_result", "publishing">>,
   <<"awaiting_result", "acknowledged_no_reply">>,
   <<"awaiting_result", "acknowledged_failed">>,
   <<"awaiting_result", "retryable">>, <<"awaiting_result", "blocked">>,
   <<"result_recovery", "publishing">>,
   <<"result_recovery", "acknowledged_no_reply">>,
   <<"result_recovery", "acknowledged_failed">>,
   <<"result_recovery", "blocked">>,
   <<"publishing", "acknowledged">>, <<"publishing", "retryable">>,
   <<"publishing", "blocked">>, <<"retryable", "pending">>,
   <<"retryable", "blocked">>, <<"blocked", "pending">>,
   <<"blocked", "cancelled_by_user">>}

Domains == {"result_recovery", "publication"}    \* what a failure is charged to

\* A message the poll has not brought yet.  A turn is named by its ordinal
\* among the turns started for the message; 0 is no turn.  debt counts the
\* failures charged to each kind of retry.
Absent == [state |-> "none", turn |-> 0, outcome |-> "none",
           debt |-> [d \in Domains |-> 0]]

\* No delivery under way.  at: the step deliver() takes next; turn: the turn
\* it admitted; old: it recovers a turn started earlier; reread: it claimed
\* the row in result_recovery; found: the outcome it goes by; err: the error
\* it caught; late: it publishes from the error handler; aborted: its turn
\* controller was aborted.
Rest == [at |-> "idle", m |-> 0, turn |-> 0, old |-> FALSE, reread |-> FALSE,
         found |-> "none", err |-> "none", late |-> FALSE, aborted |-> FALSE]

\* No Stop under way.  cut: the provider said it interrupted the turn; mark:
\* native control was dispatched; original: what the commit made of the row.
NoStop == [at |-> "idle", cut |-> FALSE, mark |-> FALSE, original |-> "none"]

Init ==
  /\ row = [m \in Messages |-> Absent]
  /\ ctl = [status |-> "none", m |-> 0, turn |-> 0]
  /\ native = [m \in Messages |-> <<>>]
  /\ posted = [m \in Messages |-> 0]
  /\ ready = FALSE
  /\ pump = Rest
  /\ hold = "none"
  /\ stop = NoStop
  /\ asked = [m \in Messages |-> 0]
  /\ crashes = 0
  /\ presses = 0

Live(m) == row[m].state \notin Final \cup {"none"}
IsHead(m) == Live(m) /\ \A n \in Messages : n < m => ~Live(n)
\* The store takes a transition of the table, of the head, and none that would
\* replay or hide the failure of the turn.
May(m, next) ==
  /\ <<row[m].state, next>> \in transitions
  /\ next \in Final \/ IsHead(m)
  /\ IF row[m].outcome = "failed"
       THEN next \notin {"pending", "publishing", "acknowledged",
                         "acknowledged_no_reply", "cancelled_by_user"}
       ELSE next # "acknowledged_failed"
Put(m, next) == row' = [row EXCEPT ![m].state = next]

\* Slip: a Stop freezes only the message it names.
BarsClaim_ItsOwn(m) ==
  ctl.m = m /\ ctl.status \in {"prepared", "dispatching", "uncertain"}
\* An unresolved Stop freezes the lane; a retryable one lets the message it
\* names resume and no other.
BarsClaim(m) ==
  \/ ctl.status \in {"prepared", "dispatching", "uncertain"}
  \/ ctl.status = "retryable" /\ ctl.m # m

----------------------------------------------------------------------------
(* The poll and the start of the daemon. *)

\* A successful poll stores the new messages of the room, up to n.
Ingest(n) ==
  /\ row[n].state = "none"
  /\ row' = [m \in Messages |-> IF m <= n /\ row[m].state = "none"
                                THEN [row[m] EXCEPT !.state = "pending"]
                                ELSE row[m]]
  /\ UNCHANGED <<ctl, world, memory, bounds>>

\* Slip: a dispatch that saved no turn is taken up again.
Normalized_Requeue(r) ==
  IF r.state \in Final \cup {"none", "blocked", "result_recovery"} THEN r.state
  ELSE "pending"
\* What the startup normalization makes of an unfinished row: only what is
\* proved by a saved outcome or a saved turn is taken up again.
Normalized(r) ==
  IF r.state \in Final \cup {"none"} THEN r.state
  ELSE IF r.outcome = "failed" THEN "acknowledged_failed"
  ELSE IF r.state \in {"pending", "blocked", "result_recovery"} THEN r.state
  ELSE IF r.outcome = "reply" THEN "pending"
  ELSE IF r.outcome = "no_reply" THEN "acknowledged_no_reply"
  ELSE IF r.outcome = "unreadable" /\ r.turn # 0 THEN "result_recovery"
  ELSE IF r.turn # 0 /\ r.state # "publishing" THEN "pending"
  ELSE "blocked"

\* The first run of the pump after a start, before it claims anything.
Normalize ==
  /\ pump.at = "idle" /\ ~ready
  /\ ready' = TRUE
  /\ row' = [m \in Messages |-> [row[m] EXCEPT !.state = Normalized(row[m])]]
  /\ UNCHANGED <<ctl, world, pump, hold, stop, bounds>>

\* A Stop that had not dispatched native control is retired, one that had is
\* uncertain.
RecoveredStatus ==
  CASE ctl.status = "prepared" -> "completed"
    [] ctl.status = "dispatching" -> "uncertain"
    [] OTHER -> ctl.status

\* The daemon dies and starts again; memory is lost, turns run on.
Restart ==
  /\ crashes < MaxCrashes
  /\ crashes' = crashes + 1
  /\ ctl' = [ctl EXCEPT !.status = RecoveredStatus]
  /\ ready' = FALSE /\ pump' = Rest /\ hold' = "none" /\ stop' = NoStop
  /\ UNCHANGED <<row, world, asked, presses>>

----------------------------------------------------------------------------
(* The pump and one delivery. *)

Go(at) == pump' = [pump EXCEPT !.at = at]
Finish == pump' = [Rest EXCEPT !.at = "ending", !.m = pump.m]
\* An error goes to the handler, which does not wait again for a Stop when the
\* publication it started itself fails.
Throw(err) ==
  pump' = [pump EXCEPT !.at = IF pump.late THEN "judging" ELSE "caught",
                       !.found = "none", !.err = err]
\* A transition the store refuses throws.
Write(next, at) ==
  IF May(pump.m, next)
  THEN Put(pump.m, next) /\ (IF at = "ending" THEN Finish ELSE Go(at))
  ELSE UNCHANGED row /\ Throw("plain")

claimHead(m) ==
  /\ pump.at = "idle" /\ ready
  /\ IsHead(m) /\ ~BarsClaim(m)
  /\ row[m].state \in {"pending", "result_recovery"}
  /\ pump' = [Rest EXCEPT !.at = "claimed", !.m = m, !.turn = row[m].turn,
                         !.old = row[m].turn # 0,
                         !.reread = row[m].state = "result_recovery"]
  /\ IF row[m].state = "pending" THEN Put(m, "dispatching") ELSE UNCHANGED row
  /\ UNCHANGED <<ctl, world, ready, hold, stop, bounds>>

\* A saved outcome is used as it is; a saved turn is recovered; otherwise the
\* provider is called.
Begin ==
  LET r == row[pump.m] IN
  /\ pump.at = "claimed"
  /\ CASE r.outcome = "failed" -> Write("acknowledged_failed", "ending")
       [] r.outcome = "no_reply" ->
            Put(pump.m, "acknowledged_no_reply") /\ Finish
       [] r.outcome = "reply" ->
            /\ row' = [row EXCEPT ![pump.m].state =
                         IF @ = "dispatching" THEN "awaiting_result" ELSE @]
            /\ pump' = [pump EXCEPT !.at = "awaiting", !.found = "reply"]
       [] OTHER ->
            UNCHANGED row /\ Go(IF pump.old THEN "waiting" ELSE "entered")
  /\ UNCHANGED <<ctl, world, ready, hold, stop, bounds>>

\* The provider starts a turn; the acknowledgement is still to come.
StartTurn ==
  /\ pump.at = "entered"
  /\ native' = [native EXCEPT ![pump.m] = Append(@, "running")]
  /\ Go("started")
  /\ UNCHANGED <<durable, posted, ready, hold, stop, bounds>>

\* The call fails before the turn starts, or its acknowledgement is lost.
StartFails ==
  /\ pump.at \in {"entered", "started"}
  /\ Throw("plain")
  /\ UNCHANGED <<durable, world, ready, hold, stop, bounds>>

checkpointTurnStarted ==
  /\ pump.at = "started"
  /\ row' = [row EXCEPT ![pump.m].turn = Len(native[pump.m])]
  /\ pump' = [pump EXCEPT !.at = "waiting", !.turn = Len(native[pump.m])]
  /\ UNCHANGED <<ctl, world, ready, hold, stop, bounds>>

\* The provider reports how the turn ended, or that it ended and its answer
\* cannot be read; it fails; or the delivery was aborted and stops waiting.
AwaitResult ==
  LET end == native[pump.m][pump.turn] IN
  /\ pump.at = "waiting"
  /\ \/ /\ pump.aborted /\ Finish
     \/ /\ ~pump.aborted /\ end # "running"
        /\ \E f \in {end} \cup (IF end = "failed" THEN {} ELSE {"unreadable"}) :
             pump' = [pump EXCEPT !.at = "result", !.found = f]
     \/ /\ ~pump.aborted
        /\ \E e \in {"plain"} \cup (IF pump.old THEN {"ambiguous"} ELSE {}) :
             Throw(e)
  /\ UNCHANGED <<durable, world, ready, hold, stop, bounds>>

\* A definitive outcome is never replaced; an unreadable one may be.
checkpointTerminalResult ==
  LET r == row[pump.m]
      kept == IF r.outcome \in {"none", "unreadable"} THEN pump.found
              ELSE r.outcome
      takes == /\ r.turn = pump.turn
               /\ IF pump.reread THEN r.state \in InFlight
                                 ELSE r.state = "dispatching"
  IN
  /\ pump.at = "result"
  /\ IF pump.aborted \/ ~takes
       THEN /\ UNCHANGED row
            /\ IF pump.aborted THEN Finish ELSE Throw("plain")
       ELSE /\ row' = [row EXCEPT ![pump.m].outcome = kept]
            /\ pump' = [pump EXCEPT !.at = "saved", !.found = kept]
  /\ UNCHANGED <<ctl, world, ready, hold, stop, bounds>>

Accept ==
  /\ pump.at = "saved"
  /\ IF pump.aborted THEN UNCHANGED row /\ Finish
     ELSE IF pump.found = "failed" THEN Write("acknowledged_failed", "ending")
     ELSE IF pump.reread THEN UNCHANGED row /\ Go("awaiting")
     ELSE Write("awaiting_result", "awaiting")
  /\ UNCHANGED <<ctl, world, ready, hold, stop, bounds>>

Conclude ==
  /\ pump.at = "awaiting"
  /\ CASE pump.found = "unreadable" ->
            Write(IF pump.reread THEN "blocked" ELSE "result_recovery",
                  "ending")
       [] pump.found = "no_reply" ->
            IF pump.aborted THEN UNCHANGED row /\ Finish
                            ELSE Write("acknowledged_no_reply", "ending")
       [] OTHER -> Write("publishing", "publishing")
  /\ UNCHANGED <<ctl, world, ready, hold, stop, bounds>>

\* The room stores one reply per client message id; its answer may be lost,
\* or the request never arrive.
publish ==
  /\ pump.at = "publishing"
  /\ \/ /\ posted' = [posted EXCEPT ![pump.m] = IF @ = 0 THEN row[pump.m].turn
                                                ELSE @]
        /\ (Go("posted") \/ Throw("plain"))
     \/ UNCHANGED posted /\ Throw("plain")
  /\ UNCHANGED <<durable, native, ready, hold, stop, bounds>>

checkpointPublication ==
  /\ pump.at = "posted"
  /\ Write("acknowledged", "ending")
  /\ UNCHANGED <<ctl, world, ready, hold, stop, bounds>>

\* The handler first waits for a Stop that holds this delivery; one that
\* cancelled it, or whose effect is unknown, leaves the row alone.
awaitInterruptReservationDecision ==
  /\ pump.at = "caught" /\ (pump.aborted \/ hold # "pending")
  /\ IF pump.aborted \/ hold \in {"cancelled", "freeze"} THEN Finish
                                                        ELSE Go("judging")
  /\ UNCHANGED <<durable, world, ready, hold, stop, bounds>>

\* A failure is charged to its kind, and a message that used up the budget is
\* blocked.  A row that moved on refuses the charge.
recordRetryFailure(domain) ==
  LET r == row[pump.m]
      debt == Min({r.debt[domain] + 1, Budget})
      next == IF debt = Budget THEN "blocked"
              ELSE IF r.state = "result_recovery" THEN r.state ELSE "retryable"
      takes == IF domain = "publication" THEN r.state = "publishing"
               ELSE r.state \in InFlight /\ r.outcome \in {"none", "unreadable"}
  IN IF takes
     THEN /\ row' = [row EXCEPT ![pump.m] =
                        [@ EXCEPT !.state = next, !.debt[domain] = debt]]
          /\ IF next = "blocked" THEN Finish ELSE Go("backoff")
     ELSE UNCHANGED row /\ Finish

\* The handler goes by what is saved, not by the error.
Settle(next) ==
  /\ Finish
  /\ IF May(pump.m, next) THEN Put(pump.m, next) ELSE UNCHANGED row
Judge ==
  LET r == row[pump.m]
      saved == IF r.state \in InFlight THEN r.outcome ELSE "none"
  IN
  /\ pump.at = "judging"
  /\ IF pump.aborted \/ r.state \in Final THEN UNCHANGED row /\ Finish
     ELSE IF r.outcome = "failed" THEN Settle("acknowledged_failed")
     ELSE IF saved = "no_reply"
     THEN Put(pump.m, "acknowledged_no_reply") /\ Finish
     ELSE IF saved = "reply"
     THEN /\ Put(pump.m, "publishing")
          /\ pump' = [pump EXCEPT !.at = "publishing", !.late = TRUE]
     ELSE IF pump.err = "ambiguous" THEN Settle("blocked")
     ELSE IF r.state = "publishing" THEN recordRetryFailure("publication")
     ELSE IF r.turn # 0 THEN recordRetryFailure("result_recovery")
     ELSE Settle("blocked")
  /\ UNCHANGED <<ctl, world, ready, hold, stop, bounds>>

Backoff ==
  /\ pump.at = "backoff"
  /\ Finish
  /\ IF ~pump.aborted /\ row[pump.m].state = "retryable"
       THEN Put(pump.m, "pending") ELSE UNCHANGED row
  /\ UNCHANGED <<ctl, world, ready, hold, stop, bounds>>

\* The finalizer waits for a Stop that has not decided.
EndDelivery ==
  /\ pump.at = "ending" /\ hold # "pending"
  /\ pump' = Rest /\ hold' = "none"
  /\ UNCHANGED <<durable, world, ready, stop, bounds>>

PumpStep ==
  \/ Normalize
  \/ \E m \in Messages : claimHead(m)
  \/ Begin \/ StartTurn \/ StartFails \/ checkpointTurnStarted
  \/ AwaitResult \/ checkpointTerminalResult \/ Accept \/ Conclude
  \/ publish \/ checkpointPublication
  \/ awaitInterruptReservationDecision \/ Judge \/ Backoff \/ EndDelivery

\* A turn the provider runs comes to an end of its own.
TurnEnds(m) ==
  /\ \E k \in DOMAIN native[m], end \in {"reply", "no_reply", "failed"} :
       /\ native[m][k] = "running"
       /\ native' = [native EXCEPT ![m][k] = end]
  /\ UNCHANGED <<durable, posted, memory, bounds>>

----------------------------------------------------------------------------
(* Stop, and what people press. *)

Press == presses < MaxPresses /\ presses' = presses + 1

\* deliver() registered itself as the active turn of m.
Active(m) == pump.m = m /\ pump.at \notin {"idle", "claimed"}
\* The turn already has its outcome: Stop only records it.
Folds(m) ==
  row[m].outcome = "failed"
    \/ row[m].state \in {"publishing", "acknowledged", "acknowledged_no_reply",
                         "cancelled_by_user"}

\* Stop names the turn of the head that the worker is seen running; only the
\* same action may be tried again while it is retryable.
prepareTurnControl(m) ==
  /\ stop.at = "idle"
  /\ \/ /\ ctl.status \in {"none", "completed"}
        /\ IsHead(m) /\ row[m].state \in {"dispatching", "awaiting_result"}
        /\ row[m].turn # 0 /\ native[m][row[m].turn] = "running"
     \/ /\ ctl.status = "retryable" /\ ctl.m = m /\ ctl.turn = row[m].turn
        /\ \/ Folds(m)
           \/ IsHead(m) /\ row[m].state \in {"dispatching", "awaiting_result"}
  /\ ctl' = [status |-> "prepared", m |-> m, turn |-> row[m].turn]
  /\ stop' = [NoStop EXCEPT !.at = "prepared"]
  /\ Press
  /\ UNCHANGED <<row, world, ready, pump, hold, asked, crashes>>

\* The delivery is reserved for the Stop.  Without one, and with no outcome to
\* record, nothing is dispatched.
captureActiveDeliveryInterrupt ==
  /\ stop.at = "prepared"
  /\ hold' = IF Active(ctl.m) /\ hold = "none" THEN "pending" ELSE hold
  /\ IF Folds(ctl.m)
       THEN stop' = [stop EXCEPT !.at = "returned"] /\ UNCHANGED ctl
       ELSE IF Active(ctl.m)
       THEN stop' = [stop EXCEPT !.at = "captured"] /\ UNCHANGED ctl
       ELSE stop' = NoStop /\ ctl' = [ctl EXCEPT !.status = "retryable"]
  /\ UNCHANGED <<row, world, ready, pump, bounds>>

\* The first decision stands.
Decide(d) == hold' = IF hold = "pending" THEN d ELSE hold

markDispatched ==
  /\ stop.at = "captured"
  /\ ctl' = [ctl EXCEPT !.status = "dispatching"]
  /\ stop' = [stop EXCEPT !.at = "calling", !.mark = TRUE]
  /\ UNCHANGED <<row, world, ready, pump, hold, bounds>>

\* The provider adapter finds that its active turn is not the one the Stop
\* names and returns interrupted: false before anything is dispatched: the turn
\* has ended, or it still runs and the adapter does not follow it, because the
\* call that did has failed or the one that takes it up again is still to come.
ControlSkipped ==
  /\ stop.at = "captured"
  /\ \/ native[ctl.m][ctl.turn] # "running"
     \/ pump.old \/ pump.at # "waiting"
  /\ stop' = [stop EXCEPT !.at = "returned"]
  /\ UNCHANGED <<durable, world, ready, pump, hold, bounds>>

\* The adapter interrupts the turn and waits for its end, which may have come
\* of its own in between; either way it returns interrupted: true.
ControlReturns ==
  /\ stop.at = "calling"
  /\ stop' = [stop EXCEPT !.at = "returned", !.cut = TRUE]
  /\ native' = IF native[ctl.m][ctl.turn] = "running"
                 THEN [native EXCEPT ![ctl.m][ctl.turn] = "failed"] ELSE native
  /\ UNCHANGED <<durable, posted, ready, pump, hold, bounds>>

\* The provider refuses, before or after the dispatch was marked: the
\* delivery resumes and the Stop may be tried again.
ControlRefused ==
  /\ stop.at \in {"captured", "calling"}
  /\ ctl' = [ctl EXCEPT !.status = "retryable"]
  /\ stop' = NoStop /\ Decide("resume")
  /\ UNCHANGED <<row, world, ready, pump, bounds>>

\* The call fails, with or without effect: a person has to find out.
ControlUncertain ==
  /\ stop.at = "calling"
  /\ ctl' = [ctl EXCEPT !.status = "uncertain"]
  /\ stop' = NoStop /\ Decide("freeze")
  /\ \/ UNCHANGED native
     \/ /\ native[ctl.m][ctl.turn] = "running"
        /\ native' = [native EXCEPT ![ctl.m][ctl.turn] = "failed"]
  /\ UNCHANGED <<row, posted, ready, pump, bounds>>

\* Slip: the interrupted turn is cancelled although its reply is being posted.
Committed_StopWins(r, applied, notApplied) ==
  IF r.outcome # "failed" /\ Live(ctl.m) THEN "cancelled_by_user" ELSE r.state
\* What the commit of a Stop makes of its row: a saved outcome beats it.
Committed(r, applied, notApplied) ==
  CASE r.state = "cancelled_by_user" -> r.state
    [] r.outcome = "reply" ->
         IF r.state \in {"publishing", "acknowledged"} THEN r.state
         ELSE "pending"
    [] r.outcome = "no_reply" -> "acknowledged_no_reply"
    [] r.outcome = "failed" -> "acknowledged_failed"
    [] OTHER ->
         IF notApplied
         THEN IF r.state \in {"pending", "blocked"} THEN r.state ELSE "pending"
         ELSE IF applied /\ Live(ctl.m) /\ r.state # "publishing"
         THEN "cancelled_by_user" ELSE r.state

commitTurnControlState(applied, notApplied) ==
  /\ Put(ctl.m, Committed(row[ctl.m], applied, notApplied))
  /\ ctl' = [ctl EXCEPT !.status = "completed"]

CommitStop ==
  /\ stop.at = "returned"
  /\ commitTurnControlState(stop.cut, FALSE)
  /\ stop' = [stop EXCEPT !.at = "finish", !.original = row'[ctl.m].state]
  /\ UNCHANGED <<world, ready, pump, hold, bounds>>

\* The runtime is no longer healthy: the commit is refused.
CommitRefused ==
  /\ stop.at = "returned"
  /\ ctl' = [ctl EXCEPT !.status = IF stop.mark THEN "uncertain"
                                  ELSE "retryable"]
  /\ Decide(IF stop.mark THEN "freeze" ELSE "resume")
  /\ stop' = NoStop
  /\ UNCHANGED <<row, world, ready, pump, bounds>>

\* A cancelled delivery is aborted; any other goes on.
Aborts(m) == pump' = IF Active(m) THEN [pump EXCEPT !.aborted = TRUE] ELSE pump
finishActiveDeliveryInterrupt ==
  LET cancelled == stop.original = "cancelled_by_user" IN
  /\ stop.at = "finish"
  /\ Decide(IF cancelled THEN "cancelled" ELSE "resume")
  /\ IF cancelled /\ hold # "none" THEN Aborts(ctl.m) ELSE UNCHANGED pump
  /\ stop' = NoStop
  /\ UNCHANGED <<durable, world, ready, bounds>>

StopStep ==
  \/ captureActiveDeliveryInterrupt \/ markDispatched
  \/ ControlSkipped \/ ControlReturns
  \/ ControlRefused \/ ControlUncertain \/ CommitStop \/ CommitRefused
  \/ finishActiveDeliveryInterrupt

\* A person says whether an uncertain Stop took effect.
Resolve(applied) ==
  /\ ctl.status = "uncertain" /\ stop.at = "idle"
  /\ applied \/ row[ctl.m].state # "cancelled_by_user"
  /\ commitTurnControlState(applied, ~applied)
  /\ IF row'[ctl.m].state = "cancelled_by_user" /\ hold # "none"
       THEN Aborts(ctl.m) ELSE UNCHANGED pump
  /\ Press
  /\ UNCHANGED <<world, ready, hold, stop, asked, crashes>>

retryBlocked(m) ==
  /\ row[m].state = "blocked" /\ May(m, "pending")
  /\ Put(m, "pending")
  /\ asked' = [asked EXCEPT ![m] = @ + 1]
  /\ Press
  /\ UNCHANGED <<ctl, world, memory, crashes>>

skipBlocked(m) ==
  /\ IsHead(m) /\ row[m].state = "blocked"
  /\ row[m].turn = 0 /\ row[m].outcome = "none"
  /\ Put(m, "cancelled_by_user")
  /\ Press
  /\ UNCHANGED <<ctl, world, memory, asked, crashes>>

Next ==
  \/ \E m \in Messages : \/ Ingest(m) \/ TurnEnds(m) \/ prepareTurnControl(m)
                         \/ retryBlocked(m) \/ skipBlocked(m)
  \/ PumpStep \/ StopStep
  \/ \E applied \in BOOLEAN : Resolve(applied)
  \/ Restart

\* The poll repeats and wakes the pump, the pump and a Stop request run, and
\* a provider turn ends.  Nobody has to press anything.
Fairness ==
  /\ WF_vars(PumpStep) /\ WF_vars(StopStep)
  /\ \A m \in Messages : WF_vars(Ingest(m)) /\ WF_vars(TurnEnds(m))

Spec == Init /\ [][Next]_vars /\ Fairness

----------------------------------------------------------------------------
(* Properties. *)

\* The values the variables take.
TypeOK ==
  /\ \A m \in Messages :
       /\ row[m].state \in Final \cup InFlight \cup
            {"none", "pending", "publishing", "retryable", "blocked"}
       /\ row[m].outcome \in
            {"none", "reply", "no_reply", "unreadable", "failed"}
       /\ row[m].turn \in 0..Len(native[m]) /\ posted[m] \in 0..Len(native[m])
  /\ ctl.status \in {"none", "prepared", "dispatching", "uncertain",
                     "retryable", "completed"}
  /\ hold \in {"none", "pending", "resume", "cancelled", "freeze"}
  /\ hold # "none" => pump.at # "idle"

\* The provider is never run a second time for a message unless a person asked
\* for it: not after a crash between the start of a turn and its record, a lost
\* acknowledgement, a failed publication or a Stop that had no effect
\* (normalizeStartupRecovery, deliver).
NoSecondRun ==
  \A m \in Messages : Len(native[m]) <= 1 + asked[m]

\* The state a message ends in tells what happened: an acknowledged one was
\* answered in the room with the reply of its turn, the others left no reply
\* there, whatever raced with the Stop (commitTurnControlState, checkpoint-
\* NormalizedTerminal, checkpointPublication).
ReceiptIsTrue ==
  \A m \in Messages :
    LET r == row[m] IN
    /\ r.state = "acknowledged" =>
         native[m][r.turn] = "reply" /\ posted[m] = r.turn
    /\ r.state = "acknowledged_no_reply" =>
         native[m][r.turn] = "no_reply" /\ posted[m] = 0
    /\ r.state = "acknowledged_failed" =>
         native[m][r.turn] = "failed" /\ posted[m] = 0
    /\ r.state = "cancelled_by_user" => posted[m] = 0

\* No turn starts while a Stop is unresolved, and none before every earlier
\* message is finished (claimHead, prepareTurnControlState).
StopHoldsTheLane ==
  [][\A m \in Messages : Len(native'[m]) > Len(native[m]) =>
       /\ ctl.status \in {"none", "completed"}
       /\ \A n \in Messages : n < m => row[n].state \in Final]_vars

\* The lane waits for a person: its head is blocked, or a Stop is unresolved.
WaitsForAPerson ==
  \/ \E m \in Messages : IsHead(m) /\ row[m].state = "blocked"
  \/ ctl.status \in {"uncertain", "retryable"} /\ stop.at = "idle"

\* The one way the code leaves a message behind: a Stop whose effect is unknown
\* froze the delivery, the turn answered all the same, the publication failed
\* and the frozen handler returned (supervised-agent-delivery.ts:1741); the
\* person's answer then completes the Stop and, finding the row publishing,
\* leaves it there (manifest-store.ts:2017).  Nothing claims a publishing row
\* before the next start of the delivery.
Orphaned ==
  /\ ctl.status = "completed" /\ pump.at = "idle"
  /\ IsHead(ctl.m) /\ row[ctl.m].state = "publishing"

=============================================================================
