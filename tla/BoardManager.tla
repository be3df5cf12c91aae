---------------------------- MODULE BoardManager ----------------------------
(***************************************************************************)
(* The Board Manager of one room: who holds the role, when the room looks  *)
(* whether the holder is still there, and the automatic failover.          *)
(*                                                                         *)
(* The row of board_manager_assignments carries stall_check_at, the moment *)
(* of its next check.  Triggers of the database move it on every change of *)
(* a worker's delivery, session or of the room's failover mode; a sweep    *)
(* claims a due row by moving it 60 s ahead, and everything it does later  *)
(* compares stall_check_at with the value it wrote.  Values are told apart *)
(* by what they mean: "null", "outage" (computed from the last delivery of *)
(* the manager, in the future), "timer" (60 s, 10 or 30 min ahead), "due"; *)
(* the variable claim names the sweep whose value it still is.             *)
(***************************************************************************)
EXTENDS Naturals, FiniteSets

CONSTANTS Workers,      \* worker sessions of the room
          Sweepers,     \* API servers, each runs one sweep at a time
          Admins,       \* HTTP requests that assign a manager
          None,
          Supervised,   \* workers of a daemon with a live grant, at first
          MaxConns,     \* bound on the open connections of a worker
          MaxEvents     \* bound on connects, revivals, decisions of people
                        \* and sweeps or requests that die midway

ASSUME NoneAssumption == None \notin Workers \cup Sweepers
ASSUME SupervisedAssumption == Supervised \subseteq Workers
ASSUME BoundsAssumption ==
  MaxConns \in Nat \ {0} /\ MaxEvents \in Nat

VARIABLES
  link,     \* delivery row of each worker: open connections, age of
            \* the last write, last_disconnected_at against it
  ended,    \* workers whose session has ended
  granted,  \* workers whose supervisor's grant is live
  manager,  \* worker of the active assignment, or None
  young,    \* the assignment is less than 5 minutes old
  failover, \* the room's failover mode
  stall,    \* stall_check_at of the active assignment
  claim,    \* the sweep whose claimed_check_at equals it, or None
  current,  \* sweeps whose claimed assignment is still the active one
  sweep,    \* where each sweep is and what it has decided
  assign,   \* where each assignment request is
  heard,    \* the room has been told that the present manager is offline
  excused,  \* the role is vacant by a person's doing (history)
  events

roomVars  == <<link, ended, granted, failover>>
roleVars  == <<manager, young, heard, excused>>
checkVars == <<stall, claim, current>>
procVars  == <<sweep, assign>>
vars == <<roomVars, roleVars, checkVars, procVars, events>>

Ages  == {"fresh", "stale", "gone"}
Modes == {"off", "announce", "auto"}
NoRow == [row |-> FALSE, open |-> 0, age |-> "gone", cut |-> "none"]
Links == [row : BOOLEAN, open : 0..MaxConns, age : Ages,
          cut : {"none", "last", "before"}]
Idle == [pc |-> "idle", to |-> None, back |-> FALSE]
Idling == [pc |-> "idle", to |-> None]

(* A live connection with a heartbeat of the last 90 s, or none and the    *)
(* reconnect grace not yet over: both are age "fresh".                     *)
Reachable(w) == link[w].row /\ link[w].age = "fresh"
Live(w)      == Reachable(w) /\ link[w].open > 0

(***************************************************************************)
(* stall_check_at, as the triggers compute it.                             *)
(***************************************************************************)
Scheduled(w, fresh) ==
  CASE ~link'[w].row -> "null"
    [] link'[w].row /\ link'[w].age = "gone" /\ ~fresh -> "due"
    [] OTHER -> "outage"

(* UPDATE ... SET stall_check_at = LEAST(COALESCE(stall_check_at, now()),  *)
(* now()): a value that is already due is left as it is, and the row's own *)
(* trigger then computes it anew.                                          *)
Rearmed == IF stall = "due" THEN Scheduled(manager, young) ELSE "due"

Move(s) ==
  /\ stall' = s
  /\ claim' = None
  /\ UNCHANGED current

(* reschedule_board_manager_from_delivery, after a change of w's row.      *)
DeliveryTrigger(w) ==
  IF w = manager THEN
    Move("outage")
  ELSE IF /\ manager # None
          /\ link'[w].open > 0
          /\ link[w].open = 0 THEN
    Move(Rearmed)
  ELSE
    UNCHANGED checkVars

(* A sweep under way remembers that its manager has been reachable.        *)
Noticed(w) ==
  sweep' = [s \in Sweepers |->
    IF w = manager /\ s \in current /\ link'[w].row /\ link'[w].age = "fresh"
      THEN [sweep[s] EXCEPT !.back = TRUE] ELSE sweep[s]]

(***************************************************************************)
(* Deliveries and sessions.                                                *)
(***************************************************************************)
Spend == events < MaxEvents /\ events' = events + 1

Connect(w) ==
  /\ Spend
  /\ w \notin ended
  /\ link[w].open < MaxConns
  /\ link' = [link EXCEPT ![w] =
       [row |-> TRUE, age |-> "fresh", cut |-> "none",
        open |-> IF link[w].age = "fresh" THEN link[w].open + 1 ELSE 1]]
  /\ DeliveryTrigger(w)
  /\ Noticed(w)
  /\ UNCHANGED <<ended, granted, failover, roleVars, assign>>

Heartbeat(w) ==
  /\ link[w].open > 0
  /\ w \notin ended
  /\ IF link[w].age = "fresh" THEN UNCHANGED events ELSE Spend
  /\ link' = [link EXCEPT ![w].age = "fresh",
                          ![w].cut = IF @ = "none" THEN @ ELSE "before"]
  /\ DeliveryTrigger(w)
  /\ Noticed(w)
  /\ UNCHANGED <<ended, granted, failover, roleVars, assign>>

Disconnect(w) ==
  /\ Spend
  /\ link[w].open > 0
  /\ link' = [link EXCEPT ![w].open = @ - 1, ![w].cut = "last",
                          ![w].age = "fresh"]
  /\ DeliveryTrigger(w)
  /\ Noticed(w)
  /\ UNCHANGED <<ended, granted, failover, roleVars, assign>>

(* pruneStaleRoomAgentDeliveryInstances: the connections of a process that *)
(* died are closed without a grace, and the outage is counted from here.   *)
Prune(w) ==
  /\ link[w].open > 0
  /\ link[w].age # "fresh"
  /\ link' = [link EXCEPT ![w].open = 0, ![w].cut = "last",
                          ![w].age = "stale"]
  /\ DeliveryTrigger(w)
  /\ UNCHANGED <<ended, granted, failover, roleVars, procVars, events>>

(* The session's end re-arms the check at once, and the retirement of its  *)
(* delivery row in the same transaction moves it again.                    *)
EndSession(w) ==
  /\ Spend
  /\ w \notin ended
  /\ ended' = ended \cup {w}
  /\ link' = IF link[w].row
       THEN [link EXCEPT ![w] = [row |-> TRUE, open |-> 0, age |-> "stale",
                                 cut |-> "last"]]
       ELSE link
  /\ CASE w # manager -> UNCHANGED checkVars
       [] w = manager /\ link[w].row -> Move("outage")
       [] OTHER -> Move("due")
  /\ UNCHANGED <<granted, failover, roleVars, procVars>>

LoseGrant(w) ==
  /\ Spend
  /\ w \in granted
  /\ granted' = granted \ {w}
  /\ UNCHANGED <<link, ended, failover, roleVars, checkVars, procVars>>

(***************************************************************************)
(* Time.                                                                   *)
(***************************************************************************)
(* 90 s without a heartbeat, or the end of the reconnect grace.            *)
Lapse(w) ==
  /\ Reachable(w)
  /\ IF link[w].open > 0 THEN Spend ELSE UNCHANGED events
  /\ link' = [link EXCEPT ![w].age = "stale"]
  /\ UNCHANGED <<ended, granted, failover, roleVars, checkVars, procVars>>

(* 5 minutes since the row was last written.                               *)
GrowOld(w) ==
  /\ link[w].row /\ link[w].age = "stale"
  /\ link' = [link EXCEPT ![w].age = "gone"]
  /\ UNCHANGED <<ended, granted, failover, roleVars, checkVars, procVars, events>>

Mature ==
  /\ young
  /\ young' = FALSE
  /\ UNCHANGED <<roomVars, manager, heard, excused, checkVars, procVars, events>>

(* The value stays what it is, and so does the claim on it.                *)
FallDue ==
  /\ \/ stall = "timer"
     \/ stall = "outage" /\ link[manager].age = "gone" /\ ~young
  /\ stall' = "due"
  /\ UNCHANGED <<roomVars, roleVars, claim, current, procVars, events>>

(***************************************************************************)
(* People: the failover mode, the assignment (three statements, with no    *)
(* transaction around them) and the release of a manager.                  *)
(***************************************************************************)
(* A slip: a change of mode moves no check.                                *)
SetFailover_NoTrigger(m) ==
  /\ Spend
  /\ failover # m
  /\ failover' = m
  /\ UNCHANGED <<link, ended, granted, roleVars, checkVars, procVars>>

SetFailover(m) ==
  /\ Spend
  /\ failover # m
  /\ failover' = m
  /\ UNCHANGED link
  /\ IF manager = None THEN UNCHANGED checkVars
     ELSE Move(IF m = "off" THEN "null" ELSE Rearmed)
  /\ UNCHANGED <<ended, granted, roleVars, procVars>>

(* The active assignment becomes released.                                 *)
Vacate ==
  /\ manager' = None
  /\ young' = FALSE
  /\ heard' = FALSE
  /\ stall' = "null"
  /\ claim' = None
  /\ current' = {}

(* A new active assignment of w is inserted.                               *)
Install(w) ==
  /\ manager' = w
  /\ young' = TRUE
  /\ heard' = FALSE
  /\ stall' = Scheduled(w, TRUE)
  /\ claim' = None
  /\ current' = {}

AssignRead(a, w) ==
  /\ Spend
  /\ assign[a].pc = "idle"
  /\ w \notin ended
  /\ assign' = [assign EXCEPT ![a] = [pc |-> "release", to |-> w]]
  /\ UNCHANGED <<roomVars, roleVars, checkVars, sweep>>

AssignRelease(a) ==
  /\ assign[a].pc = "release"
  /\ assign' = [assign EXCEPT ![a].pc = "insert"]
  /\ Vacate
  /\ UNCHANGED <<roomVars, excused, sweep, events>>

(* The unique index on the active assignment refuses a second one.         *)
AssignInsert(a) ==
  /\ assign[a].pc = "insert"
  /\ assign' = [assign EXCEPT ![a] = Idling]
  /\ UNCHANGED <<roomVars, sweep, events>>
  /\ IF manager = None
       THEN Install(assign[a].to) /\ excused' = FALSE
       ELSE UNCHANGED <<roleVars, checkVars>>

(* The server dies between two statements of the assignment.               *)
AssignCrash(a) ==
  /\ Spend
  /\ assign[a].pc # "idle"
  /\ assign' = [assign EXCEPT ![a] = Idling]
  /\ excused' = (excused \/ manager = None)
  /\ UNCHANGED <<roomVars, manager, young, heard, checkVars, sweep>>

ReleaseManager ==
  /\ Spend
  /\ manager # None
  /\ Vacate
  /\ excused' = TRUE
  /\ UNCHANGED <<roomVars, procVars>>

(***************************************************************************)
(* The failover sweep.                                                     *)
(***************************************************************************)
(* Sweep s is over and has left stall_check_at alone: nobody compares with *)
(* what it claimed any more.                                               *)
Done(s) ==
  /\ sweep' = [sweep EXCEPT ![s] = Idle]
  /\ current' = current \ {s}
  /\ claim' = IF claim = s THEN None ELSE claim

Claim(s) ==
  /\ sweep[s].pc = "idle"
  /\ manager # None
  /\ stall = "due"
  /\ stall' = "timer"
  /\ claim' = s
  /\ current' = current \cup {s}
  /\ sweep' = [sweep EXCEPT ![s] = [Idle EXCEPT !.pc = "claimed"]]
  /\ UNCHANGED <<roomVars, roleVars, assign, events>>

(* evaluateBoardManagerDeath: an outage counts from the last disconnection *)
(* when there is one, even if another connection outlived it and has sent  *)
(* heartbeats since.                                                       *)
OutageOver5Min(w) ==
  \/ link[w].age = "gone"
  \/ link[w].cut = "before"

Dead(w) ==
  \/ w \in ended
  \/ /\ link[w].row /\ w \notin granted /\ ~Reachable(w)
     /\ ~young /\ OutageOver5Min(w)

(* A disconnection before the last heartbeat may be of any age.            *)
MayLive(w) ==
  \/ ~Dead(w)
  \/ w \notin ended /\ link[w].age # "gone"

Successors ==
  LET others == {w \in Workers \ (ended \cup {manager}) : Reachable(w)}
      live   == {w \in others : Live(w)}
  IN  IF live # {} THEN live ELSE others

Decide(s, pc, to) ==
  sweep' = [sweep EXCEPT ![s] = [pc |-> pc, to |-> to, back |-> FALSE]]

Read(s) ==
  /\ sweep[s].pc = "claimed"
  /\ UNCHANGED <<roomVars, roleVars, checkVars, assign, events>>
  /\ \/ s \notin current /\ Decide(s, "idle", None)
     \/ s \in current /\ failover = "off" /\ Decide(s, "off", None)
     \/ /\ s \in current /\ failover # "off"
        /\ \/ MayLive(manager) /\ Decide(s, "alive", None)
           \/ /\ Dead(manager)
              /\ IF failover = "auto" /\ Successors # {}
                   THEN \E w \in Successors : Decide(s, "failover", w)
                   ELSE Decide(s, "offline", None)

(* Slips: an offline manager is announced once and not looked at again;    *)
(* the reschedule does not compare with the claimed value.                 *)
Reschedule_OnceTold(s) ==
  /\ sweep[s].pc \in {"off", "alive", "told"}
  /\ Done(s)
  /\ stall' = CASE claim # s -> stall
                [] claim = s /\ sweep[s].pc \in {"off", "told"} -> "null"
                [] OTHER -> "timer"
  /\ UNCHANGED <<roomVars, roleVars, assign, events>>

Reschedule_Unfenced(s) ==
  /\ sweep[s].pc \in {"off", "alive", "told"}
  /\ Done(s)
  /\ stall' = CASE s \notin current -> stall
                [] s \in current /\ sweep[s].pc = "off" -> "null"
                [] OTHER -> "timer"
  /\ UNCHANGED <<roomVars, roleVars, assign, events>>

(* rescheduleActiveBoardManagerAssignment, only while the claim holds.     *)
Reschedule(s) ==
  /\ sweep[s].pc \in {"off", "alive", "told"}
  /\ Done(s)
  /\ stall' = CASE claim # s -> stall
                [] claim = s /\ sweep[s].pc = "off" -> "null"
                [] OTHER -> "timer"
  /\ UNCHANGED <<roomVars, roleVars, assign, events>>

AnnounceOffline(s) ==
  /\ sweep[s].pc = "offline"
  /\ sweep' = [sweep EXCEPT ![s].pc = "told"]
  /\ heard' = (heard \/ s \in current)
  /\ UNCHANGED <<roomVars, manager, young, excused, checkVars, assign, events>>

(* A slip: the transaction does not compare the claim.                     *)
MayRelease_AnyClaim(s) ==
  /\ manager # None
  /\ \/ manager \in ended
     \/ link[manager].row /\ manager \notin granted /\ ~Reachable(manager)

(* releaseBoardManagerAssignmentTx and promoteBoardManagerTx, under the    *)
(* locks of both workers' sessions and deliveries.                         *)
MayRelease(s) ==
  /\ claim = s
  /\ \/ manager \in ended
     \/ link[manager].row /\ manager \notin granted /\ ~Reachable(manager)

MayPromote(w) == w \notin ended /\ Reachable(w)

(* A slip: the release stands when nobody can be promoted.                 *)
Depose_NoRollback(s) ==
  /\ sweep[s].pc = "failover"
  /\ MayRelease(s)
  /\ UNCHANGED <<roomVars, excused, assign, events>>
  /\ IF MayPromote(sweep[s].to) THEN Install(sweep[s].to) ELSE Vacate
  /\ sweep' = [sweep EXCEPT ![s] = Idle]

Depose(s) ==
  /\ sweep[s].pc = "failover"
  /\ MayRelease(s) /\ MayPromote(sweep[s].to)
  /\ UNCHANGED <<roomVars, excused, assign, events>>
  /\ Install(sweep[s].to)
  /\ sweep' = [sweep EXCEPT ![s] = Idle]

(* The fence is lost: the transaction, announcement included, rolls back.  *)
LoseRace(s) ==
  /\ sweep[s].pc = "failover"
  /\ ~(MayRelease(s) /\ MayPromote(sweep[s].to))
  /\ Done(s)
  /\ UNCHANGED <<roomVars, roleVars, stall, assign, events>>

(* The sweep's server dies, or a statement of the sweep throws.            *)
SweepCrash(s) ==
  /\ Spend
  /\ sweep[s].pc # "idle"
  /\ Done(s)
  /\ UNCHANGED <<roomVars, roleVars, stall, assign>>

(***************************************************************************)
(* The specification.                                                      *)
(***************************************************************************)
Init ==
  /\ link \in [Workers -> {NoRow,
       [row |-> TRUE, open |-> 1, age |-> "fresh", cut |-> "none"]}]
  /\ ended = {}
  /\ granted = Supervised
  /\ manager \in Workers \cup {None}
  /\ young = (manager # None)
  /\ failover = "auto"
  /\ stall = IF manager # None /\ link[manager].row THEN "outage" ELSE "null"
  /\ claim = None
  /\ current = {}
  /\ sweep = [s \in Sweepers |-> Idle]
  /\ assign = [a \in Admins |-> Idling]
  /\ heard = FALSE
  /\ excused = (manager = None)
  /\ events = 0

WorkerStep(w) ==
  \/ Connect(w) \/ Heartbeat(w) \/ Disconnect(w) \/ Prune(w)
  \/ EndSession(w) \/ LoseGrant(w)

TimeStep ==
  Mature \/ FallDue \/ \E w \in Workers : Lapse(w) \/ GrowOld(w)

AdminStep ==
  \/ \E m \in Modes : SetFailover(m)
  \/ ReleaseManager
  \/ \E a \in Admins :
       \/ \E w \in Workers : AssignRead(a, w)
       \/ AssignRelease(a) \/ AssignInsert(a) \/ AssignCrash(a)

SweepStep(s) ==
  \/ Claim(s) \/ Read(s) \/ Reschedule(s) \/ AnnounceOffline(s)
  \/ Depose(s) \/ LoseRace(s) \/ SweepCrash(s)

Next ==
  \/ TimeStep
  \/ AdminStep
  \/ \E w \in Workers : WorkerStep(w)
  \/ \E s \in Sweepers : SweepStep(s)

Spec == Init /\ [][Next]_vars

(* The servers run their sweeps and requests, and time passes.  A change   *)
(* of some delivery, or another sweep after 60 s, can take the claim from  *)
(* a sweep in the milliseconds between its claim, its reading and its      *)
(* transaction; it does not always.                                        *)
Fairness ==
  /\ WF_vars(Mature) /\ WF_vars(FallDue)
  /\ \A w \in Workers : WF_vars(GrowOld(w))
  /\ \A a \in Admins : WF_vars(AssignRelease(a)) /\ WF_vars(AssignInsert(a))
  /\ \A s \in Sweepers :
       /\ WF_vars(Claim(s)) /\ WF_vars(Read(s)) /\ WF_vars(Reschedule(s))
       /\ WF_vars(AnnounceOffline(s)) /\ WF_vars(LoseRace(s))
       /\ SF_vars(claim = s /\ Read(s)) /\ SF_vars(Depose(s))

FairSpec == Spec /\ Fairness

(***************************************************************************)
(* Properties.                                                             *)
(***************************************************************************)
TypeOK ==
  /\ link \in [Workers -> Links]
  /\ ended \subseteq Workers /\ granted \subseteq Supervised
  /\ manager \in Workers \cup {None}
  /\ failover \in Modes
  /\ stall \in {"null", "outage", "timer", "due"}
  /\ claim \in Sweepers \cup {None}
  /\ current \subseteq Sweepers
  /\ young \in BOOLEAN /\ heard \in BOOLEAN /\ excused \in BOOLEAN
  /\ manager = None => stall = "null" /\ claim = None
  /\ sweep \in [Sweepers ->
       [pc : {"idle", "claimed", "off", "alive", "offline", "told", "failover"},
        to : Workers \cup {None}, back : BOOLEAN]]
  /\ assign \in [Admins ->
       [pc : {"idle", "release", "insert"}, to : Workers \cup {None}]]
  /\ events \in 0..MaxEvents

(* A manager is deposed only if it was not reachable at any moment since   *)
(* the sweep looked at it, unless its session has ended; one assigned less *)
(* than 5 minutes ago never is.  The failover transaction does not look    *)
(* back: it relies on every delivery moving stall_check_at.                *)
DeposedStayedAway ==
  [][\A s \in Sweepers : Depose(s) =>
       manager \in ended \/ (~young /\ ~sweep[s].back)]_vars

(* A failover commits only while the room's mode is "auto": the            *)
(* transaction never reads the mode, a change of mode takes its claim.     *)
ModeIsRespected ==
  [][\A s \in Sweepers : Depose(s) => failover = "auto"]_vars

(* A room that has a manager keeps one, whatever sweeps and assignments    *)
(* interleave, unless a person releases the role or a server dies within   *)
(* an assignment, which is not a transaction.                              *)
RoomKeepsAManager ==
  manager = None =>
    excused \/ \E a \in Admins : assign[a].pc = "insert"

(* A manager whose death can be seen is not left in place for ever while   *)
(* the mode is "auto" and some other worker stays reachable.  Out of       *)
(* sight: one that ended before its assignment was inserted and never had  *)
(* a delivery, whose row is not scheduled for any check.                   *)
DeadManagerIsReplaced ==
  ~<>[](/\ manager # None /\ failover = "auto"
        /\ Dead(manager) /\ ~MayLive(manager) /\ link[manager].row
        /\ \E w \in Workers \ (ended \cup {manager}) : Reachable(w))

(* While the mode is not "off", the room is told of such a manager, or it  *)
(* is replaced, comes back or is released.                                 *)
VacancyIsHeard ==
  ~<>[](/\ manager # None /\ failover # "off" /\ ~heard
        /\ Dead(manager) /\ ~MayLive(manager) /\ link[manager].row)
=============================================================================
