------------------------- MODULE BoardManagerProofs -------------------------
(***************************************************************************)
(* Proofs about BoardManager, for any number of workers, servers and       *)
(* requests.                                                               *)
(***************************************************************************)
EXTENDS BoardManager, TLAPS

(* A sweep about to depose names a successor, a request under way a worker *)
(* to install.                                                             *)
Named ==
  /\ \A s \in Sweepers : sweep[s].pc = "failover" => sweep[s].to \in Workers
  /\ \A a \in Admins : assign[a].pc # "idle" => assign[a].to \in Workers

(* While the claim of a sweep about to depose still holds, the mode is     *)
(* "auto", and the manager has ended or has neither been reachable nor     *)
(* been assigned since the sweep looked.                                   *)
Fenced ==
  \A s \in Sweepers : claim = s /\ sweep[s].pc = "failover" =>
    /\ failover = "auto"
    /\ manager \in ended \/ (~young /\ ~sweep[s].back)

IInv == TypeOK /\ Named /\ Fenced /\ RoomKeepsAManager

Checks == {"null", "outage", "timer", "due"}
SweepRecords ==
  [pc : {"idle", "claimed", "off", "alive", "offline", "told", "failover"},
   to : Workers \cup {None}, back : BOOLEAN]
AssignRecords ==
  [pc : {"idle", "release", "insert"}, to : Workers \cup {None}]

(* A row that is cut keeps its type.                                       *)
LEMMA CutRow ==
  ASSUME NEW x \in Links, NEW o \in 0..MaxConns, NEW g \in Ages
  PROVE  [x EXCEPT !.open = o, !.cut = "last", !.age = g] \in Links
  BY DEF Links

(* The triggers give the check one of the values the model tells apart.     *)
LEMMA ScheduledType ==
  ASSUME NEW w, NEW f
  PROVE  Scheduled(w, f) \in Checks
  BY DEF Scheduled, Checks

(* The triggers on a delivery give up every claim on the manager's own row *)
(* and touch nothing else of the role.                                     *)
LEMMA TriggerEffect ==
  ASSUME TypeOK, NEW w \in Workers, DeliveryTrigger(w)
  PROVE  /\ stall' \in Checks
         /\ claim' \in {claim, None}
         /\ current' = current
         /\ w = manager => claim' = None
         /\ manager = None => stall' = stall /\ claim' = claim
  BY ScheduledType, NoneAssumption
     DEF DeliveryTrigger, Move, Rearmed, Checks, TypeOK, checkVars

(* A change of a delivery keeps the invariant.                             *)
LEMMA DeliveryKeeps ==
  ASSUME IInv, NEW w \in Workers, DeliveryTrigger(w),
         link' \in [Workers -> Links], events' \in 0..MaxEvents,
         Noticed(w) \/ sweep' = sweep,
         UNCHANGED <<ended, granted, failover, roleVars, assign>>
  PROVE  IInv'
  <1>1. \A s \in Sweepers : /\ sweep'[s].pc = sweep[s].pc
                            /\ sweep'[s].to = sweep[s].to
                            /\ w # manager => sweep'[s].back = sweep[s].back
    BY DEF Noticed, IInv, TypeOK
  <1>2. sweep' \in [Sweepers -> SweepRecords]
    <2>1. ASSUME NEW x \in SweepRecords
          PROVE  [x EXCEPT !.back = TRUE] \in SweepRecords
      BY DEF SweepRecords
    <2> QED
      BY <2>1 DEF Noticed, IInv, TypeOK, SweepRecords
  <1>3. TypeOK'
    BY <1>2, TriggerEffect DEF IInv, TypeOK, roleVars, Checks, SweepRecords
  <1>4. Named' /\ RoomKeepsAManager'
    BY <1>1 DEF IInv, Named, RoomKeepsAManager, roleVars
  <1>5. Fenced'
    BY <1>1, TriggerEffect, NoneAssumption DEF IInv, Fenced, roleVars
  <1> QED
    BY <1>3, <1>4, <1>5 DEF IInv

(* The steps of workers.                                                   *)
LEMMA WorkerKeeps ==
  ASSUME IInv, NEW w \in Workers, WorkerStep(w)
  PROVE  IInv'
  <1> USE BoundsAssumption
  <1>0. link \in [Workers -> Links] /\ link[w] \in Links
    BY DEF IInv, TypeOK
  <1>1. CASE Connect(w)
    <2>1. link' \in [Workers -> Links]
      <3>1. link'[w] \in Links /\ link' = [link EXCEPT ![w] = link'[w]]
        BY <1>0, <1>1 DEF Connect, Links, Ages
      <3> QED
        BY <1>0, <3>1
    <2>2. events' \in 0..MaxEvents
      BY <1>1 DEF Connect, Spend, IInv, TypeOK
    <2> QED
      BY <1>1, <2>1, <2>2, DeliveryKeeps DEF Connect
  <1>2. CASE Heartbeat(w)
    <2>1. link' \in [Workers -> Links]
      <3>1. link'[w] \in Links /\ link' = [link EXCEPT ![w] = link'[w]]
        BY <1>0, <1>2 DEF Heartbeat, Links, Ages
      <3> QED
        BY <1>0, <3>1
    <2>2. events' \in 0..MaxEvents
      BY <1>2 DEF Heartbeat, Spend, IInv, TypeOK
    <2> QED
      BY <1>2, <2>1, <2>2, DeliveryKeeps DEF Heartbeat
  <1>3. CASE Disconnect(w)
    <2>1. link' \in [Workers -> Links]
      <3> DEFINE x == [link[w] EXCEPT !.open = @ - 1, !.cut = "last", !.age = "fresh"]
      <3>1. link' = [link EXCEPT ![w] = x]
        BY <1>3 DEF Disconnect
      <3>2. link[w].open - 1 \in 0..MaxConns /\ "fresh" \in Ages
        BY <1>0, <1>3 DEF Disconnect, Links, Ages
      <3>3. x \in Links
        BY <1>0, <3>2, CutRow
      <3> QED
        BY <1>0, <3>1, <3>3
    <2>2. events' \in 0..MaxEvents
      BY <1>3 DEF Disconnect, Spend, IInv, TypeOK
    <2> QED
      BY <1>3, <2>1, <2>2, DeliveryKeeps DEF Disconnect
  <1>4. CASE Prune(w)
    <2>1. link' \in [Workers -> Links]
      <3> DEFINE x == [link[w] EXCEPT !.open = 0, !.cut = "last", !.age = "stale"]
      <3>1. link' = [link EXCEPT ![w] = x]
        BY <1>4 DEF Prune
      <3>2. 0 \in 0..MaxConns /\ "stale" \in Ages
        BY <1>0, <1>4 DEF Prune, Links, Ages
      <3>3. x \in Links
        BY <1>0, <3>2, CutRow
      <3> QED
        BY <1>0, <3>1, <3>3
    <2>2. events' \in 0..MaxEvents
      BY <1>4 DEF Prune, IInv, TypeOK
    <2> QED
      BY <1>4, <2>1, <2>2, DeliveryKeeps DEF Prune, procVars
  <1>5. CASE EndSession(w)
    <2>1. link' \in [Workers -> Links]
      BY <1>0, <1>5 DEF EndSession, Links, Ages
    <2>2. /\ stall' \in Checks
          /\ claim' \in {claim, None}
          /\ current' = current
          /\ manager = None => stall' = stall /\ claim' = claim
      BY <1>5, NoneAssumption DEF EndSession, Move, checkVars, Checks, IInv, TypeOK
    <2>3. TypeOK'
      BY <1>5, <2>1, <2>2
         DEF EndSession, Spend, IInv, TypeOK, roleVars, procVars, Checks
    <2>4. Named' /\ RoomKeepsAManager' /\ Fenced'
      BY <1>5, <2>2, NoneAssumption
         DEF EndSession, IInv, Named, RoomKeepsAManager, Fenced, roleVars, procVars
    <2> QED
      BY <2>3, <2>4 DEF IInv
  <1>6. CASE LoseGrant(w)
    BY <1>6
       DEF LoseGrant, Spend, IInv, TypeOK, Named, RoomKeepsAManager, Fenced,
           roleVars, checkVars, procVars
  <1> QED
    BY <1>1, <1>2, <1>3, <1>4, <1>5, <1>6 DEF WorkerStep

(* The passing of time.                                                    *)
LEMMA TimeKeeps ==
  ASSUME IInv, TimeStep
  PROVE  IInv'
  <1> USE BoundsAssumption
  <1>1. CASE Mature
    BY <1>1 DEF Mature, IInv, TypeOK, Named, RoomKeepsAManager, Fenced,
                roomVars, checkVars, procVars
  <1>2. CASE FallDue
    BY <1>2 DEF FallDue, IInv, TypeOK, Named, RoomKeepsAManager, Fenced,
                roomVars, roleVars, procVars
  <1>3. ASSUME NEW w \in Workers, Lapse(w) \/ GrowOld(w)
        PROVE  IInv'
    <2>1. link[w] \in Links
      BY DEF IInv, TypeOK
    <2>2. link' \in [Workers -> Links]
      <3>1. link'[w] \in Links /\ link' = [link EXCEPT ![w] = link'[w]]
        BY <1>3, <2>1 DEF Lapse, GrowOld, Links, Ages, IInv, TypeOK
      <3> QED
        BY <3>1 DEF IInv, TypeOK
    <2>3. events' \in 0..MaxEvents
      BY <1>3 DEF Lapse, GrowOld, Spend, IInv, TypeOK
    <2>4. UNCHANGED <<ended, granted, failover, roleVars, checkVars, procVars>>
      BY <1>3 DEF Lapse, GrowOld
    <2> QED
      BY <2>2, <2>3, <2>4
         DEF IInv, TypeOK, Named, RoomKeepsAManager, Fenced, roleVars, checkVars,
             procVars
  <1> QED
    BY <1>1, <1>2, <1>3 DEF TimeStep

(* Every claim is given up with the row it was on.                         *)
LEMMA InstallEffect ==
  ASSUME NEW w \in Workers, Install(w)
  PROVE  /\ manager' \in Workers /\ manager' # None
         /\ claim' = None /\ stall' \in Checks /\ current' = {}
         /\ young' = TRUE /\ heard' = FALSE
  BY ScheduledType, NoneAssumption DEF Install

(* The steps of people.                                                    *)
LEMMA AdminKeeps ==
  ASSUME IInv, AdminStep
  PROVE  IInv'
  <1> USE BoundsAssumption, NoneAssumption
  <1>0. assign \in [Admins -> AssignRecords]
    BY DEF IInv, TypeOK, AssignRecords
  <1>1. ASSUME NEW m \in Modes, SetFailover(m)
        PROVE  IInv'
    <2>1. /\ stall' \in Checks
          /\ claim' = None
          /\ current' = current
          /\ manager = None => stall' = stall
      BY <1>1, ScheduledType
         DEF SetFailover, Move, Rearmed, checkVars, Checks, IInv, TypeOK
    <2>2. TypeOK'
      BY <1>1, <2>1
         DEF SetFailover, Spend, IInv, TypeOK, roleVars, procVars, Checks
    <2>3. Named' /\ RoomKeepsAManager' /\ Fenced'
      BY <1>1, <2>1
         DEF SetFailover, IInv, Named, RoomKeepsAManager, Fenced, roleVars, procVars
    <2> QED
      BY <2>2, <2>3 DEF IInv
  <1>2. CASE ReleaseManager
    <2>0. events' \in 0..MaxEvents
      BY <1>2 DEF ReleaseManager, Spend, IInv, TypeOK
    <2>1. TypeOK'
      BY <1>2, <2>0 DEF ReleaseManager, Vacate, IInv, TypeOK, roomVars, procVars
    <2>2. Named' /\ RoomKeepsAManager'
      BY <1>2 DEF ReleaseManager, IInv, Named, RoomKeepsAManager, procVars
    <2>3. Fenced'
      BY <1>2 DEF ReleaseManager, Vacate, Fenced
    <2> QED
      BY <2>1, <2>2, <2>3 DEF IInv
  <1>3. ASSUME NEW a \in Admins, NEW w \in Workers, AssignRead(a, w)
        PROVE  IInv'
    <2>1. /\ assign' \in [Admins -> AssignRecords]
          /\ \A b \in Admins : assign'[b].pc # "idle" =>
               assign'[b].to \in Workers
          /\ \A b \in Admins : assign[b].pc = "insert" => assign'[b].pc = "insert"
      BY <1>0, <1>3 DEF AssignRead, AssignRecords, IInv, Named
    <2> QED
      BY <1>3, <2>1
         DEF AssignRead, Spend, IInv, TypeOK, Named, RoomKeepsAManager, Fenced,
             AssignRecords, roomVars, roleVars, checkVars
  <1>4. ASSUME NEW a \in Admins, AssignRelease(a)
        PROVE  IInv'
    <2>1. /\ assign' \in [Admins -> AssignRecords]
          /\ \A b \in Admins : assign'[b].pc # "idle" =>
               assign'[b].to \in Workers
          /\ assign'[a].pc = "insert"
      BY <1>0, <1>4 DEF AssignRelease, AssignRecords, IInv, Named
    <2> QED
      BY <1>4, <2>1
         DEF AssignRelease, Vacate, IInv, TypeOK, Named, RoomKeepsAManager, Fenced,
             AssignRecords, roomVars
  <1>5. ASSUME NEW a \in Admins, AssignInsert(a)
        PROVE  IInv'
    <2>1. /\ assign' \in [Admins -> AssignRecords]
          /\ \A b \in Admins : assign'[b].pc # "idle" =>
               assign'[b].to \in Workers
      BY <1>0, <1>5 DEF AssignInsert, AssignRecords, Idling, IInv, Named
    <2>2. assign[a].to \in Workers
      BY <1>5 DEF AssignInsert, IInv, Named
    <2>3. CASE manager = None
      <3>1. Install(assign[a].to) /\ excused' = FALSE
        BY <1>5, <2>3 DEF AssignInsert
      <3>2. TypeOK'
        BY <1>5, <2>1, <2>2, <3>1, InstallEffect
           DEF AssignInsert, IInv, TypeOK, AssignRecords, roomVars, Checks
      <3>3. Named' /\ RoomKeepsAManager' /\ Fenced'
        BY <1>5, <2>1, <2>2, <3>1, InstallEffect
           DEF AssignInsert, IInv, Named, RoomKeepsAManager, Fenced
      <3> QED
        BY <3>2, <3>3 DEF IInv
    <2>4. CASE manager # None
      BY <1>5, <2>1, <2>4
         DEF AssignInsert, IInv, TypeOK, Named, RoomKeepsAManager, Fenced,
             AssignRecords, roomVars, roleVars, checkVars
    <2> QED
      BY <2>3, <2>4
  <1>6. ASSUME NEW a \in Admins, AssignCrash(a)
        PROVE  IInv'
    <2>1. /\ assign' \in [Admins -> AssignRecords]
          /\ \A b \in Admins : assign'[b].pc # "idle" =>
               assign'[b].to \in Workers
      BY <1>0, <1>6 DEF AssignCrash, AssignRecords, Idling, IInv, Named
    <2>2. excused' \in BOOLEAN /\ (manager = None => excused')
      BY <1>6 DEF AssignCrash, IInv, TypeOK
    <2> QED
      BY <1>6, <2>1, <2>2
         DEF AssignCrash, Spend, IInv, TypeOK, Named, RoomKeepsAManager, Fenced,
             AssignRecords, roomVars, checkVars
  <1> QED
    BY <1>1, <1>2, <1>3, <1>4, <1>5, <1>6 DEF AdminStep

(* What the end of a sweep leaves.                                         *)
LEMMA DoneEffect ==
  ASSUME TypeOK, NEW s \in Sweepers, Done(s)
  PROVE  /\ sweep' \in [Sweepers -> SweepRecords]
         /\ sweep'[s] = Idle
         /\ \A t \in Sweepers \ {s} : sweep'[t] = sweep[t]
         /\ current' \subseteq current
         /\ claim' \in {claim, None}
         /\ claim' # s
  <1>1. Idle \in SweepRecords
    BY DEF Idle, SweepRecords
  <1> QED
    BY <1>1, NoneAssumption DEF Done, TypeOK, SweepRecords

(* A sweep that ends and leaves the role alone keeps the invariant.        *)
LEMMA DoneKeeps ==
  ASSUME IInv, NEW s \in Sweepers, Done(s),
         stall' \in Checks, manager = None => stall' = stall,
         events' \in 0..MaxEvents,
         UNCHANGED <<roomVars, roleVars, assign>>
  PROVE  IInv'
  <1>1. TypeOK'
    BY DoneEffect DEF IInv, TypeOK, SweepRecords, Checks, roomVars, roleVars
  <1>2. Named' /\ RoomKeepsAManager'
    BY DoneEffect DEF IInv, Named, RoomKeepsAManager, Idle, roleVars
  <1>3. Fenced'
    BY DoneEffect, NoneAssumption DEF IInv, Fenced, Idle, roomVars, roleVars
  <1> QED
    BY <1>1, <1>2, <1>3 DEF IInv

(* The steps of a sweep.                                                   *)
LEMMA SweepKeeps ==
  ASSUME IInv, NEW s \in Sweepers, SweepStep(s)
  PROVE  IInv'
  <1> USE BoundsAssumption, NoneAssumption
  <1>0. sweep \in [Sweepers -> SweepRecords] /\ TypeOK
    BY DEF IInv, TypeOK, SweepRecords
  <1>1. CASE Claim(s)
    <2>1. /\ sweep' \in [Sweepers -> SweepRecords]
          /\ sweep'[s].pc = "claimed"
          /\ \A t \in Sweepers \ {s} : sweep'[t] = sweep[t]
      BY <1>0, <1>1 DEF Claim, SweepRecords, Idle
    <2>2. TypeOK'
      BY <1>1, <2>1 DEF Claim, IInv, TypeOK, SweepRecords, roomVars, roleVars
    <2>3. Named' /\ RoomKeepsAManager' /\ Fenced'
      BY <1>1, <2>1 DEF Claim, IInv, Named, RoomKeepsAManager, Fenced, roleVars
    <2> QED
      BY <2>2, <2>3 DEF IInv
  <1>2. CASE Read(s)
    <2>1. PICK pc \in {"idle", "off", "alive", "offline", "failover"},
               to \in Workers \cup {None} :
            /\ Decide(s, pc, to)
            /\ pc = "failover" => /\ to \in Workers
                                 /\ failover = "auto"
                                 /\ Dead(manager)
      BY <1>2 DEF Read, Successors
    <2>2. /\ sweep' \in [Sweepers -> SweepRecords]
          /\ sweep'[s] = [pc |-> pc, to |-> to, back |-> FALSE]
          /\ \A t \in Sweepers \ {s} : sweep'[t] = sweep[t]
      BY <1>0, <2>1 DEF Decide, SweepRecords
    <2>3. UNCHANGED <<roomVars, roleVars, checkVars, assign, events>>
      BY <1>2 DEF Read
    <2>4. TypeOK'
      BY <2>2, <2>3 DEF IInv, TypeOK, SweepRecords, roomVars, roleVars, checkVars
    <2>5. Named' /\ RoomKeepsAManager'
      BY <2>1, <2>2, <2>3 DEF IInv, Named, RoomKeepsAManager, roleVars
    <2>6. Fenced'
      BY <2>1, <2>2, <2>3
         DEF IInv, Fenced, Dead, roomVars, roleVars, checkVars
    <2> QED
      BY <2>4, <2>5, <2>6 DEF IInv
  <1>3. CASE Reschedule(s)
    <2>1. stall' \in Checks /\ (manager = None => stall' = stall)
      BY <1>0, <1>3 DEF Reschedule, Checks, TypeOK
    <2> QED
      BY <1>0, <1>3, <2>1, DoneKeeps DEF Reschedule, TypeOK
  <1>4. CASE AnnounceOffline(s)
    <2>1. /\ sweep' \in [Sweepers -> SweepRecords]
          /\ sweep'[s].pc = "told"
          /\ \A t \in Sweepers \ {s} : sweep'[t] = sweep[t]
      BY <1>0, <1>4 DEF AnnounceOffline, SweepRecords
    <2>2. heard' \in BOOLEAN
      BY <1>0, <1>4 DEF AnnounceOffline, TypeOK
    <2>3. TypeOK'
      BY <1>4, <2>1, <2>2
         DEF AnnounceOffline, IInv, TypeOK, SweepRecords, roomVars, checkVars
    <2>4. Named' /\ RoomKeepsAManager' /\ Fenced'
      BY <1>4, <2>1
         DEF AnnounceOffline, IInv, Named, RoomKeepsAManager, Fenced, roomVars,
             checkVars
    <2> QED
      BY <2>3, <2>4 DEF IInv
  <1>5. CASE Depose(s)
    <2>1. sweep[s].to \in Workers
      BY <1>5 DEF Depose, IInv, Named
    <2>2. Idle \in SweepRecords /\ Idle.pc = "idle"
      BY DEF Idle, SweepRecords
    <2>3. /\ sweep' \in [Sweepers -> SweepRecords]
          /\ sweep'[s] = Idle
          /\ \A t \in Sweepers \ {s} : sweep'[t] = sweep[t]
      BY <1>0, <1>5, <2>2 DEF Depose
    <2>4. /\ manager' \in Workers /\ manager' # None
          /\ claim' = None /\ stall' \in Checks /\ current' = {}
          /\ young' = TRUE /\ heard' = FALSE
      BY <1>5, <2>1, InstallEffect DEF Depose
    <2>5. TypeOK'
      BY <1>5, <2>3, <2>4
         DEF Depose, IInv, TypeOK, SweepRecords, Checks, roomVars
    <2>6. Named' /\ RoomKeepsAManager' /\ Fenced'
      BY <1>5, <2>2, <2>3, <2>4 DEF Depose, IInv, Named, RoomKeepsAManager, Fenced
    <2> QED
      BY <2>5, <2>6 DEF IInv
  <1>6. CASE LoseRace(s)
    BY <1>0, <1>6, DoneKeeps DEF LoseRace, TypeOK, Checks
  <1>7. CASE SweepCrash(s)
    BY <1>0, <1>7, DoneKeeps DEF SweepCrash, Spend, TypeOK, Checks
  <1> QED
    BY <1>1, <1>2, <1>3, <1>4, <1>5, <1>6, <1>7 DEF SweepStep

(* The inductive invariant.                                                *)
THEOREM Inductive == Spec => []IInv
  <1>1. Init => IInv
    <2> SUFFICES ASSUME Init
                 PROVE  IInv
      OBVIOUS
    <2>1. link \in [Workers -> Links]
      <3>1. 0 \in 0..MaxConns /\ 1 \in 0..MaxConns
        BY BoundsAssumption
      <3>2. /\ NoRow \in Links
            /\ [row |-> TRUE, open |-> 1, age |-> "fresh", cut |-> "none"] \in Links
        BY <3>1 DEF NoRow, Links, Ages
      <3> QED
        BY <3>2 DEF Init
    <2>2. TypeOK
      <3>1. young \in BOOLEAN /\ heard \in BOOLEAN /\ excused \in BOOLEAN
        BY DEF Init
      <3>2. sweep \in [Sweepers -> SweepRecords]
        BY DEF Init, Idle, SweepRecords
      <3>3. assign \in [Admins -> AssignRecords]
        BY DEF Init, Idling, AssignRecords
      <3>4. stall \in Checks /\ (manager = None => stall = "null" /\ claim = None)
        BY DEF Init, Checks
      <3> QED
        BY <2>1, <3>1, <3>2, <3>3, <3>4, BoundsAssumption, SupervisedAssumption
           DEF Init, TypeOK, Modes, SweepRecords, AssignRecords, Checks
    <2> QED
      BY <2>2, NoneAssumption
         DEF Init, IInv, Named, Fenced, RoomKeepsAManager, Idle, Idling
  <1>2. IInv /\ [Next]_vars => IInv'
    <2>1. ASSUME IInv, UNCHANGED vars
          PROVE  IInv'
      BY <2>1 DEF vars, roomVars, roleVars, checkVars, procVars, IInv, TypeOK,
                  Named, Fenced, RoomKeepsAManager
    <2> QED
      BY <2>1, WorkerKeeps, TimeKeeps, AdminKeeps, SweepKeeps DEF Next
  <1> QED
    BY <1>1, <1>2, PTL DEF Spec

(* The role is empty only by a person's doing, or for as long as an        *)
(* assignment is between its two statements.                               *)
THEOREM RoomKeepsAManagerHolds == Spec => []RoomKeepsAManager
  BY Inductive, PTL DEF IInv

(* No failover commits in a room whose mode has left "auto", though the    *)
(* transaction does not read the mode.                                     *)
THEOREM ModeIsRespectedHolds == Spec => ModeIsRespected
  <1>1. IInv /\ [Next]_vars =>
          [\A s \in Sweepers : Depose(s) => failover = "auto"]_vars
    BY DEF IInv, Fenced, Depose, MayRelease
  <1> QED
    BY <1>1, Inductive, PTL DEF Spec, ModeIsRespected

(* No failover deposes a manager that was reachable since the sweep looked *)
(* at it, or was assigned less than 5 minutes ago, unless its session has  *)
(* ended.                                                                  *)
THEOREM DeposedStayedAwayHolds == Spec => DeposedStayedAway
  <1>1. IInv /\ [Next]_vars =>
          [\A s \in Sweepers : Depose(s) =>
             manager \in ended \/ (~young /\ ~sweep[s].back)]_vars
    BY DEF IInv, Fenced, Depose, MayRelease
  <1> QED
    BY <1>1, Inductive, PTL DEF Spec, DeposedStayedAway
=============================================================================
