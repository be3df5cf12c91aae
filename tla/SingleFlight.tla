----------------------------- MODULE SingleFlight -----------------------------
(***************************************************************************)
(* createTrailingSingleFlight (src/src/api/single-flight.ts): requests for *)
(* a refresh are coalesced into one active pass and one trailing pass.     *)
(*                                                                         *)
(* JavaScript runs one synchronous block at a time; the blocks here are a  *)
(* request, the continuation of drain() after `await runPass()`, and the   *)
(* finally callback of drainPromise, which is a later microtask: a request *)
(* may run between the return of drain() and that callback.  runPass does  *)
(* not itself call the returned function (neither of its callers' does).   *)
(*                                                                         *)
(* Its specification is named FlightSpec, so that one module can extend    *)
(* both this utility and BoundedExecutor.                                  *)
(***************************************************************************)
EXTENDS Naturals

CONSTANT MaxRequests   \* bound: requests in one behaviour
ASSUME RequestsAssumption == MaxRequests \in Nat

VARIABLES
  requested,   \* requestedGeneration: the number of requests so far
  completed,   \* completedGeneration
  waiters,     \* the generations whose promise is not settled
  drain,       \* drainPromise: "null", "passing" (awaiting runPass), "returned"
  pass,        \* passGeneration of the pass in progress, or of the last one
  view,        \* how many requests had been made when that pass was started
  answer       \* [generation -> view of the pass that settled its promise]

flightVars == <<requested, completed, waiters, drain, pass, view, answer>>

Generation == 1..MaxRequests

FlightInit ==
  /\ requested = 0 /\ completed = 0
  /\ waiters = {}
  /\ drain = "null"
  /\ pass = 0 /\ view = 0
  /\ answer = [g \in Generation |-> 0]

\* The loop of drain(): take the generation and start runPass, or return.
\* Slip: an idle drain passes once more.
Behind_OrLevel(c, q) == c <= q
Behind(c, q) == c < q

Loop(c, q) ==
  IF Behind(c, q) THEN drain' = "passing" /\ pass' = q /\ view' = q
                  ELSE drain' = "returned" /\ UNCHANGED <<pass, view>>

\* `++requestedGeneration`, the waiter, and ensureDrain.
Ask ==
  /\ requested < MaxRequests
  /\ requested' = requested + 1
  /\ waiters' = waiters \cup {requested + 1}
  /\ IF drain = "null" THEN Loop(completed, requested + 1)
                       ELSE UNCHANGED <<drain, pass, view>>
  /\ UNCHANGED <<completed, answer>>

\* The pass resolves or rejects; either way its generation is complete and
\* everyone up to it is settled.
\* Slip: the generation is read when the pass ends.
PassGeneration_Late == requested
PassGeneration == pass

PassSettles ==
  /\ drain = "passing"
  /\ completed' = PassGeneration
  /\ waiters' = {g \in waiters : g > PassGeneration}
  /\ answer' = [g \in Generation |-> IF g \in waiters \ waiters' THEN view ELSE answer[g]]
  /\ Loop(PassGeneration, requested)
  /\ UNCHANGED requested

\* The finally callback: forget the drain, start another for who came late.
\* Slip: the drain is only forgotten.
Restart_Never == drain' = "null" /\ UNCHANGED <<pass, view>>
Restart == IF completed < requested THEN Loop(completed, requested)
           ELSE drain' = "null" /\ UNCHANGED <<pass, view>>

Finally ==
  /\ drain = "returned"
  /\ Restart
  /\ UNCHANGED <<requested, completed, waiters, answer>>

FlightNext == Ask \/ PassSettles \/ Finally

FlightSpec == FlightInit /\ [][FlightNext]_flightVars

\* runPass settles, and microtasks run.
FairFlight == FlightSpec /\ WF_flightVars(PassSettles) /\ WF_flightVars(Finally)

-----------------------------------------------------------------------------
(* Properties.                                                             *)

FlightTypeOK ==
  /\ requested \in 0..MaxRequests
  /\ completed \in 0..requested
  /\ waiters \subseteq 1..requested
  /\ drain \in {"null", "passing", "returned"}
  /\ pass \in 0..requested
  /\ view \in 0..requested
  /\ answer \in [Generation -> 0..MaxRequests]

\* A request is answered by a pass that started after it was made: what the
\* caller was told has been refreshed is not older than the request.
NoStaleAnswer ==
  \A g \in 1..requested : g \in waiters \/ answer[g] >= g

\* The requests that wait are those no completed pass has covered, and while
\* any waits a drain is under way: in the window between the return of
\* drain() and its finally callback no wakeup is lost.
NoLostWakeup ==
  /\ waiters = (completed + 1)..requested
  /\ waiters # {} => drain # "null"

\* A pass runs for somebody: coalescing never leaves an idle trailing pass.
PassesHaveWaiters ==
  drain = "passing" => pass \in waiters

\* Every request is answered.
EveryRequestIsAnswered ==
  \A g \in Generation : g \in waiters ~> g \notin waiters
===============================================================================
