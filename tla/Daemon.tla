------------------------------- MODULE Daemon -------------------------------
(***************************************************************************)
(* The daemon: runs and their store, the event bus with its streams and a  *)
(* page that follows a run, resource access and WebGET sessions, over one  *)
(* ledger.  What is in memory is lost when the process restarts: streams,  *)
(* requests, WebGET sessions, and access grants unless their store is      *)
(* SQLite.  The ledger, the run store's file and the page survive.         *)
(*                                                                         *)
(* A scenario says who is busy: a page that follows a run whose requests   *)
(* overlap, requesters of resources, participants that submit over WebGET, *)
(* or callers that create and update runs.                                 *)
(***************************************************************************)
EXTENDS DaemonRuns, WebGet

CONSTANTS Scenarios,   \* a subset of {"follow", "resources", "submit", "runs"}
          MaxRestarts  \* bound of the restarts

ASSUME ScenariosAssumption == Scenarios \subseteq {"follow", "resources", "submit", "runs"}
ASSUME MaxRestartsAssumption == MaxRestarts \in Nat

VARIABLES scenario,
          accessStore,  \* "memory" or "sqlite"
          restarts

vars == <<scenario, accessStore, restarts, busVars, accessVars, webget, runVars>>

Init ==
  /\ scenario \in Scenarios
  /\ accessStore \in {"memory", "sqlite"}
  /\ scenario # "resources" => accessStore = "memory"
  /\ restarts = 0
  /\ BusInit /\ AccessInit /\ WebGetInit
  /\ RunsInit /\ (scenario # "runs" => runStore = "json")
-----------------------------------------------------------------------------
(***************************************************************************)
(* The process ends and the next one starts.  Requests and streams end     *)
(* with it, the page's source and its read fail.                           *)
(***************************************************************************)
BusRestart ==
  /\ published' = {}
  /\ start' = Len(log)
  /\ listeners' = <<>>
  /\ entry' = 0
  /\ stream' = [s \in Streams |->
                  IF stream[s].status = "unused" THEN stream[s]
                  ELSE [status |-> "closed", home |-> 0, late |-> FALSE, sent |-> <<>>]]
  /\ request' = [q \in Requests |->
                   IF request[q].status = "running"
                     THEN [request[q] EXCEPT !.status = "done", !.before = {}]
                     ELSE request[q]]
  /\ page' = [page EXCEPT !.follows = NoStream, !.answer = <<>>,
                          !.query = IF @ = "read" THEN @ ELSE "failed"]

AccessRestart ==
  grants' = [g \in Accesses |->
               IF accessStore = "sqlite" \/ grants[g].status = "unused" THEN grants[g]
               ELSE [Unused EXCEPT !.status = "gone"]]

WebGetRestart ==
  webget' = [t \in Tokens |->
               IF webget[t].status = "unused" THEN NoSession
               ELSE [NoSession EXCEPT !.status = "gone"]]

Restart ==
  /\ restarts < MaxRestarts
  /\ restarts' = restarts + 1
  /\ BusRestart /\ AccessRestart /\ WebGetRestart
  /\ IF scenario = "runs" THEN RunsCrash ELSE UNCHANGED runVars
  /\ UNCHANGED <<log, handed, now, scenario, accessStore>>
-----------------------------------------------------------------------------
\* What stays as it is until the next restart.
Settled == UNCHANGED <<scenario, accessStore, restarts>>

FollowStep ==
  /\ scenario = "follow"
  /\ BusNext
  /\ UNCHANGED <<accessVars, webget, runVars>> /\ Settled

\* What neither a handler's append nor the stores of its own change.
Aside == UNCHANGED <<start, listeners, entry, request, page>>

ResourcesStep ==
  /\ scenario = "resources"
  /\ (AccessNext \/ Tick) /\ Aside
  /\ UNCHANGED <<webget, runVars>> /\ Settled

SubmitStep ==
  /\ scenario = "submit"
  /\ \/ WebGetNext /\ Aside
     \/ Tick /\ UNCHANGED webget /\ Aside
     \/ HttpMutation /\ UNCHANGED <<accessVars, webget>>
  /\ UNCHANGED runVars /\ Settled

RunsStep ==
  /\ scenario = "runs"
  /\ \E r \in Runs : CreateRun(r) \/ UpdateRun(r)
  /\ UNCHANGED <<busVars, accessVars, webget>> /\ Settled

Next == FollowStep \/ ResourcesStep \/ SubmitStep \/ RunsStep \/ Restart

Spec == Init /\ [][Next]_vars
=============================================================================
