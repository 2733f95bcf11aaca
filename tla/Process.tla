------------------------------- MODULE Process -------------------------------
(***************************************************************************)
(* The process (src/index.ts): main() starts what the configuration enables, *)
(* one part after the other; a signal or a crash tears it all down again in  *)
(* shutdown(), and so does, for what outlives a process, a startup that      *)
(* fails.  Every step awaits: a signal may come while a part is still        *)
(* starting, main() then goes on beside shutdown(), and a second trigger may *)
(* come at any time.  Steps that wait for storage only are kept apart too,   *)
(* which allows more interleavings than the event loop does.  What its HTTP  *)
(* server does with a request is the module Gateway's.                       *)
(***************************************************************************)
EXTENDS Gateway

CONSTANT Configurations  (* bound: the sets of services that are enabled      *)

Enableable == {"scheduler", "pubsub", "tasks", "storage", "workflows", "kms", "memorystore", "alloydb",
             "cloudsql", "compute", "networksecurity"}
Parts == Enableable \cup {"config", "store", "routes", "http", "grpc", "listener"}

(* main(): "store" is the StorageManager, "listener" the evaluation server.  *)
StartOrder ==
  <<"config", "store", "scheduler", "pubsub", "tasks", "storage", "workflows", "kms", "memorystore",
    "alloydb", "cloudsql", "compute", "networksecurity", "routes", "http", "grpc", "listener">>

(* shutdown(), the catch block of main()                                     *)
StopOrder ==
  <<"http", "pubsub", "grpc", "scheduler", "tasks", "storage", "workflows", "memorystore", "alloydb",
    "kms", "cloudsql", "compute", "networksecurity", "store">>
FailureOrder == <<"memorystore", "alloydb", "cloudsql", "compute", "networksecurity">>

(* A db.close() that rejects makes stopAll() of a data plane reject.         *)
MayReject == {"alloydb", "cloudsql"}

(* Of these the routes are added last: their operations share one path.      *)
OperationsServices == {"workflows", "memorystore", "alloydb", "networksecurity"}

Owners == OperationsServices \cup {"composed"}
HealthStates == {"waiting", "up", "down"}
Teardowns == [step : 1 .. Len(StopOrder) + 1, busy : BOOLEAN, code : {0, 1}]
Exits == [code : {0, 1}, by : {"failure", "shutdown"}]

ASSUME ProcessAssumption ==
  /\ Configurations \subseteq SUBSET Enableable
  /\ NoRow \notin Parts \cup Owners \cup HealthStates /\ NoRow \notin Teardowns /\ NoRow \notin Exits

VARIABLES
  enabled,
  parts,       (* "none": its variable is null; "starting", "up", "stopping", "down" *)
  main,        (* what main() is at: its step, and whether it awaits it       *)
  teardown,    (* shutdown(): NoRow before isShuttingDown                     *)
  child,       (* a valkey-server of an instance that outlived the last run   *)
  owner,       (* who owns the path of the operations                         *)
  health,      (* evaluationServerHealth                                      *)
  exited,      (* the code, and who called process.exit()                     *)
  trigger,     (* history: what began to tear down first                      *)
  missed,      (* history: the parts that were not up as shutdown() came by   *)
  rejected     (* history: a stop() of shutdown() rejected                    *)

processVars == <<enabled, parts, main, teardown, child, owner, health, exited,
                 trigger, missed, rejected>>
historyVars == <<trigger, missed, rejected>>

ProcessInit ==
  /\ enabled \in Configurations
  /\ parts = [p \in Parts |-> "none"]
  /\ main = [at |-> "starts", step |-> 1, busy |-> FALSE, failed |-> NoRow]
  /\ teardown = NoRow /\ child = "none" /\ owner = NoRow /\ health = NoRow
  /\ exited = NoRow /\ trigger = NoRow /\ missed = {} /\ rejected = FALSE

Running == exited = NoRow

(* What main() starts: the if statements of index.ts.                        *)
IsEnabled(p) ==
  CASE p \in Enableable -> p \in enabled
    [] p = "listener" -> "compute" \in enabled
    [] OTHER -> TRUE
NextEnabled(n) ==
  CHOOSE m \in n .. Len(StartOrder) + 1 :
    /\ m <= Len(StartOrder) => IsEnabled(StartOrder[m])
    /\ \A k \in n .. m - 1 : ~IsEnabled(StartOrder[k])
Starting(p) ==
  Running /\ main.at = "starts" /\ main.step <= Len(StartOrder) /\ StartOrder[main.step] = p
Becomes(p, state) == parts' = [parts EXCEPT ![p] = state]

StartsNext == main' = [main EXCEPT !.step = NextEnabled(@ + 1), !.busy = FALSE]
Fails(p) == main' = [main EXCEPT !.at = "fails", !.step = 1, !.busy = FALSE, !.failed = p]

(* The variable is set before the await.                                     *)
StartsPart(p) ==
  /\ Starting(p) /\ ~main.busy /\ p \notin {"routes", "http"}
  /\ main' = [main EXCEPT !.busy = TRUE] /\ Becomes(p, "starting")
  /\ child' = IF p = "memorystore" THEN "spawning" ELSE child
  /\ UNCHANGED <<enabled, teardown, owner, health, exited, historyVars>>

(* A child that never listens is killed: the endpoint is degraded.           *)
StartedPart(p) ==
  /\ Starting(p) /\ main.busy /\ StartsNext /\ Becomes(p, "up")
  /\ child' \in IF p = "memorystore" THEN {"up", "dead"} ELSE {child}
  /\ health' = IF p = "listener" THEN "up" ELSE health
  /\ UNCHANGED <<enabled, teardown, owner, exited, historyVars>>

(* Bun.serve() returns at once, or throws when the port is taken; /health    *)
(* says of the evaluation server before that it has not started.             *)
Serves ==
  /\ Starting("http")
  /\ health' = IF "compute" \in enabled THEN "waiting" ELSE health
  /\ \/ StartsNext /\ Becomes("http", "up")
     \/ Fails("http") /\ UNCHANGED parts
  /\ UNCHANGED <<enabled, teardown, child, owner, exited, historyVars>>

(* compute.start() returns when the listener cannot bind.                    *)
ListenerDoesNotBind ==
  /\ Starting("listener") /\ main.busy /\ StartsNext /\ Becomes("listener", "none") /\ health' = "down"
  /\ UNCHANGED <<enabled, teardown, child, owner, exited, historyVars>>

StartThrows(p) ==
  /\ Starting(p) /\ main.busy /\ p # "listener" /\ Fails(p)
  /\ child' \in IF p = "memorystore" THEN {"up", "dead"} ELSE {child}
  /\ parts' = IF p = "config" THEN [parts EXCEPT ![p] = "none"] ELSE parts
  /\ UNCHANGED <<enabled, teardown, owner, health, exited, historyVars>>

(* composedOperationsRegistered: registerServiceRoutes() then leaves out the *)
(* operations routes of the services themselves.                             *)
Composed(stores) == Cardinality(stores) > 1

(* addRoute() rejects a second route of one method and path.                 *)
AddsRoutes ==
  /\ Starting("routes")
  /\ LET stores == enabled \cap OperationsServices
         owners == IF Composed(stores) THEN {"composed"} ELSE stores IN
       /\ IF Cardinality(owners) > 1 THEN Fails("routes") ELSE StartsNext
       /\ owner' = IF owners = {} THEN NoRow ELSE CHOOSE s \in owners : TRUE
  /\ UNCHANGED <<enabled, parts, teardown, child, health, exited, historyVars>>

MainEnds ==
  /\ Running /\ main.at = "starts" /\ main.step > Len(StartOrder) /\ main' = [main EXCEPT !.at = "ended"]
  /\ UNCHANGED <<enabled, parts, teardown, child, owner, health, exited, historyVars>>

-----------------------------------------------------------------------------
(* stop() of a part, as both teardowns call it.                              *)

(* Of Memorystore, stopAllServers() kills what is registered; of Compute it  *)
(* closes the listener; the HTTP server and the gRPC server are set to null. *)
StopBegins(p) ==
  /\ parts' = [q \in Parts |->
       CASE q = p /\ parts[q] = "up" -> "stopping"
         [] q = "listener" /\ p = "compute" /\ parts[q] = "up" -> "down"
         [] OTHER -> parts[q]]
  /\ child' = IF p = "memorystore" /\ child = "up" THEN "dying" ELSE child

(* ... and awaits the exits of what it killed.                               *)
StopEnds(p) ==
  /\ p = "memorystore" => child # "dying"
  /\ parts' = [parts EXCEPT ![p] = IF @ = "stopping" THEN "down" ELSE @]

ChildDies ==
  /\ Running /\ child = "dying" /\ child' = "dead"
  /\ UNCHANGED <<enabled, parts, main, teardown, owner, health, exited, historyVars>>

(* The catch block: it stops what would outlive the process.                 *)
FailureGoesOn == main' = [main EXCEPT !.step = @ + 1, !.busy = FALSE]
Failing(p) ==
  Running /\ main.at = "fails" /\ main.step <= Len(FailureOrder) /\ FailureOrder[main.step] = p

FailureStops(p) ==
  /\ Failing(p) /\ ~main.busy
  /\ IF parts[p] = "none" THEN FailureGoesOn /\ UNCHANGED <<parts, child>>
                          ELSE StopBegins(p) /\ main' = [main EXCEPT !.busy = TRUE]
  /\ UNCHANGED <<enabled, teardown, owner, health, exited, historyVars>>

(* A stop() that rejects leaves the catch block: nobody exits.               *)
FailureStopEnds(p) ==
  /\ Failing(p) /\ main.busy
  /\ \/ StopEnds(p) /\ FailureGoesOn
     \/ p \in MayReject /\ main' = [main EXCEPT !.at = "abandoned"] /\ UNCHANGED parts
  /\ UNCHANGED <<enabled, teardown, child, owner, health, exited, historyVars>>

FailureExits ==
  /\ Running /\ main.at = "fails" /\ main.step > Len(FailureOrder)
  /\ exited' = [code |-> 1, by |-> "failure"]
  /\ UNCHANGED <<enabled, parts, main, teardown, child, owner, health, historyVars>>

-----------------------------------------------------------------------------
(* shutdown() returns when it runs already.                                  *)
IsShuttingDown == teardown # NoRow

(* SIGINT, SIGTERM: 0; uncaughtException: 1                                  *)
Triggered(code) ==
  /\ Running /\ ~IsShuttingDown
  /\ teardown' = [step |-> 1, busy |-> FALSE, code |-> code]
  /\ trigger' = IF trigger = NoRow THEN code ELSE trigger
  /\ UNCHANGED <<enabled, parts, main, child, owner, health, exited, missed, rejected>>

Stopping(p) ==
  /\ Running /\ teardown # NoRow /\ teardown.step <= Len(StopOrder) /\ StopOrder[teardown.step] = p
ComesPast == teardown' = [teardown EXCEPT !.step = @ + 1, !.busy = FALSE]

ShutdownStops(p) ==
  /\ Stopping(p) /\ ~teardown.busy
  /\ missed' = IF parts[p] \in {"none", "starting"} THEN missed \cup {p} ELSE missed
  /\ IF parts[p] = "none" THEN ComesPast /\ UNCHANGED <<parts, child>>
                          ELSE StopBegins(p) /\ teardown' = [teardown EXCEPT !.busy = TRUE]
  /\ UNCHANGED <<enabled, main, owner, health, exited, trigger, rejected>>

(* The finally block exits after a stop() that rejects.                      *)
ShutdownStopEnds(p) ==
  /\ Stopping(p) /\ teardown.busy
  /\ \/ StopEnds(p) /\ ComesPast /\ UNCHANGED <<exited, rejected>>
     \/ /\ p \in MayReject /\ rejected' = TRUE
        /\ exited' = [code |-> teardown.code, by |-> "shutdown"]
        /\ UNCHANGED <<parts, teardown>>
  /\ UNCHANGED <<enabled, main, child, owner, health, trigger, missed>>

ShutdownExits ==
  /\ Running /\ teardown # NoRow /\ teardown.step > Len(StopOrder)
  /\ exited' = [code |-> teardown.code, by |-> "shutdown"]
  /\ UNCHANGED <<enabled, parts, main, teardown, child, owner, health, historyVars>>

ProcessNext ==
  \/ \E p \in Parts :
       \/ StartsPart(p) \/ StartedPart(p) \/ StartThrows(p)
       \/ FailureStops(p) \/ FailureStopEnds(p) \/ ShutdownStops(p) \/ ShutdownStopEnds(p)
  \/ ListenerDoesNotBind \/ AddsRoutes \/ Serves \/ MainEnds \/ ChildDies
  \/ FailureExits \/ ShutdownExits
  \/ \E code \in {0, 1} : Triggered(code)

ProcessSpec == ProcessInit /\ [][ProcessNext]_processVars

-----------------------------------------------------------------------------
ProcessTypeOK ==
  /\ enabled \in Configurations
  /\ parts \in [Parts -> {"none", "starting", "up", "stopping", "down"}]
  /\ main \in [at : {"starts", "ended", "fails", "abandoned"}, step : 1..Len(StartOrder) + 1,
               busy : BOOLEAN, failed : {NoRow} \cup Parts]
  /\ teardown \in Teardowns \cup {NoRow}
  /\ child \in {"none", "spawning", "up", "dying", "dead"}
  /\ owner \in Owners \cup {NoRow} /\ health \in HealthStates \cup {NoRow}
  /\ exited \in Exits \cup {NoRow} /\ trigger \in {0, 1, NoRow}

(* "Bun does not kill Bun.spawn children when the parent exits" (index.ts    *)
(* lines 368 and 495): no valkey-server that its service knew of when the    *)
(* teardown came by survives the process, whoever exits, whatever rejects,   *)
(* and though a startup that fails and a signal stop it at once.             *)
ChildrenDie == exited # NoRow /\ child \in {"spawning", "up", "dying"} => "memorystore" \in missed

ToStop == {StopOrder[i] : i \in DOMAIN StopOrder}

(* A shutdown in which no stop() rejects leaves nothing up but what started  *)
(* after it came by, and closes the storage below all the others last.       *)
ShutdownIsComplete ==
  /\ exited # NoRow /\ exited.by = "shutdown" /\ ~rejected =>
       \A p \in ToStop : parts[p] = "up" => p \in missed
  /\ parts["store"] \in {"stopping", "down"} =>
       \A p \in ToStop \ {"store"} : parts[p] \in {"up", "stopping"} => p \in missed

(* A crash that exits 0 "is indistinguishable from a clean stop" (line 389): *)
(* the process exits with the code of what made it stop first, and never     *)
(* with 0 of its own accord.                                                 *)
CrashIsNotCleanStop == exited # NoRow => exited.code = IF exited.by = "shutdown" THEN trigger ELSE 1

(* Whatever is enabled, the services do not compete for the path of their    *)
(* operations, and one owns it when there are any (ADR 009).                 *)
OperationsHaveOneOwner ==
  /\ main.failed # "routes"
  /\ parts["http"] = "up" => (owner = NoRow <=> enabled \cap OperationsServices = {})

(* /health tells of the evaluation server as soon as the socket accepts, and *)
(* never that it started when it is not there.                               *)
HealthIsTrue ==
  parts["http"] = "up" /\ "http" \notin missed =>
    /\ health = NoRow <=> "compute" \notin enabled
    /\ health = "up" => parts["listener"] = "up" \/ teardown # NoRow

ProcessInvariant ==
  /\ ProcessTypeOK /\ ChildrenDie /\ ShutdownIsComplete /\ CrashIsNotCleanStop
  /\ OperationsHaveOneOwner /\ HealthIsTrue

(* The gateway and the process it runs in, from start to end.                *)
EmulatorHolds == BreakersHold /\ []ProcessInvariant
=============================================================================
