----------------------------- MODULE MCEngines ------------------------------
(***************************************************************************)
(* TLC instance of what works on its own, on timers, queues and answers      *)
(* from elsewhere, and has something it must come to in the end: the         *)
(* engines of Scheduler, Pub/Sub, Workflows and KMS, the registry of the     *)
(* gateway and the database manager, whose names for Init, Next and vars     *)
(* it keeps.  They share no state: a behaviour is one of a single engine,    *)
(* chosen at the start.                                                      *)
(***************************************************************************)
EXTENDS DatabaseManager, Scheduler, ServiceRegistry, StreamingPull, WorkflowEngine, KeyManagement,
        PubSub, TLC

CONSTANTS i1, d1, d2, j1, j2, f1, t1, t2, k1, q1, q2, orders, s1

VARIABLE engine

(* A job that is changed and forced to run, and one that retries.            *)
MCFirstPeriods == (j1 :> {1}) @@ (j2 :> {2})
MCRetryCount == (j1 :> 0) @@ (j2 :> 1)

MCRingOf == [k \in {k1} |-> "r"]

(* A push subscription whose policy has lost its topic.                      *)
Discarding == [topic |-> orders, push |-> TRUE, policy |-> [topic |-> NoRow, max |-> 2]]
MCSubConfigs == [s \in {s1} |-> {Discarding}]
MCOperations == {"pull", "modifyAckDeadline", "detach"}
MCMaxDeliveries == [s \in {s1} |-> 2]
-----------------------------------------------------------------------------
(* Programs of the workflow engine, by the names of their blocks of steps.   *)
Plain(name, does) == [name |-> name, op |-> does, next |-> NoRow]
PlainTo(name, does, next) == [name |-> name, op |-> does, next |-> next]
CallTo(name, target) == [name |-> name, op |-> "call", next |-> NoRow, target |-> target]
For(name, n, block) ==
  [name |-> name, op |-> "for", next |-> NoRow, length |-> n, block |-> block]
Steps(name, block, next) == [name |-> name, op |-> "steps", next |-> next, block |-> block]
Try(name, block, retries, predicate, except) ==
  [name |-> name, op |-> "try", next |-> NoRow, block |-> block, retries |-> retries,
   predicate |-> predicate, except |-> except]
Case(block, next) == [block |-> block, next |-> next]
Switch(name, cases) == [name |-> name, op |-> "switch", next |-> NoRow, cases |-> cases]

(* Loops in loops, through a try with a retry and a call.                    *)
NestedLoops ==
  [main |-> <<For("a", 2, "body")>>,
   body |-> <<Try("b", "tried", 1, NoRow, "handler"), Plain("c", "assign"), CallTo("d", "sub")>>,
   tried |-> <<For("e", 2, "inner")>>, inner |-> <<CallTo("f", "http.get")>>,
   handler |-> <<Plain("g", "assign")>>,
   sub |-> <<For("h", 2, "subloop")>>, subloop |-> <<Plain("i", "return")>>,
   again |-> <<>>]
(* Calls of itself, up to the limit; a predicate that is a subworkflow.      *)
Recursion ==
  [main |-> <<Try("a", "tried", 1, "again", NoRow), Plain("b", "return")>>,
   tried |-> <<CallTo("c", "sub")>>,
   sub |-> <<Switch("d", <<Case("inner", "f"), Case("empty", NoRow)>>), CallTo("e", "sub"),
             Steps("f", "inner", "end")>>,
   inner |-> <<For("z", 0, "empty"), Plain("g", "raise")>>, empty |-> <<>>,
   again |-> <<Plain("h", "return")>>]
(* Jumps out of and between steps.                                           *)
Jumps ==
  [main |-> <<Plain("a", "assign"), Switch("b", <<Case("inner", NoRow), Case("empty", "a")>>),
              PlainTo("c", "next", "end")>>,
   inner |-> <<Try("d", "tried", 1, "again", "handler"), PlainTo("e", "next", "a")>>,
   tried |-> <<CallTo("f", "sub"), PlainTo("g", "assign", "f")>>,
   handler |-> <<CallTo("h", "http.get")>>,
   empty |-> <<>>, sub |-> <<PlainTo("i", "next", "end")>>,
   again |-> <<Plain("j", "assign"), CallTo("k", "again")>>]
MCPrograms == {NestedLoops, Recursion, Jumps}
-----------------------------------------------------------------------------
EnginesInit ==
  /\ engine \in {"databases", "scheduler", "registry", "streams", "workflow", "kms", "push"}
  /\ Init /\ SchedulerInit /\ RegistryInit /\ StreamInit /\ EngineInit
  /\ KmsInit /\ PubSubInit
  /\ engine # "databases" => files = {}
  /\ engine # "streams" => ~pushBusy
  /\ engine # "workflow" => program = Jumps

DatabaseMoves ==
  /\ engine = "databases" /\ Next
  /\ UNCHANGED <<engine, schedulerVars, serviceRegistryVars, streamVars, engineVars,
                 kmsVars, pubsubVars>>

SchedulerMoves ==
  /\ engine = "scheduler" /\ SchedulerNext
  /\ UNCHANGED <<engine, vars, serviceRegistryVars, streamVars, engineVars, kmsVars,
                 pubsubVars>>

RegistryMoves ==
  /\ engine = "registry" /\ RegistryNext
  /\ UNCHANGED <<engine, vars, schedulerVars, streamVars, engineVars, kmsVars,
                 pubsubVars>>

StreamingMoves ==
  /\ engine = "streams" /\ StreamNext
  /\ UNCHANGED <<engine, vars, schedulerVars, serviceRegistryVars, engineVars, kmsVars,
                 pubsubVars>>

WorkflowMoves ==
  /\ engine = "workflow" /\ EngineNext
  /\ UNCHANGED <<engine, vars, schedulerVars, serviceRegistryVars, streamVars, kmsVars,
                 pubsubVars>>

KmsMoves ==
  /\ engine = "kms" /\ KmsNext
  /\ UNCHANGED <<engine, vars, schedulerVars, serviceRegistryVars, streamVars,
                 engineVars, pubsubVars>>

PushMoves ==
  /\ engine = "push" /\ PubSubNext
  /\ UNCHANGED <<engine, vars, schedulerVars, serviceRegistryVars, streamVars,
                 engineVars, kmsVars>>

EnginesNext ==
  \/ DatabaseMoves
  \/ SchedulerMoves
  \/ RegistryMoves
  \/ StreamingMoves
  \/ WorkflowMoves
  \/ KmsMoves
  \/ PushMoves

enginesVars == <<engine, vars, schedulerVars, serviceRegistryVars, streamVars,
                 engineVars, kmsVars, pubsubVars>>

(* The fairness of each module's specification, for the engine that runs.    *)
EnginesFairness ==
  /\ \A k \in Keys : WF_vars(engine = "databases" /\ BootEnds(k))
  /\ \A c \in Callers : WF_vars(engine = "databases" /\ GoesOn(c))
  /\ WF_schedulerVars(engine = "scheduler" /\ EngineTick)
  /\ \A r \in Runners : WF_schedulerVars(engine = "scheduler" /\ RunWorks(r))
  /\ \A s \in Registrable :
       /\ WF_serviceRegistryVars(engine = "registry" /\ \E c \in HealthChecks : CheckStarts(s, c))
       /\ WF_serviceRegistryVars(engine = "registry" /\ AutoDeregister(s))
  /\ \A c \in HealthChecks :
       WF_serviceRegistryVars(engine = "registry" /\ CheckReturns(c))
  /\ WF_streamVars(engine = "streams" /\ PushEngineStops)
  /\ WF_streamVars(engine = "streams" /\ (Drained \/ ForceShutdown))
  /\ WF_engineVars(engine = "workflow" /\ EngineNext)
  /\ \A c \in KmsCallers : WF_kmsVars(engine = "kms" /\ Allocates(c))
  /\ WF_pubsubVars(engine = "push" /\ PushTick) /\ WF_pubsubVars(engine = "push" /\ EngineWorks)
  /\ WF_pubsubVars(engine = "push" /\ \E ok \in BOOLEAN : PushAnswered(ok))
  /\ \A c \in Copies : WF_pubsubVars(engine = "push" /\ LeaseExpires(c))

EnginesSpec == EnginesInit /\ [][EnginesNext]_enginesVars /\ EnginesFairness

(* What each engine comes to in the end: drops are done, due jobs and due    *)
(* pushes are tried, executions end, rotations have their turn, what keeps   *)
(* failing its checks is removed, a shutdown is not held up by open streams. *)
EnginesFinish ==
  /\ DropsFinish /\ DueJobsRun /\ DuePushesAreTried /\ ExecutionEnds
  /\ RotationsEnd /\ FailingIsRemoved /\ ShutdownEnds
=============================================================================
