----------------------------- MODULE CloudTasks -----------------------------
(***************************************************************************)
(* The Cloud Tasks emulator (services/tasks): queues and tasks kept in       *)
(* storage, and the DispatchEngine that a timer drives.                      *)
(*                                                                           *)
(* Steps.  Storage calls complete in the microtask queue, so what a call     *)
(* does between two real waits is one step: a tick up to the HTTP requests   *)
(* it sends, one HTTP response and the row update it causes, the end of a    *)
(* tick, one REST or gRPC request.  The real waits of the engine are the     *)
(* HTTP calls, during which everything else happens.                         *)
(*                                                                           *)
(* Time.  A timestamp is abstracted to what is compared with it: whether     *)
(* scheduleTime is due and whether tombstoneExpiry has passed.               *)
(***************************************************************************)
EXTENDS Integers, FiniteSets

CONSTANTS
  Queues, Tasks,   (* names                                                  *)
  QueueOf,         (* the queue a task name belongs to                       *)
  HttpTasks,       (* tasks with an httpRequest; the others are App Engine's *)
  NoRow, NoBucket, (* an absent row, an absent map entry                     *)
  RateLimits,      (* rateLimits a queue may be given                        *)
  RetryConfigs,    (* retryConfig a queue may be given: its maxAttempts      *)
  TokenUnit,
  BatchLimit,      (* findDispatchableTasks(.., 10)                          *)
  CleanupInterval, (* TOMBSTONE_CLEANUP_INTERVAL                             *)
  Operations,      (* the client calls and faults exercised                  *)
  MaxDispatches,   (* bound: a row with this dispatchCount is not dispatched *)
  MaxBirths        (* bound: times each task name is created                 *)

Bucket == INSTANCE TokenBucket

AllOperations == {"bufferTask", "deleteTask", "runTask", "updateQueue", "pauseQueue",
                  "purgeQueue", "deleteQueue", "stop", "crash"}
Unlimited == -1   (* retryConfig.maxAttempts = -1                             *)
Malformed == -2   (* a backoff that parseDurationSeconds() refuses; creation  *)
                  (* and update accept any string                             *)

ASSUME CloudTasksAssumption ==
  /\ QueueOf \in [Tasks -> Queues]
  /\ HttpTasks \subseteq Tasks
  /\ RateLimits \subseteq Bucket!Configs
  /\ RetryConfigs \subseteq Nat \cup {Unlimited, Malformed}
  /\ TokenUnit \in Nat \ {0}
  /\ BatchLimit \in Nat /\ CleanupInterval \in Nat \ {0}
  /\ MaxDispatches \in Nat /\ MaxBirths \in [Tasks -> Nat]
  /\ Operations \subseteq AllOperations
  /\ IsFiniteSet(Tasks)

TaskStatus == {"PENDING", "DISPATCHING", "FAILED", "TOMBSTONE"}

TaskRecords ==
  [status : TaskStatus, due : BOOLEAN, expired : BOOLEAN, dispatchCount : Nat,
   responseCount : Nat, born : Nat]
QueueRecords ==
  [state : {"RUNNING", "PAUSED"}, limits : Bucket!Configs, retry : Int]

(* A dispatchTask() call awaiting its HTTP response: what it captured of the *)
(* task and of the queue, who called it (a tick, a tick that no longer waits *)
(* for it, runTask()), and whether the bucket it will release is still the   *)
(* one in the engine's map.                                                  *)
Flights ==
  [task : Tasks, by : {"tick", "lateTick", "runTask"}, attempt : Nat,
   responses : Nat, born : Nat, retry : Int, held : BOOLEAN]

ASSUME NoRowAssumption ==
  NoRow \notin TaskRecords \cup QueueRecords /\ NoBucket \notin Bucket!Buckets

VARIABLES
  queues, tasks,    (* the tables                                            *)
  buckets,          (* DispatchEngine.buckets                                *)
  running,          (* DispatchEngine.running: a tick is in progress         *)
  timer,            (* DispatchEngine.timerId # null                         *)
  cleanupCounter,   (* tombstoneCleanupCounter                               *)
  flights,          (* dispatchTask() calls awaiting a response              *)
  births            (* history: how often each task name was created         *)

engineVars == <<buckets, running, timer, cleanupCounter, flights>>
vars == <<queues, tasks, engineVars, births>>

-----------------------------------------------------------------------------

Init ==
  /\ queues = [q \in Queues |-> NoRow]
  /\ tasks = [t \in Tasks |-> NoRow]
  /\ buckets = [q \in Queues |-> NoBucket]
  /\ running = FALSE
  /\ timer = TRUE
  /\ cleanupCounter = 0
  /\ flights = {}
  /\ births = [t \in Tasks |-> 0]

Status(t) == IF tasks[t] = NoRow THEN "ABSENT" ELSE tasks[t].status
Live(t) == Status(t) \notin {"ABSENT", "TOMBSTONE"}
TasksOf(q) == {t \in Tasks : QueueOf[t] = q}

-----------------------------------------------------------------------------
(* Queue operations.                                                         *)

CreateQueue(q) ==
  /\ queues[q] = NoRow
  /\ \E limits \in RateLimits, retry \in RetryConfigs :
       queues' = [queues EXCEPT ![q] = [state |-> "RUNNING", limits |-> limits,
                                        retry |-> retry]]
  /\ UNCHANGED <<tasks, engineVars, births>>

(* updateQueue() changes the row only: the engine's bucket is not told.      *)
UpdateQueue(q) ==
  /\ "updateQueue" \in Operations
  /\ queues[q] # NoRow
  /\ \E limits \in RateLimits, retry \in RetryConfigs :
       queues' = [queues EXCEPT ![q].limits = limits, ![q].retry = retry]
  /\ UNCHANGED <<tasks, engineVars, births>>

PauseQueue(q) ==
  /\ "pauseQueue" \in Operations
  /\ queues[q] # NoRow /\ queues[q].state # "PAUSED"
  /\ queues' = [queues EXCEPT ![q].state = "PAUSED"]
  /\ UNCHANGED <<tasks, engineVars, births>>

ResumeQueue(q) ==
  /\ queues[q] # NoRow /\ queues[q].state = "PAUSED"
  /\ queues' = [queues EXCEPT ![q].state = "RUNNING"]
  /\ UNCHANGED <<tasks, engineVars, births>>

(* deleteTasksByQueue(): every row of the queue, whatever its status.        *)
DeleteTasksByQueue(q) ==
  tasks' = [t \in Tasks |-> IF QueueOf[t] = q THEN NoRow ELSE tasks[t]]

PurgeQueue(q) ==
  /\ "purgeQueue" \in Operations
  /\ queues[q] # NoRow
  /\ DeleteTasksByQueue(q)
  /\ UNCHANGED <<queues, engineVars, births>>

(* The row, then the delete callback: the tasks and the bucket.  Dispatches  *)
(* in flight go on and will release a bucket nobody looks at any more.       *)
DeleteQueue(q) ==
  /\ "deleteQueue" \in Operations
  /\ queues[q] # NoRow
  /\ queues' = [queues EXCEPT ![q] = NoRow]
  /\ DeleteTasksByQueue(q)
  /\ buckets' = [buckets EXCEPT ![q] = NoBucket]
  /\ flights' = {IF QueueOf[f.task] = q THEN [f EXCEPT !.held = FALSE] ELSE f :
                   f \in flights}
  /\ UNCHANGED <<running, timer, cleanupCounter, births>>

-----------------------------------------------------------------------------
(* Task operations.                                                          *)

(* Any row of that name, a tombstone or a failed task too, refuses a new one.*)
InsertTask(t, due) ==
  /\ queues[QueueOf[t]] # NoRow
  /\ tasks[t] = NoRow
  /\ births[t] < MaxBirths[t]
  /\ births' = [births EXCEPT ![t] = @ + 1]
  /\ tasks' = [tasks EXCEPT ![t] =
                 [status |-> "PENDING", due |-> due, expired |-> FALSE,
                  dispatchCount |-> 0, responseCount |-> 0, born |-> births[t] + 1]]
  /\ UNCHANGED <<queues, engineVars>>

(* createTask() may name a scheduleTime in the future.                       *)
CreateTask(t) == \E due \in BOOLEAN : InsertTask(t, due)

(* bufferTask() builds the request from the queue's httpTarget, for now.     *)
BufferTask(t) == "bufferTask" \in Operations /\ t \in HttpTasks /\ InsertTask(t, TRUE)

DeleteTask(t) ==
  /\ "deleteTask" \in Operations
  /\ Live(t)
  /\ tasks' = [tasks EXCEPT ![t].status = "TOMBSTONE", ![t].expired = FALSE]
  /\ UNCHANGED <<queues, engineVars, births>>

(* dispatchTask() up to its HTTP request, for a task as it was just read.    *)
(* It throws before anything else when the queue's backoff does not parse.   *)
Flight(t, by) ==
  [task |-> t, by |-> by, attempt |-> tasks[t].dispatchCount,
   responses |-> tasks[t].responseCount, born |-> tasks[t].born,
   retry |-> queues[QueueOf[t]].retry, held |-> by # "runTask"]

Parses(q) == queues[q].retry # Malformed

MarkDispatching(T) ==
  tasks' = [t \in Tasks |->
              IF t \in T
              THEN [tasks[t] EXCEPT !.status = "DISPATCHING", !.dispatchCount = @ + 1]
              ELSE tasks[t]]

(* runTask(): the dispatch callback runs dispatchTask() at once, whatever    *)
(* the status, the queue's state and its rate limits, unless the queue is    *)
(* gone or the task has no httpRequest (then nothing changes).               *)
RunTask(t) ==
  /\ "runTask" \in Operations
  /\ Live(t) /\ t \in HttpTasks
  /\ queues[QueueOf[t]] # NoRow /\ Parses(QueueOf[t])
  /\ tasks[t].dispatchCount < MaxDispatches
  /\ MarkDispatching({t})
  /\ flights' = flights \cup {Flight(t, "runTask")}
  /\ UNCHANGED <<queues, buckets, running, timer, cleanupCounter, births>>

-----------------------------------------------------------------------------
(* The dispatch engine.                                                      *)

DispatchableOrFailed(q) ==  \* mutant: findDispatchableTasks() without its status filter
  {t \in HttpTasks \cap TasksOf(q) :
     Status(t) \in {"PENDING", "FAILED"} /\ tasks[t].due
     /\ tasks[t].dispatchCount < MaxDispatches}

Dispatchable(q) ==
  {t \in HttpTasks \cap TasksOf(q) :
     Status(t) = "PENDING" /\ tasks[t].due /\ tasks[t].dispatchCount < MaxDispatches}

RunningQueues == {q \in Queues : queues[q] # NoRow /\ queues[q].state = "RUNNING"}

(* getOrCreateBucket(): the rate limits are read when the bucket is created. *)
RefilledBucket(q) ==
  Bucket!Refill(IF buckets[q] = NoBucket THEN Bucket!NewBucket(queues[q].limits)
                ELSE buckets[q])

(* How many tasks of q a tick dispatches: the batch, cut at the first        *)
(* acquire() that fails.                                                     *)
DispatchQuota(q) ==
  LET found == Cardinality(Dispatchable(q))
      batch == IF found <= BatchLimit THEN found ELSE BatchLimit
      left  == Bucket!AcquiresLeft(RefilledBucket(q))
  IN IF batch <= left THEN batch ELSE left

(* The sets of tasks a tick may dispatch (the order by scheduleTime decides  *)
(* which; it is not modelled).                                               *)
Picks ==
  {P \in SUBSET Tasks :
     /\ P \subseteq UNION {Dispatchable(q) : q \in RunningQueues}
     /\ \A q \in RunningQueues : Cardinality(P \cap TasksOf(q)) = DispatchQuota(q)}

BucketLeaking(q, P) ==  \* mutant: a dispatch that throws keeps its slot
  Bucket!AcquireTimes(RefilledBucket(q), DispatchQuota(q))

(* A slot whose dispatchTask() threw is released before the tick's step ends.*)
BucketAfterTick(q, P) ==
  LET taken == Bucket!AcquireTimes(RefilledBucket(q), DispatchQuota(q)) IN
  IF Parses(q) THEN taken
  ELSE [taken EXCEPT !.concurrent = @ - Cardinality(P \cap TasksOf(q))]

(* tick() up to `await Promise.all`.  One rejected dispatch rejects it at    *)
(* once: the tick is over, without its cleanup, while the requests it sent   *)
(* are still in flight.                                                      *)
Dispatch ==
  /\ \E P \in Picks :
       LET sent == {t \in P : Parses(QueueOf[t])} IN
       /\ running' = (sent = P)
       /\ MarkDispatching(sent)
       /\ flights' = flights \cup
            {Flight(t, IF sent = P THEN "tick" ELSE "lateTick") : t \in sent}
       /\ buckets' = [q \in Queues |->
                        IF q \in RunningQueues THEN BucketAfterTick(q, P) ELSE buckets[q]]
  /\ UNCHANGED <<queues, timer, cleanupCounter, births>>

ReentrantTick == timer /\ Dispatch  \* mutant: no `running` guard

Tick == timer /\ ~running /\ Dispatch

ExhaustedLate(f) == f.retry # Unlimited /\ f.attempt >= f.retry  \* mutant: off by one

Exhausted(f) == f.retry # Unlimited /\ f.attempt + 1 >= f.retry

(* The row dispatchTask() leaves behind, computed from what it captured.     *)
Answered(row, f, ok) ==
  CASE ok            -> [row EXCEPT !.status = "TOMBSTONE", !.expired = FALSE,
                                    !.responseCount = f.responses + 1]
    [] ~ok /\ Exhausted(f)
                     -> [row EXCEPT !.status = "FAILED",
                                    !.responseCount = f.responses + 1]
    [] ~ok /\ ~Exhausted(f)
                     -> [row EXCEPT !.status = "PENDING", !.due = FALSE,
                                    !.responseCount = f.responses + 1]

ReleaseNothing(f) == buckets' = buckets  \* mutant: no finally(() => release())

ReleaseBucket(f) ==
  buckets' = IF f.held
             THEN [buckets EXCEPT ![QueueOf[f.task]] = Bucket!Release(@)]
             ELSE buckets

(* The HTTP call settles: a response, a network error or the abort timer.    *)
DispatchEnds(f, ok) ==
  /\ tasks' = IF tasks[f.task] = NoRow THEN tasks
              ELSE [tasks EXCEPT ![f.task] = Answered(@, f, ok)]
  /\ flights' = flights \ {f}
  /\ ReleaseBucket(f)
  /\ UNCHANGED <<queues, running, timer, cleanupCounter, births>>

(* Promise.all resolved; every CleanupInterval-th tick drops the expired     *)
(* tombstones.                                                               *)
TickEnds ==
  /\ running
  /\ \A f \in flights : f.by # "tick"
  /\ running' = FALSE
  /\ IF cleanupCounter + 1 >= CleanupInterval
     THEN /\ cleanupCounter' = 0
          /\ tasks' = [t \in Tasks |->
                         IF Status(t) = "TOMBSTONE" /\ tasks[t].expired THEN NoRow
                         ELSE tasks[t]]
     ELSE /\ cleanupCounter' = cleanupCounter + 1
          /\ UNCHANGED tasks
  /\ UNCHANGED <<queues, buckets, timer, flights, births>>

(* stop(): no more ticks; it resolves once the one in progress is over, and  *)
(* the next start is a new process.                                          *)
StopEngine ==
  /\ "stop" \in Operations
  /\ timer
  /\ timer' = FALSE
  /\ UNCHANGED <<queues, tasks, buckets, running, cleanupCounter, flights, births>>

NewProcess ==
  /\ buckets' = [q \in Queues |-> NoBucket]
  /\ running' = FALSE
  /\ timer' = TRUE
  /\ cleanupCounter' = 0
  /\ flights' = {}
  /\ UNCHANGED <<queues, tasks, births>>

RestartAtOnce == ~timer /\ NewProcess  \* mutant: stop() does not wait

Restart == ~timer /\ ~running /\ NewProcess

Crash == "crash" \in Operations /\ NewProcess

ScheduleTimeArrives(t) ==
  /\ tasks[t] # NoRow /\ ~tasks[t].due
  /\ tasks' = [tasks EXCEPT ![t].due = TRUE]
  /\ UNCHANGED <<queues, engineVars, births>>

TombstoneExpires(t) ==
  /\ Status(t) = "TOMBSTONE" /\ ~tasks[t].expired
  /\ tasks' = [tasks EXCEPT ![t].expired = TRUE]
  /\ UNCHANGED <<queues, engineVars, births>>

DispatchSettles == \E f \in flights, ok \in BOOLEAN : DispatchEnds(f, ok)

Next ==
  \/ \E q \in Queues : \/ CreateQueue(q)
                       \/ UpdateQueue(q)
                       \/ PauseQueue(q)
                       \/ ResumeQueue(q)
                       \/ PurgeQueue(q)
                       \/ DeleteQueue(q)
  \/ \E t \in Tasks : \/ CreateTask(t)
                      \/ BufferTask(t)
                      \/ DeleteTask(t)
                      \/ RunTask(t)
                      \/ ScheduleTimeArrives(t)
                      \/ TombstoneExpires(t)
  \/ Tick
  \/ DispatchSettles
  \/ TickEnds
  \/ StopEngine
  \/ Restart
  \/ Crash

(* The interval timer fires, an aborted or answered request settles (at the  *)
(* latest when dispatchDeadline aborts it), time passes.  Clients owe nothing*)
(* and a stopped engine is not restarted.                                    *)
Fairness ==
  /\ WF_vars(Tick) /\ WF_vars(TickEnds)
  /\ \A t \in Tasks :
       /\ WF_vars(\E f \in flights, ok \in BOOLEAN : f.task = t /\ DispatchEnds(f, ok))
       /\ WF_vars(ScheduleTimeArrives(t))

Spec == Init /\ [][Next]_vars
FairSpec == Spec /\ Fairness

-----------------------------------------------------------------------------

TypeOK ==
  /\ queues \in [Queues -> QueueRecords \cup {NoRow}]
  /\ tasks \in [Tasks -> TaskRecords \cup {NoRow}]
  /\ buckets \in [Queues -> Bucket!Buckets \cup {NoBucket}]
  /\ running \in BOOLEAN /\ timer \in BOOLEAN
  /\ cleanupCounter \in Nat
  /\ flights \in SUBSET Flights
  /\ births \in [Tasks -> Nat]

(* The rate limiter's books (token-bucket.ts): the slots a bucket counts as  *)
(* taken are the engine's requests in flight for that queue, through deletion*)
(* and recreation of the queue and lost slots or double releases; they never *)
(* exceed maxConcurrentDispatches, nor tokens the burst or the debt of one.  *)
HeldBy(q) == {f \in flights : f.held /\ QueueOf[f.task] = q}
BucketAccounting ==
  \A q \in Queues :
    IF buckets[q] = NoBucket THEN HeldBy(q) = {}
    ELSE LET b == buckets[q] IN
         /\ b.concurrent = Cardinality(HeldBy(q))
         /\ b.concurrent <= b.config.maxConcurrent
         /\ b.tokens <= b.config.maxTokens /\ b.tokens > -TokenUnit

(* tick()'s comment (lines 76-81): ticks do not overlap, so the engine never *)
(* has two requests for one task in flight, whatever clients delete, recreate*)
(* or force-run meanwhile.                                                   *)
OneEngineDispatch ==
  /\ \A f, g \in flights :
       (f.by = "tick" /\ g.by = "tick" /\ f.task = g.task) => f = g
  /\ (\E f \in flights : f.by = "tick") => running

(* A task is DISPATCHING only while somebody is dispatching it: nothing else *)
(* would ever move it on, since only PENDING tasks are found (lines 90-108 of*)
(* task-repository.ts).                                                      *)
DispatchingHasFlight ==
  \A t \in Tasks : Status(t) = "DISPATCHING" => \E f \in flights : f.task = t

(* A completed, deleted or exhausted task with no request in flight stays so *)
(* until it is removed; only runTask() dispatches a FAILED task again.       *)
SettledIsFinal ==
  [][\A t \in Tasks :
       (Status(t) \in {"TOMBSTONE", "FAILED"} /\ \A f \in flights : f.task # t) =>
         \/ Status(t)' \in {Status(t), "TOMBSTONE", "ABSENT"}
         \/ RunTask(t) /\ Status(t) = "FAILED"]_vars

(* The engine on its own never goes beyond maxAttempts (lines 200-213).      *)
AttemptsBounded ==
  \A f \in flights :
    f.by = "tick" /\ f.retry # Unlimited => f.attempt < f.retry

(* A row never counts more responses than dispatches, and exactly one less   *)
(* while the engine waits for an answer.                                     *)
ResponsesFollowDispatches ==
  \A t \in Tasks : tasks[t] # NoRow =>
    LET waiting == \E f \in flights : f.task = t /\ f.born = tasks[t].born IN
    tasks[t].dispatchCount = tasks[t].responseCount + (IF waiting THEN 1 ELSE 0)

(* Every HTTP task of a queue that stays RUNNING with a bounded number of    *)
(* attempts is settled in the end: it succeeds, is exhausted, deleted or     *)
(* purged.  No retry of another task, slow target, deleted queue or queue    *)
(* whose dispatches throw (lines 97-109 and 127-131) starves it.             *)
Settles(t) == Status(t) \in {"ABSENT", "TOMBSTONE", "FAILED"}
QueueServed(q) ==
  /\ timer
  /\ queues[q] # NoRow
  /\ queues[q].state = "RUNNING" /\ queues[q].retry \notin {Unlimited, Malformed}
EveryTaskSettles ==
  \A t \in HttpTasks : <>[]QueueServed(QueueOf[t]) => []<>Settles(t)

(* task-service.test.ts:264-275: a deleted task is no longer listed and      *)
(* leaves a tombstone behind.                                                *)
DeletedStaysDeleted ==
  [][\A t \in Tasks : Status(t) = "TOMBSTONE" =>
       Status(t)' \in {"TOMBSTONE", "ABSENT"}]_vars

(* The counters of a task through dispatches, answers, forced runs, restarts*)
(* and deletions: maxAttempts is kept, and no response without a dispatch.   *)
AttemptsAccounted == TypeOK /\ AttemptsBounded /\ ResponsesFollowDispatches
=============================================================================
