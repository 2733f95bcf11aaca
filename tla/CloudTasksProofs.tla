-------------------------- MODULE CloudTasksProofs --------------------------
(***************************************************************************)
(* Theorems about CloudTasks, for any queues, tasks, limits and bounds.      *)
(***************************************************************************)
EXTENDS CloudTasks, FiniteSetTheorems, TLAPS

USE CloudTasksAssumption, NoRowAssumption

-----------------------------------------------------------------------------
(* The bucket a request will be released into is in the engine's map.        *)
HeldHasBucket == \A f \in flights : f.held => buckets[QueueOf[f.task]] # NoBucket

(* The bucket a tick works on has the type of a bucket, like its outcome.    *)
LEMMA RefilledType ==
  ASSUME TypeOK, NEW q \in RunningQueues
  PROVE  RefilledBucket(q) \in Bucket!Buckets
<1>1. q \in Queues /\ queues[q] \in QueueRecords /\ queues[q].limits \in Bucket!Configs
  BY DEF TypeOK, RunningQueues, QueueRecords
<1>2. Bucket!NewBucket(queues[q].limits) \in Bucket!Buckets
  BY <1>1 DEF Bucket!NewBucket, Bucket!Buckets, Bucket!Configs
<1>3. ASSUME NEW b \in Bucket!Buckets PROVE Bucket!Refill(b) \in Bucket!Buckets
  BY <1>3 DEF Bucket!Refill, Bucket!Buckets, Bucket!Configs, Bucket!Least
<1>4. CASE buckets[q] = NoBucket
  BY <1>2, <1>3, <1>4 DEF RefilledBucket
<1>5. CASE buckets[q] # NoBucket
  <2>1. buckets[q] \in Bucket!Buckets
    BY <1>1, <1>5 DEF TypeOK
  <2>2. QED  BY <2>1, <1>3, <1>5 DEF RefilledBucket
<1>6. QED  BY <1>4, <1>5

(* A tick dispatches a natural number of tasks of each queue.                *)
LEMMA QuotaType ==
  ASSUME TypeOK, NEW q \in RunningQueues
  PROVE  DispatchQuota(q) \in Nat
<1>1. IsFiniteSet(Dispatchable(q))
  BY FS_Subset DEF Dispatchable
<1>2. Cardinality(Dispatchable(q)) \in Nat
  BY <1>1, FS_CardinalityType
<1>3. Bucket!AcquiresLeft(RefilledBucket(q)) \in Nat
  BY RefilledType DEF Bucket!AcquiresLeft, Bucket!Least, Bucket!Buckets, Bucket!Configs
<1>4. QED  BY <1>2, <1>3 DEF DispatchQuota

LEMMA AcquireType ==
  ASSUME NEW b \in Bucket!Buckets, NEW n \in Nat
  PROVE  /\ Bucket!AcquireTimes(b, n) \in Bucket!Buckets
         /\ [Bucket!AcquireTimes(b, n) EXCEPT !.concurrent = @ - n] \in Bucket!Buckets
<1> DEFINE paid  == [b EXCEPT !.tokens = @ - n * TokenUnit]
           taken == [paid EXCEPT !.concurrent = @ + n]
<1>1. n * TokenUnit \in Int
  OBVIOUS
<1>2. paid \in Bucket!Buckets /\ paid.concurrent = b.concurrent
  BY <1>1 DEF Bucket!Buckets
<1> HIDE DEF paid
<1>3. taken \in Bucket!Buckets /\ taken.concurrent = b.concurrent + n
  BY <1>2 DEF Bucket!Buckets
<1> HIDE DEF taken
<1>4. taken.concurrent - n \in Nat
  BY <1>3 DEF Bucket!Buckets
<1>5. [taken EXCEPT !.concurrent = @ - n] \in Bucket!Buckets
  BY <1>3, <1>4 DEF Bucket!Buckets
<1>6. Bucket!AcquireTimes(b, n) = taken
  BY DEF Bucket!AcquireTimes, taken, paid
<1>7. QED  BY <1>3, <1>5, <1>6

LEMMA AfterTickType ==
  ASSUME TypeOK, NEW q \in RunningQueues, NEW P \in Picks
  PROVE  BucketAfterTick(q, P) \in Bucket!Buckets
<1> DEFINE b == RefilledBucket(q)
           n == DispatchQuota(q)
<1>1. b \in Bucket!Buckets /\ n \in Nat
  BY RefilledType, QuotaType
<1>2. Cardinality(P \cap TasksOf(q)) = n
  BY DEF Picks
<1> HIDE DEF b, n
<1>3. Bucket!AcquireTimes(b, n) \in Bucket!Buckets
  BY <1>1, AcquireType
<1>4. [Bucket!AcquireTimes(b, n) EXCEPT !.concurrent = @ - n] \in Bucket!Buckets
  BY <1>1, AcquireType
<1>5. QED  BY <1>2, <1>3, <1>4 DEF BucketAfterTick, b, n

(* What a tick picks are pending HTTP tasks of running queues.               *)
LEMMA PicksArePending ==
  ASSUME TypeOK, NEW P \in Picks, NEW t \in P
  PROVE  /\ t \in Tasks /\ tasks[t] \in TaskRecords /\ tasks[t].status = "PENDING"
         /\ QueueOf[t] \in Queues /\ queues[QueueOf[t]] \in QueueRecords
<1>1. PICK q \in RunningQueues : t \in Dispatchable(q)
  BY DEF Picks
<1>2. t \in Tasks /\ QueueOf[t] = q /\ Status(t) = "PENDING"
  BY <1>1 DEF Dispatchable, TasksOf
<1>3. tasks[t] # NoRow /\ tasks[t].status = "PENDING"
  BY <1>2 DEF Status
<1>4. QED  BY <1>1, <1>2, <1>3 DEF TypeOK, RunningQueues

LEMMA FlightType ==
  ASSUME NEW t \in Tasks, tasks[t] \in TaskRecords, queues[QueueOf[t]] \in QueueRecords,
         NEW by \in {"tick", "lateTick", "runTask"}
  PROVE  Flight(t, by) \in Flights
BY DEF Flight, Flights, TaskRecords, QueueRecords

LEMMA MarkType ==
  ASSUME TypeOK, NEW T \in SUBSET Tasks, \A t \in T : tasks[t] \in TaskRecords,
         MarkDispatching(T)
  PROVE  tasks' \in [Tasks -> TaskRecords \cup {NoRow}]
<1>1. ASSUME NEW t \in Tasks, t \in T
      PROVE  [tasks[t] EXCEPT !.status = "DISPATCHING", !.dispatchCount = @ + 1] \in TaskRecords
  <2> DEFINE marked == [tasks[t] EXCEPT !.status = "DISPATCHING"]
  <2>1. marked \in TaskRecords
    BY <1>1 DEF TaskRecords, TaskStatus
  <2> HIDE DEF marked
  <2>2. [marked EXCEPT !.dispatchCount = @ + 1] \in TaskRecords
    BY <2>1 DEF TaskRecords
  <2>3. QED  BY <2>2 DEF marked
<1>2. QED  BY <1>1 DEF MarkDispatching, TypeOK

(* Every step keeps the types; that a released bucket exists needs           *)
(* HeldHasBucket.                                                            *)
LEMMA TypeStep == TypeOK /\ HeldHasBucket /\ [Next]_vars => TypeOK'
<1> SUFFICES ASSUME TypeOK, HeldHasBucket, [Next]_vars PROVE TypeOK'
  OBVIOUS
<1>1. ASSUME NEW q \in Queues, CreateQueue(q) PROVE TypeOK'
  <2>1. PICK limits \in RateLimits, retry \in RetryConfigs :
          queues' = [queues EXCEPT ![q] = [state |-> "RUNNING", limits |-> limits,
                                           retry |-> retry]]
    BY <1>1 DEF CreateQueue
  <2>2. [state |-> "RUNNING", limits |-> limits, retry |-> retry] \in QueueRecords
    BY DEF QueueRecords, Unlimited, Malformed
  <2>3. QED  BY <1>1, <2>1, <2>2 DEF CreateQueue, TypeOK, engineVars
<1>2. ASSUME NEW q \in Queues, UpdateQueue(q) PROVE TypeOK'
  <2>1. PICK limits \in RateLimits, retry \in RetryConfigs :
          queues' = [queues EXCEPT ![q].limits = limits, ![q].retry = retry]
    BY <1>2 DEF UpdateQueue
  <2>2. queues[q] \in QueueRecords
    BY <1>2 DEF UpdateQueue, TypeOK
  <2>3. [[queues[q] EXCEPT !.limits = limits] EXCEPT !.retry = retry] \in QueueRecords
    <3> DEFINE limited == [queues[q] EXCEPT !.limits = limits]
    <3>1. limited \in QueueRecords
      BY <2>2 DEF QueueRecords
    <3> HIDE DEF limited
    <3>2. [limited EXCEPT !.retry = retry] \in QueueRecords
      BY <3>1 DEF QueueRecords, Unlimited, Malformed
    <3>3. QED  BY <3>2 DEF limited
  <2>4. queues' \in [Queues -> QueueRecords \cup {NoRow}]
    BY <2>1, <2>2, <2>3 DEF TypeOK
  <2>5. QED  BY <1>2, <2>4 DEF UpdateQueue, TypeOK, engineVars
<1>3. ASSUME NEW q \in Queues, PauseQueue(q) \/ ResumeQueue(q) PROVE TypeOK'
  <2>1. queues[q] \in QueueRecords
    BY <1>3 DEF PauseQueue, ResumeQueue, TypeOK
  <2>2. \A s \in {"RUNNING", "PAUSED"} : [queues[q] EXCEPT !.state = s] \in QueueRecords
    BY <2>1 DEF QueueRecords
  <2>3. QED  BY <1>3, <2>2 DEF PauseQueue, ResumeQueue, TypeOK, engineVars
<1>4. ASSUME NEW q \in Queues, PurgeQueue(q) PROVE TypeOK'
  BY <1>4 DEF PurgeQueue, DeleteTasksByQueue, TypeOK, engineVars
<1>5. ASSUME NEW q \in Queues, DeleteQueue(q) PROVE TypeOK'
  <2>1. \A f \in Flights : [f EXCEPT !.held = FALSE] \in Flights
    BY DEF Flights
  <2>2. QED  BY <1>5, <2>1 DEF DeleteQueue, DeleteTasksByQueue, TypeOK
<1>6. ASSUME NEW t \in Tasks, CreateTask(t) \/ BufferTask(t) PROVE TypeOK'
  <2>1. PICK due \in BOOLEAN : InsertTask(t, due)
    BY <1>6 DEF CreateTask, BufferTask
  <2>2. births[t] + 1 \in Nat
    BY DEF TypeOK
  <2>3. [status |-> "PENDING", due |-> due, expired |-> FALSE, dispatchCount |-> 0,
         responseCount |-> 0, born |-> births[t] + 1] \in TaskRecords
    BY <2>2 DEF TaskRecords, TaskStatus
  <2>4. QED  BY <2>1, <2>2, <2>3 DEF InsertTask, TypeOK, engineVars
<1>7. ASSUME NEW t \in Tasks, DeleteTask(t) PROVE TypeOK'
  <2>1. tasks[t] \in TaskRecords
    BY <1>7 DEF DeleteTask, Live, Status, TypeOK
  <2>2. [[tasks[t] EXCEPT !.status = "TOMBSTONE"] EXCEPT !.expired = FALSE] \in TaskRecords
    BY <2>1 DEF TaskRecords, TaskStatus
  <2>3. tasks' \in [Tasks -> TaskRecords \cup {NoRow}]
    BY <1>7, <2>1, <2>2 DEF DeleteTask, TypeOK
  <2>4. QED  BY <1>7, <2>3 DEF DeleteTask, TypeOK, engineVars
<1>8. ASSUME NEW t \in Tasks, RunTask(t) PROVE TypeOK'
  <2>1. tasks[t] \in TaskRecords /\ queues[QueueOf[t]] \in QueueRecords
    BY <1>8 DEF RunTask, Live, Status, TypeOK
  <2>2. Flight(t, "runTask") \in Flights
    BY <2>1, FlightType
  <2>3. tasks' \in [Tasks -> TaskRecords \cup {NoRow}]
    BY <1>8, <2>1, MarkType DEF RunTask
  <2>4. QED  BY <1>8, <2>2, <2>3 DEF RunTask, TypeOK
<1>9. ASSUME NEW t \in Tasks, ScheduleTimeArrives(t) \/ TombstoneExpires(t) PROVE TypeOK'
  <2>1. tasks[t] \in TaskRecords
    BY <1>9 DEF ScheduleTimeArrives, TombstoneExpires, Status, TypeOK
  <2>2. /\ [tasks[t] EXCEPT !.due = TRUE] \in TaskRecords
        /\ [tasks[t] EXCEPT !.expired = TRUE] \in TaskRecords
    BY <2>1 DEF TaskRecords
  <2>3. QED  BY <1>9, <2>2 DEF ScheduleTimeArrives, TombstoneExpires, TypeOK, engineVars
<1>10. CASE Tick
  <2>1. PICK P \in Picks :
          LET sent == {t \in P : Parses(QueueOf[t])} IN
          /\ running' = (sent = P)
          /\ MarkDispatching(sent)
          /\ flights' = flights \cup
               {Flight(t, IF sent = P THEN "tick" ELSE "lateTick") : t \in sent}
          /\ buckets' = [q \in Queues |->
                           IF q \in RunningQueues THEN BucketAfterTick(q, P) ELSE buckets[q]]
    BY <1>10 DEF Tick, Dispatch
  <2> DEFINE sent == {t \in P : Parses(QueueOf[t])}
             by == IF sent = P THEN "tick" ELSE "lateTick"
  <2>2. sent \in SUBSET Tasks /\ \A t \in sent : tasks[t] \in TaskRecords
    BY PicksArePending DEF Picks
  <2>3. \A t \in sent : Flight(t, by) \in Flights
    BY PicksArePending, FlightType
  <2>4. \A q \in RunningQueues : BucketAfterTick(q, P) \in Bucket!Buckets
    BY AfterTickType
  <2>5. tasks' \in [Tasks -> TaskRecords \cup {NoRow}]
    BY <2>1, <2>2, MarkType
  <2>6. flights' \in SUBSET Flights
    BY <2>1, <2>3 DEF TypeOK
  <2>7. QED  BY <1>10, <2>1, <2>4, <2>5, <2>6 DEF Tick, Dispatch, TypeOK
<1>11. ASSUME NEW f \in flights, NEW ok \in BOOLEAN, DispatchEnds(f, ok) PROVE TypeOK'
  <2>1. f \in Flights /\ f.task \in Tasks /\ f.responses \in Nat /\ QueueOf[f.task] \in Queues
    BY DEF TypeOK, Flights
  <2>2. ASSUME NEW row \in TaskRecords PROVE Answered(row, f, ok) \in TaskRecords
    <3> DEFINE As(status) == [row EXCEPT !.status = status]
               Settled(status) == [As(status) EXCEPT !.expired = FALSE]
               Retried == [As("PENDING") EXCEPT !.due = FALSE]
               n == f.responses + 1
    <3>1. n \in Nat
      BY <2>1
    <3>2. \A status \in TaskStatus : As(status) \in TaskRecords
      BY DEF TaskRecords
    <3>3. /\ "TOMBSTONE" \in TaskStatus /\ "FAILED" \in TaskStatus
          /\ "PENDING" \in TaskStatus
      BY DEF TaskStatus
    <3> HIDE DEF As, n
    <3>4. Settled("TOMBSTONE") \in TaskRecords /\ Retried \in TaskRecords
      BY <3>2, <3>3 DEF TaskRecords
    <3> HIDE DEF Settled, Retried
    <3>5. \A r \in TaskRecords : [r EXCEPT !.responseCount = n] \in TaskRecords
      BY <3>1 DEF TaskRecords
    <3>6. Answered(row, f, ok) \in
            {[r EXCEPT !.responseCount = n] :
               r \in {Settled("TOMBSTONE"), As("FAILED"), Retried}}
      BY DEF Answered, As, Settled, Retried, n
    <3>7. QED  BY <3>2, <3>3, <3>4, <3>5, <3>6
  <2>3. tasks' \in [Tasks -> TaskRecords \cup {NoRow}]
    <3>1. CASE tasks[f.task] = NoRow
      BY <1>11, <3>1 DEF DispatchEnds, TypeOK
    <3>2. CASE tasks[f.task] # NoRow
      <4>1. Answered(tasks[f.task], f, ok) \in TaskRecords
        BY <2>1, <2>2, <3>2 DEF TypeOK
      <4>2. tasks' = [tasks EXCEPT ![f.task] = Answered(tasks[f.task], f, ok)]
        BY <1>11, <3>2 DEF DispatchEnds
      <4>3. QED  BY <4>1, <4>2, <2>1 DEF TypeOK
    <3>3. QED  BY <3>1, <3>2
  <2>4. buckets' \in [Queues -> Bucket!Buckets \cup {NoBucket}]
    <3>1. ASSUME NEW b \in Bucket!Buckets PROVE Bucket!Release(b) \in Bucket!Buckets
      BY DEF Bucket!Release, Bucket!Buckets
    <3>2. CASE ~f.held
      BY <1>11, <3>2 DEF DispatchEnds, ReleaseBucket, TypeOK
    <3>3. CASE f.held
      <4>1. buckets[QueueOf[f.task]] \in Bucket!Buckets
        BY <2>1, <3>3 DEF HeldHasBucket, TypeOK
      <4>2. buckets' = [buckets EXCEPT ![QueueOf[f.task]] =
                          Bucket!Release(buckets[QueueOf[f.task]])]
        BY <1>11, <3>3 DEF DispatchEnds, ReleaseBucket
      <4>3. QED  BY <3>1, <4>1, <4>2, <2>1 DEF TypeOK
    <3>4. QED  BY <3>2, <3>3, <2>1 DEF TypeOK, Flights
  <2>5. QED  BY <1>11, <2>3, <2>4 DEF DispatchEnds, TypeOK
<1>12. CASE TickEnds
  <2>1. cleanupCounter' \in Nat
    BY <1>12 DEF TickEnds, TypeOK
  <2>2. tasks' \in [Tasks -> TaskRecords \cup {NoRow}]
    <3>1. CASE tasks' = tasks
      BY <3>1 DEF TypeOK
    <3>2. CASE tasks' # tasks
      <4>1. tasks' = [t \in Tasks |-> IF Status(t) = "TOMBSTONE" /\ tasks[t].expired
                                     THEN NoRow ELSE tasks[t]]
        BY <1>12, <3>2 DEF TickEnds
      <4>2. QED  BY <4>1 DEF TypeOK
    <3>3. QED  BY <3>1, <3>2
  <2>3. QED  BY <1>12, <2>1, <2>2 DEF TickEnds, TypeOK
<1>13. CASE StopEngine
  BY <1>13 DEF StopEngine, TypeOK
<1>14. CASE Restart \/ Crash
  <2>1. NewProcess
    BY <1>14 DEF Restart, Crash
  <2>2. buckets' \in [Queues -> Bucket!Buckets \cup {NoBucket}]
    BY <2>1 DEF NewProcess
  <2>3. QED  BY <2>1, <2>2 DEF NewProcess, TypeOK
<1>15. CASE UNCHANGED vars
  BY <1>15 DEF vars, engineVars, TypeOK
<1>16. QED
  BY <1>1, <1>2, <1>3, <1>4, <1>5, <1>6, <1>7, <1>8, <1>9, <1>10, <1>11, <1>12, <1>13,
     <1>14, <1>15 DEF Next, DispatchSettles

(* A bucket leaves the map only with its queue or its process, and then no   *)
(* request holds a slot of it.                                               *)
LEMMA HeldStep == TypeOK /\ HeldHasBucket /\ [Next]_vars => HeldHasBucket'
<1> SUFFICES ASSUME TypeOK, HeldHasBucket, [Next]_vars PROVE HeldHasBucket'
  OBVIOUS
<1>1. ASSUME UNCHANGED <<buckets, flights>> PROVE HeldHasBucket'
  BY <1>1 DEF HeldHasBucket
<1>2. ASSUME NEW q \in Queues, DeleteQueue(q) PROVE HeldHasBucket'
  <2>1. ASSUME NEW g \in flights', g.held PROVE g \in flights /\ QueueOf[g.task] # q
    <3>1. PICK f \in flights :
            g = IF QueueOf[f.task] = q THEN [f EXCEPT !.held = FALSE] ELSE f
      BY <1>2 DEF DeleteQueue
    <3>2. f \in Flights /\ [f EXCEPT !.held = FALSE].held = FALSE
      BY DEF TypeOK, Flights
    <3>3. QED  BY <2>1, <3>1, <3>2
  <2>2. \A f \in Flights : QueueOf[f.task] \in Queues
    BY DEF Flights
  <2>3. QED  BY <1>2, <2>1, <2>2 DEF DeleteQueue, HeldHasBucket, TypeOK
<1>3. ASSUME NEW t \in Tasks, RunTask(t) PROVE HeldHasBucket'
  <2>1. Flight(t, "runTask").held = FALSE
    BY DEF Flight
  <2>2. QED  BY <1>3, <2>1 DEF RunTask, HeldHasBucket
<1>4. CASE Tick
  <2>1. PICK P \in Picks :
          LET sent == {t \in P : Parses(QueueOf[t])} IN
          /\ flights' = flights \cup
               {Flight(t, IF sent = P THEN "tick" ELSE "lateTick") : t \in sent}
          /\ buckets' = [q \in Queues |->
                           IF q \in RunningQueues THEN BucketAfterTick(q, P) ELSE buckets[q]]
    BY <1>4 DEF Tick, Dispatch
  <2>2. \A q \in RunningQueues : q \in Queues /\ BucketAfterTick(q, P) # NoBucket
    BY AfterTickType DEF RunningQueues
  <2>3. ASSUME NEW f \in flights, f.held PROVE buckets'[QueueOf[f.task]] # NoBucket
    <3>1. QueueOf[f.task] \in Queues /\ buckets[QueueOf[f.task]] # NoBucket
      BY <2>3 DEF HeldHasBucket, TypeOK, Flights
    <3>2. QED  BY <2>1, <2>2, <3>1
  <2>4. ASSUME NEW t \in P, NEW by PROVE buckets'[QueueOf[Flight(t, by).task]] # NoBucket
    <3>1. QueueOf[t] \in RunningQueues
      BY DEF Picks, Dispatchable, TasksOf
    <3>2. Flight(t, by).task = t
      BY DEF Flight
    <3>3. QED  BY <2>1, <2>2, <3>1, <3>2
  <2>5. QED  BY <2>1, <2>3, <2>4 DEF HeldHasBucket
<1>5. ASSUME NEW f \in flights, NEW ok \in BOOLEAN, DispatchEnds(f, ok)
      PROVE  HeldHasBucket'
  <2>1. f \in Flights /\ QueueOf[f.task] \in Queues
    BY DEF TypeOK, Flights
  <2>2. \A b \in Bucket!Buckets : Bucket!Release(b) \in Bucket!Buckets
    BY DEF Bucket!Release, Bucket!Buckets
  <2>3. \A q \in Queues : buckets[q] # NoBucket => buckets'[q] # NoBucket
    <3>1. CASE ~f.held
      BY <1>5, <3>1 DEF DispatchEnds, ReleaseBucket
    <3>2. CASE f.held
      <4>1. buckets[QueueOf[f.task]] \in Bucket!Buckets
        BY <2>1, <3>2 DEF HeldHasBucket, TypeOK
      <4>2. buckets' = [buckets EXCEPT ![QueueOf[f.task]] =
                          Bucket!Release(buckets[QueueOf[f.task]])]
        BY <1>5, <3>2 DEF DispatchEnds, ReleaseBucket
      <4>3. QED  BY <2>1, <2>2, <4>1, <4>2 DEF TypeOK
    <3>3. QED  BY <3>1, <3>2
  <2>4. \A g \in flights : QueueOf[g.task] \in Queues
    BY DEF TypeOK, Flights
  <2>5. QED  BY <1>5, <2>3, <2>4 DEF DispatchEnds, HeldHasBucket
<1>6. CASE Restart \/ Crash
  BY <1>6 DEF Restart, Crash, NewProcess, HeldHasBucket
<1>7. ASSUME NEW q \in Queues,
             CreateQueue(q) \/ UpdateQueue(q) \/ PauseQueue(q) \/ ResumeQueue(q)
               \/ PurgeQueue(q)
      PROVE  HeldHasBucket'
  BY <1>1, <1>7 DEF CreateQueue, UpdateQueue, PauseQueue, ResumeQueue, PurgeQueue, engineVars
<1>8. ASSUME NEW t \in Tasks,
             CreateTask(t) \/ BufferTask(t) \/ DeleteTask(t) \/ ScheduleTimeArrives(t)
               \/ TombstoneExpires(t)
      PROVE  HeldHasBucket'
  BY <1>1, <1>8 DEF CreateTask, BufferTask, InsertTask, DeleteTask, ScheduleTimeArrives,
                    TombstoneExpires, engineVars
<1>9. CASE TickEnds \/ StopEngine \/ UNCHANGED vars
  BY <1>1, <1>9 DEF TickEnds, StopEngine, vars, engineVars
<1>10. QED
  BY <1>2, <1>3, <1>4, <1>5, <1>6, <1>7, <1>8, <1>9 DEF Next, DispatchSettles

(* The variables of Cloud Tasks keep their types in every behaviour, with    *)
(* any client calls, stops and crashes.                                      *)
THEOREM TypeCorrect == Spec => [](TypeOK /\ HeldHasBucket)
<1>1. ASSUME Init PROVE TypeOK /\ HeldHasBucket
  <2>1. queues \in [Queues -> QueueRecords \cup {NoRow}]
    BY <1>1 DEF Init
  <2>2. tasks \in [Tasks -> TaskRecords \cup {NoRow}]
    BY <1>1 DEF Init
  <2>3. buckets \in [Queues -> Bucket!Buckets \cup {NoBucket}]
    BY <1>1 DEF Init
  <2>4. QED  BY <1>1, <2>1, <2>2, <2>3 DEF Init, TypeOK, HeldHasBucket
<1>2. TypeOK /\ HeldHasBucket /\ [Next]_vars => (TypeOK /\ HeldHasBucket)'
  BY TypeStep, HeldStep
<1>3. QED  BY <1>1, <1>2, PTL DEF Spec

-----------------------------------------------------------------------------
(* Ticks do not overlap (dispatch-engine.ts:76-88): while a tick waits for   *)
(* its requests no other tick sends one, whatever the clients do.            *)
LEMMA OneEngineStep == TypeOK /\ OneEngineDispatch /\ [Next]_vars => OneEngineDispatch'
<1> SUFFICES ASSUME TypeOK, OneEngineDispatch, [Next]_vars PROVE OneEngineDispatch'
  OBVIOUS
<1>1. ASSUME flights' \subseteq flights, running' = running PROVE OneEngineDispatch'
  BY <1>1 DEF OneEngineDispatch
<1>2. ASSUME NEW q \in Queues, DeleteQueue(q) PROVE OneEngineDispatch'
  <2> DEFINE Unheld(f) == IF QueueOf[f.task] = q THEN [f EXCEPT !.held = FALSE] ELSE f
  <2>1. flights' = {Unheld(f) : f \in flights} /\ running' = running
    BY <1>2 DEF DeleteQueue
  <2>2. \A f \in flights : Unheld(f).by = f.by /\ Unheld(f).task = f.task
    BY DEF TypeOK, Flights
  <2> HIDE DEF Unheld
  <2>3. QED  BY <2>1, <2>2 DEF OneEngineDispatch
<1>3. ASSUME NEW t \in Tasks, RunTask(t) PROVE OneEngineDispatch'
  <2>1. Flight(t, "runTask").by = "runTask"
    BY DEF Flight
  <2>2. QED  BY <1>3, <2>1 DEF RunTask, OneEngineDispatch
<1>4. CASE Tick
  <2>1. PICK P \in Picks :
          LET sent == {t \in P : Parses(QueueOf[t])} IN
          /\ running' = (sent = P)
          /\ flights' = flights \cup
               {Flight(t, IF sent = P THEN "tick" ELSE "lateTick") : t \in sent}
    BY <1>4 DEF Tick, Dispatch
  <2> DEFINE sent == {t \in P : Parses(QueueOf[t])}
             by == IF sent = P THEN "tick" ELSE "lateTick"
  <2>2. \A f \in flights : f.by # "tick"
    BY <1>4 DEF Tick, OneEngineDispatch
  <2>3. \A t \in sent : Flight(t, by).task = t /\ Flight(t, by).by = by
    BY DEF Flight
  <2>4. ASSUME NEW f \in flights', f.by = "tick"
        PROVE  f = Flight(f.task, "tick") /\ sent = P
    BY <2>1, <2>2, <2>3, <2>4
  <2>5. QED  BY <2>1, <2>4 DEF OneEngineDispatch
<1>5. ASSUME NEW f \in flights, NEW ok \in BOOLEAN, DispatchEnds(f, ok)
      PROVE  OneEngineDispatch'
  BY <1>1, <1>5 DEF DispatchEnds
<1>6. CASE TickEnds
  BY <1>6 DEF TickEnds, OneEngineDispatch
<1>7. CASE Restart \/ Crash
  BY <1>7 DEF Restart, Crash, NewProcess, OneEngineDispatch
<1>8. ASSUME NEW q \in Queues,
             CreateQueue(q) \/ UpdateQueue(q) \/ PauseQueue(q) \/ ResumeQueue(q)
               \/ PurgeQueue(q)
      PROVE  OneEngineDispatch'
  BY <1>1, <1>8 DEF CreateQueue, UpdateQueue, PauseQueue, ResumeQueue, PurgeQueue, engineVars
<1>9. ASSUME NEW t \in Tasks,
             CreateTask(t) \/ BufferTask(t) \/ DeleteTask(t) \/ ScheduleTimeArrives(t)
               \/ TombstoneExpires(t)
      PROVE  OneEngineDispatch'
  BY <1>1, <1>9 DEF CreateTask, BufferTask, InsertTask, DeleteTask, ScheduleTimeArrives,
                    TombstoneExpires, engineVars
<1>10. CASE StopEngine \/ UNCHANGED vars
  BY <1>1, <1>10 DEF StopEngine, vars, engineVars
<1>11. QED
  BY <1>2, <1>3, <1>4, <1>5, <1>6, <1>7, <1>8, <1>9, <1>10 DEF Next, DispatchSettles

(* Ticks do not overlap (tick()'s comment, lines 76-81): no task ever has two*)
(* requests of the engine in flight.                                         *)
THEOREM OneDispatch == Spec => []OneEngineDispatch
<1>1. Init => OneEngineDispatch
  BY DEF Init, OneEngineDispatch
<1>2. QED  BY <1>1, TypeCorrect, OneEngineStep, PTL DEF Spec

-----------------------------------------------------------------------------
(* No crash; and stop() only where every dispatch is one that a tick waits   *)
(* for: no forced run, no queue whose dispatches throw.                      *)
Graceful ==
  /\ "crash" \notin Operations
  /\ "stop" \in Operations => "runTask" \notin Operations /\ Malformed \notin RetryConfigs

AllAwaited ==
  "stop" \in Operations =>
    /\ \A f \in flights : f.by = "tick"
    /\ \A q \in Queues : queues[q] # NoRow => Parses(q)

LEMMA AwaitedStep ==
  Graceful /\ TypeOK /\ AllAwaited /\ [Next]_vars => AllAwaited'
<1> SUFFICES ASSUME Graceful, TypeOK, AllAwaited, [Next]_vars, "stop" \in Operations
             PROVE  /\ \A f \in flights' : f.by = "tick"
                    /\ \A q \in Queues : queues'[q] # NoRow => queues'[q].retry # Malformed
  BY DEF AllAwaited, Parses
<1> DEFINE Awaited(F) == \A f \in F : f.by = "tick"
           Parsing(Q) == \A q \in Queues : Q[q] # NoRow => Q[q].retry # Malformed
<1>1. Awaited(flights) /\ Parsing(queues) /\ Malformed \notin RetryConfigs
      /\ "runTask" \notin Operations
  BY DEF AllAwaited, Parses, Graceful
<1>2. ASSUME NEW q \in Queues, CreateQueue(q) PROVE Awaited(flights') /\ Parsing(queues')
  <2>1. PICK limits \in RateLimits, retry \in RetryConfigs :
          queues' = [queues EXCEPT ![q] = [state |-> "RUNNING", limits |-> limits,
                                           retry |-> retry]]
    BY <1>2 DEF CreateQueue
  <2>2. QED  BY <1>1, <1>2, <2>1 DEF CreateQueue, engineVars, TypeOK
<1>3. ASSUME NEW q \in Queues, UpdateQueue(q) PROVE Awaited(flights') /\ Parsing(queues')
  <2>1. PICK limits \in RateLimits, retry \in RetryConfigs :
          queues' = [queues EXCEPT ![q].limits = limits, ![q].retry = retry]
    BY <1>3 DEF UpdateQueue
  <2>2. queues[q] \in QueueRecords
    BY <1>3 DEF UpdateQueue, TypeOK
  <2>3. queues'[q].retry = retry
    <3> DEFINE limited == [queues[q] EXCEPT !.limits = limits]
    <3>1. limited \in QueueRecords
      BY <2>2 DEF QueueRecords
    <3> HIDE DEF limited
    <3>2. [limited EXCEPT !.retry = retry].retry = retry
      BY <3>1 DEF QueueRecords
    <3>3. QED  BY <2>1, <3>2 DEF limited, TypeOK
  <2>4. QED  BY <1>1, <1>3, <2>1, <2>3 DEF UpdateQueue, engineVars, TypeOK
<1>4. ASSUME NEW q \in Queues, PauseQueue(q) \/ ResumeQueue(q)
      PROVE  Awaited(flights') /\ Parsing(queues')
  <2>1. queues[q] \in QueueRecords
    BY <1>4 DEF PauseQueue, ResumeQueue, TypeOK
  <2>2. queues'[q].retry = queues[q].retry
    BY <1>4, <2>1 DEF PauseQueue, ResumeQueue, TypeOK, QueueRecords
  <2>3. queues[q] # NoRow
    BY <1>4 DEF PauseQueue, ResumeQueue
  <2>4. QED  BY <1>1, <1>4, <2>2, <2>3 DEF PauseQueue, ResumeQueue, engineVars, TypeOK
<1>5. ASSUME NEW q \in Queues, DeleteQueue(q) PROVE Awaited(flights') /\ Parsing(queues')
  <2> DEFINE Unheld(f) == IF QueueOf[f.task] = q THEN [f EXCEPT !.held = FALSE] ELSE f
  <2>1. flights' = {Unheld(f) : f \in flights}
    BY <1>5 DEF DeleteQueue
  <2>2. \A f \in flights : Unheld(f).by = f.by
    BY DEF TypeOK, Flights
  <2> HIDE DEF Unheld
  <2>3. Awaited(flights')
    BY <1>1, <2>1, <2>2
  <2>4. Parsing(queues')
    BY <1>1, <1>5 DEF DeleteQueue, TypeOK
  <2>5. QED  BY <2>3, <2>4
<1>6. CASE Tick
  <2>1. PICK P \in Picks :
          LET sent == {t \in P : Parses(QueueOf[t])} IN
          flights' = flights \cup
            {Flight(t, IF sent = P THEN "tick" ELSE "lateTick") : t \in sent}
    BY <1>6 DEF Tick, Dispatch
  <2>2. \A t \in P : Parses(QueueOf[t])
    BY <1>1, PicksArePending DEF Parses
  <2>3. \A t \in P : Flight(t, "tick").by = "tick"
    BY DEF Flight
  <2>4. QED  BY <1>1, <1>6, <2>1, <2>2, <2>3 DEF Tick, Dispatch
<1>7. ASSUME NEW f \in flights, NEW ok \in BOOLEAN, DispatchEnds(f, ok)
      PROVE  Awaited(flights') /\ Parsing(queues')
  BY <1>1, <1>7 DEF DispatchEnds
<1>8. ASSUME flights' \subseteq flights, queues' = queues
      PROVE  Awaited(flights') /\ Parsing(queues')
  BY <1>1, <1>8
<1>9. ASSUME NEW q \in Queues, PurgeQueue(q) PROVE Awaited(flights') /\ Parsing(queues')
  BY <1>8, <1>9 DEF PurgeQueue, engineVars
<1>10. ASSUME NEW t \in Tasks,
              CreateTask(t) \/ BufferTask(t) \/ DeleteTask(t) \/ ScheduleTimeArrives(t)
                \/ TombstoneExpires(t)
       PROVE  Awaited(flights') /\ Parsing(queues')
  BY <1>8, <1>10 DEF CreateTask, BufferTask, InsertTask, DeleteTask, ScheduleTimeArrives,
                     TombstoneExpires, engineVars
<1>11. CASE TickEnds \/ StopEngine \/ Restart \/ Crash \/ UNCHANGED vars
  BY <1>8, <1>11 DEF TickEnds, StopEngine, Restart, Crash, NewProcess, vars, engineVars
<1>12. ASSUME NEW t \in Tasks PROVE ~RunTask(t)
  BY <1>1 DEF RunTask
<1>13. QED
  BY <1>2, <1>3, <1>4, <1>5, <1>6, <1>7, <1>9, <1>10, <1>11, <1>12
     DEF Next, DispatchSettles

StoppedByStop == timer \/ "stop" \in Operations

LEMMA StoppedStep == TypeOK /\ StoppedByStop /\ [Next]_vars => StoppedByStop'
BY DEF TypeOK, StoppedByStop, Next, CreateQueue, UpdateQueue, PauseQueue, ResumeQueue,
       PurgeQueue, DeleteQueue, CreateTask, BufferTask, InsertTask, DeleteTask, RunTask,
       ScheduleTimeArrives, TombstoneExpires, Tick, Dispatch, DispatchSettles, DispatchEnds,
       TickEnds, StopEngine, Restart, Crash, NewProcess, engineVars, vars

(* No task is left DISPATCHING without somebody dispatching it: the answer   *)
(* always moves it on (dispatch-engine.ts:178-235) and only the end of the   *)
(* process could cut it off, which stop() puts off.                          *)
LEMMA DispatchingStep ==
  Graceful /\ TypeOK /\ OneEngineDispatch /\ AllAwaited /\ StoppedByStop
    /\ DispatchingHasFlight /\ [Next]_vars => DispatchingHasFlight'
<1> SUFFICES ASSUME Graceful, TypeOK, OneEngineDispatch, AllAwaited, StoppedByStop,
                    DispatchingHasFlight, [Next]_vars
             PROVE  DispatchingHasFlight'
  OBVIOUS
<1> DEFINE D(T) == {t \in Tasks : T[t] # NoRow /\ T[t].status = "DISPATCHING"}
           Served(F) == {f.task : f \in F}
<1>1. /\ DispatchingHasFlight <=> D(tasks) \subseteq Served(flights)
      /\ DispatchingHasFlight' <=> D(tasks') \subseteq Served(flights')
  BY DEF DispatchingHasFlight, Status
<1>2. SUFFICES D(tasks') \subseteq Served(flights')
  BY <1>1
<1>3. D(tasks) \subseteq Served(flights)
  BY <1>1
<1>4. ASSUME flights' = flights, D(tasks') \subseteq D(tasks)
      PROVE  D(tasks') \subseteq Served(flights')
  BY <1>3, <1>4
<1>5. ASSUME NEW q \in Queues, DeleteQueue(q) PROVE D(tasks') \subseteq Served(flights')
  <2> DEFINE Unheld(f) == IF QueueOf[f.task] = q THEN [f EXCEPT !.held = FALSE] ELSE f
  <2>1. flights' = {Unheld(f) : f \in flights}
    BY <1>5 DEF DeleteQueue
  <2>2. \A f \in flights : Unheld(f).task = f.task
    BY DEF TypeOK, Flights
  <2>3. D(tasks') \subseteq D(tasks)
    BY <1>5 DEF DeleteQueue, DeleteTasksByQueue
  <2> HIDE DEF Unheld
  <2>4. Served(flights') = Served(flights)
    BY <2>1, <2>2
  <2>5. QED  BY <1>3, <2>3, <2>4
<1>6. ASSUME NEW q \in Queues, PurgeQueue(q) PROVE D(tasks') \subseteq Served(flights')
  <2>1. D(tasks') \subseteq D(tasks)
    BY <1>6 DEF PurgeQueue, DeleteTasksByQueue
  <2>2. QED  BY <1>4, <1>6, <2>1 DEF PurgeQueue, engineVars
<1>7. ASSUME NEW t \in Tasks, CreateTask(t) \/ BufferTask(t)
      PROVE  D(tasks') \subseteq Served(flights')
  <2>1. PICK due \in BOOLEAN : InsertTask(t, due)
    BY <1>7 DEF CreateTask, BufferTask
  <2>2. D(tasks') \subseteq D(tasks)
    BY <2>1 DEF InsertTask, TypeOK
  <2>3. QED  BY <1>4, <2>1, <2>2 DEF InsertTask, engineVars
<1>8. ASSUME NEW t \in Tasks, DeleteTask(t) PROVE D(tasks') \subseteq Served(flights')
  <2>1. tasks[t] \in TaskRecords
    BY <1>8 DEF DeleteTask, Live, Status, TypeOK
  <2>2. tasks'[t].status = "TOMBSTONE" /\ \A u \in Tasks \ {t} : tasks'[u] = tasks[u]
    BY <1>8, <2>1 DEF DeleteTask, TypeOK, TaskRecords
  <2>3. D(tasks') \subseteq D(tasks)
    BY <2>2
  <2>4. QED  BY <1>4, <1>8, <2>3 DEF DeleteTask, engineVars
<1>9. ASSUME NEW t \in Tasks, ScheduleTimeArrives(t) \/ TombstoneExpires(t)
      PROVE  D(tasks') \subseteq Served(flights')
  <2>1. tasks[t] \in TaskRecords
    BY <1>9 DEF ScheduleTimeArrives, TombstoneExpires, Status, TypeOK
  <2>2. tasks'[t].status = tasks[t].status /\ tasks[t] # NoRow
        /\ \A u \in Tasks \ {t} : tasks'[u] = tasks[u]
    BY <1>9, <2>1 DEF ScheduleTimeArrives, TombstoneExpires, TypeOK, TaskRecords
  <2>3. D(tasks') \subseteq D(tasks)
    BY <2>2
  <2>4. QED  BY <1>4, <1>9, <2>3 DEF ScheduleTimeArrives, TombstoneExpires, engineVars
<1>10. ASSUME NEW t \in Tasks, RunTask(t) PROVE D(tasks') \subseteq Served(flights')
  <2>1. D(tasks') \subseteq D(tasks) \cup {t}
    BY <1>10 DEF RunTask, MarkDispatching
  <2>2. Flight(t, "runTask").task = t
    BY DEF Flight
  <2>3. QED  BY <1>3, <1>10, <2>1, <2>2 DEF RunTask
<1>11. CASE Tick
  <2>1. PICK P \in Picks :
          LET sent == {t \in P : Parses(QueueOf[t])} IN
          /\ MarkDispatching(sent)
          /\ flights' = flights \cup
               {Flight(t, IF sent = P THEN "tick" ELSE "lateTick") : t \in sent}
    BY <1>11 DEF Tick, Dispatch
  <2> DEFINE sent == {t \in P : Parses(QueueOf[t])}
             by == IF sent = P THEN "tick" ELSE "lateTick"
  <2>2. D(tasks') \subseteq D(tasks) \cup sent
    BY <2>1 DEF MarkDispatching
  <2>3. \A t \in sent : Flight(t, by).task = t
    BY DEF Flight
  <2>4. Served(flights) \cup sent \subseteq Served(flights')
    BY <2>1, <2>3
  <2>5. QED  BY <1>3, <2>2, <2>4
<1>12. ASSUME NEW f \in flights, NEW ok \in BOOLEAN, DispatchEnds(f, ok)
       PROVE  D(tasks') \subseteq Served(flights')
  <2>1. f.task \in Tasks
    BY DEF TypeOK, Flights
  <2>2. \A row \in TaskRecords : Answered(row, f, ok).status # "DISPATCHING"
    BY DEF Answered, TaskRecords
  <2>3. D(tasks') \subseteq D(tasks) \ {f.task}
    <3>1. CASE tasks[f.task] = NoRow
      BY <1>12, <3>1 DEF DispatchEnds
    <3>2. CASE tasks[f.task] # NoRow
      <4>1. tasks' = [tasks EXCEPT ![f.task] = Answered(tasks[f.task], f, ok)]
        BY <1>12, <3>2 DEF DispatchEnds
      <4>2. tasks[f.task] \in TaskRecords
        BY <2>1, <3>2 DEF TypeOK
      <4>3. tasks'[f.task].status # "DISPATCHING"
            /\ \A u \in Tasks \ {f.task} : tasks'[u] = tasks[u]
        BY <2>1, <2>2, <4>1, <4>2 DEF TypeOK
      <4>4. QED  BY <4>3
    <3>3. QED  BY <3>1, <3>2
  <2>4. flights' = flights \ {f}
    BY <1>12 DEF DispatchEnds
  <2>5. QED  BY <1>3, <2>3, <2>4
<1>13. CASE TickEnds
  <2>1. D(tasks') \subseteq D(tasks)
    BY <1>13 DEF TickEnds
  <2>2. QED  BY <1>4, <1>13, <2>1 DEF TickEnds
<1>14. CASE StopEngine
  BY <1>4, <1>14 DEF StopEngine
<1>15. CASE Restart
  <2>1. "stop" \in Operations
    BY <1>15 DEF Restart, StoppedByStop
  <2>2. flights = {}
    BY <1>15, <2>1 DEF Restart, AllAwaited, OneEngineDispatch
  <2>3. QED  BY <1>3, <1>15, <2>2 DEF Restart, NewProcess
<1>16. ~Crash
  BY DEF Crash, Graceful
<1>17. ASSUME NEW q \in Queues,
              CreateQueue(q) \/ UpdateQueue(q) \/ PauseQueue(q) \/ ResumeQueue(q)
       PROVE  D(tasks') \subseteq Served(flights')
  BY <1>4, <1>17 DEF CreateQueue, UpdateQueue, PauseQueue, ResumeQueue, engineVars
<1>18. CASE UNCHANGED vars
  BY <1>4, <1>18 DEF vars, engineVars
<1>19. QED
  BY <1>5, <1>6, <1>7, <1>8, <1>9, <1>10, <1>11, <1>12, <1>13, <1>14, <1>15, <1>16, <1>17,
     <1>18 DEF Next, DispatchSettles

(* While nothing crashes, a DISPATCHING task is always awaited by somebody   *)
(* who will move it on.                                                      *)
THEOREM NoneStuck == ASSUME Graceful PROVE Spec => []DispatchingHasFlight
<1>1. Init => AllAwaited /\ StoppedByStop /\ DispatchingHasFlight
  BY DEF Init, AllAwaited, StoppedByStop, DispatchingHasFlight, Status
<1>2. Graceful
  OBVIOUS
<1>3. TypeOK /\ AllAwaited /\ [Next]_vars => AllAwaited'
  BY <1>2, AwaitedStep
<1>4. TypeOK /\ OneEngineDispatch /\ AllAwaited /\ StoppedByStop /\ DispatchingHasFlight
        /\ [Next]_vars => DispatchingHasFlight'
  BY <1>2, DispatchingStep
<1>5. QED
  BY <1>1, <1>3, <1>4, TypeCorrect, OneDispatch, StoppedStep, PTL DEF Spec

-----------------------------------------------------------------------------
(* What is settled stays settled: a step that is not a forced run keeps a    *)
(* completed, deleted or exhausted task without a request in flight as it is,*)
(* makes it a tombstone or removes it.                                       *)
SettledKept(t) ==
  (Status(t) \in {"TOMBSTONE", "FAILED"} /\ \A f \in flights : f.task # t) =>
    \/ Status(t)' \in {Status(t), "TOMBSTONE", "ABSENT"}
    \/ RunTask(t) /\ Status(t) = "FAILED"

LEMMA SettledStep ==
  ASSUME TypeOK, [Next]_vars, NEW t \in Tasks PROVE SettledKept(t)
<1> SUFFICES ASSUME Status(t) \in {"TOMBSTONE", "FAILED"}, \A f \in flights : f.task # t
             PROVE  \/ Status(t)' \in {Status(t), "TOMBSTONE", "ABSENT"}
                    \/ RunTask(t) /\ Status(t) = "FAILED"
  BY DEF SettledKept
<1>1. tasks[t] # NoRow /\ tasks[t] \in TaskRecords
      /\ tasks[t].status \in {"TOMBSTONE", "FAILED"}
  BY DEF Status, TypeOK
<1>2. ASSUME tasks'[t] = NoRow PROVE Status(t)' = "ABSENT"
  BY <1>2 DEF Status
<1>3. ASSUME tasks'[t] = tasks[t] PROVE Status(t)' = Status(t)
  BY <1>3 DEF Status
<1>4. ASSUME NEW q \in Queues, DeleteQueue(q) \/ PurgeQueue(q)
      PROVE  tasks'[t] \in {NoRow, tasks[t]}
  BY <1>4 DEF DeleteQueue, PurgeQueue, DeleteTasksByQueue
<1>5. ASSUME NEW u \in Tasks, CreateTask(u) \/ BufferTask(u) PROVE tasks'[t] = tasks[t]
  <2>1. u # t /\ \E due \in BOOLEAN : InsertTask(u, due)
    BY <1>1, <1>5 DEF CreateTask, BufferTask, InsertTask
  <2>2. QED  BY <2>1 DEF InsertTask, TypeOK
<1>6. ASSUME NEW u \in Tasks, DeleteTask(u) PROVE Status(t)' \in {Status(t), "TOMBSTONE"}
  <2>1. CASE u = t
    <3> DEFINE dead == [tasks[t] EXCEPT !.status = "TOMBSTONE"]
    <3>1. dead \in TaskRecords /\ dead.status = "TOMBSTONE"
      BY <1>1 DEF TaskRecords, TaskStatus
    <3>2. tasks'[t] = [dead EXCEPT !.expired = FALSE]
      BY <1>6, <2>1 DEF DeleteTask, TypeOK
    <3> HIDE DEF dead
    <3>3. [dead EXCEPT !.expired = FALSE] \in TaskRecords
          /\ [dead EXCEPT !.expired = FALSE].status = "TOMBSTONE"
      BY <3>1 DEF TaskRecords
    <3>4. QED  BY <3>2, <3>3 DEF Status
  <2>2. CASE u # t
    BY <1>3, <1>6, <2>2 DEF DeleteTask, TypeOK
  <2>3. QED  BY <2>1, <2>2
<1>7. ASSUME NEW u \in Tasks, RunTask(u)
      PROVE  tasks'[t] = tasks[t] \/ (RunTask(t) /\ Status(t) = "FAILED")
  <2>1. CASE u = t
    BY <1>7, <2>1 DEF RunTask, Live
  <2>2. CASE u # t
    BY <1>7, <2>2 DEF RunTask, MarkDispatching
  <2>3. QED  BY <2>1, <2>2
<1>8. ASSUME NEW u \in Tasks, ScheduleTimeArrives(u) \/ TombstoneExpires(u)
      PROVE  Status(t)' = Status(t)
  <2>1. CASE u = t
    <3>1. tasks'[t].status = tasks[t].status
      BY <1>1, <1>8, <2>1 DEF ScheduleTimeArrives, TombstoneExpires, TypeOK, TaskRecords
    <3>2. tasks'[t] # NoRow
      <4>1. [tasks[t] EXCEPT !.due = TRUE] \in TaskRecords
            /\ [tasks[t] EXCEPT !.expired = TRUE] \in TaskRecords
        BY <1>1 DEF TaskRecords
      <4>2. QED  BY <1>8, <2>1, <4>1 DEF ScheduleTimeArrives, TombstoneExpires, TypeOK
    <3>3. QED  BY <1>1, <3>1, <3>2 DEF Status
  <2>2. CASE u # t
    BY <1>3, <1>8, <2>2 DEF ScheduleTimeArrives, TombstoneExpires, TypeOK
  <2>3. QED  BY <2>1, <2>2
<1>9. CASE Tick
  <2>1. PICK P \in Picks : MarkDispatching({u \in P : Parses(QueueOf[u])})
    BY <1>9 DEF Tick, Dispatch
  <2>2. t \notin P
    BY <1>1, PicksArePending
  <2>3. tasks'[t] = tasks[t]
    BY <2>1, <2>2 DEF MarkDispatching
  <2>4. QED  BY <1>3, <2>3
<1>10. ASSUME NEW f \in flights, NEW ok \in BOOLEAN, DispatchEnds(f, ok)
       PROVE  tasks'[t] = tasks[t]
  BY <1>10 DEF DispatchEnds, TypeOK
<1>11. CASE TickEnds
  BY <1>2, <1>3, <1>11 DEF TickEnds
<1>12. ASSUME tasks' = tasks PROVE Status(t)' = Status(t)
  BY <1>3, <1>12
<1>13. ASSUME NEW q \in Queues,
              CreateQueue(q) \/ UpdateQueue(q) \/ PauseQueue(q) \/ ResumeQueue(q)
       PROVE  Status(t)' = Status(t)
  BY <1>12, <1>13 DEF CreateQueue, UpdateQueue, PauseQueue, ResumeQueue
<1>14. CASE StopEngine \/ Restart \/ Crash \/ UNCHANGED vars
  BY <1>12, <1>14 DEF StopEngine, Restart, Crash, NewProcess, vars
<1>15. QED
  BY <1>2, <1>3, <1>4, <1>5, <1>6, <1>7, <1>8, <1>9, <1>10, <1>11, <1>13, <1>14
     DEF Next, DispatchSettles

(* No step but its removal touches a task that is done with, unless runTask()*)
(* dispatches a FAILED one again.                                            *)
THEOREM SettledFinal == Spec => SettledIsFinal
<1>1. TypeOK /\ [Next]_vars => [\A t \in Tasks : SettledKept(t)]_vars
  BY SettledStep
<1>2. SettledIsFinal <=> [][\A t \in Tasks : SettledKept(t)]_vars
  BY DEF SettledIsFinal, SettledKept
<1>3. QED  BY <1>1, <1>2, TypeCorrect, PTL DEF Spec

-----------------------------------------------------------------------------
(* The attempts of a task.  Where nobody runs tasks by force, changes retry  *)
(* configs or makes dispatches throw, the engine only dispatches with no     *)
(* request left in flight, so what a request captured of its row still holds *)
(* of the row when it is answered, unless the row is a new one.              *)
Steady ==
  /\ Operations \cap {"runTask", "updateQueue"} = {}
  /\ RetryConfigs \cap {0, Malformed} = {}

AllOfATick == \A f \in flights : f.by = "tick"
RetriesGiven == \A q \in Queues : queues[q] # NoRow => queues[q].retry \in RetryConfigs
RowsHaveQueue == \A t \in Tasks : tasks[t] # NoRow => queues[QueueOf[t]] # NoRow
BornBefore ==
  /\ \A t \in Tasks : tasks[t] # NoRow => tasks[t].born <= births[t]
  /\ \A f \in flights : f.born <= births[f.task]
PendingMayGo ==
  \A t \in Tasks : Status(t) = "PENDING" =>
    LET retry == queues[QueueOf[t]].retry IN
    retry = Unlimited \/ tasks[t].dispatchCount < retry
FlightsMatch ==
  \A f \in flights : tasks[f.task] # NoRow =>
    IF tasks[f.task].born = f.born
    THEN /\ tasks[f.task].status # "PENDING" /\ tasks[f.task].dispatchCount = f.attempt + 1
         /\ tasks[f.task].responseCount = f.responses
         /\ f.retry = queues[QueueOf[f.task]].retry
    ELSE tasks[f.task].dispatchCount = 0

AInv ==
  /\ AllOfATick /\ RetriesGiven /\ RowsHaveQueue /\ BornBefore /\ PendingMayGo
  /\ FlightsMatch /\ AttemptsBounded

(* Without interruptions a request finds the very row it was sent for.       *)
RowsAwaitFlights ==
  \A f \in flights : tasks[f.task] # NoRow /\ tasks[f.task].born = f.born
RInv == RowsAwaitFlights /\ ResponsesFollowDispatches

(* A step that sends and answers nothing: rows go or become tombstones, and  *)
(* queues go with their rows.                                                *)
SameRow(r, s) ==
  /\ r.dispatchCount = s.dispatchCount /\ r.responseCount = s.responseCount
  /\ r.born = s.born /\ s.status \in {r.status, "TOMBSTONE"}
SameFlight(f, g) ==
  /\ f.task = g.task /\ f.by = g.by /\ f.attempt = g.attempt /\ f.responses = g.responses
  /\ f.born = g.born /\ f.retry = g.retry
Calm ==
  /\ births' = births
  /\ \A g \in flights' : \E f \in flights : SameFlight(f, g)
  /\ \A t \in Tasks : tasks'[t] = NoRow \/ (tasks[t] # NoRow /\ SameRow(tasks[t], tasks'[t]))
  /\ \A t \in Tasks : tasks'[t] # NoRow =>
       /\ queues'[QueueOf[t]] # NoRow /\ queues'[QueueOf[t]].retry = queues[QueueOf[t]].retry
  /\ \A q \in Queues : queues'[q] # NoRow => queues'[q].retry \in RetryConfigs

LEMMA CalmKeeps ==
  ASSUME TypeOK, AInv, Calm PROVE AInv'
<1>1. ASSUME NEW g \in flights' PROVE \E f \in flights : SameFlight(f, g)
  BY DEF Calm
<1>2. \A f \in flights : f.task \in Tasks /\ QueueOf[f.task] \in Queues
  BY DEF TypeOK, Flights
<1>3. AllOfATick' /\ AttemptsBounded'
  BY <1>1 DEF AInv, AllOfATick, AttemptsBounded, SameFlight
<1>4. RetriesGiven' /\ RowsHaveQueue'
  BY DEF Calm, RetriesGiven, RowsHaveQueue
<1>5. BornBefore'
  BY <1>1 DEF AInv, BornBefore, Calm, SameRow, SameFlight
<1>6. PendingMayGo'
  BY DEF AInv, PendingMayGo, Calm, SameRow, Status
<1>7. FlightsMatch'
  <2> SUFFICES ASSUME NEW g \in flights', tasks'[g.task] # NoRow
               PROVE  IF tasks'[g.task].born = g.born
                      THEN /\ tasks'[g.task].status # "PENDING"
                           /\ tasks'[g.task].dispatchCount = g.attempt + 1
                           /\ tasks'[g.task].responseCount = g.responses
                           /\ g.retry = queues'[QueueOf[g.task]].retry
                      ELSE tasks'[g.task].dispatchCount = 0
    BY DEF FlightsMatch
  <2>1. PICK f \in flights : SameFlight(f, g)
    BY <1>1
  <2> DEFINE t == f.task
  <2>2. t \in Tasks /\ g.task = t
    BY <1>2, <2>1 DEF SameFlight
  <2>3. /\ tasks[t] # NoRow /\ SameRow(tasks[t], tasks'[t])
        /\ queues'[QueueOf[t]].retry = queues[QueueOf[t]].retry
    BY <2>2 DEF Calm
  <2> QED
    BY <2>1, <2>2, <2>3 DEF AInv, FlightsMatch, SameRow, SameFlight
<1> QED
  BY <1>3, <1>4, <1>5, <1>6, <1>7 DEF AInv

LEMMA InsertKeeps ==
  ASSUME Steady, TypeOK, AInv, NEW t \in Tasks, NEW due \in BOOLEAN, InsertTask(t, due)
  PROVE  AInv'
<1> DEFINE r == [status |-> "PENDING", due |-> due, expired |-> FALSE,
                 dispatchCount |-> 0, responseCount |-> 0, born |-> births[t] + 1]
<1>1. /\ tasks[t] = NoRow
      /\ tasks'[t] = r
      /\ \A u \in Tasks \ {t} : tasks'[u] = tasks[u]
      /\ births'[t] = births[t] + 1
      /\ \A u \in Tasks \ {t} : births'[u] = births[u]
      /\ queues' = queues /\ flights' = flights
      /\ queues[QueueOf[t]] # NoRow
  BY DEF InsertTask, TypeOK, engineVars
<1>2. births[t] \in Nat /\ QueueOf[t] \in Queues /\ r # NoRow
  <2>1. births[t] \in Nat /\ births[t] + 1 \in Nat
    BY DEF TypeOK
  <2>2. r \in TaskRecords
    BY <2>1 DEF TaskRecords, TaskStatus
  <2> QED
    BY <2>1, <2>2
<1>3. \A f \in flights : f.task \in Tasks /\ f.born \in Nat
  BY DEF TypeOK, Flights
<1>4. AllOfATick' /\ AttemptsBounded' /\ RetriesGiven'
  BY <1>1 DEF AInv, AllOfATick, AttemptsBounded, RetriesGiven
<1>5. RowsHaveQueue'
  BY <1>1 DEF AInv, RowsHaveQueue
<1>6. BornBefore'
  <2>1. \A u \in Tasks : births[u] <= births'[u]
    BY <1>1, <1>2 DEF TypeOK
  <2>2. \A u \in Tasks : births[u] \in Nat /\ births'[u] \in Nat
    BY <1>1, <1>2 DEF TypeOK
  <2>3. \A u \in Tasks : tasks[u] # NoRow => tasks[u].born \in Nat
    BY DEF TypeOK, TaskRecords
  <2>4. \A f \in flights' : f.born <= births'[f.task]
    BY <1>1, <1>3, <2>1, <2>2 DEF AInv, BornBefore
  <2>5. \A u \in Tasks : tasks'[u] # NoRow => tasks'[u].born <= births'[u]
    BY <1>1, <1>2, <2>1, <2>2, <2>3 DEF AInv, BornBefore
  <2> QED
    BY <2>4, <2>5 DEF BornBefore
<1>7. PendingMayGo'
  <2>1. queues[QueueOf[t]].retry \in RetryConfigs
    BY <1>1, <1>2 DEF AInv, RetriesGiven
  <2>2. \A n \in RetryConfigs : n = Unlimited \/ 0 < n
    BY DEF Steady, Malformed
  <2> DEFINE Go(row, q) == row # NoRow /\ row.status = "PENDING" =>
                           q.retry = Unlimited \/ row.dispatchCount < q.retry
  <2>3. Go(tasks'[t], queues'[QueueOf[t]])
    <3>1. tasks'[t].dispatchCount = 0 /\ queues'[QueueOf[t]] = queues[QueueOf[t]]
      BY <1>1
    <3> QED
      BY <2>1, <2>2, <3>1
  <2>4. \A u \in Tasks \ {t} : Go(tasks'[u], queues'[QueueOf[u]])
    BY <1>1 DEF AInv, PendingMayGo, Status
  <2> QED
    BY <2>3, <2>4 DEF PendingMayGo, Status
<1>8. FlightsMatch'
  <2>1. \A f \in flights : f.task = t => f.born # r.born
    BY <1>2, <1>3 DEF AInv, BornBefore
  <2> QED
    BY <1>1, <1>3, <2>1 DEF AInv, FlightsMatch
<1> QED
  BY <1>4, <1>5, <1>6, <1>7, <1>8 DEF AInv

(* A tick finds nothing in flight and picks pending rows only.               *)
LEMMA TickSends ==
  ASSUME Steady, TypeOK, RetriesGiven, AllOfATick, OneEngineDispatch, Tick
  PROVE  /\ flights = {}
         /\ \E P \in Picks : /\ flights' = {Flight(t, "tick") : t \in P}
                             /\ MarkDispatching(P)
         /\ queues' = queues /\ births' = births
<1>1. PICK P \in Picks :
        LET sent == {t \in P : Parses(QueueOf[t])} IN
        /\ MarkDispatching(sent)
        /\ flights' = flights \cup
             {Flight(t, IF sent = P THEN "tick" ELSE "lateTick") : t \in sent}
  BY DEF Tick, Dispatch
<1>2. queues' = queues /\ births' = births /\ ~running
  BY DEF Tick, Dispatch
<1>3. \A t \in P : QueueOf[t] \in Queues /\ queues[QueueOf[t]] # NoRow
  BY PicksArePending
<1>4. {t \in P : Parses(QueueOf[t])} = P
  BY <1>3 DEF RetriesGiven, Steady, Parses
<1>5. flights = {}
  BY <1>2 DEF AllOfATick, OneEngineDispatch
<1> QED
  BY <1>1, <1>2, <1>4, <1>5

LEMMA TickKeeps ==
  ASSUME Steady, TypeOK, AInv, OneEngineDispatch, Tick
  PROVE  AInv'
<1>1. PICK P \in Picks : flights' = {Flight(t, "tick") : t \in P} /\ MarkDispatching(P)
  BY TickSends DEF AInv
<1>2. queues' = queues /\ births' = births
  BY TickSends DEF AInv
<1>3. \A t \in P : /\ t \in Tasks /\ tasks[t] \in TaskRecords /\ tasks[t].status = "PENDING"
                   /\ QueueOf[t] \in Queues /\ queues[QueueOf[t]] \in QueueRecords
  BY PicksArePending
<1>4. ASSUME NEW t \in P
      PROVE  /\ tasks'[t] # NoRow /\ tasks'[t].status = "DISPATCHING"
             /\ tasks'[t].dispatchCount = tasks[t].dispatchCount + 1
             /\ tasks'[t].responseCount = tasks[t].responseCount
             /\ tasks'[t].born = tasks[t].born
  <2> DEFINE m == [tasks[t] EXCEPT !.status = "DISPATCHING"]
  <2>1. /\ m \in TaskRecords /\ m.status = "DISPATCHING"
        /\ m.dispatchCount = tasks[t].dispatchCount
        /\ m.responseCount = tasks[t].responseCount /\ m.born = tasks[t].born
    BY <1>3 DEF TaskRecords, TaskStatus
  <2>2. tasks'[t] = [m EXCEPT !.dispatchCount = @ + 1]
    BY <1>1, <1>3 DEF MarkDispatching
  <2> HIDE DEF m
  <2>3. [m EXCEPT !.dispatchCount = @ + 1] \in TaskRecords
    BY <2>1 DEF TaskRecords
  <2> QED
    BY <2>1, <2>2, <2>3 DEF TaskRecords
<1>5. \A t \in Tasks \ P : tasks'[t] = tasks[t]
  BY <1>1 DEF MarkDispatching
<1>6. ASSUME NEW g \in flights'
      PROVE  \E t \in P :
               /\ g.task = t /\ g.by = "tick" /\ g.attempt = tasks[t].dispatchCount
               /\ g.responses = tasks[t].responseCount /\ g.born = tasks[t].born
               /\ g.retry = queues[QueueOf[t]].retry
  BY <1>1 DEF Flight
<1>7. AllOfATick' /\ RetriesGiven'
  BY <1>2, <1>6 DEF AInv, AllOfATick, RetriesGiven
<1>8. RowsHaveQueue'
  BY <1>2, <1>3, <1>5 DEF AInv, RowsHaveQueue
<1>9. BornBefore'
  <2>1. \A t \in Tasks : tasks'[t] # NoRow => tasks'[t].born <= births'[t]
    BY <1>2, <1>3, <1>4, <1>5 DEF AInv, BornBefore
  <2>2. \A g \in flights' : g.born <= births'[g.task]
    BY <1>2, <1>3, <1>6 DEF AInv, BornBefore
  <2> QED
    BY <2>1, <2>2 DEF BornBefore
<1>10. PendingMayGo'
  BY <1>2, <1>4, <1>5 DEF AInv, PendingMayGo, Status
<1>11. FlightsMatch'
  BY <1>2, <1>4, <1>6 DEF FlightsMatch
<1>12. AttemptsBounded'
  <2>1. \A t \in P : Status(t) = "PENDING"
    BY <1>3 DEF Status
  <2> QED
    BY <1>3, <1>6, <2>1 DEF AInv, PendingMayGo, AttemptsBounded
<1> QED
  BY <1>7, <1>8, <1>9, <1>10, <1>11, <1>12 DEF AInv

(* What an answer does to the row it finds.                                  *)
LEMMA AnswersTheRow ==
  ASSUME TypeOK, NEW f \in flights, NEW ok \in BOOLEAN, DispatchEnds(f, ok),
         tasks[f.task] # NoRow
  PROVE  /\ f.task \in Tasks /\ tasks'[f.task] # NoRow
         /\ tasks'[f.task].status \in {"PENDING", "FAILED", "TOMBSTONE"}
         /\ tasks'[f.task].status = "PENDING" => ~Exhausted(f)
         /\ tasks'[f.task].dispatchCount = tasks[f.task].dispatchCount
         /\ tasks'[f.task].responseCount = f.responses + 1
         /\ tasks'[f.task].born = tasks[f.task].born
<1> DEFINE row == tasks[f.task]
<1>1. f.task \in Tasks /\ row \in TaskRecords /\ f.responses + 1 \in Nat
  BY DEF TypeOK, Flights
<1>2. tasks'[f.task] = Answered(row, f, ok)
  BY <1>1 DEF DispatchEnds, TypeOK
<1> DEFINE As(status) == [row EXCEPT !.status = status]
           Settled == [As("TOMBSTONE") EXCEPT !.expired = FALSE]
           Retried == [As("PENDING") EXCEPT !.due = FALSE]
           Same(r) == /\ r \in TaskRecords /\ r.dispatchCount = row.dispatchCount
                      /\ r.born = row.born
<1>3. \A status \in TaskStatus : Same(As(status)) /\ As(status).status = status
  BY <1>1 DEF TaskRecords
<1>4. {"TOMBSTONE", "FAILED", "PENDING"} \subseteq TaskStatus
  BY DEF TaskStatus
<1> HIDE DEF As
<1>5. /\ Same(Settled) /\ Settled.status = "TOMBSTONE"
      /\ Same(Retried) /\ Retried.status = "PENDING"
  <2>1. \A r \in TaskRecords :
          \A s \in {[r EXCEPT !.expired = FALSE], [r EXCEPT !.due = FALSE]} :
            /\ s \in TaskRecords /\ s.status = r.status
            /\ s.dispatchCount = r.dispatchCount /\ s.born = r.born
    BY DEF TaskRecords
  <2>2. /\ Same(As("TOMBSTONE")) /\ As("TOMBSTONE").status = "TOMBSTONE"
        /\ Same(As("PENDING")) /\ As("PENDING").status = "PENDING"
    BY <1>3, <1>4
  <2>3. Same(Settled) /\ Settled.status = "TOMBSTONE"
    BY <2>1, <2>2
  <2>4. Same(Retried) /\ Retried.status = "PENDING"
    BY <2>1, <2>2
  <2> QED
    BY <2>3, <2>4
<1> HIDE DEF Settled, Retried
<1>6. \A r \in TaskRecords :
        LET s == [r EXCEPT !.responseCount = f.responses + 1] IN
        /\ s \in TaskRecords /\ s.responseCount = f.responses + 1 /\ s.status = r.status
        /\ s.dispatchCount = r.dispatchCount /\ s.born = r.born
  BY <1>1 DEF TaskRecords
<1>7. \E r \in {Settled, As("FAILED"), Retried} :
        /\ tasks'[f.task] = [r EXCEPT !.responseCount = f.responses + 1]
        /\ r = Retried => ~Exhausted(f)
  <2>1. CASE ok
    BY <1>2, <1>5, <2>1 DEF Answered, Settled, As
  <2>2. CASE ~ok /\ Exhausted(f)
    BY <1>2, <1>3, <1>4, <1>5, <2>2 DEF Answered, As
  <2>3. CASE ~ok /\ ~Exhausted(f)
    BY <1>2, <2>3 DEF Answered, Retried, As
  <2> QED
    BY <2>1, <2>2, <2>3
<1> QED
  BY <1>1, <1>3, <1>4, <1>5, <1>6, <1>7

LEMMA DispatchEndsKeeps ==
  ASSUME Steady, TypeOK, AInv, OneEngineDispatch, NEW f \in flights, NEW ok \in BOOLEAN,
         DispatchEnds(f, ok)
  PROVE  AInv'
<1> DEFINE t == f.task
<1>1. /\ f \in Flights /\ t \in Tasks /\ f.attempt \in Nat /\ f.responses \in Nat
      /\ QueueOf[t] \in Queues
  BY DEF TypeOK, Flights
<1>2. flights' = flights \ {f} /\ queues' = queues /\ births' = births
  BY DEF DispatchEnds
<1>3. \A g \in flights' : g \in flights /\ g.task # t
  BY <1>2 DEF AInv, AllOfATick, OneEngineDispatch
<1>4. \A u \in Tasks \ {t} : tasks'[u] = tasks[u]
  BY DEF DispatchEnds, TypeOK
<1>5. tasks[t] = NoRow => tasks'[t] = NoRow
  BY DEF DispatchEnds
<1>6. ASSUME tasks[t] # NoRow
      PROVE  /\ tasks'[t] # NoRow /\ tasks'[t].born = tasks[t].born
             /\ tasks'[t].dispatchCount = tasks[t].dispatchCount
             /\ tasks'[t].status = "PENDING" => ~Exhausted(f)
  BY <1>6, AnswersTheRow
<1>7. AllOfATick' /\ RetriesGiven' /\ AttemptsBounded'
  BY <1>2, <1>3 DEF AInv, AllOfATick, RetriesGiven, AttemptsBounded
<1>8. RowsHaveQueue'
  BY <1>2, <1>4, <1>5 DEF AInv, RowsHaveQueue
<1>9. BornBefore'
  BY <1>2, <1>4, <1>5, <1>6 DEF AInv, BornBefore
<1>10. PendingMayGo'
  <2> SUFFICES ASSUME tasks'[t] # NoRow, tasks'[t].status = "PENDING"
               PROVE  \/ queues[QueueOf[t]].retry = Unlimited
                      \/ tasks[t].dispatchCount < queues[QueueOf[t]].retry
    BY <1>2, <1>4, <1>5, <1>6 DEF AInv, PendingMayGo, Status
  <2>1. tasks[t] # NoRow /\ ~Exhausted(f)
    BY <1>5, <1>6
  <2>2. tasks[t] \in TaskRecords /\ queues[QueueOf[t]] # NoRow
    BY <1>1, <2>1 DEF TypeOK, AInv, RowsHaveQueue
  <2>3. queues[QueueOf[t]].retry \in RetryConfigs
    BY <1>1, <2>2 DEF AInv, RetriesGiven
  <2>4. CASE tasks[t].born = f.born
    <3>1. tasks[t].dispatchCount = f.attempt + 1 /\ f.retry = queues[QueueOf[t]].retry
      BY <2>1, <2>4 DEF AInv, FlightsMatch
    <3>2. f.retry = Unlimited \/ (f.retry \in Nat /\ ~(f.attempt + 1 >= f.retry))
      BY <2>1, <2>3, <3>1 DEF Exhausted, Steady, Malformed
    <3> QED
      BY <1>1, <3>1, <3>2
  <2>5. CASE tasks[t].born # f.born
    <3>1. tasks[t].dispatchCount = 0
      BY <2>1, <2>5 DEF AInv, FlightsMatch
    <3>2. \A n \in RetryConfigs : n = Unlimited \/ 0 < n
      BY DEF Steady, Malformed
    <3> QED
      BY <2>3, <3>1, <3>2
  <2> QED
    BY <2>4, <2>5
<1>11. FlightsMatch'
  <2>1. \A g \in flights : g.task \in Tasks
    BY DEF TypeOK, Flights
  <2> QED
    BY <1>2, <1>3, <1>4, <2>1 DEF AInv, FlightsMatch
<1> QED
  BY <1>7, <1>8, <1>9, <1>10, <1>11 DEF AInv

(* The steps that neither create, send nor answer.                           *)
LEMMA QueuesAreCalm ==
  ASSUME Steady, TypeOK, AInv, NEW q \in Queues,
         \/ CreateQueue(q) \/ PauseQueue(q) \/ ResumeQueue(q)
         \/ PurgeQueue(q) \/ DeleteQueue(q)
  PROVE  Calm
<1>1. \A t \in Tasks : QueueOf[t] \in Queues
  OBVIOUS
<1>2. \A f \in flights : SameFlight(f, f)
  BY DEF SameFlight
<1>3. \A t \in Tasks : SameRow(tasks[t], tasks[t])
  BY DEF SameRow
<1>4. \A t \in Tasks : tasks[t] # NoRow => queues[QueueOf[t]] # NoRow
  BY DEF AInv, RowsHaveQueue
<1>5. \A u \in Queues : queues[u] # NoRow => queues[u].retry \in RetryConfigs
  BY DEF AInv, RetriesGiven
<1>6. CASE CreateQueue(q)
  <2>1. PICK limits \in RateLimits, retry \in RetryConfigs :
          queues' = [queues EXCEPT ![q] = [state |-> "RUNNING", limits |-> limits,
                                           retry |-> retry]]
    BY <1>6 DEF CreateQueue
  <2>2. queues[q] = NoRow /\ tasks' = tasks /\ flights' = flights /\ births' = births
    BY <1>6 DEF CreateQueue, engineVars
  <2>3. queues'[q].retry \in RetryConfigs /\ \A u \in Queues \ {q} : queues'[u] = queues[u]
    BY <2>1 DEF TypeOK
  <2>4. \A t \in Tasks : tasks[t] # NoRow => QueueOf[t] # q
    BY <1>4, <2>2
  <2> QED
    BY <1>1, <1>2, <1>3, <1>4, <1>5, <2>2, <2>3, <2>4 DEF Calm
<1>7. CASE PauseQueue(q) \/ ResumeQueue(q)
  <2>1. /\ queues[q] # NoRow /\ tasks' = tasks /\ flights' = flights /\ births' = births
        /\ \E s \in {"RUNNING", "PAUSED"} : queues' = [queues EXCEPT ![q].state = s]
    BY <1>7 DEF PauseQueue, ResumeQueue, engineVars
  <2>2. \A s \in {"RUNNING", "PAUSED"} :
          LET r == [queues[q] EXCEPT !.state = s] IN
          r \in QueueRecords /\ r.retry = queues[q].retry
    BY <2>1 DEF TypeOK, QueueRecords
  <2>3. /\ queues'[q] # NoRow /\ queues'[q].retry = queues[q].retry
        /\ \A u \in Queues \ {q} : queues'[u] = queues[u]
    BY <2>1, <2>2 DEF TypeOK
  <2> QED
    BY <1>1, <1>2, <1>3, <1>4, <1>5, <2>1, <2>3 DEF Calm
<1>8. CASE PurgeQueue(q)
  BY <1>1, <1>2, <1>3, <1>4, <1>5, <1>8 DEF PurgeQueue, DeleteTasksByQueue, engineVars, Calm
<1>9. CASE DeleteQueue(q)
  <2>1. ASSUME NEW f \in flights PROVE SameFlight(f, [f EXCEPT !.held = FALSE])
    BY DEF TypeOK, Flights, SameFlight
  <2>2. \A g \in flights' : \E f \in flights : SameFlight(f, g)
    BY <1>2, <1>9, <2>1 DEF DeleteQueue
  <2>3. /\ births' = births /\ queues'[q] = NoRow
        /\ \A u \in Queues \ {q} : queues'[u] = queues[u]
        /\ \A t \in Tasks : tasks'[t] = (IF QueueOf[t] = q THEN NoRow ELSE tasks[t])
    BY <1>9 DEF DeleteQueue, DeleteTasksByQueue, TypeOK
  <2> QED
    BY <1>1, <1>3, <1>4, <1>5, <2>2, <2>3 DEF Calm
<1> QED
  BY <1>6, <1>7, <1>8, <1>9

LEMMA RowsAreCalm ==
  ASSUME TypeOK, AInv, NEW t \in Tasks,
         DeleteTask(t) \/ ScheduleTimeArrives(t) \/ TombstoneExpires(t)
  PROVE  Calm /\ flights' = flights /\ \A u \in Tasks : tasks[u] # NoRow => tasks'[u] # NoRow
<1>1. \A f \in flights : SameFlight(f, f)
  BY DEF SameFlight
<1>2. \A u \in Tasks : QueueOf[u] \in Queues /\ SameRow(tasks[u], tasks[u])
  BY DEF SameRow
<1>3. /\ \A u \in Tasks : tasks[u] # NoRow => queues[QueueOf[u]] # NoRow
      /\ \A q \in Queues : queues[q] # NoRow => queues[q].retry \in RetryConfigs
  BY DEF AInv, RowsHaveQueue, RetriesGiven
<1>4. flights' = flights /\ births' = births /\ queues' = queues
  BY DEF DeleteTask, ScheduleTimeArrives, TombstoneExpires, engineVars
<1>5. tasks[t] \in TaskRecords /\ tasks[t] # NoRow
  BY DEF DeleteTask, ScheduleTimeArrives, TombstoneExpires, Live, Status, TypeOK
<1>6. \A u \in Tasks \ {t} : tasks'[u] = tasks[u]
  BY DEF DeleteTask, ScheduleTimeArrives, TombstoneExpires, TypeOK
<1>7. tasks'[t] \in TaskRecords /\ SameRow(tasks[t], tasks'[t])
  <2>1. CASE DeleteTask(t)
    <3> DEFINE dead == [tasks[t] EXCEPT !.status = "TOMBSTONE"]
    <3>1. dead \in TaskRecords /\ SameRow(tasks[t], dead) /\ dead.status = "TOMBSTONE"
      BY <1>5 DEF TaskRecords, TaskStatus, SameRow
    <3>2. tasks'[t] = [dead EXCEPT !.expired = FALSE]
      BY <2>1 DEF DeleteTask, TypeOK
    <3> HIDE DEF dead
    <3> QED
      BY <3>1, <3>2 DEF TaskRecords, SameRow
  <2>2. CASE ScheduleTimeArrives(t) \/ TombstoneExpires(t)
    <3>1. tasks'[t] \in {[tasks[t] EXCEPT !.due = TRUE], [tasks[t] EXCEPT !.expired = TRUE]}
      BY <2>2 DEF ScheduleTimeArrives, TombstoneExpires, TypeOK
    <3> QED
      BY <1>5, <3>1 DEF TaskRecords, SameRow
  <2> QED
    BY <2>1, <2>2
<1>8. tasks'[t] # NoRow
  BY <1>7
<1> QED
  BY <1>1, <1>2, <1>3, <1>4, <1>5, <1>6, <1>7, <1>8 DEF Calm

LEMMA EngineIsCalm ==
  ASSUME TypeOK, AInv, TickEnds \/ StopEngine \/ Restart \/ Crash \/ UNCHANGED vars
  PROVE  Calm
<1>1. \A f \in flights : SameFlight(f, f)
  BY DEF SameFlight
<1>2. \A u \in Tasks : QueueOf[u] \in Queues /\ SameRow(tasks[u], tasks[u])
  BY DEF SameRow
<1>3. /\ \A u \in Tasks : tasks[u] # NoRow => queues[QueueOf[u]] # NoRow
      /\ \A q \in Queues : queues[q] # NoRow => queues[q].retry \in RetryConfigs
  BY DEF AInv, RowsHaveQueue, RetriesGiven
<1>4. flights' \subseteq flights /\ births' = births /\ queues' = queues
  BY DEF TickEnds, StopEngine, Restart, Crash, NewProcess, vars, engineVars
<1>5. \A u \in Tasks : tasks'[u] \in {tasks[u], NoRow}
  <2>1. CASE TickEnds
    BY <2>1 DEF TickEnds
  <2>2. CASE StopEngine \/ Restart \/ Crash \/ UNCHANGED vars
    BY <2>2 DEF StopEngine, Restart, Crash, NewProcess, vars
  <2> QED
    BY <2>1, <2>2
<1> QED
  BY <1>1, <1>2, <1>3, <1>4, <1>5 DEF Calm

LEMMA AttemptsStep ==
  Steady /\ TypeOK /\ OneEngineDispatch /\ AInv /\ [Next]_vars => AInv'
<1> SUFFICES ASSUME Steady, TypeOK, OneEngineDispatch, AInv, [Next]_vars PROVE AInv'
  OBVIOUS
<1>1. \A q \in Queues : ~UpdateQueue(q)
  BY DEF Steady, UpdateQueue
<1>2. \A t \in Tasks : ~RunTask(t)
  BY DEF Steady, RunTask
<1>3. ASSUME NEW q \in Queues,
             \/ CreateQueue(q) \/ PauseQueue(q) \/ ResumeQueue(q)
             \/ PurgeQueue(q) \/ DeleteQueue(q)
      PROVE  AInv'
  BY <1>3, QueuesAreCalm, CalmKeeps
<1>4. ASSUME NEW t \in Tasks, CreateTask(t) \/ BufferTask(t) PROVE AInv'
  BY <1>4, InsertKeeps DEF CreateTask, BufferTask
<1>5. ASSUME NEW t \in Tasks, DeleteTask(t) \/ ScheduleTimeArrives(t) \/ TombstoneExpires(t)
      PROVE  AInv'
  BY <1>5, RowsAreCalm, CalmKeeps
<1>6. ASSUME NEW f \in flights, NEW ok \in BOOLEAN, DispatchEnds(f, ok) PROVE AInv'
  BY <1>6, DispatchEndsKeeps
<1>7. CASE TickEnds \/ StopEngine \/ Restart \/ Crash \/ UNCHANGED vars
  BY <1>7, EngineIsCalm, CalmKeeps
<1>8. CASE Tick
  BY <1>8, TickKeeps
<1> QED
  BY <1>1, <1>2, <1>3, <1>4, <1>5, <1>6, <1>7, <1>8 DEF Next, DispatchSettles

LEMMA AttemptsInit == Init => AInv /\ RInv
BY DEF Init, AInv, RInv, AllOfATick, RetriesGiven, RowsHaveQueue, BornBefore, PendingMayGo,
       FlightsMatch, AttemptsBounded, RowsAwaitFlights, ResponsesFollowDispatches, Status

(* The engine never sends a request beyond maxAttempts (dispatch-engine.ts:  *)
(* 200-213), through purges, deleted and recreated queues, stops and crashes.*)
THEOREM AttemptsAreBounded == ASSUME Steady PROVE Spec => []AttemptsBounded
<1>1. Steady
  OBVIOUS
<1>2. TypeOK /\ OneEngineDispatch /\ AInv /\ [Next]_vars => AInv'
  BY <1>1, AttemptsStep
<1>3. AInv => AttemptsBounded
  BY DEF AInv
<1> QED
  BY <1>2, <1>3, AttemptsInit, TypeCorrect, OneDispatch, PTL DEF Spec

(* Where nothing removes a row or a process under a request, each response   *)
(* is counted on the row whose dispatch it answers.                          *)
Uninterrupted == Operations \cap {"purgeQueue", "deleteQueue", "crash"} = {}

LEMMA ResponsesStep ==
  Steady /\ Uninterrupted /\ TypeOK /\ OneEngineDispatch /\ AInv /\ RInv /\ [Next]_vars
    => RInv'
<1> SUFFICES ASSUME Steady, Uninterrupted, TypeOK, OneEngineDispatch, AInv, RInv,
                    [Next]_vars
             PROVE  RInv'
  OBVIOUS
<1> DEFINE Waiting(F, row, t) == \E f \in F : f.task = t /\ f.born = row.born
           Counted(F, row, t) ==
             row.dispatchCount = row.responseCount + (IF Waiting(F, row, t) THEN 1 ELSE 0)
<1>1. \A t \in Tasks : tasks[t] # NoRow => Counted(flights, tasks[t], t)
  BY DEF RInv, ResponsesFollowDispatches
<1>2. \A f \in flights : f.task \in Tasks /\ tasks[f.task] # NoRow
                         /\ tasks[f.task].born = f.born
  BY DEF RInv, RowsAwaitFlights, TypeOK, Flights
<1>3. ASSUME \A f \in flights' : tasks'[f.task] # NoRow /\ tasks'[f.task].born = f.born,
             \A t \in Tasks : tasks'[t] # NoRow => Counted(flights', tasks'[t], t)
      PROVE  RInv'
  BY <1>3 DEF RInv, RowsAwaitFlights, ResponsesFollowDispatches
<1>4. ASSUME flights' = flights,
             \A t \in Tasks : \/ tasks'[t] = tasks[t]
                              \/ /\ tasks[t] # NoRow /\ tasks'[t] # NoRow
                                 /\ SameRow(tasks[t], tasks'[t])
                              \/ tasks'[t] = NoRow /\ flights = {}
      PROVE  RInv'
  <2>1. \A f \in flights' : tasks'[f.task] # NoRow /\ tasks'[f.task].born = f.born
    BY <1>2, <1>4 DEF SameRow
  <2>2. \A t \in Tasks : tasks'[t] # NoRow => Counted(flights', tasks'[t], t)
    BY <1>1, <1>4 DEF SameRow
  <2> QED
    BY <1>3, <2>1, <2>2
<1>5. ASSUME NEW q \in Queues,
             \/ CreateQueue(q) \/ UpdateQueue(q) \/ PauseQueue(q) \/ ResumeQueue(q)
      PROVE  RInv'
  BY <1>4, <1>5 DEF CreateQueue, UpdateQueue, PauseQueue, ResumeQueue, engineVars
<1>6. ASSUME NEW q \in Queues PROVE ~PurgeQueue(q) /\ ~DeleteQueue(q)
  BY DEF Uninterrupted, PurgeQueue, DeleteQueue
<1>7. ASSUME NEW t \in Tasks PROVE ~RunTask(t)
  BY DEF Steady, RunTask
<1>8. ASSUME NEW t \in Tasks, CreateTask(t) \/ BufferTask(t) PROVE RInv'
  <2>1. PICK due \in BOOLEAN : InsertTask(t, due)
    BY <1>8 DEF CreateTask, BufferTask
  <2>2. tasks[t] = NoRow /\ flights' = flights
        /\ \A u \in Tasks \ {t} : tasks'[u] = tasks[u]
    BY <2>1 DEF InsertTask, TypeOK, engineVars
  <2>3. tasks'[t].dispatchCount = 0 /\ tasks'[t].responseCount = 0
    BY <2>1 DEF InsertTask, TypeOK
  <2>4. \A f \in flights : f.task # t
    BY <1>2, <2>2
  <2>5. \A f \in flights' : tasks'[f.task] # NoRow /\ tasks'[f.task].born = f.born
    BY <1>2, <2>2, <2>4
  <2>6. Counted(flights', tasks'[t], t)
    BY <2>2, <2>3, <2>4
  <2>7. \A u \in Tasks : tasks'[u] # NoRow => Counted(flights', tasks'[u], u)
    BY <1>1, <2>2, <2>6
  <2> QED
    BY <1>3, <2>5, <2>7
<1>9. ASSUME NEW t \in Tasks, DeleteTask(t) \/ ScheduleTimeArrives(t) \/ TombstoneExpires(t)
      PROVE  RInv'
  <2>1. Calm /\ flights' = flights /\ \A u \in Tasks : tasks[u] # NoRow => tasks'[u] # NoRow
    BY <1>9, RowsAreCalm
  <2> QED
    BY <1>4, <2>1 DEF Calm
<1>10. CASE Tick
  <2>1. flights = {}
    BY <1>10, TickSends DEF AInv
  <2>2. PICK P \in Picks : flights' = {Flight(t, "tick") : t \in P} /\ MarkDispatching(P)
    BY <1>10, TickSends DEF AInv
  <2>3. \A t \in P : t \in Tasks /\ tasks[t] \in TaskRecords
    BY PicksArePending
  <2>4. ASSUME NEW t \in P
        PROVE  /\ tasks'[t] # NoRow /\ tasks'[t].born = tasks[t].born
               /\ tasks'[t].dispatchCount = tasks[t].dispatchCount + 1
               /\ tasks'[t].responseCount = tasks[t].responseCount
    <3> DEFINE m == [tasks[t] EXCEPT !.status = "DISPATCHING"]
    <3>1. /\ m \in TaskRecords /\ m.dispatchCount = tasks[t].dispatchCount
          /\ m.responseCount = tasks[t].responseCount /\ m.born = tasks[t].born
      BY <2>3 DEF TaskRecords, TaskStatus
    <3>2. tasks'[t] = [m EXCEPT !.dispatchCount = @ + 1]
      BY <2>2, <2>3 DEF MarkDispatching
    <3> HIDE DEF m
    <3>3. [m EXCEPT !.dispatchCount = @ + 1] \in TaskRecords
      BY <3>1 DEF TaskRecords
    <3> QED
      BY <3>1, <3>2, <3>3 DEF TaskRecords
  <2>5. \A u \in Tasks \ P : tasks'[u] = tasks[u]
    BY <2>2 DEF MarkDispatching
  <2>6. \A t \in P : Flight(t, "tick").task = t /\ Flight(t, "tick").born = tasks[t].born
    BY DEF Flight
  <2>7. \A f \in flights' : tasks'[f.task] # NoRow /\ tasks'[f.task].born = f.born
    BY <2>2, <2>4, <2>6
  <2>8. \A t \in P : Counted(flights', tasks'[t], t)
    <3> SUFFICES ASSUME NEW t \in P PROVE Counted(flights', tasks'[t], t)
      OBVIOUS
    <3>1. Waiting(flights', tasks'[t], t)
      BY <2>2, <2>4, <2>6
    <3>2. tasks[t].dispatchCount = tasks[t].responseCount
          /\ tasks[t].responseCount \in Nat
      BY <1>1, <2>1, <2>3 DEF TaskRecords
    <3> QED
      BY <2>4, <3>1, <3>2
  <2>9. \A u \in Tasks \ P : tasks'[u] # NoRow => Counted(flights', tasks'[u], u)
    <3>1. \A f \in flights' : f.task \in P
      BY <2>2, <2>6
    <3> QED
      BY <1>1, <2>1, <2>5, <3>1
  <2> QED
    BY <1>3, <2>7, <2>8, <2>9
<1>11. ASSUME NEW f \in flights, NEW ok \in BOOLEAN, DispatchEnds(f, ok) PROVE RInv'
  <2> DEFINE t == f.task
  <2>1. t \in Tasks /\ tasks[t] # NoRow /\ tasks[t].born = f.born
    BY <1>2
  <2>2. /\ tasks'[t] # NoRow /\ tasks'[t].born = f.born
        /\ tasks'[t].dispatchCount = tasks[t].dispatchCount
        /\ tasks'[t].responseCount = f.responses + 1
    BY <1>11, <2>1, AnswersTheRow
  <2>3. tasks[t].responseCount = f.responses /\ Waiting(flights, tasks[t], t)
    BY <2>1 DEF AInv, FlightsMatch
  <2>4. flights' = flights \ {f} /\ \A g \in flights' : g \in flights /\ g.task # t
    BY <1>11 DEF DispatchEnds, AInv, AllOfATick, OneEngineDispatch
  <2>5. \A u \in Tasks \ {t} : tasks'[u] = tasks[u]
    BY <1>11 DEF DispatchEnds, TypeOK
  <2>6. \A g \in flights' : tasks'[g.task] # NoRow /\ tasks'[g.task].born = g.born
    BY <1>2, <2>4, <2>5
  <2>7. Counted(flights', tasks'[t], t)
    <3>1. f.responses \in Nat
      BY DEF TypeOK, Flights
    <3>2. tasks[t].dispatchCount = f.responses + 1
      BY <1>1, <2>1, <2>3
    <3>3. ~Waiting(flights', tasks'[t], t)
      BY <2>4
    <3> QED
      BY <2>2, <3>1, <3>2, <3>3
  <2>8. \A u \in Tasks \ {t} : tasks'[u] # NoRow => Counted(flights', tasks'[u], u)
    BY <1>1, <2>4, <2>5
  <2> QED
    BY <1>3, <2>6, <2>7, <2>8
<1>12. CASE TickEnds
  <2>1. flights = {} /\ flights' = flights
    BY <1>12 DEF TickEnds, AInv, AllOfATick
  <2>2. \A t \in Tasks : tasks'[t] \in {tasks[t], NoRow}
    BY <1>12 DEF TickEnds
  <2> QED
    BY <1>4, <2>1, <2>2
<1>13. CASE Restart
  <2>1. flights = {}
    BY <1>13 DEF Restart, AInv, AllOfATick, OneEngineDispatch
  <2> QED
    BY <1>4, <1>13, <2>1 DEF Restart, NewProcess
<1>14. ~Crash
  BY DEF Crash, Uninterrupted
<1>15. CASE StopEngine \/ UNCHANGED vars
  BY <1>4, <1>15 DEF StopEngine, vars, engineVars
<1> QED
  BY <1>5, <1>6, <1>7, <1>8, <1>9, <1>10, <1>11, <1>12, <1>13, <1>14, <1>15
     DEF Next, DispatchSettles

(* The counters of a task: maxAttempts is kept, no response is counted       *)
(* without its dispatch, and one dispatch at most is unanswered.             *)
THEOREM AttemptsAreAccounted ==
  ASSUME Steady, Uninterrupted PROVE Spec => []AttemptsAccounted
<1>1. Steady /\ Uninterrupted
  OBVIOUS
<1>2. TypeOK /\ OneEngineDispatch /\ AInv /\ [Next]_vars => AInv'
  BY <1>1, AttemptsStep
<1>3. TypeOK /\ OneEngineDispatch /\ AInv /\ RInv /\ [Next]_vars => RInv'
  BY <1>1, ResponsesStep
<1>4. TypeOK /\ AInv /\ RInv => AttemptsAccounted
  BY DEF AInv, RInv, AttemptsAccounted
<1> QED
  BY <1>2, <1>3, <1>4, AttemptsInit, TypeCorrect, OneDispatch, PTL DEF Spec

-----------------------------------------------------------------------------
(* The books of the rate limiters.                                           *)

LEMMA CardinalityOfImage ==
  ASSUME NEW S, IsFiniteSet(S), NEW T, NEW g \in [S -> T], \A y \in T : \E x \in S : y = g[x]
  PROVE  /\ IsFiniteSet(T)
         /\ (\A x, z \in S : g[x] = g[z] => x = z) => Cardinality(T) = Cardinality(S)
<1>1. g \in Surjection(S, T)
  BY DEF Surjection
<1>2. (\A x, z \in S : g[x] = g[z] => x = z) => g \in Injection(S, T)
  BY DEF Injection, IsInjective
<1> QED
  BY <1>1, <1>2, FS_Surjection

(* A request sent earlier for the row as it is now has raised its count.     *)
SentBefore ==
  \A f \in flights :
    tasks[f.task] # NoRow /\ f.born = tasks[f.task].born
      => f.attempt < tasks[f.task].dispatchCount

BInv == IsFiniteSet(flights) /\ BornBefore /\ SentBefore /\ BucketAccounting

InBounds(b) ==
  /\ b.concurrent <= b.config.maxConcurrent
  /\ b.tokens <= b.config.maxTokens /\ b.tokens > -TokenUnit

(* What a tick makes of a bucket: the slots of the dispatches that were sent.*)
LEMMA AfterTickBooks ==
  ASSUME TypeOK, NEW q \in RunningQueues, NEW P \in Picks, BucketAccounting
  PROVE  /\ InBounds(BucketAfterTick(q, P))
         /\ BucketAfterTick(q, P).concurrent =
              Cardinality(HeldBy(q)) + IF Parses(q) THEN Cardinality(P \cap TasksOf(q)) ELSE 0
<1> DEFINE b == RefilledBucket(q)
           n == DispatchQuota(q)
           U == TokenUnit
<1>1. b \in Bucket!Buckets /\ n \in Nat /\ Cardinality(P \cap TasksOf(q)) = n
  BY RefilledType, QuotaType DEF Picks
<1>2. q \in Queues /\ queues[q] \in QueueRecords /\ queues[q].limits \in Bucket!Configs
  BY DEF TypeOK, RunningQueues, QueueRecords
<1>3. InBounds(b) /\ b.concurrent = Cardinality(HeldBy(q))
  <2> DEFINE c == IF buckets[q] = NoBucket THEN Bucket!NewBucket(queues[q].limits)
                  ELSE buckets[q]
  <2>1. c \in Bucket!Buckets /\ InBounds(c) /\ c.concurrent = Cardinality(HeldBy(q))
    <3>1. CASE buckets[q] = NoBucket
      <4>1. HeldBy(q) = {}
        BY <1>2, <3>1 DEF BucketAccounting
      <4>2. Cardinality(HeldBy(q)) = 0
        BY <4>1, FS_EmptySet
      <4> QED
        BY <1>2, <3>1, <4>2
           DEF Bucket!NewBucket, Bucket!Buckets, Bucket!Configs, InBounds
    <3>2. CASE buckets[q] # NoBucket
      BY <1>2, <3>2 DEF BucketAccounting, InBounds, TypeOK
    <3> QED
      BY <3>1, <3>2
  <2>2. b = Bucket!Refill(c)
    BY DEF RefilledBucket
  <2> HIDE DEF c, b
  <2>3. /\ b.concurrent = c.concurrent /\ b.config = c.config
        /\ b.tokens = Bucket!Least(c.tokens + c.config.refillRate, c.config.maxTokens)
    BY <2>1, <2>2 DEF Bucket!Refill, Bucket!Buckets
  <2> QED
    BY <2>1, <2>3 DEF InBounds, Bucket!Least, Bucket!Buckets, Bucket!Configs
<1>4. n <= Bucket!AcquiresLeft(b)
  <2>1. Bucket!AcquiresLeft(b) \in Nat
    BY <1>1 DEF Bucket!AcquiresLeft, Bucket!Least, Bucket!Buckets, Bucket!Configs
  <2>2. Cardinality(Dispatchable(q)) \in Nat
    BY FS_Subset, FS_CardinalityType DEF Dispatchable
  <2> QED
    BY <2>1, <2>2 DEF DispatchQuota
<1> HIDE DEF b, n
<1>5. /\ n * U \in Nat
      /\ n # 0 => n <= (b.tokens + U - 1) \div U /\ n <= b.config.maxConcurrent - b.concurrent
  BY <1>1, <1>4 DEF Bucket!AcquiresLeft, Bucket!Least, Bucket!Buckets, Bucket!Configs
<1>6. b.tokens - n * U > -U
  <2>1. CASE n = 0
    BY <1>1, <1>3, <2>1 DEF InBounds, Bucket!Buckets
  <2>2. CASE n # 0
    <3> DEFINE a == b.tokens + U - 1
               k == a \div U
    <3>1. a \in Int /\ U \in Nat \ {0}
      BY <1>1 DEF Bucket!Buckets
    <3> HIDE DEF a
    <3>2. k \in Int /\ k * U <= a
      BY <3>1
    <3>3. n <= k
      BY <1>5, <2>2 DEF a
    <3> HIDE DEF k
    <3>4. n * U <= k * U
      BY <1>1, <3>1, <3>2, <3>3
    <3> QED
      BY <1>1, <1>5, <3>1, <3>2, <3>4 DEF a, Bucket!Buckets
  <2> QED
    BY <2>1, <2>2
<1> DEFINE taken == Bucket!AcquireTimes(b, n)
<1>7. /\ taken \in Bucket!Buckets /\ taken.config = b.config
      /\ taken.tokens = b.tokens - n * U /\ taken.concurrent = b.concurrent + n
  <2> DEFINE paid == [b EXCEPT !.tokens = @ - n * U]
  <2>1. /\ paid \in Bucket!Buckets /\ paid.config = b.config
        /\ paid.tokens = b.tokens - n * U /\ paid.concurrent = b.concurrent
    BY <1>1, <1>5, SMTT(40) DEF Bucket!Buckets
  <2>2. taken = [paid EXCEPT !.concurrent = @ + n]
    BY DEF Bucket!AcquireTimes
  <2> HIDE DEF paid, taken
  <2> QED
    BY <1>1, <2>1, <2>2 DEF Bucket!Buckets
<1> HIDE DEF taken
<1>8. InBounds(taken)
  BY <1>1, <1>3, <1>5, <1>6, <1>7 DEF InBounds, Bucket!Buckets, Bucket!Configs
<1>9. CASE Parses(q)
  <2>1. BucketAfterTick(q, P) = taken
    BY <1>9 DEF BucketAfterTick, taken, b, n
  <2> QED
    BY <1>1, <1>3, <1>7, <1>8, <1>9, <2>1
<1>10. CASE ~Parses(q)
  <2> DEFINE back == [taken EXCEPT !.concurrent = @ - n]
  <2>1. BucketAfterTick(q, P) = back
    BY <1>1, <1>10, Zenon DEF BucketAfterTick, taken, b, n
  <2>2. /\ back.config = taken.config /\ back.tokens = taken.tokens
        /\ back.concurrent = b.concurrent
    BY <1>1, <1>7 DEF Bucket!Buckets
  <2> HIDE DEF back
  <2> QED
    BY <1>1, <1>3, <1>6, <1>7, <1>8, <1>10, <2>1, <2>2 DEF InBounds, Bucket!Buckets, Bucket!Configs
<1> QED
  BY <1>9, <1>10

(* A tick that sends: the new requests were not in flight before.            *)
LEMMA TickBooks == ASSUME TypeOK, BInv, Tick PROVE BInv'
<1>1. PICK P \in Picks :
        LET sent == {t \in P : Parses(QueueOf[t])} IN
        /\ MarkDispatching(sent)
        /\ flights' = flights \cup
             {Flight(t, IF sent = P THEN "tick" ELSE "lateTick") : t \in sent}
        /\ buckets' = [q \in Queues |->
                         IF q \in RunningQueues THEN BucketAfterTick(q, P) ELSE buckets[q]]
  BY DEF Tick, Dispatch
<1> DEFINE sent == {t \in P : Parses(QueueOf[t])}
           by == IF sent = P THEN "tick" ELSE "lateTick"
           F(t) == Flight(t, by)
           New(T) == {F(t) : t \in T}
<1>2. queues' = queues /\ births' = births
  BY DEF Tick, Dispatch
<1>3. /\ \A t \in P : t \in Tasks /\ tasks[t] \in TaskRecords /\ QueueOf[t] \in Queues
      /\ P \subseteq Tasks /\ sent \subseteq P /\ IsFiniteSet(P)
  BY PicksArePending, FS_Subset DEF Picks
<1>4. /\ MarkDispatching(sent) /\ flights' = flights \cup New(sent)
      /\ \A q \in Queues : buckets'[q] = IF q \in RunningQueues THEN BucketAfterTick(q, P)
                                         ELSE buckets[q]
  BY <1>1
<1>5. \A t \in P : /\ F(t).task = t /\ F(t).held /\ F(t).born = tasks[t].born
                   /\ F(t).attempt = tasks[t].dispatchCount
  BY DEF Flight
<1> HIDE DEF F
<1>6. ASSUME NEW t \in P PROVE F(t) \notin flights
  BY <1>3, <1>5 DEF BInv, SentBefore, TaskRecords
<1>7. ASSUME NEW T, T \subseteq P
      PROVE  IsFiniteSet(New(T)) /\ Cardinality(New(T)) = Cardinality(T)
  <2> DEFINE g == [t \in T |-> F(t)]
  <2>1. IsFiniteSet(T)
    BY <1>3, <1>7, FS_Subset
  <2>2. /\ g \in [T -> New(T)] /\ \A y \in New(T) : \E x \in T : y = g[x]
        /\ \A x, z \in T : g[x] = g[z] => x = z
    BY <1>5, <1>7
  <2> HIDE DEF g, New
  <2> QED
    BY <2>1, <2>2, CardinalityOfImage
<1>8. IsFiniteSet(flights')
  BY <1>3, <1>4, <1>7, FS_Union DEF BInv
<1>9. ASSUME NEW t \in sent
      PROVE  /\ tasks'[t] # NoRow /\ tasks'[t].born = tasks[t].born
             /\ tasks'[t].dispatchCount = tasks[t].dispatchCount + 1
  <2> DEFINE m == [tasks[t] EXCEPT !.status = "DISPATCHING"]
  <2>1. /\ m \in TaskRecords /\ m.dispatchCount = tasks[t].dispatchCount
        /\ m.born = tasks[t].born
    BY <1>3 DEF TaskRecords, TaskStatus
  <2>2. tasks'[t] = [m EXCEPT !.dispatchCount = @ + 1]
    BY <1>3, <1>4 DEF MarkDispatching
  <2> HIDE DEF m
  <2>3. [m EXCEPT !.dispatchCount = @ + 1] \in TaskRecords
    BY <2>1 DEF TaskRecords
  <2> QED
    BY <2>1, <2>2, <2>3 DEF TaskRecords
<1>10. \A t \in Tasks \ sent : tasks'[t] = tasks[t]
  BY <1>4 DEF MarkDispatching
<1>11. \A f \in flights : f.task \in Tasks /\ f.attempt \in Nat /\ f.born \in Nat
  BY DEF TypeOK, Flights
<1>12. \A f \in flights' : f \in flights \/ \E t \in sent : f = F(t)
  BY <1>4
<1> HIDE DEF sent, by, New
<1>13. BornBefore'
  <2>1. \A t \in Tasks : tasks'[t] # NoRow => tasks[t] # NoRow /\ tasks'[t].born = tasks[t].born
    BY <1>3, <1>9, <1>10
  <2>2. \A f \in flights' : f.born <= births[f.task]
    BY <1>3, <1>5, <1>12 DEF BInv, BornBefore
  <2> QED
    BY <1>2, <2>1, <2>2 DEF BInv, BornBefore
<1>14. SentBefore'
  <2> SUFFICES ASSUME NEW f \in flights', tasks'[f.task] # NoRow,
                      f.born = tasks'[f.task].born
               PROVE  f.attempt < tasks'[f.task].dispatchCount
    BY DEF SentBefore
  <2>1. CASE f \in flights
    <3>1. CASE f.task \in sent
      <4>1. tasks[f.task] \in TaskRecords /\ tasks[f.task] # NoRow
        BY <1>3, <3>1
      <4>2. f.attempt < tasks[f.task].dispatchCount
        BY <1>9, <2>1, <3>1, <4>1 DEF BInv, SentBefore
      <4> QED
        BY <1>9, <1>11, <2>1, <3>1, <4>1, <4>2 DEF TaskRecords
    <3>2. CASE f.task \notin sent
      BY <1>10, <1>11, <2>1, <3>2 DEF BInv, SentBefore
    <3> QED
      BY <3>1, <3>2
  <2>2. CASE \E t \in sent : f = F(t)
    BY <1>3, <1>5, <1>9, <2>2 DEF TaskRecords
  <2> QED
    BY <1>12, <2>1, <2>2
<1>15. ASSUME NEW q \in Queues
       PROVE  IF buckets'[q] = NoBucket THEN HeldBy(q)' = {}
              ELSE /\ buckets'[q].concurrent = Cardinality(HeldBy(q)')
                   /\ InBounds(buckets'[q])
  <2>1. HeldBy(q)' = HeldBy(q) \cup New(sent \cap TasksOf(q))
    BY <1>3, <1>4, <1>5 DEF HeldBy, TasksOf, New
  <2>2. CASE q \notin RunningQueues
    <3>1. \A t \in P : QueueOf[t] \in RunningQueues
      BY DEF Picks, Dispatchable, TasksOf
    <3>2. sent \cap TasksOf(q) = {}
      BY <1>3, <2>2, <3>1 DEF TasksOf
    <3>3. HeldBy(q)' = HeldBy(q) /\ buckets'[q] = buckets[q]
      BY <1>4, <2>1, <2>2, <3>2 DEF New
    <3> QED
      BY <3>3 DEF BInv, BucketAccounting, InBounds
  <2>3. CASE q \in RunningQueues
    <3>1. buckets'[q] = BucketAfterTick(q, P) /\ BucketAfterTick(q, P) # NoBucket
      BY <1>4, <2>3, AfterTickType
    <3>2. /\ InBounds(BucketAfterTick(q, P))
          /\ BucketAfterTick(q, P).concurrent =
               Cardinality(HeldBy(q)) + IF Parses(q) THEN Cardinality(P \cap TasksOf(q)) ELSE 0
      BY <2>3, AfterTickBooks DEF BInv
    <3>3. IsFiniteSet(HeldBy(q))
      BY FS_Subset DEF BInv, HeldBy
    <3>4. Cardinality(HeldBy(q)) \in Nat
      BY <3>3, FS_CardinalityType
    <3>5. CASE Parses(q)
      <4>1. sent \cap TasksOf(q) = P \cap TasksOf(q)
        BY <1>3, <3>5 DEF TasksOf, sent
      <4> DEFINE T == P \cap TasksOf(q)
      <4>2. IsFiniteSet(New(T)) /\ Cardinality(New(T)) = Cardinality(T)
        BY <1>7
      <4>3. HeldBy(q) \cap New(T) = {}
        BY <1>6 DEF HeldBy, New
      <4>4. Cardinality(HeldBy(q) \cap New(T)) = 0
        BY <4>3, FS_EmptySet
      <4>5. Cardinality(T) \in Nat
        BY <1>3, FS_Subset, FS_CardinalityType
      <4>6. Cardinality(HeldBy(q) \cup New(T)) = Cardinality(HeldBy(q)) + Cardinality(T)
        <5> HIDE DEF T
        <5>1. Cardinality(HeldBy(q) \cup New(T)) =
                Cardinality(HeldBy(q)) + Cardinality(New(T)) - Cardinality(HeldBy(q) \cap New(T))
          BY <3>3, <4>2, FS_Union
        <5> QED
          BY <3>4, <4>2, <4>4, <4>5, <5>1
      <4> QED
        BY <2>1, <3>1, <3>2, <3>5, <4>1, <4>6
    <3>6. CASE ~Parses(q)
      <4>1. sent \cap TasksOf(q) = {}
        BY <1>3, <3>6 DEF TasksOf, sent
      <4>2. HeldBy(q)' = HeldBy(q)
        BY <2>1, <4>1 DEF New
      <4> QED
        BY <3>1, <3>2, <3>4, <3>6, <4>2
    <3> QED
      BY <3>5, <3>6
  <2> QED
    BY <2>2, <2>3
<1>16. BucketAccounting'
  BY <1>15 DEF BucketAccounting, InBounds
<1> QED
  BY <1>8, <1>13, <1>14, <1>16 DEF BInv

(* An answer gives its slot back, once, if the bucket is still there.        *)
LEMMA AnswerBooks ==
  ASSUME TypeOK, HeldHasBucket, BInv, NEW f \in flights, NEW ok \in BOOLEAN,
         DispatchEnds(f, ok)
  PROVE  BInv'
<1> DEFINE t == f.task
           p == QueueOf[t]
<1>1. t \in Tasks /\ p \in Queues
  BY DEF TypeOK, Flights
<1>2. flights' = flights \ {f} /\ queues' = queues /\ births' = births
  BY DEF DispatchEnds
<1>3. \A u \in Tasks \ {t} : tasks'[u] = tasks[u]
  BY DEF DispatchEnds, TypeOK
<1>4. tasks[t] = NoRow => tasks'[t] = NoRow
  BY DEF DispatchEnds
<1>5. tasks[t] # NoRow => /\ tasks'[t] # NoRow /\ tasks'[t].born = tasks[t].born
                          /\ tasks'[t].dispatchCount = tasks[t].dispatchCount
  BY AnswersTheRow
<1>6. IsFiniteSet(flights')
  BY <1>2, FS_Subset DEF BInv
<1>7. BornBefore' /\ SentBefore'
  <2>1. \A g \in flights : g.task \in Tasks
    BY DEF TypeOK, Flights
  <2>2. \A u \in Tasks : tasks'[u] # NoRow =>
          /\ tasks[u] # NoRow /\ tasks'[u].born = tasks[u].born
          /\ tasks'[u].dispatchCount = tasks[u].dispatchCount
    BY <1>3, <1>4, <1>5
  <2> QED
    BY <1>2, <2>1, <2>2 DEF BInv, BornBefore, SentBefore
<1>8. BucketAccounting'
  <2>1. ASSUME NEW q \in Queues, f \notin HeldBy(q)
        PROVE  HeldBy(q)' = HeldBy(q)
    BY <1>2, <2>1 DEF HeldBy
  <2>2. ASSUME ~f.held PROVE BucketAccounting'
    <3>1. \A q \in Queues : HeldBy(q)' = HeldBy(q)
      BY <2>1, <2>2 DEF HeldBy
    <3>2. buckets' = buckets
      BY <2>2 DEF DispatchEnds, ReleaseBucket
    <3> QED
      BY <3>1, <3>2 DEF BInv, BucketAccounting
  <2>3. ASSUME f.held PROVE BucketAccounting'
    <3> DEFINE b == buckets[p]
    <3>1. /\ b # NoBucket /\ b \in Bucket!Buckets
          /\ buckets' = [buckets EXCEPT ![p] = Bucket!Release(b)]
      BY <1>1, <2>3 DEF HeldHasBucket, TypeOK, DispatchEnds, ReleaseBucket
    <3>2. \A q \in Queues \ {p} : HeldBy(q)' = HeldBy(q) /\ buckets'[q] = buckets[q]
      BY <1>1, <2>1, <3>1 DEF HeldBy, TypeOK
    <3>3. HeldBy(p)' = HeldBy(p) \ {f} /\ f \in HeldBy(p)
      BY <1>2, <2>3 DEF HeldBy
    <3>4. IsFiniteSet(HeldBy(p))
      BY FS_Subset DEF BInv, HeldBy
    <3>5. /\ Cardinality(HeldBy(p)') = Cardinality(HeldBy(p)) - 1
          /\ Cardinality(HeldBy(p)) \in Nat /\ Cardinality(HeldBy(p)') \in Nat
      <4>1. Cardinality(HeldBy(p)') = Cardinality(HeldBy(p)) - 1 /\ IsFiniteSet(HeldBy(p)')
        BY <3>3, <3>4, FS_RemoveElement
      <4> QED
        BY <3>4, <4>1, FS_CardinalityType
    <3>6. /\ b.concurrent = Cardinality(HeldBy(p)) /\ InBounds(b)
      BY <1>1, <3>1 DEF BInv, BucketAccounting, InBounds
    <3> DEFINE r == Bucket!Release(b)
    <3>7. /\ r \in Bucket!Buckets /\ r.concurrent = b.concurrent - 1
          /\ r.tokens = b.tokens /\ r.config = b.config
      <4>1. b.concurrent > 0
        BY <3>5, <3>6
      <4> HIDE DEF b
      <4> QED
        BY <3>1, <4>1 DEF Bucket!Release, Bucket!Buckets
    <3>8. buckets'[p] = r
      BY <1>1, <3>1 DEF TypeOK
    <3> HIDE DEF r, b
    <3>9. /\ buckets'[p] # NoBucket /\ InBounds(buckets'[p])
          /\ buckets'[p].concurrent = Cardinality(HeldBy(p)')
      BY <3>1, <3>5, <3>6, <3>7, <3>8 DEF InBounds, Bucket!Buckets, Bucket!Configs
    <3> QED
      BY <3>2, <3>9 DEF BInv, BucketAccounting, InBounds
  <2> QED
    BY <2>2, <2>3
<1> QED
  BY <1>6, <1>7, <1>8 DEF BInv

(* The other steps keep what is in flight, or lose all of it with its slots. *)
KeptRow(r, s) == s = NoRow \/ (r # NoRow /\ s.born = r.born /\ s.dispatchCount = r.dispatchCount)

LEMMA OtherBooks ==
  ASSUME TypeOK, BInv, IsFiniteSet(flights'),
         \A t \in Tasks : births'[t] = births[t] /\ KeptRow(tasks[t], tasks'[t]),
         \A g \in flights' : \E f \in flights : f.task = g.task /\ f.born = g.born
                                                /\ f.attempt = g.attempt,
         \A q \in Queues : \/ buckets'[q] = buckets[q] /\ HeldBy(q)' = HeldBy(q)
                           \/ buckets'[q] = NoBucket /\ HeldBy(q)' = {}
  PROVE  BInv'
<1>1. \A f \in flights : f.task \in Tasks
  BY DEF TypeOK, Flights
<1>2. BornBefore' /\ SentBefore'
  BY <1>1 DEF BInv, BornBefore, SentBefore, KeptRow
<1>3. BucketAccounting'
  BY DEF BInv, BucketAccounting
<1> QED
  BY <1>2, <1>3 DEF BInv

LEMMA BooksStep == TypeOK /\ HeldHasBucket /\ BInv /\ [Next]_vars => BInv'
<1> SUFFICES ASSUME TypeOK, HeldHasBucket, BInv, [Next]_vars PROVE BInv'
  OBVIOUS
<1>1. \A t \in Tasks : KeptRow(tasks[t], tasks[t])
  BY DEF KeptRow
<1>2. \A f \in flights : f \in Flights /\ f.task \in Tasks /\ f.born \in Nat /\ f.attempt \in Nat
  BY DEF TypeOK, Flights
<1>3. ASSUME flights' = flights, buckets' = buckets, births' = births,
             \A t \in Tasks : KeptRow(tasks[t], tasks'[t])
      PROVE  BInv'
  <2>1. \A q \in Queues : HeldBy(q)' = HeldBy(q)
    BY <1>3 DEF HeldBy
  <2> QED
    BY <1>3, <2>1, OtherBooks DEF BInv
<1>4. ASSUME NEW q \in Queues,
             \/ CreateQueue(q) \/ UpdateQueue(q) \/ PauseQueue(q) \/ ResumeQueue(q)
             \/ PurgeQueue(q)
      PROVE  BInv'
  BY <1>1, <1>3, <1>4
     DEF CreateQueue, UpdateQueue, PauseQueue, ResumeQueue, PurgeQueue, DeleteTasksByQueue,
         engineVars, KeptRow
<1>5. ASSUME NEW q \in Queues, DeleteQueue(q) PROVE BInv'
  <2> DEFINE Unheld(f) == IF QueueOf[f.task] = q THEN [f EXCEPT !.held = FALSE] ELSE f
             g == [f \in flights |-> Unheld(f)]
  <2>1. flights' = {Unheld(f) : f \in flights} /\ births' = births
        /\ buckets' = [buckets EXCEPT ![q] = NoBucket]
    BY <1>5 DEF DeleteQueue
  <2>2. \A f \in flights : /\ Unheld(f).task = f.task /\ Unheld(f).born = f.born
                           /\ Unheld(f).attempt = f.attempt
                           /\ QueueOf[f.task] = q => ~Unheld(f).held
                           /\ QueueOf[f.task] # q => Unheld(f) = f
    BY <1>2 DEF Flights
  <2> HIDE DEF Unheld
  <2>3. IsFiniteSet(flights')
    <3>1. g \in [flights -> flights'] /\ \A y \in flights' : \E x \in flights : y = g[x]
      BY <2>1
    <3> HIDE DEF g
    <3> QED
      BY <3>1, CardinalityOfImage DEF BInv
  <2>4. HeldBy(q)' = {} /\ \A p \in Queues \ {q} : HeldBy(p)' = HeldBy(p)
    BY <2>1, <2>2 DEF HeldBy
  <2>5. buckets'[q] = NoBucket /\ \A p \in Queues \ {q} : buckets'[p] = buckets[p]
    BY <2>1 DEF TypeOK
  <2>6. \A t \in Tasks : KeptRow(tasks[t], tasks'[t])
    BY <1>1, <1>5 DEF DeleteQueue, DeleteTasksByQueue, KeptRow
  <2> QED
    BY <2>1, <2>2, <2>3, <2>4, <2>5, <2>6, OtherBooks
<1>6. ASSUME NEW t \in Tasks, CreateTask(t) \/ BufferTask(t) PROVE BInv'
  <2>1. PICK due \in BOOLEAN : InsertTask(t, due)
    BY <1>6 DEF CreateTask, BufferTask
  <2>2. /\ flights' = flights /\ buckets' = buckets
        /\ births'[t] = births[t] + 1 /\ tasks'[t].born = births[t] + 1
        /\ \A u \in Tasks \ {t} : tasks'[u] = tasks[u] /\ births'[u] = births[u]
    BY <2>1 DEF InsertTask, TypeOK, engineVars
  <2>3. \A u \in Tasks : births[u] \in Nat
    BY DEF TypeOK
  <2>4. \A u \in Tasks : tasks[u] # NoRow => tasks[u].born \in Nat
    BY DEF TypeOK, TaskRecords
  <2>5. BornBefore'
    BY <1>2, <2>2, <2>3, <2>4 DEF BInv, BornBefore
  <2>6. \A f \in flights : f.task = t => f.born # tasks'[t].born
    BY <1>2, <2>2, <2>3 DEF BInv, BornBefore
  <2>7. SentBefore'
    BY <1>2, <2>2, <2>6 DEF BInv, SentBefore
  <2>8. \A q \in Queues : HeldBy(q)' = HeldBy(q)
    BY <2>2 DEF HeldBy
  <2> QED
    BY <2>2, <2>5, <2>7, <2>8 DEF BInv, BucketAccounting
<1>7. ASSUME NEW t \in Tasks, DeleteTask(t) \/ ScheduleTimeArrives(t) \/ TombstoneExpires(t)
      PROVE  BInv'
  <2>1. /\ flights' = flights /\ buckets' = buckets /\ births' = births
        /\ \A u \in Tasks \ {t} : tasks'[u] = tasks[u]
    BY <1>7 DEF DeleteTask, ScheduleTimeArrives, TombstoneExpires, engineVars, TypeOK
  <2>2. tasks[t] \in TaskRecords /\ tasks[t] # NoRow
    BY <1>7 DEF DeleteTask, ScheduleTimeArrives, TombstoneExpires, Live, Status, TypeOK
  <2>3. KeptRow(tasks[t], tasks'[t])
    <3>1. CASE DeleteTask(t)
      <4> DEFINE dead == [tasks[t] EXCEPT !.status = "TOMBSTONE"]
      <4>1. dead \in TaskRecords /\ KeptRow(tasks[t], dead)
        BY <2>2 DEF TaskRecords, TaskStatus, KeptRow
      <4>2. tasks'[t] = [dead EXCEPT !.expired = FALSE]
        BY <3>1 DEF DeleteTask, TypeOK
      <4> HIDE DEF dead
      <4> QED
        BY <2>2, <4>1, <4>2 DEF TaskRecords, KeptRow
    <3>2. CASE ScheduleTimeArrives(t) \/ TombstoneExpires(t)
      <4>1. tasks'[t] \in {[tasks[t] EXCEPT !.due = TRUE], [tasks[t] EXCEPT !.expired = TRUE]}
        BY <3>2 DEF ScheduleTimeArrives, TombstoneExpires, TypeOK
      <4> QED
        BY <2>2, <4>1 DEF TaskRecords, KeptRow
    <3> QED
      BY <1>7, <3>1, <3>2
  <2> QED
    BY <1>1, <1>3, <2>1, <2>3
<1>8. ASSUME NEW t \in Tasks, RunTask(t) PROVE BInv'
  <2> DEFINE F == Flight(t, "runTask")
  <2>1. /\ MarkDispatching({t}) /\ flights' = flights \cup {F} /\ buckets' = buckets
        /\ births' = births /\ tasks[t] # NoRow /\ tasks[t] \in TaskRecords
    BY <1>8 DEF RunTask, Live, Status, TypeOK
  <2>2. /\ F.task = t /\ ~F.held /\ F.born = tasks[t].born
        /\ F.attempt = tasks[t].dispatchCount
    BY DEF Flight
  <2> HIDE DEF F
  <2>3. /\ tasks'[t] # NoRow /\ tasks'[t].born = tasks[t].born
        /\ tasks'[t].dispatchCount = tasks[t].dispatchCount + 1
    <3> DEFINE m == [tasks[t] EXCEPT !.status = "DISPATCHING"]
    <3>1. /\ m \in TaskRecords /\ m.dispatchCount = tasks[t].dispatchCount
          /\ m.born = tasks[t].born
      BY <2>1 DEF TaskRecords, TaskStatus
    <3>2. tasks'[t] = [m EXCEPT !.dispatchCount = @ + 1]
      BY <2>1 DEF MarkDispatching
    <3> HIDE DEF m
    <3>3. [m EXCEPT !.dispatchCount = @ + 1] \in TaskRecords
      BY <3>1 DEF TaskRecords
    <3> QED
      BY <3>1, <3>2, <3>3 DEF TaskRecords
  <2>4. \A u \in Tasks \ {t} : tasks'[u] = tasks[u]
    BY <2>1 DEF MarkDispatching
  <2>5. IsFiniteSet(flights')
    BY <2>1, FS_AddElement DEF BInv
  <2>6. BornBefore'
    BY <1>2, <2>1, <2>2, <2>3, <2>4 DEF BInv, BornBefore
  <2>7. SentBefore'
    <3>1. ASSUME NEW f \in flights, f.task = t, f.born = tasks[t].born
          PROVE  f.attempt < tasks'[t].dispatchCount
      <4>1. f.attempt < tasks[t].dispatchCount
        BY <2>1, <3>1 DEF BInv, SentBefore
      <4> QED
        BY <1>2, <2>1, <2>3, <4>1 DEF TaskRecords
    <3>2. F.attempt < tasks'[t].dispatchCount
      BY <2>1, <2>2, <2>3 DEF TaskRecords
    <3> QED
      BY <1>2, <2>1, <2>2, <2>3, <2>4, <3>1, <3>2 DEF BInv, SentBefore
  <2>8. \A q \in Queues : HeldBy(q)' = HeldBy(q)
    BY <2>1, <2>2 DEF HeldBy
  <2> QED
    BY <2>1, <2>5, <2>6, <2>7, <2>8 DEF BInv, BucketAccounting
<1>9. CASE Tick
  BY <1>9, TickBooks
<1>10. ASSUME NEW f \in flights, NEW ok \in BOOLEAN, DispatchEnds(f, ok) PROVE BInv'
  BY <1>10, AnswerBooks
<1>11. CASE TickEnds
  <2>1. \A t \in Tasks : tasks'[t] \in {tasks[t], NoRow}
    BY <1>11 DEF TickEnds
  <2> QED
    BY <1>1, <1>3, <1>11, <2>1 DEF TickEnds, KeptRow
<1>12. CASE StopEngine \/ UNCHANGED vars
  BY <1>1, <1>3, <1>12 DEF StopEngine, vars, engineVars
<1>13. CASE Restart \/ Crash
  <2>1. /\ flights' = {} /\ tasks' = tasks /\ births' = births
        /\ \A q \in Queues : buckets'[q] = NoBucket
    BY <1>13 DEF Restart, Crash, NewProcess
  <2>2. IsFiniteSet(flights') /\ \A q \in Queues : HeldBy(q)' = {}
    BY <2>1, FS_EmptySet DEF HeldBy
  <2> QED
    BY <1>1, <2>1, <2>2, OtherBooks
<1> QED
  BY <1>4, <1>5, <1>6, <1>7, <1>8, <1>9, <1>10, <1>11, <1>12, <1>13 DEF Next, DispatchSettles

(* The rate limiters' books hold for any clients, any retry configs, forced  *)
(* runs, stops and crashes: a slot is taken by exactly the requests that will*)
(* give it back, and neither slots nor tokens leave their bounds.            *)
THEOREM BooksAreKept == Spec => []BucketAccounting
<1>1. Init => BInv
  <2> SUFFICES ASSUME Init PROVE BInv
    OBVIOUS
  <2>1. flights = {} /\ IsFiniteSet(flights)
    BY FS_EmptySet DEF Init
  <2>2. BucketAccounting
    BY DEF Init, BucketAccounting, HeldBy
  <2> QED
    BY <2>1, <2>2 DEF Init, BInv, BornBefore, SentBefore
<1>2. BInv => BucketAccounting
  BY DEF BInv
<1> QED
  BY <1>1, <1>2, TypeCorrect, BooksStep, PTL DEF Spec
=============================================================================
