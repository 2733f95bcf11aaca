----------------------------- MODULE Scheduler ------------------------------
(***************************************************************************)
(* The Cloud Scheduler emulator (services/scheduler): jobs in storage, the   *)
(* requests of service.ts, and the ExecutionEngine that a timer drives.      *)
(* A request is one step.  A tick runs its jobs one after another and        *)
(* waits for their HTTP calls and backoffs; a forced run does the same on    *)
(* its own, at any time, beside a tick or another forced run.                *)
(*                                                                           *)
(* Time is a number; a cron schedule is a period, due at its multiples.      *)
(* HTTP and Pub/Sub targets differ in the call that is awaited only.         *)
(***************************************************************************)
EXTENDS Absent, Integers, FiniteSets

CONSTANTS
  Jobs,            (* names                                                  *)
  Periods,         (* schedules                                              *)
  FirstPeriods,    (* those a job may be created with                        *)
  RetryCount,      (* retryConfig.retryCount of each job                     *)
  ChangedJobs,     (* the jobs clients change, delete and run once created   *)
  ForcedRuns,      (* bound: runJob requests in flight at once               *)
  SchedulerHorizon (* bound: the time at which the clock stops               *)

Tick == "tick"
Runners == ForcedRuns \cup {Tick}
Times == 0..SchedulerHorizon

(* next is scheduleTime.                                                     *)
JobRecords == [schedule : Periods, state : {"ENABLED", "PAUSED"}, next : Nat \cup {NoRow}]
(* executeJob() works on the record its caller read.                         *)
RunRecords == [job : Jobs, read : JobRecords, attempt : Nat, waits : {"call", "backoff"}]
DueEntries == [job : Jobs, read : JobRecords]

ASSUME SchedulerAssumption ==
  /\ Periods \subseteq Nat \ {0} /\ Periods # {} /\ IsFiniteSet(Periods)
  /\ FirstPeriods \in [Jobs -> SUBSET Periods] /\ RetryCount \in [Jobs -> Nat]
  /\ SchedulerHorizon \in Nat
  /\ ChangedJobs \subseteq Jobs /\ Tick \notin ForcedRuns
  /\ NoRow \notin JobRecords \cup RunRecords \cup Nat

VARIABLES
  jobs,        (* scheduler_jobs                                             *)
  clock,
  jobTimer,    (* ExecutionEngine.timerId # null                             *)
  ticking,     (* ExecutionEngine.running                                    *)
  dueJobs,     (* tick(): the jobs still to execute, as read                 *)
  runs,        (* the executions in flight                                   *)
  handled      (* history: executions ticks of this process started, by job  *)
               (* and scheduleTime                                           *)

schedulerEngine == <<jobTimer, ticking, dueJobs, runs, handled>>
schedulerVars == <<jobs, clock, schedulerEngine>>

SchedulerInit ==
  /\ jobs = [j \in Jobs |-> NoRow]
  /\ clock = 0
  /\ jobTimer = TRUE /\ ticking = FALSE /\ dueJobs = {}
  /\ runs = [r \in Runners |-> NoRow]
  /\ handled = [o \in Jobs \X (1..SchedulerHorizon) |-> 0]

-----------------------------------------------------------------------------
(* cronEngine.getNextRunTime(): the first occurrence after now.              *)
NextRun(period) == ((clock \div period) + 1) * period

JobExists(j) == jobs[j] # NoRow

(* requestToJobRecord()                                                      *)
CreateJob(j, period) ==
  /\ ~JobExists(j)
  /\ jobs' = [jobs EXCEPT ![j] = [schedule |-> period, state |-> "ENABLED",
                                  next |-> NextRun(period)]]
  /\ UNCHANGED <<clock, schedulerEngine>>

(* updateJob() with a schedule: the state is not looked at.                  *)
UpdateJob(j, period) ==
  /\ JobExists(j)
  /\ jobs' = [jobs EXCEPT ![j].schedule = period, ![j].next = NextRun(period)]
  /\ UNCHANGED <<clock, schedulerEngine>>

DeleteJob(j) ==
  /\ JobExists(j)
  /\ jobs' = [jobs EXCEPT ![j] = NoRow]
  /\ UNCHANGED <<clock, schedulerEngine>>

PauseJob(j) ==
  /\ JobExists(j) /\ jobs[j].state = "ENABLED"
  /\ jobs' = [jobs EXCEPT ![j].state = "PAUSED", ![j].next = NoRow]
  /\ UNCHANGED <<clock, schedulerEngine>>

ResumeJob(j) ==
  /\ JobExists(j) /\ jobs[j].state = "PAUSED"
  /\ jobs' = [jobs EXCEPT ![j].state = "ENABLED", ![j].next = NextRun(jobs[j].schedule)]
  /\ UNCHANGED <<clock, schedulerEngine>>

-----------------------------------------------------------------------------
(* The engine.                                                               *)

Started(c) == [job |-> c.job, read |-> c.read, attempt |-> 0, waits |-> "call"]

(* runJob(): whatever the job's state.                                       *)
RunJob(j, r) ==
  /\ JobExists(j) /\ r # Tick /\ runs[r] = NoRow
  /\ runs' = [runs EXCEPT ![r] = Started([job |-> j, read |-> jobs[j]])]
  /\ UNCHANGED <<jobs, clock, jobTimer, ticking, dueJobs, handled>>

Due(j) ==
  JobExists(j) /\ jobs[j].state = "ENABLED" /\ jobs[j].next # NoRow /\ jobs[j].next <= clock

(* findDueJobs()                                                             *)
DueNow == {[job |-> j, read |-> jobs[j]] : j \in {i \in Jobs : Due(i)}}

Counted(c) == [handled EXCEPT ![<<c.job, c.read.next>>] = @ + 1]

(* The loop of tick(): to the next job of the list, or out of it.            *)
Proceed(list) ==
  \/ /\ list = {}
     /\ ticking' = FALSE /\ dueJobs' = {}
     /\ runs' = [runs EXCEPT ![Tick] = NoRow]
     /\ UNCHANGED handled
  \/ \E c \in list :
       /\ ticking' = TRUE /\ dueJobs' = list \ {c}
       /\ runs' = [runs EXCEPT ![Tick] = Started(c)]
       /\ handled' = Counted(c)

EngineTick ==
  /\ jobTimer /\ ~ticking
  /\ Proceed(DueNow)
  /\ UNCHANGED <<jobs, clock, jobTimer>>

RescheduledFromRead(run) ==  \* mutant: the row that was read is written back
  IF JobExists(run.job)
  THEN [jobs EXCEPT ![run.job] = [run.read EXCEPT !.next = NextRun(run.read.schedule)]]
  ELSE jobs

(* updateJobSchedule(): the occurrence after now of the schedule it read, for*)
(* whatever job has the name now.                                            *)
Rescheduled(run) ==
  IF JobExists(run.job)
  THEN [jobs EXCEPT ![run.job].next = NextRun(run.read.schedule)]
  ELSE jobs

LastAttempt(run) == run.attempt >= RetryCount[run.job]

(* runWithRetries(): success, the last attempt, or maxRetryDuration reached, *)
(* ends the execution.                                                       *)
RunEnds(r) ==
  /\ runs[r] # NoRow /\ runs[r].waits = "call"
  /\ jobs' = Rescheduled(runs[r])
  /\ \/ r = Tick /\ Proceed(dueJobs)
     \/ /\ r # Tick /\ runs' = [runs EXCEPT ![r] = NoRow]
        /\ UNCHANGED <<ticking, dueJobs, handled>>
  /\ UNCHANGED <<clock, jobTimer>>

AttemptFails(r) ==
  /\ runs[r] # NoRow /\ runs[r].waits = "call" /\ ~LastAttempt(runs[r])
  /\ runs' = [runs EXCEPT ![r].waits = "backoff"]
  /\ UNCHANGED <<jobs, clock, jobTimer, ticking, dueJobs, handled>>

BackoffOverUncounted(r) ==  \* mutant: retries for ever
  /\ runs[r] # NoRow /\ runs[r].waits = "backoff"
  /\ runs' = [runs EXCEPT ![r].waits = "call"]
  /\ UNCHANGED <<jobs, clock, jobTimer, ticking, dueJobs, handled>>

BackoffOver(r) ==
  /\ runs[r] # NoRow /\ runs[r].waits = "backoff"
  /\ runs' = [runs EXCEPT ![r].waits = "call", ![r].attempt = @ + 1]
  /\ UNCHANGED <<jobs, clock, jobTimer, ticking, dueJobs, handled>>

StopJobs ==
  /\ jobTimer /\ jobTimer' = FALSE
  /\ UNCHANGED <<jobs, clock, ticking, dueJobs, runs, handled>>

JobsNewProcess ==
  /\ jobTimer' = TRUE /\ ticking' = FALSE /\ dueJobs' = {}
  /\ runs' = [r \in Runners |-> NoRow]
  /\ handled' = [o \in DOMAIN handled |-> 0]
  /\ UNCHANGED <<jobs, clock>>

(* stop() resolves once no tick is running; forced runs are cut short.  A    *)
(* crash (the timer still set) cuts a tick short as well.                    *)
RestartJobs == (jobTimer \/ ~ticking) /\ JobsNewProcess

TimePasses ==
  /\ clock < SchedulerHorizon /\ clock' = clock + 1
  /\ UNCHANGED <<jobs, schedulerEngine>>

RunWorks(r) == RunEnds(r) \/ AttemptFails(r) \/ BackoffOver(r)

JobChanges(j) ==
  \/ \E p \in Periods : UpdateJob(j, p)
  \/ DeleteJob(j)
  \/ PauseJob(j)
  \/ ResumeJob(j)
  \/ \E r \in ForcedRuns : RunJob(j, r)

SchedulerRequests ==
  \E j \in Jobs :
    \/ \E p \in FirstPeriods[j] : CreateJob(j, p)
    \/ (j \in ChangedJobs /\ JobChanges(j))

SchedulerNext ==
  \/ SchedulerRequests
  \/ EngineTick
  \/ \E r \in Runners : RunWorks(r)
  \/ StopJobs
  \/ RestartJobs
  \/ TimePasses

SchedulerSpec == SchedulerInit /\ [][SchedulerNext]_schedulerVars

-----------------------------------------------------------------------------

SchedulerTypeOK ==
  /\ jobs \in [Jobs -> JobRecords \cup {NoRow}]
  /\ clock \in Times
  /\ jobTimer \in BOOLEAN /\ ticking \in BOOLEAN
  /\ dueJobs \in SUBSET DueEntries
  /\ runs \in [Runners -> RunRecords \cup {NoRow}]
  /\ ticking <=> runs[Tick] # NoRow
  /\ ~ticking => dueJobs = {}

(* A job paused, changed or deleted while it is executed stays so: the end of*)
(* an execution touches nothing of the row but scheduleTime (lines 305-318). *)
EndsOnlyReschedule ==
  [][\A j \in Jobs : jobs'[j] # jobs[j] /\ runs' # runs =>
       /\ jobs[j] # NoRow /\ jobs'[j] # NoRow
       /\ jobs'[j] = [jobs[j] EXCEPT !.next = jobs'[j].next]]_schedulerVars

(* The next run is one of the job's own schedule.  The exception the code has*)
(* is an execution that began under another schedule and ends after updateJob*)
(* or after the name was taken by a new job (line 308).                      *)
NextRunFitsSchedule ==
  [][\A j \in Jobs :
       /\ jobs'[j] # NoRow /\ jobs'[j].next # NoRow
       /\ jobs[j] = NoRow \/ jobs'[j].next # jobs[j].next
       /\ ~\E r \in Runners : /\ runs[r] # NoRow /\ runs[r].job = j /\ jobs[j] # NoRow
                              /\ runs[r].read.schedule # jobs[j].schedule
       => jobs'[j].next % jobs'[j].schedule = 0]_schedulerVars

(* One occurrence is started by one tick: retries, forced runs, updates and  *)
(* pauses in between never bring a due time back (a crash does).             *)
OncePerOccurrence == \A o \in DOMAIN handled : handled[o] <= 1

(* A due job is executed, however the jobs before it in a tick's list fail,  *)
(* unless somebody changes that or the process restarts time and again       *)
(* (lines 154-173).                                                          *)
InRun(j) == \E r \in Runners : runs[r] # NoRow /\ runs[r].job = j
DueJobsRun ==
  <>[][~RestartJobs]_schedulerVars =>
    \A j \in Jobs : (jobTimer /\ Due(j)) ~> (InRun(j) \/ ~Due(j) \/ ~jobTimer)

(* One run per occurrence, at times of the schedule, which leaves the rest   *)
(* of the row to those who change it.                                        *)
SchedulesHold ==
  []SchedulerTypeOK /\ []OncePerOccurrence /\ EndsOnlyReschedule /\ NextRunFitsSchedule
=============================================================================
