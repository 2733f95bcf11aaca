--------------------------- MODULE PostgresPlane ----------------------------
(***************************************************************************)
(* What the Postgres data plane (shared/postgres-data-plane, DataPlane.tla)  *)
(* promises to the services above it: the jobs of one instance run one at    *)
(* a time, in the order they were asked for, and each succeeds or throws.    *)
(* A job takes real time; the caller goes on in the step that ends it.       *)
(***************************************************************************)
EXTENDS Sequences, FiniteSets

CONSTANTS PlaneInstances, PlaneDatabases, PlaneCallers

PlaneJobs == [what : {"start", "drop", "open", "dropDatabase"},
              databases : SUBSET PlaneDatabases, caller : PlaneCallers]

VARIABLES
  planeJobs,   (* instanceMutex: the running job of each instance, then those*)
               (* that wait                                                  *)
  listening,   (* the instances that have a listener                         *)
  serves,      (* the databases it serves                                    *)
  planeFiles   (* the databases that have files                              *)

planeVars == <<planeJobs, listening, serves, planeFiles>>

PlaneInit ==
  /\ planeJobs = [i \in PlaneInstances |-> <<>>]
  /\ listening = {}
  /\ serves = [i \in PlaneInstances |-> {}]
  /\ planeFiles = [i \in PlaneInstances |-> {}]

Job(what, dbs, c) == [what |-> what, databases |-> dbs, caller |-> c]

Asks(i, job) ==
  planeJobs' = [planeJobs EXCEPT ![i] = Append(@, job)] /\ UNCHANGED <<listening, serves, planeFiles>>

(* startInstanceLocked(): a listener that is there goes first.               *)
Starts(i, dbs, ok) ==
  /\ listening' = IF ok THEN listening \cup {i} ELSE listening \ {i}
  /\ serves' = [serves EXCEPT ![i] = IF ok THEN dbs ELSE {}]
  /\ \E written \in {dbs} \cup (IF ok THEN {} ELSE {{}}) : planeFiles' = [planeFiles EXCEPT ![i] = @ \cup written]

(* dropInstanceLocked(): the listener is gone even when the rest throws.     *)
Drops(i, ok) ==
  /\ listening' = listening \ {i}
  /\ serves' = [serves EXCEPT ![i] = {}]
  /\ planeFiles' = [planeFiles EXCEPT ![i] = IF ok THEN {} ELSE @]

(* openDatabaseLocked(): without a listener there is nothing to do.          *)
Opens(i, dbs, ok) ==
  /\ ok \/ i \in listening
  /\ LET done == IF ok /\ i \in listening THEN dbs ELSE {} IN
       /\ serves' = [serves EXCEPT ![i] = @ \cup done]
       /\ planeFiles' = [planeFiles EXCEPT ![i] = @ \cup done]
  /\ UNCHANGED listening

(* dropDatabase(): it is no longer served even when its files stay.          *)
DropsDatabase(i, dbs, ok) ==
  /\ serves' = [serves EXCEPT ![i] = @ \ dbs]
  /\ planeFiles' = [planeFiles EXCEPT ![i] = IF ok THEN @ \ dbs ELSE @]
  /\ UNCHANGED listening

(* The running job of instance i, asked for by c, ends; next is what c asks  *)
(* for at once, if anything.                                                 *)
JobEnds(i, c, ok, next) ==
  /\ planeJobs[i] # <<>>
  /\ LET job == Head(planeJobs[i]) IN
       /\ job.caller = c
       /\ \/ job.what = "start" /\ Starts(i, job.databases, ok)
          \/ job.what = "drop" /\ Drops(i, ok)
          \/ job.what = "open" /\ Opens(i, job.databases, ok)
          \/ job.what = "dropDatabase" /\ DropsDatabase(i, job.databases, ok)
  /\ planeJobs' = [planeJobs EXCEPT ![i] = Tail(@) \o next]

(* The running job of i, a drop, ends and its caller asks for one of instance*)
(* o next.                                                                   *)
JobMoves(i, o, c, ok) ==
  /\ i # o /\ planeJobs[i] # <<>>
  /\ Head(planeJobs[i]).caller = c /\ Head(planeJobs[i]).what = "drop"
  /\ Drops(i, ok)
  /\ planeJobs' = [planeJobs EXCEPT ![i] = Tail(@), ![o] = Append(@, Job("drop", {}, c))]

(* The process ends, its listeners and jobs with it, and starts again:       *)
(* restartPersistedInstances() with the databases of those that have rows;   *)
(* one that cannot be started is left degraded.                              *)
Rehydrated(persisted, up, named) ==
  /\ up \subseteq persisted
  /\ planeJobs' = [i \in PlaneInstances |-> <<>>]
  /\ listening' = up
  /\ serves' = [i \in PlaneInstances |-> IF i \in up THEN named[i] ELSE {}]
  /\ planeFiles' = [i \in PlaneInstances |-> IF i \in up THEN planeFiles[i] \cup named[i] ELSE planeFiles[i]]

PlaneTypeOK ==
  /\ planeJobs \in [PlaneInstances -> Seq(PlaneJobs)]
  /\ listening \subseteq PlaneInstances
  /\ serves \in [PlaneInstances -> SUBSET PlaneDatabases]
  /\ \A i \in PlaneInstances \ listening : serves[i] = {}
  /\ planeFiles \in [PlaneInstances -> SUBSET PlaneDatabases]
=============================================================================
