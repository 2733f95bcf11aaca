------------------------------ MODULE CloudSql ------------------------------
(***************************************************************************)
(* Cloud SQL (services/cloudsql): the rows of SqlAdminService and what its   *)
(* requests do to the Postgres data plane.  Nothing excludes two requests:   *)
(* between asking for a job of the data plane and its end any other request  *)
(* may read and write the same rows.  Storage completes in the microtask     *)
(* queue, so what a request does between two jobs is one step.               *)
(***************************************************************************)
EXTENDS Absent, PostgresPlane, Naturals

CONSTANTS
  SqlCalls,        (* bound: requests in flight                              *)
  SqlInstances,    (* (project, name)                                        *)
  MaxSettings      (* bound: the settingsVersion reached by updates          *)

Postgres == "postgres"

SqlRecords == [databases : SUBSET PlaneDatabases, users : SUBSET {Postgres}, version : 1..MaxSettings]
SqlRequests ==
  [what : {"create", "rollback", "delete", "restart"}, inst : SqlInstances]
  \cup [what : {"createDatabase", "deleteDatabase"}, inst : SqlInstances, database : PlaneDatabases]

ASSUME CloudSqlAssumption ==
  /\ SqlCalls \subseteq PlaneCallers /\ SqlInstances \subseteq PlaneInstances
  /\ Postgres \in PlaneDatabases /\ MaxSettings \in Nat \ {0}
  /\ NoRow \notin SqlRecords \cup SqlRequests

VARIABLES
  sqlRows,     (* cloudsql_instances with their rows of cloudsql_databases   *)
               (* and cloudsql_users                                         *)
  sqlCalls,    (* the requests that wait for the data plane                  *)
  degraded,    (* history: a start or drop of theirs failed and left the row *)
  crossed      (* history: a rollback or a start met rows not of its request *)

sqlVars == <<sqlRows, sqlCalls, degraded, crossed, planeVars>>

CloudSqlInit ==
  /\ sqlRows = [i \in SqlInstances |-> NoRow]
  /\ sqlCalls = [c \in SqlCalls |-> NoRow]
  /\ degraded = {} /\ crossed = {}
  /\ PlaneInit

SqlHas(i) == sqlRows[i] # NoRow
InFlight(i) == {c \in SqlCalls : sqlCalls[c] # NoRow /\ sqlCalls[c].inst = i}
Sends(c, request) == sqlCalls[c] = NoRow /\ sqlCalls' = [sqlCalls EXCEPT ![c] = request]
Answers(c) == sqlCalls' = [sqlCalls EXCEPT ![c] = NoRow]
Waits(c, what) == sqlCalls[c] # NoRow /\ sqlCalls[c].what = what

-----------------------------------------------------------------------------
(* Instances.                                                                *)

(* createInstance(): the rows are there before the endpoint is.              *)
SqlCreateInstance(c, i) ==
  /\ ~SqlHas(i)
  /\ Sends(c, [what |-> "create", inst |-> i])
  /\ sqlRows' = [sqlRows EXCEPT ![i] = [databases |-> {Postgres}, users |-> {Postgres}, version |-> 1]]
  /\ Asks(i, Job("start", {Postgres}, c))
  /\ UNCHANGED <<degraded, crossed>>

SqlStartedLeavesFiles(c, i, ok) ==  \* mutant: the rollback deletes the rows only
  /\ Waits(c, "create") /\ sqlCalls[c].inst = i
  /\ JobEnds(i, c, ok, <<>>) /\ Answers(c)
  /\ sqlRows' = IF ok THEN sqlRows ELSE [sqlRows EXCEPT ![i] = NoRow]
  /\ UNCHANGED <<degraded, crossed>>

(* A failed start is rolled back: dropInstance(), then the rows.             *)
SqlStarted(c, i, ok) ==
  /\ Waits(c, "create") /\ sqlCalls[c].inst = i
  /\ \/ ok /\ JobEnds(i, c, ok, <<>>) /\ Answers(c)
     \/ /\ ~ok /\ JobEnds(i, c, ok, <<Job("drop", {}, c)>>)
        /\ sqlCalls' = [sqlCalls EXCEPT ![c].what = "rollback"]
  /\ crossed' = IF SqlHas(i) THEN crossed ELSE crossed \cup {i}
  /\ UNCHANGED <<sqlRows, degraded>>

(* deleteInstance() of the repository: databases, users, instance.           *)
RowsGone(i) == sqlRows' = [sqlRows EXCEPT ![i] = NoRow]

(* A drop that throws leaves the rows, and the request answers 500.          *)
SqlDropped(c, i, ok) ==
  /\ (Waits(c, "rollback") \/ Waits(c, "delete")) /\ sqlCalls[c].inst = i
  /\ JobEnds(i, c, ok, <<>>) /\ Answers(c)
  /\ \/ ok /\ RowsGone(i) /\ degraded' = degraded \ {i}
     \/ ~ok /\ degraded' = degraded \cup {i} /\ UNCHANGED sqlRows
  /\ crossed' = IF InFlight(i) # {c} THEN crossed \cup {i}
                ELSE IF ok THEN crossed \ {i} ELSE crossed

SqlDeleteInstance(c, i) ==
  /\ SqlHas(i)
  /\ Sends(c, [what |-> "delete", inst |-> i])
  /\ Asks(i, Job("drop", {}, c))
  /\ UNCHANGED <<sqlRows, degraded, crossed>>

(* restartInstance(): with the databases there are rows of when it is asked. *)
SqlRestartInstance(c, i) ==
  /\ SqlHas(i)
  /\ Sends(c, [what |-> "restart", inst |-> i])
  /\ Asks(i, Job("start", sqlRows[i].databases, c))
  /\ UNCHANGED <<sqlRows, degraded, crossed>>

SqlRestarted(c, i, ok) ==
  /\ Waits(c, "restart") /\ sqlCalls[c].inst = i
  /\ JobEnds(i, c, ok, <<>>) /\ Answers(c)
  /\ degraded' = IF ok THEN degraded ELSE degraded \cup {i}
  /\ crossed' = IF SqlHas(i) THEN crossed ELSE crossed \cup {i}
  /\ UNCHANGED sqlRows

(* applySettings(): update and patch with the current settingsVersion.       *)
ApplySettings(i) ==
  /\ SqlHas(i) /\ sqlRows[i].version < MaxSettings
  /\ sqlRows' = [sqlRows EXCEPT ![i].version = @ + 1]
  /\ UNCHANGED <<sqlCalls, degraded, crossed, planeVars>>

-----------------------------------------------------------------------------
(* Databases and users.                                                      *)

SqlCreateDatabase(c, i, d) ==
  /\ SqlHas(i) /\ d \notin sqlRows[i].databases
  /\ Sends(c, [what |-> "createDatabase", inst |-> i, database |-> d])
  /\ sqlRows' = [sqlRows EXCEPT ![i].databases = @ \cup {d}]
  /\ Asks(i, Job("open", {d}, c))
  /\ UNCHANGED <<degraded, crossed>>

WithoutDatabase(i, d) ==
  IF SqlHas(i) THEN [sqlRows EXCEPT ![i].databases = @ \ {d}] ELSE sqlRows

(* A failed open deletes the row of that name, whoever created it.           *)
SqlDatabaseOpened(c, i, ok) ==
  /\ Waits(c, "createDatabase") /\ sqlCalls[c].inst = i
  /\ JobEnds(i, c, ok, <<>>) /\ Answers(c)
  /\ sqlRows' = IF ok THEN sqlRows ELSE WithoutDatabase(i, sqlCalls[c].database)
  /\ crossed' = IF ~ok /\ \E o \in InFlight(i) \ {c} : sqlCalls[o].what \in {"createDatabase", "restart"}
                THEN crossed \cup {i} ELSE crossed
  /\ UNCHANGED degraded

SqlDeleteDatabase(c, i, d) ==
  /\ SqlHas(i) /\ d \in sqlRows[i].databases
  /\ Sends(c, [what |-> "deleteDatabase", inst |-> i, database |-> d])
  /\ sqlRows' = WithoutDatabase(i, d)
  /\ Asks(i, Job("dropDatabase", {d}, c))
  /\ UNCHANGED <<degraded, crossed>>

SqlDatabaseDropped(c, i, ok) ==
  /\ Waits(c, "deleteDatabase") /\ sqlCalls[c].inst = i
  /\ JobEnds(i, c, ok, <<>>) /\ Answers(c)
  /\ degraded' = IF ok THEN degraded ELSE degraded \cup {i}
  /\ UNCHANGED <<sqlRows, crossed>>

(* createUser(), deleteUser(): no job of the data plane, which looks users up*)
(* at each connection.                                                       *)
SqlChangeUser(i) ==
  /\ SqlHas(i)
  /\ sqlRows' = [sqlRows EXCEPT ![i].users = {Postgres} \ @]
  /\ UNCHANGED <<sqlCalls, degraded, crossed, planeVars>>

-----------------------------------------------------------------------------
(* The process ends, with its requests, and starts again: rehydrateDataPlane()*)
(* before the first request.                                                 *)
SqlProcessRestarts ==
  /\ sqlCalls' = [c \in SqlCalls |-> NoRow]
  /\ \E up \in SUBSET {i \in SqlInstances : SqlHas(i)} :
       /\ Rehydrated({i \in SqlInstances : SqlHas(i)}, up, [i \in up |-> sqlRows[i].databases])
       /\ degraded' = degraded \cup {i \in SqlInstances : i \notin up /\ (SqlHas(i) \/ InFlight(i) # {})}
  /\ crossed' = crossed \cup {i \in SqlInstances : InFlight(i) # {}}
  /\ UNCHANGED sqlRows

SqlJobEnds(c) ==
  \E i \in SqlInstances : \E ok \in BOOLEAN :
    \/ SqlStarted(c, i, ok)
    \/ SqlDropped(c, i, ok)
    \/ SqlRestarted(c, i, ok)
    \/ SqlDatabaseOpened(c, i, ok)
    \/ SqlDatabaseDropped(c, i, ok)

CloudSqlNext ==
  \/ \E c \in SqlCalls : SqlJobEnds(c)
  \/ \E c \in SqlCalls : \E i \in SqlInstances :
       \/ SqlCreateInstance(c, i) \/ SqlDeleteInstance(c, i) \/ SqlRestartInstance(c, i)
       \/ \E d \in PlaneDatabases : SqlCreateDatabase(c, i, d) \/ SqlDeleteDatabase(c, i, d)
  \/ \E i \in SqlInstances : ApplySettings(i) \/ SqlChangeUser(i)
  \/ SqlProcessRestarts

CloudSqlSpec == CloudSqlInit /\ [][CloudSqlNext]_sqlVars

-----------------------------------------------------------------------------

CloudSqlTypeOK ==
  /\ sqlRows \in [SqlInstances -> SqlRecords \cup {NoRow}]
  /\ sqlCalls \in [SqlCalls -> SqlRequests \cup {NoRow}]
  /\ degraded \subseteq SqlInstances /\ crossed \subseteq SqlInstances
  /\ PlaneTypeOK

Settled(i) == InFlight(i) = {}
Blameless(i) == i \notin degraded \cup crossed

(* "create ... either yields a connectable instance or nothing at all", and  *)
(* the data plane serves the databases there are rows of (service.ts lines   *)
(* 160-165, 288-290), once the requests of the instance are answered.  The   *)
(* exceptions are a job that failed after its rows were settled, and the     *)
(* requests that cross a delete or a rollback of the same instance.          *)
RowsAreServed ==
  \A i \in SqlInstances : Settled(i) /\ Blameless(i) =>
    /\ i \in listening <=> SqlHas(i)
    /\ SqlHas(i) => serves[i] = sqlRows[i].databases

(* An instance that is created finds no files of an earlier one of its name. *)
NoFilesInherited ==
  \A i \in SqlInstances : Settled(i) /\ Blameless(i) /\ ~SqlHas(i) => planeFiles[i] = {}

(* No endpoint "belongs to no instance row, so nothing ever closes it"       *)
(* (data-plane-manager.ts lines 116-118).                                    *)
EndpointsHaveRows == \A i \in SqlInstances : Settled(i) /\ i \in listening => SqlHas(i)

(* Rows, endpoints and files of Cloud SQL agree once its requests are        *)
(* answered.                                                                 *)
CloudSqlInvariant == CloudSqlTypeOK /\ RowsAreServed /\ NoFilesInherited
=============================================================================
