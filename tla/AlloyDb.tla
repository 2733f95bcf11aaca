------------------------------ MODULE AlloyDb -------------------------------
(***************************************************************************)
(* AlloyDB (services/alloydb): clusters with their instances and users in    *)
(* storage, and the data plane of each instance.  Every request that         *)
(* changes what is under a cluster holds the cluster's key of clusterMutex   *)
(* from its first check to its answer, through the jobs of the data plane    *)
(* it waits for.  Backups have keys of their own.                            *)
(*                                                                           *)
(* A request with validateOnly stops after its checks.  update with          *)
(* allowMissing does what create does, under the same key.                   *)
(***************************************************************************)
EXTENDS Absent, PostgresPlane

CONSTANTS
  AlloyCalls,      (* bound: requests in flight                              *)
  Clusters, AlloyInstances, AlloyBackups,
  ClusterOf        (* the cluster in the name of each instance               *)

Primary == "PRIMARY"
ReadPool == "READ_POOL"
DefaultDatabase == "postgres"

AlloyRequests ==
  [what : {"createCluster"}, cluster : Clusters]
  \cup [what : {"deleteCluster"}, cluster : Clusters, force : BOOLEAN]
  \cup [what : {"createInstance", "updateInstance"}, cluster : Clusters, inst : AlloyInstances,
        type : {Primary, ReadPool}]
  \cup [what : {"deleteInstance"}, cluster : Clusters, inst : AlloyInstances]
  \cup [what : {"createUser", "deleteUser"}, cluster : Clusters]
(* Stages of a request that holds the key: none yet, or the job it waits for.*)
AlloyStages == {"arrived", "start", "rollback", "drop"}
AlloyRecords == [request : AlloyRequests, stage : AlloyStages, left : SUBSET AlloyInstances]

ASSUME AlloyAssumption ==
  /\ AlloyCalls \subseteq PlaneCallers /\ AlloyInstances \subseteq PlaneInstances
  /\ DefaultDatabase \in PlaneDatabases
  /\ ClusterOf \in [AlloyInstances -> Clusters]
  /\ NoRow \notin AlloyRecords \cup {Primary, ReadPool}

VARIABLES
  clusters,      (* the cluster rows                                         *)
  alloyRows,     (* the instance rows: their type                            *)
  clusterUsers,  (* the clusters with a row of the user clients change       *)
  backups,       (* the backup rows                                          *)
  clusterQueue,  (* clusterMutex: by cluster, the holder and those behind it *)
  alloyCalls,    (* the requests in flight                                   *)
  leftFiles      (* history: a drop of theirs failed                         *)

alloyRowVars == <<clusters, alloyRows, clusterUsers, backups>>
alloyVars == <<alloyRowVars, clusterQueue, alloyCalls, leftFiles, planeVars>>

AlloyInit ==
  /\ clusters = {} /\ clusterUsers = {} /\ backups = {} /\ leftFiles = {}
  /\ alloyRows = [i \in AlloyInstances |-> NoRow]
  /\ clusterQueue = [cl \in Clusters |-> <<>>]
  /\ alloyCalls = [c \in AlloyCalls |-> NoRow]
  /\ PlaneInit

InCluster(cl) == {i \in AlloyInstances : ClusterOf[i] = cl /\ alloyRows[i] # NoRow}

-----------------------------------------------------------------------------
(* runExclusively(): a request takes its place in the queue of its cluster.  *)
AlloyArrives(c, request) ==
  /\ alloyCalls[c] = NoRow
  /\ alloyCalls' = [alloyCalls EXCEPT ![c] = [request |-> request, stage |-> "arrived", left |-> {}]]
  /\ clusterQueue' = [clusterQueue EXCEPT ![request.cluster] = Append(@, c)]
  /\ UNCHANGED <<alloyRowVars, leftFiles, planeVars>>

Holds(c, stage) ==
  /\ alloyCalls[c] # NoRow /\ alloyCalls[c].stage = stage
  /\ Head(clusterQueue[alloyCalls[c].request.cluster]) = c

Requested(c) == alloyCalls[c].request
Begins(c, what) == Holds(c, "arrived") /\ Requested(c).what = what

(* The answer, good or bad; the key goes to the next.                        *)
AlloyAnswers(c) ==
  /\ alloyCalls' = [alloyCalls EXCEPT ![c] = NoRow]
  /\ clusterQueue' = [clusterQueue EXCEPT ![Requested(c).cluster] = Tail(@)]

AlloyWaits(c, stage, left) ==
  /\ alloyCalls' = [alloyCalls EXCEPT ![c].stage = stage, ![c].left = left]
  /\ UNCHANGED clusterQueue

-----------------------------------------------------------------------------
(* validateInstancePlacement(): the instance being written does not count.   *)
CanPlace(i, type) ==
  LET anotherIsPrimary == \E o \in InCluster(ClusterOf[i]) \ {i} : alloyRows[o] = Primary
  IN  IF type = Primary THEN ~anotherIsPrimary ELSE anotherIsPrimary

CanRemoveAny(i) == TRUE  \* mutant: a primary with read pools can be deleted

(* validatePrimaryHasNoDependentReadPools()                                  *)
CanRemove(i) ==
  alloyRows[i] = Primary => \A o \in InCluster(ClusterOf[i]) \ {i} : alloyRows[o] # ReadPool

(* Every check a request makes once it holds the key.                        *)
Accepted(r) ==
  CASE r.what = "createCluster"  -> r.cluster \notin clusters
    [] r.what = "deleteCluster"  -> r.cluster \in clusters /\ (r.force \/ InCluster(r.cluster) = {})
    [] r.what = "createInstance" -> /\ r.cluster \in clusters /\ alloyRows[r.inst] = NoRow
                                    /\ CanPlace(r.inst, r.type)
    [] r.what = "updateInstance" -> alloyRows[r.inst] # NoRow /\ CanPlace(r.inst, r.type)
    [] r.what = "deleteInstance" -> alloyRows[r.inst] # NoRow /\ CanRemove(r.inst)
    [] r.what = "createUser"     -> r.cluster \in clusters \ clusterUsers
    [] r.what = "deleteUser"     -> r.cluster \in clusterUsers

Refused(c) ==
  /\ Holds(c, "arrived") /\ ~Accepted(Requested(c))
  /\ AlloyAnswers(c)
  /\ UNCHANGED <<alloyRowVars, leftFiles, planeVars>>

(* createCluster(), restoreCluster(): the initial user is not the one clients*)
(* change here.                                                              *)
CreateCluster(c) ==
  /\ Begins(c, "createCluster") /\ Accepted(Requested(c))
  /\ clusters' = clusters \cup {Requested(c).cluster}
  /\ AlloyAnswers(c)
  /\ UNCHANGED <<alloyRows, clusterUsers, backups, leftFiles, planeVars>>

CreateInstance(c) ==
  /\ Begins(c, "createInstance") /\ Accepted(Requested(c))
  /\ alloyRows' = [alloyRows EXCEPT ![Requested(c).inst] = Requested(c).type]
  /\ Asks(Requested(c).inst, Job("start", {DefaultDatabase}, c))
  /\ AlloyWaits(c, "start", {})
  /\ UNCHANGED <<clusters, clusterUsers, backups, leftFiles>>

InstanceStarted(c, ok) ==
  /\ Holds(c, "start")
  /\ \/ ok /\ JobEnds(Requested(c).inst, c, ok, <<>>) /\ AlloyAnswers(c)
     \/ /\ ~ok /\ JobEnds(Requested(c).inst, c, ok, <<Job("drop", {}, c)>>)
        /\ AlloyWaits(c, "rollback", {})
  /\ UNCHANGED <<alloyRowVars, leftFiles>>

WithoutRows(is) == alloyRows' = [i \in AlloyInstances |-> IF i \in is THEN NoRow ELSE alloyRows[i]]
NotesDrop(i, ok) == leftFiles' = IF ok THEN leftFiles \ {i} ELSE leftFiles \cup {i}

(* rollbackFailedCreate(): the row goes even when the drop failed.           *)
RolledBack(c, ok) ==
  /\ Holds(c, "rollback")
  /\ JobEnds(Requested(c).inst, c, ok, <<>>) /\ AlloyAnswers(c)
  /\ NotesDrop(Requested(c).inst, ok)
  /\ WithoutRows({Requested(c).inst})
  /\ UNCHANGED <<clusters, clusterUsers, backups>>

UpdateInstance(c) ==
  /\ Begins(c, "updateInstance") /\ Accepted(Requested(c))
  /\ alloyRows' = [alloyRows EXCEPT ![Requested(c).inst] = Requested(c).type]
  /\ AlloyAnswers(c)
  /\ UNCHANGED <<clusters, clusterUsers, backups, leftFiles, planeVars>>

DeleteInstance(c) ==
  /\ Begins(c, "deleteInstance") /\ Accepted(Requested(c))
  /\ Asks(Requested(c).inst, Job("drop", {}, c))
  /\ AlloyWaits(c, "drop", {})
  /\ UNCHANGED <<alloyRowVars, leftFiles>>

(* A drop that throws leaves the row.                                        *)
InstanceDropped(c, ok) ==
  /\ Holds(c, "drop") /\ Requested(c).what = "deleteInstance"
  /\ JobEnds(Requested(c).inst, c, ok, <<>>) /\ AlloyAnswers(c)
  /\ NotesDrop(Requested(c).inst, ok)
  /\ WithoutRows(IF ok THEN {Requested(c).inst} ELSE {})
  /\ UNCHANGED <<clusters, clusterUsers, backups>>

(* The end of deleteClusterExclusively(): instances, users, cluster.         *)
ClusterGone(cl) ==
  /\ WithoutRows(InCluster(cl))
  /\ clusterUsers' = clusterUsers \ {cl} /\ clusters' = clusters \ {cl}
  /\ UNCHANGED backups

DeleteCluster(c) ==
  /\ Begins(c, "deleteCluster") /\ Accepted(Requested(c))
  /\ LET its == Requested(c).cluster IN
       \/ InCluster(its) = {} /\ ClusterGone(its) /\ AlloyAnswers(c) /\ UNCHANGED planeVars
       \/ \E i \in InCluster(its) :
            /\ Asks(i, Job("drop", {}, c)) /\ AlloyWaits(c, "drop", InCluster(its) \ {i})
            /\ UNCHANGED alloyRowVars
  /\ UNCHANGED leftFiles

(* A drop that throws does not stop the cascade.                             *)
ChildDropped(c, i, ok) ==
  /\ Holds(c, "drop") /\ Requested(c).what = "deleteCluster"
  /\ NotesDrop(i, ok)
  /\ \/ /\ alloyCalls[c].left = {}
        /\ JobEnds(i, c, ok, <<>>) /\ ClusterGone(Requested(c).cluster) /\ AlloyAnswers(c)
     \/ \E o \in alloyCalls[c].left :
          /\ JobMoves(i, o, c, ok)
          /\ AlloyWaits(c, "drop", alloyCalls[c].left \ {o})
          /\ UNCHANGED alloyRowVars

ChangeUser(c) ==
  /\ (Begins(c, "createUser") \/ Begins(c, "deleteUser")) /\ Accepted(Requested(c))
  /\ clusterUsers' = IF Requested(c).what = "createUser" THEN clusterUsers \cup {Requested(c).cluster}
                     ELSE clusterUsers \ {Requested(c).cluster}
  /\ AlloyAnswers(c)
  /\ UNCHANGED <<clusters, alloyRows, backups, leftFiles, planeVars>>

(* createBackup() reads the cluster without its key; a backup outlives it.   *)
ChangeBackup(b) ==
  /\ \/ b \notin backups /\ clusters # {} /\ backups' = backups \cup {b}
     \/ b \in backups /\ backups' = backups \ {b}
  /\ UNCHANGED <<clusters, alloyRows, clusterUsers, clusterQueue, alloyCalls, leftFiles, planeVars>>

(* The process ends, its requests with it, and rehydrateDataPlane() runs.    *)
AlloyRestarts ==
  /\ clusterQueue' = [cl \in Clusters |-> <<>>]
  /\ alloyCalls' = [c \in AlloyCalls |-> NoRow]
  /\ LET rows == {i \in AlloyInstances : alloyRows[i] # NoRow} IN
       \E up \in SUBSET rows : Rehydrated(rows, up, [i \in up |-> {DefaultDatabase}])
  /\ leftFiles' = leftFiles \cup {i \in AlloyInstances : planeJobs[i] # <<>>}
  /\ UNCHANGED alloyRowVars

AlloyTurn(c) ==
  \/ Refused(c)
  \/ CreateCluster(c) \/ CreateInstance(c) \/ UpdateInstance(c) \/ ChangeUser(c)
  \/ DeleteInstance(c) \/ DeleteCluster(c)
  \/ \E ok \in BOOLEAN : \/ InstanceStarted(c, ok) \/ RolledBack(c, ok) \/ InstanceDropped(c, ok)
                         \/ \E i \in AlloyInstances : ChildDropped(c, i, ok)

AlloyNext ==
  \/ \E c \in AlloyCalls : \E r \in AlloyRequests :
       ("inst" \in DOMAIN r => ClusterOf[r.inst] = r.cluster) /\ AlloyArrives(c, r)
  \/ \E c \in AlloyCalls : AlloyTurn(c)
  \/ \E b \in AlloyBackups : ChangeBackup(b)
  \/ AlloyRestarts

AlloySpec == AlloyInit /\ [][AlloyNext]_alloyVars

-----------------------------------------------------------------------------

AlloyTypeOK ==
  /\ clusters \subseteq Clusters /\ clusterUsers \subseteq Clusters /\ backups \subseteq AlloyBackups
  /\ alloyRows \in [AlloyInstances -> {Primary, ReadPool, NoRow}]
  /\ clusterQueue \in [Clusters -> Seq(AlloyCalls)]
  /\ alloyCalls \in [AlloyCalls -> AlloyRecords \cup {NoRow}]
  /\ leftFiles \subseteq AlloyInstances
  /\ PlaneTypeOK

(* No instance and no user is left under a cluster that is gone, however its *)
(* deletion and their creation meet (instance-service.ts lines 105-108).     *)
ChildrenHaveTheirCluster ==
  /\ \A i \in AlloyInstances : alloyRows[i] # NoRow => ClusterOf[i] \in clusters
  /\ clusterUsers \subseteq clusters

(* A cluster has one primary at most, and one if it has read pools, through  *)
(* creations, type changes, failed creations and deletions (lines 440-510).  *)
PlacementHolds ==
  \A cl \in Clusters :
    LET primaries == {i \in InCluster(cl) : alloyRows[i] = Primary}
    IN  /\ \A i, o \in primaries : i = o
        /\ InCluster(cl) # {} => primaries # {}

(* An endpoint belongs to an instance that has a row, whatever starts and    *)
(* drops fail, and wherever the process ends.                                *)
AlloyEndpointsHaveRows == \A i \in AlloyInstances : i \in listening => alloyRows[i] # NoRow

(* "a later cluster of the same name would inherit half-built Postgres       *)
(* directories": only a drop that failed or was cut short leaves files.      *)
AlloyFilesHaveRows ==
  \A i \in AlloyInstances \ leftFiles : alloyRows[i] = NoRow => planeFiles[i] = {}

(* Rows, placement, endpoints and files of AlloyDB agree, between the steps  *)
(* of requests that fail, cross each other and are cut short.                *)
AlloyInvariant ==
  /\ AlloyTypeOK /\ ChildrenHaveTheirCluster /\ PlacementHolds
  /\ AlloyEndpointsHaveRows /\ AlloyFilesHaveRows
=============================================================================
