------------------------ MODULE PlaneServicesProofs -------------------------
(***************************************************************************)
(* Theorems about the services that keep rows about servers with ports of  *)
(* their own, for any instances, requests and bounds: AlloyDb and CloudSql,*)
(* whose instances the Postgres data plane serves, and Memorystore, which  *)
(* starts a valkey-server for each.                                        *)
(***************************************************************************)
EXTENDS AlloyDb, CloudSql, Memorystore,
        SequenceTheorems, FiniteSetTheorems, WellFoundedInduction, TLAPS

-----------------------------------------------------------------------------
(* AlloyDB.  A request that got past its checks is at the head of the queue  *)
(* of its cluster, and every job at an instance is that of such a request;   *)
(* so there is one at most for each cluster, and what its checks found stays *)
(* true of the rows until its job has ended.                                 *)
Working(c) == alloyCalls[c] # NoRow /\ alloyCalls[c].stage # "arrived"

JobOf(c) ==
  IF alloyCalls[c].stage = "start" THEN Job("start", {DefaultDatabase}, c) ELSE Job("drop", {}, c)

WaitsFor(c, i) == Working(c) /\ planeJobs[i] = <<JobOf(c)>>

KeysAreQueued ==
  /\ \A cl \in Clusters : \A k, m \in 1..Len(clusterQueue[cl]) :
       clusterQueue[cl][k] = clusterQueue[cl][m] => k = m
  /\ \A cl \in Clusters : \A k \in 1..Len(clusterQueue[cl]) :
       alloyCalls[clusterQueue[cl][k]] # NoRow /\ Requested(clusterQueue[cl][k]).cluster = cl
  /\ \A c \in AlloyCalls : alloyCalls[c] # NoRow =>
       \E k \in 1..Len(clusterQueue[Requested(c).cluster]) :
         /\ clusterQueue[Requested(c).cluster][k] = c
         /\ Working(c) => k = 1

RequestsFit ==
  \A c \in AlloyCalls : alloyCalls[c] # NoRow =>
    /\ Requested(c).what \in {"createInstance", "updateInstance", "deleteInstance"} =>
         ClusterOf[Requested(c).inst] = Requested(c).cluster
    /\ alloyCalls[c].stage \in {"start", "rollback"} => Requested(c).what = "createInstance"
    /\ alloyCalls[c].stage = "drop" => Requested(c).what \in {"deleteInstance", "deleteCluster"}

JobsAreAwaited ==
  /\ \A i \in AlloyInstances : planeJobs[i] # <<>> => \E c \in AlloyCalls : WaitsFor(c, i)
  /\ \A c \in AlloyCalls : \A i \in AlloyInstances : WaitsFor(c, i) =>
       /\ ClusterOf[i] = Requested(c).cluster /\ alloyRows[i] # NoRow
       /\ IF Requested(c).what = "deleteCluster" THEN i \notin alloyCalls[c].left
          ELSE i = Requested(c).inst
  /\ \A c \in AlloyCalls : \A i, o \in AlloyInstances : WaitsFor(c, i) /\ WaitsFor(c, o) => i = o

IsEmptied(i) == i \notin listening /\ (i \in leftFiles \/ planeFiles[i] = {})

ChecksStay ==
  \A c \in AlloyCalls : Working(c) =>
    LET r == Requested(c) IN
    /\ r.what = "createInstance" =>
         alloyRows[r.inst] = r.type /\ (r.type = Primary => InCluster(r.cluster) = {r.inst})
    /\ r.what = "deleteInstance" => alloyRows[r.inst] # NoRow /\ CanRemove(r.inst)
    /\ r.what = "deleteCluster" =>
         /\ alloyCalls[c].left \subseteq InCluster(r.cluster)
         /\ \A i \in InCluster(r.cluster) \ alloyCalls[c].left : WaitsFor(c, i) \/ IsEmptied(i)

AlloyIInv ==
  AlloyInvariant /\ KeysAreQueued /\ RequestsFit /\ JobsAreAwaited /\ ChecksStay

(* The same, one cluster and one request at a time: what the rows, endpoints *)
(* and files of a cluster owe each other, and what a request at work owes.   *)
ClusterIsSound(cl) ==
  /\ cl \in clusterUsers => cl \in clusters
  /\ \A i, o \in InCluster(cl) : alloyRows[i] = Primary /\ alloyRows[o] = Primary => i = o
  /\ InCluster(cl) # {} => \E i \in InCluster(cl) : alloyRows[i] = Primary
  /\ \A i \in AlloyInstances : ClusterOf[i] = cl =>
       /\ alloyRows[i] # NoRow => cl \in clusters
       /\ i \in listening => alloyRows[i] # NoRow
       /\ i \notin leftFiles /\ alloyRows[i] = NoRow => planeFiles[i] = {}

ChecksOf(c) ==
  LET r == Requested(c) IN
  /\ r.what = "createInstance" =>
       alloyRows[r.inst] = r.type /\ (r.type = Primary => InCluster(r.cluster) = {r.inst})
  /\ r.what = "deleteInstance" => alloyRows[r.inst] # NoRow /\ CanRemove(r.inst)
  /\ r.what = "deleteCluster" =>
       /\ alloyCalls[c].left \subseteq InCluster(r.cluster)
       /\ \A i \in InCluster(r.cluster) \ alloyCalls[c].left : WaitsFor(c, i) \/ IsEmptied(i)

LEMMA SoundByCluster ==
  ASSUME clusters \subseteq Clusters, clusterUsers \subseteq Clusters
  PROVE  (\A cl \in Clusters : ClusterIsSound(cl))
         <=> /\ ChildrenHaveTheirCluster /\ PlacementHolds
             /\ AlloyEndpointsHaveRows /\ AlloyFilesHaveRows
<1> USE AlloyAssumption
<1>1. ASSUME \A cl \in Clusters : ClusterIsSound(cl)
      PROVE  ChildrenHaveTheirCluster /\ AlloyEndpointsHaveRows /\ AlloyFilesHaveRows
  BY <1>1 DEF ClusterIsSound, ChildrenHaveTheirCluster, AlloyEndpointsHaveRows, AlloyFilesHaveRows
<1>2. ASSUME \A cl \in Clusters : ClusterIsSound(cl)  PROVE PlacementHolds
  BY <1>2 DEF ClusterIsSound, PlacementHolds, InCluster
<1>3. ASSUME ChildrenHaveTheirCluster, PlacementHolds, AlloyEndpointsHaveRows, AlloyFilesHaveRows,
             NEW cl \in Clusters
      PROVE  ClusterIsSound(cl)
  BY <1>3 DEF ClusterIsSound, ChildrenHaveTheirCluster, PlacementHolds, InCluster,
              AlloyEndpointsHaveRows, AlloyFilesHaveRows
<1> QED
  BY <1>1, <1>2, <1>3

LEMMA RequestParts ==
  \A r \in AlloyRequests :
    /\ r.cluster \in Clusters
    /\ r.what \in {"createCluster", "deleteCluster", "createInstance", "updateInstance",
                   "deleteInstance", "createUser", "deleteUser"}
    /\ r.what \in {"createInstance", "updateInstance", "deleteInstance"} =>
         r.inst \in AlloyInstances /\ "inst" \in DOMAIN r
    /\ r.what \in {"createInstance", "updateInstance"} => r.type \in {Primary, ReadPool}
BY DEF AlloyRequests

LEMMA RecordParts ==
  /\ \A call \in AlloyRecords :
       /\ call # NoRow /\ call.request \in AlloyRequests
       /\ call.stage \in AlloyStages /\ call.left \subseteq AlloyInstances
  /\ \A r \in AlloyRequests : \A stage \in AlloyStages : \A left \in SUBSET AlloyInstances :
       [request |-> r, stage |-> stage, left |-> left] \in AlloyRecords
BY AlloyAssumption DEF AlloyRecords

LEMMA CallParts ==
  ASSUME AlloyTypeOK, NEW c \in AlloyCalls, alloyCalls[c] # NoRow
  PROVE  /\ alloyCalls[c] \in AlloyRecords /\ Requested(c) \in AlloyRequests
         /\ Requested(c).cluster \in Clusters
         /\ alloyCalls[c].stage \in AlloyStages /\ alloyCalls[c].left \subseteq AlloyInstances
         /\ Requested(c).what \in {"createInstance", "updateInstance", "deleteInstance"} =>
              Requested(c).inst \in AlloyInstances
BY RecordParts, RequestParts DEF AlloyTypeOK, Requested

-----------------------------------------------------------------------------
(* The queues of the clusters.                                               *)

(* Two requests at the head of one queue are the same.                       *)
LEMMA OneAtWork ==
  ASSUME AlloyTypeOK, KeysAreQueued, NEW c \in AlloyCalls, NEW d \in AlloyCalls,
         NEW stage, Holds(c, stage), Working(d), Requested(d).cluster = Requested(c).cluster
  PROVE  d = c
<1>1. alloyCalls[c] # NoRow /\ alloyCalls[d] # NoRow
  BY DEF Holds, Working
<1>2. Requested(c).cluster \in Clusters
  BY <1>1, CallParts
<1> DEFINE q == clusterQueue[Requested(c).cluster]
<1>3. q \in Seq(AlloyCalls)
  BY <1>2 DEF AlloyTypeOK
<1>4. Len(q) \in Nat /\ Len(q) >= 1 /\ q[1] = d
  BY <1>1, <1>3 DEF KeysAreQueued
<1>5. Head(q) = c
  BY DEF Holds, Requested
<1> HIDE DEF q
<1> QED
  BY <1>3, <1>4, <1>5

QueueInv == KeysAreQueued /\ RequestsFit

(* A call that stays in its place: KeysAreQueued reads only the request of a *)
(* call and whether it is at work.                                           *)
LEMMA QueuesWait ==
  ASSUME AlloyTypeOK, QueueInv, NEW c \in AlloyCalls, NEW s, Holds(c, s),
         NEW stage \in AlloyStages, NEW left \in SUBSET AlloyInstances,
         AlloyWaits(c, stage, left),
         stage \in {"start", "rollback"} => Requested(c).what = "createInstance",
         stage = "drop" => Requested(c).what \in {"deleteInstance", "deleteCluster"},
         Working(c) \/ Begins(c, Requested(c).what)
  PROVE  /\ clusterQueue' \in [Clusters -> Seq(AlloyCalls)]
         /\ alloyCalls' \in [AlloyCalls -> AlloyRecords \cup {NoRow}]
         /\ QueueInv'
         /\ \A d \in AlloyCalls : d # c => alloyCalls'[d] = alloyCalls[d]
         /\ alloyCalls'[c] = [request |-> Requested(c), stage |-> stage, left |-> left]
         /\ alloyCalls'[c] # NoRow
<1> DEFINE call == [request |-> Requested(c), stage |-> stage, left |-> left]
<1>1. alloyCalls[c] # NoRow /\ alloyCalls[c] \in AlloyRecords
  BY CallParts DEF Holds
<1>2. \A r \in AlloyRecords : [[r EXCEPT !.stage = stage] EXCEPT !.left = left]
        = [request |-> r.request, stage |-> stage, left |-> left]
  <2>1. \A r \in AlloyRecords :
          [r EXCEPT !.stage = stage] = [request |-> r.request, stage |-> stage, left |-> r.left]
    BY DEF AlloyRecords
  <2>2. \A r : [[request |-> r.request, stage |-> stage, left |-> r.left] EXCEPT !.left = left]
               = [request |-> r.request, stage |-> stage, left |-> left]
    OBVIOUS
  <2> QED
    BY <2>1, <2>2
<1>3. alloyCalls' = [alloyCalls EXCEPT ![c] = call]
  <2>1. alloyCalls' = [alloyCalls EXCEPT ![c] = [[@ EXCEPT !.stage = stage] EXCEPT !.left = left]]
    BY DEF AlloyWaits, AlloyTypeOK
  <2> QED
    BY <1>1, <1>2, <2>1 DEF Requested
<1>4. call \in AlloyRecords /\ call # NoRow
  BY <1>1, CallParts, RecordParts
<1>5. call.request = Requested(c) /\ call.stage = stage /\ call.left = left
  OBVIOUS
<1> HIDE DEF call
<1>6. /\ alloyCalls' \in [AlloyCalls -> AlloyRecords \cup {NoRow}] /\ alloyCalls'[c] = call
      /\ \A d \in AlloyCalls : d # c => alloyCalls'[d] = alloyCalls[d]
  BY <1>3, <1>4 DEF AlloyTypeOK
<1>7. clusterQueue' = clusterQueue
  BY DEF AlloyWaits
<1>8. \A d \in AlloyCalls : /\ alloyCalls'[d] # NoRow <=> alloyCalls[d] # NoRow
                            /\ alloyCalls[d] # NoRow => Requested(d)' = Requested(d)
  BY <1>1, <1>4, <1>5, <1>6 DEF Requested
<1>9. RequestsFit'
  BY <1>4, <1>5, <1>6, <1>8, <1>1 DEF RequestsFit, QueueInv, Requested
<1>10. KeysAreQueued'
  <2>0. /\ clusterQueue \in [Clusters -> Seq(AlloyCalls)]
        /\ \A d \in AlloyCalls : alloyCalls[d] # NoRow => Requested(d).cluster \in Clusters
    BY CallParts DEF AlloyTypeOK
  <2>1. ASSUME NEW d \in AlloyCalls, alloyCalls'[d] # NoRow
        PROVE  \E k \in 1..Len(clusterQueue[Requested(d).cluster]) :
                 /\ clusterQueue[Requested(d).cluster][k] = d
                 /\ Working(d)' => k = 1
    <3>1. CASE d # c
      BY <1>6, <1>8, <2>1, <3>1 DEF KeysAreQueued, Working, QueueInv
    <3>2. CASE d = c
      <4> DEFINE q == clusterQueue[Requested(c).cluster]
      <4>1. q \in Seq(AlloyCalls) /\ Head(q) = c
        BY <1>1, <2>0 DEF Holds, Requested
      <4>2. Len(q) >= 1
        BY <1>1, <2>0, <4>1 DEF KeysAreQueued, QueueInv
      <4> HIDE DEF q
      <4>3. q[1] = c /\ 1 \in 1..Len(q)
        BY <4>1, <4>2
      <4> QED
        BY <3>2, <4>3 DEF q
    <3> QED
      BY <3>1, <3>2
  <2>2. \A cl \in Clusters : \A k \in 1..Len(clusterQueue[cl]) : clusterQueue[cl][k] \in AlloyCalls
    BY <2>0
  <2>3. \A d \in AlloyCalls : alloyCalls'[d] # NoRow => Requested(d)' = Requested(d)
    BY <1>8
  <2>4. ASSUME NEW cl \in Clusters, NEW k \in 1..Len(clusterQueue[cl]),
               NEW d \in AlloyCalls, d = clusterQueue[cl][k]
        PROVE  alloyCalls'[d] # NoRow /\ alloyCalls'[d].request.cluster = cl
    <3>1. alloyCalls[d] # NoRow /\ alloyCalls[d].request.cluster = cl
      BY <2>4 DEF KeysAreQueued, QueueInv, Requested
    <3> QED
      BY <1>8, <3>1 DEF Requested
  <2>5. \A d \in AlloyCalls : alloyCalls'[d] # NoRow =>
          \E k \in 1..Len(clusterQueue[Requested(d)'.cluster]) :
            /\ clusterQueue[Requested(d)'.cluster][k] = d
            /\ Working(d)' => k = 1
    BY <2>1, <2>3
  <2> QED
    BY <1>7, <2>2, <2>4, <2>5 DEF KeysAreQueued, QueueInv, Requested
<1> QED
  BY <1>4, <1>6, <1>7, <1>9, <1>10 DEF AlloyTypeOK, QueueInv, call

(* The holder goes: its cluster's queue moves on by one place.               *)
LEMMA QueuesMove ==
  ASSUME AlloyTypeOK, QueueInv, NEW c \in AlloyCalls, NEW s, Holds(c, s), AlloyAnswers(c)
  PROVE  /\ clusterQueue' \in [Clusters -> Seq(AlloyCalls)]
         /\ alloyCalls' \in [AlloyCalls -> AlloyRecords \cup {NoRow}]
         /\ QueueInv'
         /\ \A d \in AlloyCalls : d # c => alloyCalls'[d] = alloyCalls[d]
         /\ alloyCalls'[c] = NoRow
<1> DEFINE cl == Requested(c).cluster
           q == clusterQueue[cl]
<1>1. alloyCalls[c] # NoRow /\ cl \in Clusters
  BY CallParts DEF Holds
<1>2. q \in Seq(AlloyCalls) /\ Head(q) = c
  BY <1>1 DEF AlloyTypeOK, Holds, Requested
<1>3. Len(q) >= 1 /\ \A k, m \in 1..Len(q) : q[k] = q[m] => k = m
  BY <1>1, <1>2 DEF QueueInv, KeysAreQueued
<1>4. /\ clusterQueue' \in [Clusters -> Seq(AlloyCalls)] /\ clusterQueue'[cl] = Tail(q)
      /\ \A l \in Clusters : l # cl => clusterQueue'[l] = clusterQueue[l]
  <2>1. Tail(q) \in Seq(AlloyCalls)
    BY <1>2, <1>3
  <2>2. clusterQueue' = [clusterQueue EXCEPT ![cl] = Tail(q)]
    BY DEF AlloyAnswers
  <2> HIDE DEF q, cl
  <2> QED
    BY <1>1, <2>1, <2>2 DEF AlloyTypeOK
<1>5. /\ alloyCalls' \in [AlloyCalls -> AlloyRecords \cup {NoRow}] /\ alloyCalls'[c] = NoRow
      /\ \A d \in AlloyCalls : d # c => alloyCalls'[d] = alloyCalls[d]
  BY DEF AlloyAnswers, AlloyTypeOK
<1> HIDE DEF q
<1>6. /\ Len(Tail(q)) = Len(q) - 1
      /\ \A k \in 1..Len(Tail(q)) : k + 1 \in 1..Len(q) /\ k + 1 # 1 /\ Tail(q)[k] = q[k + 1]
  BY <1>2, <1>3
<1>7. q[1] = c /\ 1 \in 1..Len(q) /\ Len(q) \in Nat
  BY <1>2, <1>3
<1>8. \A k \in 1..Len(Tail(q)) : Tail(q)[k] \in AlloyCalls \ {c}
  <2> SUFFICES ASSUME NEW k \in 1..Len(Tail(q))  PROVE Tail(q)[k] \in AlloyCalls \ {c}
    OBVIOUS
  <2>1. k + 1 \in 1..Len(q) /\ k + 1 # 1 /\ Tail(q)[k] = q[k + 1]
    BY <1>6
  <2>2. q[k + 1] \in AlloyCalls /\ q[k + 1] # q[1]
    BY <1>2, <1>3, <1>7, <2>1
  <2> QED
    BY <1>7, <2>1, <2>2
<1>9. \A l \in Clusters : \A k \in 1..Len(clusterQueue[l]) :
        /\ clusterQueue[l][k] \in AlloyCalls /\ alloyCalls[clusterQueue[l][k]] # NoRow
        /\ alloyCalls[clusterQueue[l][k]].request.cluster = l
  BY DEF AlloyTypeOK, QueueInv, KeysAreQueued, Requested
<1>10. \A l \in Clusters : \A k, m \in 1..Len(clusterQueue'[l]) :
         clusterQueue'[l][k] = clusterQueue'[l][m] => k = m
  <2> SUFFICES ASSUME NEW l \in Clusters, NEW k \in 1..Len(clusterQueue'[l]),
                      NEW m \in 1..Len(clusterQueue'[l]), clusterQueue'[l][k] = clusterQueue'[l][m]
               PROVE  k = m
    OBVIOUS
  <2>1. CASE l # cl
    BY <1>4, <2>1 DEF QueueInv, KeysAreQueued
  <2>2. CASE l = cl
    <3>1. k + 1 \in 1..Len(q) /\ m + 1 \in 1..Len(q) /\ q[k + 1] = q[m + 1] /\ k \in Nat /\ m \in Nat
      <4>1. k \in 1..Len(Tail(q)) /\ m \in 1..Len(Tail(q)) /\ Tail(q)[k] = Tail(q)[m]
        BY <1>4, <2>2
      <4> QED
        BY <1>6, <4>1
    <3>2. k + 1 = m + 1
      BY <1>3, <3>1
    <3> QED
      BY <3>1, <3>2
  <2> QED
    BY <2>1, <2>2
<1>11. ASSUME NEW l \in Clusters, NEW k \in 1..Len(clusterQueue'[l]),
              NEW d \in AlloyCalls, d = clusterQueue'[l][k]
       PROVE  alloyCalls'[d] # NoRow /\ alloyCalls'[d].request.cluster = l
  <2>1. d # c /\ alloyCalls[d] # NoRow /\ alloyCalls[d].request.cluster = l
    <3>1. CASE l # cl
      <4>1. d = clusterQueue[l][k] /\ k \in 1..Len(clusterQueue[l])
        BY <1>4, <1>11, <3>1
      <4> QED
        BY <1>9, <3>1, <4>1 DEF cl, Requested
    <3>2. CASE l = cl
      <4>1. d = q[k + 1] /\ k + 1 \in 1..Len(q) /\ d # c
        BY <1>4, <1>6, <1>8, <1>11, <3>2
      <4> QED
        BY <1>9, <1>1, <3>2, <4>1 DEF q
    <3> QED
      BY <3>1, <3>2
  <2> QED
    BY <1>5, <2>1
<1>12. ASSUME NEW d \in AlloyCalls, alloyCalls'[d] # NoRow
       PROVE  \E k \in 1..Len(clusterQueue'[alloyCalls'[d].request.cluster]) :
                /\ clusterQueue'[alloyCalls'[d].request.cluster][k] = d
                /\ Working(d)' => k = 1
  <2>1. d # c /\ alloyCalls'[d] = alloyCalls[d] /\ alloyCalls[d].request.cluster \in Clusters
    BY <1>5, <1>12, CallParts DEF Requested
  <2>2. PICK k \in 1..Len(clusterQueue[alloyCalls[d].request.cluster]) :
          /\ clusterQueue[alloyCalls[d].request.cluster][k] = d
          /\ Working(d) => k = 1
    BY <1>12, <2>1 DEF QueueInv, KeysAreQueued, Requested
  <2>3. CASE alloyCalls[d].request.cluster # cl
    BY <1>4, <2>1, <2>2, <2>3 DEF Working
  <2>4. CASE alloyCalls[d].request.cluster = cl
    <3>1. k # 1 /\ ~Working(d) /\ q[k] = d /\ k \in 1..Len(q)
      BY <1>7, <2>1, <2>2, <2>4 DEF q
    <3>2. k - 1 \in 1..Len(Tail(q)) /\ Tail(q)[k - 1] = d
      BY <1>2, <1>3, <1>6, <3>1
    <3>3. ~Working(d)'
      BY <2>1, <3>1 DEF Working
    <3> QED
      BY <1>4, <2>1, <2>4, <3>2, <3>3
  <2> QED
    BY <2>3, <2>4
<1>13. KeysAreQueued'
  <2>1. \A l \in Clusters : \A k \in 1..Len(clusterQueue'[l]) : clusterQueue'[l][k] \in AlloyCalls
    BY <1>4
  <2> QED
    BY <1>10, <1>11, <1>12, <2>1 DEF KeysAreQueued, Requested
<1>14. RequestsFit'
  BY <1>5 DEF QueueInv, RequestsFit, Requested
<1> QED
  BY <1>4, <1>5, <1>13, <1>14 DEF QueueInv

(* A request takes the last place.                                           *)
LEMMA QueuesGrow ==
  ASSUME AlloyTypeOK, QueueInv, NEW c \in AlloyCalls, NEW r \in AlloyRequests,
         "inst" \in DOMAIN r => ClusterOf[r.inst] = r.cluster, AlloyArrives(c, r)
  PROVE  /\ clusterQueue' \in [Clusters -> Seq(AlloyCalls)]
         /\ alloyCalls' \in [AlloyCalls -> AlloyRecords \cup {NoRow}]
         /\ QueueInv'
         /\ \A d \in AlloyCalls : d # c => alloyCalls'[d] = alloyCalls[d]
         /\ ~Working(c) /\ ~Working(c)'
<1> DEFINE cl == r.cluster
           q == clusterQueue[cl]
           call == [request |-> r, stage |-> "arrived", left |-> {}]
<1>1. cl \in Clusters /\ q \in Seq(AlloyCalls)
  BY RequestParts DEF AlloyTypeOK
<1>2. call \in AlloyRecords /\ call # NoRow /\ call.request = r /\ call.stage = "arrived"
  BY RecordParts DEF AlloyStages
<1>3. alloyCalls[c] = NoRow
  BY DEF AlloyArrives
<1>4. /\ clusterQueue' \in [Clusters -> Seq(AlloyCalls)] /\ clusterQueue'[cl] = Append(q, c)
      /\ \A l \in Clusters : l # cl => clusterQueue'[l] = clusterQueue[l]
  <2>1. Append(q, c) \in Seq(AlloyCalls)
    BY <1>1
  <2>2. clusterQueue' = [clusterQueue EXCEPT ![cl] = Append(q, c)]
    BY DEF AlloyArrives
  <2> HIDE DEF q, cl
  <2> QED
    BY <1>1, <2>1, <2>2 DEF AlloyTypeOK
<1>5. alloyCalls' = [alloyCalls EXCEPT ![c] = call]
  BY DEF AlloyArrives
<1> HIDE DEF call, q
<1>6. /\ alloyCalls' \in [AlloyCalls -> AlloyRecords \cup {NoRow}] /\ alloyCalls'[c] = call
      /\ \A d \in AlloyCalls : d # c => alloyCalls'[d] = alloyCalls[d]
  BY <1>2, <1>5 DEF AlloyTypeOK
<1>7. /\ Len(Append(q, c)) = Len(q) + 1 /\ Append(q, c)[Len(q) + 1] = c /\ Len(q) \in Nat
      /\ \A k \in 1..Len(q) : Append(q, c)[k] = q[k]
  BY <1>1
<1>8. \A l \in Clusters : \A k \in 1..Len(clusterQueue[l]) :
        /\ clusterQueue[l][k] \in AlloyCalls \ {c}
        /\ alloyCalls[clusterQueue[l][k]] # NoRow
        /\ alloyCalls[clusterQueue[l][k]].request.cluster = l
  BY <1>3 DEF AlloyTypeOK, QueueInv, KeysAreQueued, Requested
<1>9. \A l \in Clusters : \A k, m \in 1..Len(clusterQueue'[l]) :
        clusterQueue'[l][k] = clusterQueue'[l][m] => k = m
  <2> SUFFICES ASSUME NEW l \in Clusters, NEW k \in 1..Len(clusterQueue'[l]),
                      NEW m \in 1..Len(clusterQueue'[l]), clusterQueue'[l][k] = clusterQueue'[l][m]
               PROVE  k = m
    OBVIOUS
  <2>1. CASE l # cl
    BY <1>4, <2>1 DEF QueueInv, KeysAreQueued
  <2>2. CASE l = cl
    <3>1. \A j \in 1..Len(q) : q[j] # c
      BY <1>1, <1>8 DEF q
    <3>2. \A j, o \in 1..Len(q) : q[j] = q[o] => j = o
      BY <1>1 DEF q, QueueInv, KeysAreQueued
    <3>3. /\ k = Len(q) + 1 \/ k \in 1..Len(q)
          /\ m = Len(q) + 1 \/ m \in 1..Len(q)
          /\ Append(q, c)[k] = Append(q, c)[m]
      BY <1>4, <1>7, <2>2
    <3> QED
      BY <1>7, <3>1, <3>2, <3>3
  <2> QED
    BY <2>1, <2>2
<1>10. ASSUME NEW l \in Clusters, NEW k \in 1..Len(clusterQueue'[l]),
              NEW d \in AlloyCalls, d = clusterQueue'[l][k]
       PROVE  alloyCalls'[d] # NoRow /\ alloyCalls'[d].request.cluster = l
  <2>1. CASE l # cl \/ k \in 1..Len(q)
    <3>1. d = clusterQueue[l][k] /\ k \in 1..Len(clusterQueue[l])
      BY <1>4, <1>7, <1>10, <2>1 DEF q
    <3> QED
      BY <1>6, <1>8, <3>1
  <2>2. CASE l = cl /\ k \notin 1..Len(q)
    <3>1. k = Len(q) + 1 /\ d = c
      BY <1>4, <1>7, <1>10, <2>2
    <3> QED
      BY <1>2, <1>6, <2>2, <3>1
  <2> QED
    BY <2>1, <2>2
<1>11. ~Working(c) /\ ~Working(c)'
  BY <1>2, <1>3, <1>6 DEF Working
<1>12. ASSUME NEW d \in AlloyCalls, alloyCalls'[d] # NoRow
       PROVE  \E k \in 1..Len(clusterQueue'[alloyCalls'[d].request.cluster]) :
                /\ clusterQueue'[alloyCalls'[d].request.cluster][k] = d
                /\ Working(d)' => k = 1
  <2>1. CASE d = c
    <3>1. alloyCalls'[d].request.cluster = cl /\ Len(q) + 1 \in 1..Len(clusterQueue'[cl])
      BY <1>2, <1>4, <1>6, <1>7, <2>1
    <3> QED
      BY <1>4, <1>7, <1>11, <2>1, <3>1
  <2>2. CASE d # c
    <3>1. alloyCalls'[d] = alloyCalls[d] /\ alloyCalls[d].request.cluster \in Clusters
      BY <1>6, <1>12, <2>2, CallParts DEF Requested
    <3>2. PICK k \in 1..Len(clusterQueue[alloyCalls[d].request.cluster]) :
            /\ clusterQueue[alloyCalls[d].request.cluster][k] = d
            /\ Working(d) => k = 1
      BY <1>12, <3>1 DEF QueueInv, KeysAreQueued, Requested
    <3>3. \A l \in Clusters : \A j \in 1..Len(clusterQueue[l]) :
            j \in 1..Len(clusterQueue'[l]) /\ clusterQueue'[l][j] = clusterQueue[l][j]
      BY <1>4, <1>7 DEF q
    <3>4. Working(d)' => Working(d)
      BY <3>1 DEF Working
    <3> QED
      BY <3>1, <3>2, <3>3, <3>4
  <2> QED
    BY <2>1, <2>2
<1>13. KeysAreQueued'
  <2>1. \A l \in Clusters : \A k \in 1..Len(clusterQueue'[l]) : clusterQueue'[l][k] \in AlloyCalls
    BY <1>4
  <2> QED
    BY <1>9, <1>10, <1>12, <2>1 DEF KeysAreQueued, Requested
<1>14. RequestsFit'
  <2>1. ASSUME NEW d \in AlloyCalls, d # c, alloyCalls'[d] # NoRow
        PROVE  /\ alloyCalls'[d].request.what \in {"createInstance", "updateInstance", "deleteInstance"} =>
                    ClusterOf[alloyCalls'[d].request.inst] = alloyCalls'[d].request.cluster
               /\ alloyCalls'[d].stage \in {"start", "rollback"} =>
                    alloyCalls'[d].request.what = "createInstance"
               /\ alloyCalls'[d].stage = "drop" =>
                    alloyCalls'[d].request.what \in {"deleteInstance", "deleteCluster"}
    BY <1>6, <2>1 DEF QueueInv, RequestsFit, Requested
  <2>2. r.what \in {"createInstance", "updateInstance", "deleteInstance"} => ClusterOf[r.inst] = r.cluster
    BY RequestParts
  <2> QED
    BY <1>2, <1>6, <2>1, <2>2 DEF RequestsFit, Requested
<1> QED
  BY <1>4, <1>6, <1>11, <1>13, <1>14 DEF QueueInv

-----------------------------------------------------------------------------
(* The jobs of the data plane, one instance at a time.                       *)

LEMMA JobParts ==
  /\ \A what \in {"start", "drop", "open", "dropDatabase"} :
       \A dbs \in SUBSET PlaneDatabases : \A c \in PlaneCallers :
         /\ Job(what, dbs, c) \in PlaneJobs
         /\ Job(what, dbs, c).what = what /\ Job(what, dbs, c).databases = dbs
         /\ Job(what, dbs, c).caller = c
  /\ \A c \in AlloyCalls :
       /\ JobOf(c) \in PlaneJobs /\ JobOf(c).caller = c
       /\ alloyCalls[c].stage = "start" => JobOf(c).what = "start" /\ JobOf(c).databases = {DefaultDatabase}
       /\ alloyCalls[c].stage # "start" => JobOf(c).what = "drop"
BY AlloyAssumption DEF Job, JobOf, PlaneJobs

(* A place in a queue is all that changes where nothing is done.             *)
LEMMA PlaneAsked ==
  ASSUME PlaneTypeOK, NEW i \in PlaneInstances, NEW job \in PlaneJobs, Asks(i, job)
  PROVE  /\ PlaneTypeOK'
         /\ planeJobs'[i] = Append(planeJobs[i], job)
         /\ \A o \in PlaneInstances : o # i => planeJobs'[o] = planeJobs[o]
         /\ listening' = listening /\ serves' = serves /\ planeFiles' = planeFiles
<1>1. planeJobs[i] \in Seq(PlaneJobs) /\ Append(planeJobs[i], job) \in Seq(PlaneJobs)
  BY DEF PlaneTypeOK
<1>2. planeJobs' = [planeJobs EXCEPT ![i] = Append(planeJobs[i], job)]
  BY DEF Asks
<1> DEFINE q == Append(planeJobs[i], job)
<1> HIDE DEF q
<1>3. /\ planeJobs' \in [PlaneInstances -> Seq(PlaneJobs)] /\ planeJobs'[i] = q
      /\ \A o \in PlaneInstances : o # i => planeJobs'[o] = planeJobs[o]
  BY <1>1, <1>2 DEF PlaneTypeOK, q
<1> QED
  BY <1>3 DEF Asks, PlaneTypeOK, q

(* What the end of a job does to the endpoints and files: those of the other *)
(* instances stay as they are.                                               *)
EndsOf(i, job, ok) ==
  \/ job.what = "start" /\ Starts(i, job.databases, ok)
  \/ job.what = "drop" /\ Drops(i, ok)
  \/ job.what = "open" /\ Opens(i, job.databases, ok)
  \/ job.what = "dropDatabase" /\ DropsDatabase(i, job.databases, ok)

EndedAs(i, job, ok) ==
  /\ listening' \subseteq PlaneInstances
  /\ serves' \in [PlaneInstances -> SUBSET PlaneDatabases]
  /\ planeFiles' \in [PlaneInstances -> SUBSET PlaneDatabases]
  /\ \A o \in PlaneInstances \ listening' : serves'[o] = {}
  /\ \A o \in PlaneInstances : o # i =>
       /\ o \in listening' <=> o \in listening
       /\ serves'[o] = serves[o] /\ planeFiles'[o] = planeFiles[o]
  /\ job.what = "start" =>
       /\ i \in listening' <=> ok
       /\ ok => serves'[i] = job.databases
  /\ job.what = "drop" => i \notin listening' /\ (ok => planeFiles'[i] = {})
  /\ job.what = "open" =>
       /\ i \in listening' <=> i \in listening
       /\ serves'[i] = IF ok /\ i \in listening THEN serves[i] \cup job.databases ELSE serves[i]
  /\ job.what = "dropDatabase" =>
       /\ i \in listening' <=> i \in listening
       /\ serves'[i] = serves[i] \ job.databases

LEMMA PlaneEnds ==
  ASSUME PlaneTypeOK, NEW i \in PlaneInstances, NEW job \in PlaneJobs, NEW ok \in BOOLEAN,
         EndsOf(i, job, ok)
  PROVE  EndedAs(i, job, ok)
<1> DEFINE dbs == job.databases
<1>1. dbs \in SUBSET PlaneDatabases /\ job.what \in {"start", "drop", "open", "dropDatabase"}
  BY DEF PlaneJobs
<1>2. /\ serves \in [PlaneInstances -> SUBSET PlaneDatabases]
      /\ planeFiles \in [PlaneInstances -> SUBSET PlaneDatabases]
      /\ listening \subseteq PlaneInstances
      /\ \A o \in PlaneInstances \ listening : serves[o] = {}
  BY DEF PlaneTypeOK
<1> HIDE DEF dbs
<1>3. CASE job.what = "start"
  <2>1. Starts(i, dbs, ok)
    BY <1>3 DEF EndsOf, dbs
  <2>2. PICK written \in {dbs} \cup (IF ok THEN {} ELSE {{}}) :
          planeFiles' = [planeFiles EXCEPT ![i] = @ \cup written]
    BY <2>1 DEF Starts
  <2>3. written \in SUBSET PlaneDatabases
    BY <1>1, <2>2
  <2>4. /\ planeFiles' \in [PlaneInstances -> SUBSET PlaneDatabases]
        /\ \A o \in PlaneInstances : o # i => planeFiles'[o] = planeFiles[o]
    BY <1>2, <2>2, <2>3
  <2> QED
    BY <1>1, <1>2, <1>3, <2>1, <2>4 DEF Starts, dbs, EndedAs
<1>4. CASE job.what = "drop"
  <2>1. Drops(i, ok)
    BY <1>4 DEF EndsOf
  <2> QED
    BY <1>1, <1>2, <1>4, <2>1 DEF Drops, EndedAs
<1>5. CASE job.what = "open"
  <2>1. Opens(i, dbs, ok)
    BY <1>5 DEF EndsOf, dbs
  <2> QED
    BY <1>1, <1>2, <1>5, <2>1 DEF Opens, dbs, EndedAs
<1>6. CASE job.what = "dropDatabase"
  <2>1. DropsDatabase(i, dbs, ok)
    BY <1>6 DEF EndsOf, dbs
  <2> QED
    BY <1>1, <1>2, <1>6, <2>1 DEF DropsDatabase, dbs, EndedAs
<1> QED
  BY <1>1, <1>3, <1>4, <1>5, <1>6 DEF EndedAs

LEMMA PlaneJobEnds ==
  ASSUME PlaneTypeOK, NEW i \in PlaneInstances, NEW c, NEW ok \in BOOLEAN,
         NEW next \in Seq(PlaneJobs), JobEnds(i, c, ok, next)
  PROVE  /\ planeJobs[i] # <<>> /\ Head(planeJobs[i]) \in PlaneJobs /\ Head(planeJobs[i]).caller = c
         /\ EndedAs(i, Head(planeJobs[i]), ok)
         /\ planeJobs'[i] = Tail(planeJobs[i]) \o next
         /\ \A o \in PlaneInstances : o # i => planeJobs'[o] = planeJobs[o]
         /\ PlaneTypeOK'
<1>1. planeJobs[i] # <<>> /\ planeJobs[i] \in Seq(PlaneJobs)
  BY DEF JobEnds, PlaneTypeOK
<1>2. /\ Head(planeJobs[i]) \in PlaneJobs /\ Tail(planeJobs[i]) \in Seq(PlaneJobs)
      /\ Tail(planeJobs[i]) \o next \in Seq(PlaneJobs)
  BY <1>1
<1>3. Head(planeJobs[i]).caller = c /\ EndsOf(i, Head(planeJobs[i]), ok)
  BY DEF JobEnds, EndsOf
<1> DEFINE q == Tail(planeJobs[i]) \o next
<1>4. planeJobs' = [planeJobs EXCEPT ![i] = q]
  BY DEF JobEnds
<1> HIDE DEF q
<1>5. /\ planeJobs' \in [PlaneInstances -> Seq(PlaneJobs)] /\ planeJobs'[i] = q
      /\ \A o \in PlaneInstances : o # i => planeJobs'[o] = planeJobs[o]
  BY <1>2, <1>4 DEF PlaneTypeOK, q
<1>6. EndedAs(i, Head(planeJobs[i]), ok)
  BY <1>2, <1>3, PlaneEnds, Zenon
<1>7. PlaneTypeOK'
  BY <1>5, <1>6 DEF PlaneTypeOK, EndedAs
<1> QED
  BY <1>1, <1>2, <1>3, <1>5, <1>6, <1>7 DEF q

-----------------------------------------------------------------------------
(* A step of the request at the head of one queue.                           *)

(* All jobs of a cluster are those of one request.                           *)
JobsAt(c, cl) ==
  /\ \A i \in AlloyInstances : ClusterOf[i] = cl => planeJobs[i] = <<>> \/ WaitsFor(c, i)
  /\ \A i \in AlloyInstances : WaitsFor(c, i) =>
       /\ ClusterOf[i] = cl /\ Requested(c).cluster = cl /\ alloyRows[i] # NoRow
       /\ IF Requested(c).what = "deleteCluster" THEN i \notin alloyCalls[c].left
          ELSE i = Requested(c).inst
  /\ \A i, o \in AlloyInstances : WaitsFor(c, i) /\ WaitsFor(c, o) => i = o

(* Nothing of another cluster changes.                                       *)
OnlyIn(cl) ==
  /\ \A i \in AlloyInstances : ClusterOf[i] # cl =>
       /\ alloyRows'[i] = alloyRows[i] /\ planeJobs'[i] = planeJobs[i]
       /\ i \in listening' <=> i \in listening
       /\ planeFiles'[i] = planeFiles[i]
       /\ i \in leftFiles' <=> i \in leftFiles
  /\ \A l \in Clusters : l # cl =>
       /\ l \in clusters' <=> l \in clusters
       /\ l \in clusterUsers' <=> l \in clusterUsers

LEMMA HolderHasTheJobs ==
  ASSUME AlloyIInv, NEW c \in AlloyCalls, NEW s, Holds(c, s)
  PROVE  /\ JobsAt(c, Requested(c).cluster)
         /\ \A d \in AlloyCalls : Working(d) /\ d # c => Requested(d).cluster # Requested(c).cluster
         /\ s = "arrived" => \A i \in AlloyInstances :
              ClusterOf[i] = Requested(c).cluster => planeJobs[i] = <<>>
<1>1. \A d \in AlloyCalls : Working(d) /\ d # c => Requested(d).cluster # Requested(c).cluster
  BY OneAtWork DEF AlloyIInv, AlloyInvariant
<1>2. ASSUME NEW i \in AlloyInstances, ClusterOf[i] = Requested(c).cluster, planeJobs[i] # <<>>
      PROVE  WaitsFor(c, i)
  <2>1. PICK d \in AlloyCalls : WaitsFor(d, i)
    BY <1>2 DEF AlloyIInv, JobsAreAwaited
  <2>2. Working(d) /\ Requested(d).cluster = Requested(c).cluster
    BY <1>2, <2>1 DEF AlloyIInv, JobsAreAwaited, WaitsFor
  <2> QED
    BY <1>1, <2>1, <2>2
<1>3. s = "arrived" => \A i \in AlloyInstances : ~WaitsFor(c, i)
  BY DEF WaitsFor, Working, Holds
<1> QED
  BY <1>1, <1>2, <1>3 DEF JobsAt, AlloyIInv, JobsAreAwaited

LEMMA ClusterMoves ==
  ASSUME AlloyIInv, AlloyTypeOK', QueueInv',
         NEW c \in AlloyCalls, NEW s, Holds(c, s), NEW cl, cl = Requested(c).cluster,
         \A d \in AlloyCalls : d # c => alloyCalls'[d] = alloyCalls[d],
         OnlyIn(cl), ClusterIsSound(cl)', JobsAt(c, cl)', Working(c)' => ChecksOf(c)'
  PROVE  AlloyIInv'
<1> USE AlloyAssumption
<1>1. AlloyTypeOK /\ KeysAreQueued /\ RequestsFit /\ JobsAreAwaited /\ ChecksStay
  BY DEF AlloyIInv, AlloyInvariant
<1>2. \A d \in AlloyCalls : Working(d) /\ d # c => Requested(d).cluster # cl
  BY HolderHasTheJobs
<1>3. \A d \in AlloyCalls : d # c =>
        /\ Working(d)' <=> Working(d)
        /\ Requested(d)' = Requested(d) /\ JobOf(d)' = JobOf(d)
  BY DEF Working, Requested, JobOf
<1>4. \A l \in Clusters : l # cl => InCluster(l)' = InCluster(l)
  BY DEF OnlyIn, InCluster
<1>5. \A l \in Clusters : ClusterIsSound(l)'
  <2> SUFFICES ASSUME NEW l \in Clusters, l # cl  PROVE ClusterIsSound(l)'
    OBVIOUS
  <2>1. ClusterIsSound(l)
    BY SoundByCluster, <1>1 DEF AlloyIInv, AlloyInvariant, AlloyTypeOK
  <2>2. InCluster(l)' = InCluster(l) /\ \A i \in InCluster(l) : ClusterOf[i] = l /\ i \in AlloyInstances
    BY <1>4 DEF InCluster
  <2> QED
    BY <2>1, <2>2 DEF ClusterIsSound, OnlyIn
<1>6. /\ ChildrenHaveTheirCluster' /\ PlacementHolds'
      /\ AlloyEndpointsHaveRows' /\ AlloyFilesHaveRows'
  <2>1. clusters' \subseteq Clusters /\ clusterUsers' \subseteq Clusters
    BY DEF AlloyTypeOK
  <2>2. ChildrenHaveTheirCluster' /\ AlloyEndpointsHaveRows' /\ AlloyFilesHaveRows'
    BY <1>5, <2>1 DEF ClusterIsSound, ChildrenHaveTheirCluster, AlloyEndpointsHaveRows, AlloyFilesHaveRows
  <2>3. PlacementHolds'
    BY <1>5 DEF ClusterIsSound, PlacementHolds, InCluster
  <2> QED
    BY <2>2, <2>3
<1>7. \A i \in AlloyInstances : ClusterOf[i] # cl => \A d \in AlloyCalls : d # c =>
        (WaitsFor(d, i)' <=> WaitsFor(d, i))
  BY <1>3 DEF WaitsFor, OnlyIn
<1>8. ASSUME NEW d \in AlloyCalls, d # c, NEW i \in AlloyInstances, WaitsFor(d, i)'
      PROVE  ClusterOf[i] # cl /\ WaitsFor(d, i)
  <2>1. ClusterOf[i] # cl
    <3>1. SUFFICES ASSUME ClusterOf[i] = cl  PROVE FALSE
      OBVIOUS
    <3>2. planeJobs'[i] = <<JobOf(d)'>> /\ JobOf(d)'.caller = d
      BY <1>3, <1>8, JobParts DEF WaitsFor
    <3>3. planeJobs'[i] = <<JobOf(c)'>> /\ JobOf(c)'.caller = c
      <4>0. planeJobs'[i] # <<>>
        BY <3>2
      <4>1. WaitsFor(c, i)'
        BY <3>1, <4>0 DEF JobsAt
      <4>2. JobOf(c)'.caller = c
        BY DEF JobOf, Job
      <4> QED
        BY <4>1, <4>2 DEF WaitsFor
    <3>4. <<JobOf(d)'>> = <<JobOf(c)'>> => JobOf(d)' = JobOf(c)'
      OBVIOUS
    <3> QED
      BY <1>8, <3>2, <3>3, <3>4
  <2> QED
    BY <1>7, <1>8, <2>1
<1>9. JobsAreAwaited'
  <2>1. ASSUME NEW i \in AlloyInstances, planeJobs'[i] # <<>>
        PROVE  \E d \in AlloyCalls : WaitsFor(d, i)'
    <3>1. CASE ClusterOf[i] = cl
      BY <2>1, <3>1 DEF JobsAt
    <3>2. CASE ClusterOf[i] # cl
      <4>1. PICK d \in AlloyCalls : WaitsFor(d, i)
        BY <1>1, <2>1, <3>2 DEF JobsAreAwaited, OnlyIn
      <4>2. d # c
        BY <1>1, <3>2, <4>1 DEF JobsAreAwaited
      <4> QED
        BY <1>7, <3>2, <4>1, <4>2
    <3> QED
      BY <3>1, <3>2
  <2>2. ASSUME NEW d \in AlloyCalls, NEW i \in AlloyInstances, WaitsFor(d, i)'
        PROVE  /\ ClusterOf[i] = Requested(d)'.cluster /\ alloyRows'[i] # NoRow
               /\ IF Requested(d)'.what = "deleteCluster" THEN i \notin alloyCalls'[d].left
                  ELSE i = Requested(d)'.inst
    <3>1. CASE d # c
      BY <1>1, <1>3, <1>8, <2>2, <3>1 DEF JobsAreAwaited, OnlyIn
    <3>2. CASE d = c
      <4>1. /\ ClusterOf[i] = cl /\ Requested(c)'.cluster = cl /\ alloyRows'[i] # NoRow
            /\ IF Requested(c)'.what = "deleteCluster" THEN i \notin alloyCalls'[c].left
               ELSE i = Requested(c)'.inst
        BY <2>2, <3>2 DEF JobsAt
      <4> QED
        BY <3>2, <4>1
    <3> QED
      BY <3>1, <3>2
  <2>3. ASSUME NEW d \in AlloyCalls, NEW i \in AlloyInstances, NEW o \in AlloyInstances,
               WaitsFor(d, i)', WaitsFor(d, o)'
        PROVE  i = o
    BY <1>1, <1>8, <2>3 DEF JobsAreAwaited, JobsAt
  <2> QED
    BY <2>1, <2>2, <2>3 DEF JobsAreAwaited
<1>10. ChecksStay'
  <2> SUFFICES ASSUME NEW d \in AlloyCalls, Working(d)'  PROVE ChecksOf(d)'
    BY DEF ChecksStay, ChecksOf
  <2>1. CASE d = c
    BY <2>1
  <2>2. CASE d # c
    <3> DEFINE r == Requested(d)
    <3>1. /\ Working(d) /\ ChecksOf(d) /\ r.cluster # cl /\ r.cluster \in Clusters
          /\ r.what \in {"createInstance", "deleteInstance"} =>
               r.inst \in AlloyInstances /\ ClusterOf[r.inst] = r.cluster
      BY <1>1, <1>2, <1>3, <2>2, CallParts DEF ChecksStay, ChecksOf, Working, RequestsFit
    <3>2. r' = r /\ InCluster(r.cluster)' = InCluster(r.cluster) /\ alloyCalls'[d].left = alloyCalls[d].left
      BY <1>3, <1>4, <2>2, <3>1
    <3>3. \A i \in InCluster(r.cluster) : ClusterOf[i] = r.cluster /\ i \in AlloyInstances
      BY DEF InCluster
    <3>4. r.what = "createInstance" =>
            alloyRows'[r.inst] = r.type /\ (r.type = Primary => InCluster(r.cluster)' = {r.inst})
      BY <3>1, <3>2 DEF ChecksOf, OnlyIn
    <3>5. r.what = "deleteInstance" => alloyRows'[r.inst] # NoRow /\ CanRemove(r.inst)'
      <4>1. \A i : r.what = "deleteInstance" /\ i = r.inst => alloyRows'[i] # NoRow /\ CanRemove(i)'
        BY <3>1, <3>2, <3>3 DEF ChecksOf, OnlyIn, CanRemove
      <4> QED
        BY <3>2, <4>1
    <3>6. r.what = "deleteCluster" =>
            /\ alloyCalls'[d].left \subseteq InCluster(r.cluster)'
            /\ \A i \in InCluster(r.cluster)' \ alloyCalls'[d].left : WaitsFor(d, i)' \/ IsEmptied(i)'
      BY <1>7, <2>2, <3>1, <3>2, <3>3 DEF ChecksOf, OnlyIn, IsEmptied
    <3> QED
      BY <3>2, <3>4, <3>5, <3>6 DEF ChecksOf
  <2> QED
    BY <2>1, <2>2
<1> QED
  BY <1>6, <1>9, <1>10 DEF AlloyIInv, AlloyInvariant, QueueInv

(* A request answered at once, that asked nothing of the data plane.         *)
LEMMA AnsweredAtOnce ==
  ASSUME AlloyIInv, NEW c \in AlloyCalls, Holds(c, "arrived"), AlloyAnswers(c),
         NEW cl, cl = Requested(c).cluster,
         UNCHANGED <<backups, leftFiles, planeVars>>,
         clusters' \subseteq Clusters, clusterUsers' \subseteq Clusters,
         alloyRows' \in [AlloyInstances -> {Primary, ReadPool, NoRow}],
         \A i \in AlloyInstances : ClusterOf[i] # cl => alloyRows'[i] = alloyRows[i],
         \A l \in Clusters : l # cl => /\ l \in clusters' <=> l \in clusters
                                       /\ l \in clusterUsers' <=> l \in clusterUsers,
         ClusterIsSound(cl)'
  PROVE  AlloyIInv'
<1>1. AlloyTypeOK /\ QueueInv
  BY DEF AlloyIInv, AlloyInvariant, QueueInv
<1>2. /\ clusterQueue' \in [Clusters -> Seq(AlloyCalls)]
      /\ alloyCalls' \in [AlloyCalls -> AlloyRecords \cup {NoRow}]
      /\ QueueInv' /\ alloyCalls'[c] = NoRow
      /\ \A d \in AlloyCalls : d # c => alloyCalls'[d] = alloyCalls[d]
  BY <1>1, QueuesMove
<1>3. PlaneTypeOK'
  BY <1>1 DEF AlloyTypeOK, PlaneTypeOK, planeVars
<1>4. AlloyTypeOK'
  BY <1>1, <1>2, <1>3 DEF AlloyTypeOK
<1>5. OnlyIn(cl)
  BY DEF OnlyIn, planeVars
<1>6. ~Working(c)'
  BY <1>2 DEF Working
<1>7. JobsAt(c, cl)'
  <2>1. \A i \in AlloyInstances : ClusterOf[i] = cl => planeJobs'[i] = <<>>
    BY HolderHasTheJobs DEF planeVars
  <2> QED
    BY <1>6, <2>1 DEF JobsAt, WaitsFor
<1> QED
  BY <1>2, <1>4, <1>5, <1>6, <1>7, ClusterMoves

LEMMA SoundCluster ==
  ASSUME AlloyIInv, NEW cl \in Clusters
  PROVE  ClusterIsSound(cl)
BY SoundByCluster DEF AlloyIInv, AlloyInvariant, AlloyTypeOK

LEMMA HolderParts ==
  ASSUME AlloyIInv, NEW c \in AlloyCalls, NEW s, Holds(c, s)
  PROVE  /\ Requested(c) \in AlloyRequests /\ Requested(c).cluster \in Clusters
         /\ Requested(c).what \in {"createInstance", "updateInstance", "deleteInstance"} =>
              Requested(c).inst \in AlloyInstances /\ ClusterOf[Requested(c).inst] = Requested(c).cluster
         /\ Requested(c).what \in {"createInstance", "updateInstance"} =>
              Requested(c).type \in {Primary, ReadPool}
<1>1. AlloyTypeOK /\ RequestsFit /\ alloyCalls[c] # NoRow
  BY DEF AlloyIInv, AlloyInvariant, Holds
<1> QED
  BY <1>1, CallParts, RequestParts DEF RequestsFit

LEMMA StepRefused ==
  ASSUME AlloyIInv, NEW c \in AlloyCalls, Refused(c)
  PROVE  AlloyIInv'
<1>1. PICK cl : cl = Requested(c).cluster
  OBVIOUS
<1>2. Holds(c, "arrived") /\ AlloyAnswers(c) /\ UNCHANGED <<alloyRowVars, leftFiles, planeVars>>
  BY DEF Refused
<1>3. cl \in Clusters /\ AlloyTypeOK
  BY <1>1, <1>2, HolderParts DEF AlloyIInv, AlloyInvariant
<1>4. ClusterIsSound(cl)'
  <2>1. ClusterIsSound(cl)
    BY <1>3, SoundCluster
  <2> QED
    BY <1>2, <2>1 DEF ClusterIsSound, InCluster, alloyRowVars, planeVars
<1> QED
  BY <1>1, <1>2, <1>3, <1>4, AnsweredAtOnce DEF alloyRowVars, AlloyTypeOK

LEMMA StepCreateCluster ==
  ASSUME AlloyIInv, NEW c \in AlloyCalls, CreateCluster(c)
  PROVE  AlloyIInv'
<1>1. PICK cl : cl = Requested(c).cluster
  OBVIOUS
<1>2. /\ Holds(c, "arrived") /\ AlloyAnswers(c) /\ clusters' = clusters \cup {cl}
      /\ UNCHANGED <<alloyRows, clusterUsers, backups, leftFiles, planeVars>>
  BY <1>1 DEF CreateCluster, Begins
<1>3. cl \in Clusters /\ AlloyTypeOK
  BY <1>1, <1>2, HolderParts DEF AlloyIInv, AlloyInvariant
<1>4. ClusterIsSound(cl)'
  <2>1. ClusterIsSound(cl)
    BY <1>3, SoundCluster
  <2> QED
    BY <1>2, <2>1 DEF ClusterIsSound, InCluster, planeVars
<1> QED
  BY <1>1, <1>2, <1>3, <1>4, AnsweredAtOnce DEF AlloyTypeOK

LEMMA StepChangeUser ==
  ASSUME AlloyIInv, NEW c \in AlloyCalls, ChangeUser(c)
  PROVE  AlloyIInv'
<1>1. PICK cl : cl = Requested(c).cluster
  OBVIOUS
<1>2. /\ Holds(c, "arrived") /\ AlloyAnswers(c)
      /\ Requested(c).what \in {"createUser", "deleteUser"}
      /\ clusterUsers' = IF Requested(c).what = "createUser" THEN clusterUsers \cup {cl}
                         ELSE clusterUsers \ {cl}
      /\ UNCHANGED <<clusters, alloyRows, backups, leftFiles, planeVars>>
  BY <1>1 DEF ChangeUser, Begins
<1>3. cl \in Clusters /\ AlloyTypeOK
  BY <1>1, <1>2, HolderParts DEF AlloyIInv, AlloyInvariant
<1>4. ClusterIsSound(cl)'
  <2>1. ClusterIsSound(cl)
    BY <1>3, SoundCluster
  <2>2. Requested(c).what = "createUser" => cl \in clusters
    BY <1>1, <1>2 DEF ChangeUser, Accepted
  <2> QED
    BY <1>2, <2>1, <2>2 DEF ClusterIsSound, InCluster, planeVars
<1> QED
  BY <1>1, <1>2, <1>3, <1>4, AnsweredAtOnce DEF AlloyTypeOK

(* The row of an instance whose placement was checked, written.              *)
LEMMA Placed ==
  ASSUME NEW cl, NEW i \in AlloyInstances, ClusterOf[i] = cl, ClusterIsSound(cl), cl \in clusters,
         NEW type \in {Primary, ReadPool}, CanPlace(i, type),
         alloyRows'[i] = type, \A o \in AlloyInstances : o # i => alloyRows'[o] = alloyRows[o],
         cl \in clusters' <=> cl \in clusters, cl \in clusterUsers' <=> cl \in clusterUsers,
         \A o \in AlloyInstances : /\ o \in listening' <=> o \in listening
                                   /\ planeFiles'[o] = planeFiles[o]
                                   /\ o \in leftFiles' <=> o \in leftFiles
  PROVE  /\ ClusterIsSound(cl)'
         /\ alloyRows[i] = NoRow /\ type = Primary => InCluster(cl)' = {i}
<1>1. Primary # NoRow /\ ReadPool # NoRow /\ Primary # ReadPool
  BY AlloyAssumption DEF Primary, ReadPool
<1>2. alloyRows'[i] = type /\ \A o \in AlloyInstances : o # i => alloyRows'[o] = alloyRows[o]
  OBVIOUS
<1>3. \A o : o \in InCluster(cl)' <=> o = i \/ o \in InCluster(cl)
  BY <1>1, <1>2 DEF InCluster
<1>4. type = Primary <=> ~\E o \in InCluster(cl) \ {i} : alloyRows[o] = Primary
  BY <1>1 DEF CanPlace
<1>5. \A o \in InCluster(cl) : o \in AlloyInstances
  BY DEF InCluster
<1>6. \A a, b \in InCluster(cl)' : alloyRows'[a] = Primary /\ alloyRows'[b] = Primary => a = b
  BY <1>1, <1>2, <1>3, <1>4, <1>5 DEF ClusterIsSound
<1>7. \E o \in InCluster(cl)' : alloyRows'[o] = Primary
  BY <1>1, <1>2, <1>3, <1>4, <1>5
<1>8. ClusterIsSound(cl)'
  BY <1>1, <1>2, <1>6, <1>7 DEF ClusterIsSound
<1>9. alloyRows[i] = NoRow /\ type = Primary => InCluster(cl)' = {i}
  <2>1. alloyRows[i] = NoRow /\ type = Primary => InCluster(cl) = {}
    BY <1>4 DEF ClusterIsSound, InCluster
  <2> QED
    BY <1>3, <2>1
<1> QED
  BY <1>2, <1>8, <1>9

LEMMA StepUpdateInstance ==
  ASSUME AlloyIInv, NEW c \in AlloyCalls, UpdateInstance(c)
  PROVE  AlloyIInv'
<1>1. PICK cl : cl = Requested(c).cluster
  OBVIOUS
<1>2. PICK i : i = Requested(c).inst
  OBVIOUS
<1>3. PICK type : type = Requested(c).type
  OBVIOUS
<1>4. /\ Holds(c, "arrived") /\ AlloyAnswers(c) /\ Requested(c).what = "updateInstance"
      /\ alloyRows' = [alloyRows EXCEPT ![i] = type]
      /\ UNCHANGED <<clusters, clusterUsers, backups, leftFiles, planeVars>>
  BY <1>2, <1>3 DEF UpdateInstance, Begins
<1>5. /\ cl \in Clusters /\ i \in AlloyInstances /\ ClusterOf[i] = cl /\ type \in {Primary, ReadPool}
      /\ AlloyTypeOK
  BY <1>1, <1>2, <1>3, <1>4, HolderParts DEF AlloyIInv, AlloyInvariant
<1>6. alloyRows[i] # NoRow /\ CanPlace(i, type)
  BY <1>2, <1>3, <1>4 DEF UpdateInstance, Accepted
<1>7. ClusterIsSound(cl) /\ cl \in clusters
  BY <1>5, <1>6, SoundCluster DEF ClusterIsSound
<1>8. /\ ClusterIsSound(cl)' /\ alloyRows' \in [AlloyInstances -> {Primary, ReadPool, NoRow}]
      /\ \A o \in AlloyInstances : o # i => alloyRows'[o] = alloyRows[o]
  <2>1. /\ cl \in clusters' <=> cl \in clusters
        /\ cl \in clusterUsers' <=> cl \in clusterUsers
        /\ \A o \in AlloyInstances : /\ o \in listening' <=> o \in listening
                                     /\ planeFiles'[o] = planeFiles[o]
                                     /\ o \in leftFiles' <=> o \in leftFiles
    BY <1>4 DEF planeVars
  <2>2. /\ alloyRows' \in [AlloyInstances -> {Primary, ReadPool, NoRow}] /\ alloyRows'[i] = type
        /\ \A o \in AlloyInstances : o # i => alloyRows'[o] = alloyRows[o]
    BY <1>4, <1>5 DEF AlloyTypeOK
  <2> QED
    BY <1>5, <1>6, <1>7, <2>1, <2>2, Placed
<1> QED
  BY <1>1, <1>4, <1>5, <1>8, AnsweredAtOnce DEF AlloyTypeOK

(* Steps that ask for a job, or that one ends.                               *)

(* The holder of a cluster asks for its first job.                           *)
LEMMA HolderAsks ==
  ASSUME AlloyIInv, NEW c \in AlloyCalls, Holds(c, "arrived"), NEW cl, cl = Requested(c).cluster,
         NEW i \in AlloyInstances, ClusterOf[i] = cl,
         NEW what \in {"start", "drop"}, NEW dbs \in SUBSET PlaneDatabases, Asks(i, Job(what, dbs, c))
  PROVE  /\ PlaneTypeOK' /\ planeJobs'[i] = <<Job(what, dbs, c)>>
         /\ \A o \in AlloyInstances : o # i => planeJobs'[o] = planeJobs[o]
         /\ \A o \in AlloyInstances : ClusterOf[o] = cl /\ o # i => planeJobs'[o] = <<>>
         /\ listening' = listening /\ planeFiles' = planeFiles
<1>1. AlloyTypeOK /\ PlaneTypeOK /\ i \in PlaneInstances /\ c \in PlaneCallers
  BY AlloyAssumption DEF AlloyIInv, AlloyInvariant, AlloyTypeOK
<1>2. Job(what, dbs, c) \in PlaneJobs
  BY <1>1, JobParts
<1>3. \A o \in AlloyInstances : ClusterOf[o] = cl => planeJobs[o] = <<>>
  BY HolderHasTheJobs
<1>4. planeJobs'[i] = Append(planeJobs[i], Job(what, dbs, c)) /\ planeJobs[i] = <<>>
  BY <1>1, <1>2, <1>3, PlaneAsked
<1>5. Append(<<>>, Job(what, dbs, c)) = <<Job(what, dbs, c)>>
  OBVIOUS
<1> QED
  BY <1>1, <1>2, <1>3, <1>4, <1>5, PlaneAsked, AlloyAssumption

(* The job that ends is the one the holder waits for.                        *)
OnlyJob(c, i, cl) ==
  /\ WaitsFor(c, i) /\ ClusterOf[i] = cl /\ alloyRows[i] # NoRow
  /\ IF Requested(c).what = "deleteCluster" THEN i \notin alloyCalls[c].left
     ELSE i = Requested(c).inst
  /\ \A o \in AlloyInstances : ClusterOf[o] = cl /\ o # i => planeJobs[o] = <<>>
  /\ Head(planeJobs[i]) = JobOf(c) /\ Tail(planeJobs[i]) = <<>>

LEMMA HolderGoesOn ==
  ASSUME AlloyIInv, NEW c \in AlloyCalls, NEW s, Holds(c, s), NEW cl, cl = Requested(c).cluster,
         NEW i \in AlloyInstances, NEW ok \in BOOLEAN,
         \/ \E next \in Seq(PlaneJobs) : JobEnds(i, c, ok, next)
         \/ \E o \in AlloyInstances : JobMoves(i, o, c, ok)
  PROVE  OnlyJob(c, i, cl)
<1>1. planeJobs[i] # <<>> /\ Head(planeJobs[i]).caller = c
  BY DEF JobEnds, JobMoves
<1>2. PICK d \in AlloyCalls : WaitsFor(d, i)
  BY <1>1 DEF AlloyIInv, JobsAreAwaited
<1>3. planeJobs[i] = <<JobOf(d)>> /\ JobOf(d).caller = d
  BY <1>2, JobParts DEF WaitsFor
<1>4. Head(planeJobs[i]) = JobOf(d) /\ Tail(planeJobs[i]) = <<>>
  BY <1>3
<1>5. d = c
  BY <1>1, <1>3, <1>4
<1>6. JobsAt(c, cl)
  BY HolderHasTheJobs
<1> QED
  BY <1>2, <1>4, <1>5, <1>6 DEF JobsAt, OnlyJob

JobDone(c, i, ok, next) ==
  /\ PlaneTypeOK' /\ planeJobs'[i] = next
  /\ \A o \in AlloyInstances : o # i =>
       /\ planeJobs'[o] = planeJobs[o] /\ planeFiles'[o] = planeFiles[o]
       /\ o \in listening' <=> o \in listening
  /\ alloyCalls[c].stage = "start" => (i \in listening' <=> ok)
  /\ alloyCalls[c].stage # "start" => i \notin listening' /\ (ok => planeFiles'[i] = {})

LEMMA HolderEndsJob ==
  ASSUME AlloyIInv, NEW c \in AlloyCalls, NEW s, Holds(c, s), NEW cl, cl = Requested(c).cluster,
         NEW i \in AlloyInstances, NEW ok \in BOOLEAN,
         NEW next \in Seq(PlaneJobs), JobEnds(i, c, ok, next)
  PROVE  JobDone(c, i, ok, next)
<1>1. PlaneTypeOK /\ i \in PlaneInstances /\ AlloyInstances \subseteq PlaneInstances
  BY AlloyAssumption DEF AlloyIInv, AlloyInvariant, AlloyTypeOK
<1>2. Head(planeJobs[i]) = JobOf(c) /\ Tail(planeJobs[i]) = <<>>
  <2>1. OnlyJob(c, i, cl)
    BY HolderGoesOn, Zenon
  <2> QED
    BY <2>1 DEF OnlyJob
<1>3. /\ EndedAs(i, JobOf(c), ok)
      /\ planeJobs'[i] = Tail(planeJobs[i]) \o next
      /\ \A o \in PlaneInstances : o # i => planeJobs'[o] = planeJobs[o]
      /\ PlaneTypeOK'
  <2>1. /\ planeJobs[i] # <<>> /\ Head(planeJobs[i]) \in PlaneJobs /\ Head(planeJobs[i]).caller = c
        /\ EndedAs(i, Head(planeJobs[i]), ok)
        /\ planeJobs'[i] = Tail(planeJobs[i]) \o next
        /\ \A o \in PlaneInstances : o # i => planeJobs'[o] = planeJobs[o]
        /\ PlaneTypeOK'
    BY <1>1, PlaneJobEnds, Zenon
  <2> QED
    BY <1>2, <2>1, Zenon
<1>4. <<>> \o next = next
  OBVIOUS
<1>5. /\ alloyCalls[c].stage = "start" => JobOf(c).what = "start"
      /\ alloyCalls[c].stage # "start" => JobOf(c).what = "drop"
  BY JobParts
<1>6. planeJobs'[i] = next
  BY <1>2, <1>3, <1>4
<1>7. /\ \A o \in PlaneInstances : o # i =>
           /\ o \in listening' <=> o \in listening
           /\ planeFiles'[o] = planeFiles[o]
      /\ JobOf(c).what = "start" => (i \in listening' <=> ok)
      /\ JobOf(c).what = "drop" => i \notin listening' /\ (ok => planeFiles'[i] = {})
  BY <1>3 DEF EndedAs
<1> QED
  BY <1>1, <1>3, <1>5, <1>6, <1>7 DEF JobDone

(* The row of an instance of the cluster goes, its endpoint gone.            *)
LEMMA Removed ==
  ASSUME NEW cl, NEW i \in AlloyInstances, ClusterOf[i] = cl, ClusterIsSound(cl),
         alloyRows[i] # NoRow, CanRemove(i),
         alloyRows'[i] = NoRow, \A o \in AlloyInstances : o # i => alloyRows'[o] = alloyRows[o],
         cl \in clusters' <=> cl \in clusters, cl \in clusterUsers' <=> cl \in clusterUsers,
         i \notin listening', i \in leftFiles' \/ planeFiles'[i] = {},
         \A o \in AlloyInstances : o # i => /\ o \in listening' <=> o \in listening
                                            /\ planeFiles'[o] = planeFiles[o]
                                            /\ o \in leftFiles' <=> o \in leftFiles,
         alloyRows \in [AlloyInstances -> {Primary, ReadPool, NoRow}]
  PROVE  ClusterIsSound(cl)'
<1>1. Primary # NoRow /\ ReadPool # NoRow /\ Primary # ReadPool
  BY AlloyAssumption DEF Primary, ReadPool
<1>2. \A o : o \in InCluster(cl)' <=> o # i /\ o \in InCluster(cl)
  BY DEF InCluster
<1>3. \A o \in InCluster(cl)' : alloyRows'[o] = alloyRows[o]
  BY <1>2 DEF InCluster
<1>4. \A a, b \in InCluster(cl)' : alloyRows'[a] = Primary /\ alloyRows'[b] = Primary => a = b
  BY <1>2, <1>3 DEF ClusterIsSound
<1>5. InCluster(cl)' # {} => \E o \in InCluster(cl)' : alloyRows'[o] = Primary
  <2> SUFFICES ASSUME NEW a \in InCluster(cl)'  PROVE \E o \in InCluster(cl)' : alloyRows'[o] = Primary
    OBVIOUS
  <2>1. a \in InCluster(cl) /\ a # i /\ i \in InCluster(cl)
    BY <1>2 DEF InCluster
  <2>2. PICK p \in InCluster(cl) : alloyRows[p] = Primary
    BY <2>1 DEF ClusterIsSound
  <2>3. CASE p # i
    BY <1>2, <1>3, <2>2, <2>3
  <2>4. CASE p = i
    <3>1. alloyRows[a] # ReadPool /\ alloyRows[a] # NoRow
      BY <2>1, <2>2, <2>4 DEF CanRemove, InCluster
    <3>2. alloyRows[a] = Primary
      BY <2>1, <3>1 DEF InCluster
    <3> QED
      BY <2>1, <1>3, <3>2
  <2> QED
    BY <2>3, <2>4
<1>6. cl \in clusters
  BY DEF ClusterIsSound
<1> QED
  BY <1>1, <1>4, <1>5, <1>6 DEF ClusterIsSound

(* Where another cluster's jobs stay, none is the holder's.                  *)
LEMMA JobsOfOthers ==
  ASSUME AlloyIInv, NEW c \in AlloyCalls, NEW s, Holds(c, s),
         NEW o \in AlloyInstances, ClusterOf[o] # Requested(c).cluster
  PROVE  \A job : planeJobs[o] = <<job>> => job.caller # c
<1> SUFFICES ASSUME NEW job, planeJobs[o] = <<job>>  PROVE job.caller # c
  OBVIOUS
<1>1. planeJobs[o] # <<>>
  OBVIOUS
<1>2. PICK d \in AlloyCalls : WaitsFor(d, o)
  BY <1>1 DEF AlloyIInv, JobsAreAwaited
<1>3. d # c
  BY <1>2 DEF AlloyIInv, JobsAreAwaited
<1>4. <<job>> = <<JobOf(d)>>
  BY <1>2 DEF WaitsFor
<1>5. job = JobOf(d)
  BY <1>4
<1> QED
  BY <1>3, <1>5, JobParts

(* After a step its only job is at i, or there is none.                      *)
LEMMA AwaitsOne ==
  ASSUME AlloyIInv, NEW c \in AlloyCalls, NEW s, Holds(c, s), NEW cl, cl = Requested(c).cluster,
         NEW i \in AlloyInstances, ClusterOf[i] = cl, alloyRows'[i] # NoRow,
         NEW job, job.caller = c, planeJobs'[i] = <<job>>,
         \A o \in AlloyInstances : o # i =>
           planeJobs'[o] = IF ClusterOf[o] = cl THEN <<>> ELSE planeJobs[o],
         Working(c)', JobOf(c)' = job, Requested(c)' = Requested(c),
         IF Requested(c).what = "deleteCluster" THEN i \notin alloyCalls'[c].left
         ELSE i = Requested(c).inst
  PROVE  JobsAt(c, cl)'
<1>1. WaitsFor(c, i)'
  BY DEF WaitsFor
<1>2. \A o \in AlloyInstances : WaitsFor(c, o)' => o = i
  <2> SUFFICES ASSUME NEW o \in AlloyInstances, WaitsFor(c, o)', o # i  PROVE FALSE
    OBVIOUS
  <2>1. planeJobs'[o] = <<job>> /\ planeJobs'[o] # <<>>
    BY DEF WaitsFor
  <2>2. ClusterOf[o] # cl /\ planeJobs[o] = <<job>>
    BY <2>1
  <2> QED
    BY <2>2, JobsOfOthers
<1> QED
  BY <1>1, <1>2 DEF JobsAt

LEMMA AwaitsNone ==
  ASSUME NEW c \in AlloyCalls, alloyCalls'[c] = NoRow, NEW cl,
         \A o \in AlloyInstances : ClusterOf[o] = cl => planeJobs'[o] = <<>>
  PROVE  JobsAt(c, cl)' /\ ~Working(c)'
BY DEF JobsAt, WaitsFor, Working

LEMMA StepCreateInstance ==
  ASSUME AlloyIInv, NEW c \in AlloyCalls, CreateInstance(c)
  PROVE  AlloyIInv'
<1>1. PICK cl : cl = Requested(c).cluster
  OBVIOUS
<1>2. PICK i : i = Requested(c).inst
  OBVIOUS
<1>3. PICK type : type = Requested(c).type
  OBVIOUS
<1>4. /\ Holds(c, "arrived") /\ Requested(c).what = "createInstance"
      /\ Begins(c, Requested(c).what)
      /\ alloyRows' = [alloyRows EXCEPT ![i] = type]
      /\ Asks(i, Job("start", {DefaultDatabase}, c)) /\ AlloyWaits(c, "start", {})
      /\ UNCHANGED <<clusters, clusterUsers, backups, leftFiles>>
  BY <1>2, <1>3 DEF CreateInstance, Begins
<1>5. /\ cl \in Clusters /\ i \in AlloyInstances /\ ClusterOf[i] = cl /\ type \in {Primary, ReadPool}
      /\ AlloyTypeOK /\ QueueInv
  BY <1>1, <1>2, <1>3, <1>4, HolderParts DEF AlloyIInv, AlloyInvariant, QueueInv
<1>6. cl \in clusters /\ alloyRows[i] = NoRow /\ CanPlace(i, type)
  BY <1>1, <1>2, <1>3, <1>4 DEF CreateInstance, Accepted
<1>7. /\ PlaneTypeOK' /\ planeJobs'[i] = <<Job("start", {DefaultDatabase}, c)>>
      /\ \A o \in AlloyInstances : o # i => planeJobs'[o] = planeJobs[o]
      /\ \A o \in AlloyInstances : ClusterOf[o] = cl /\ o # i => planeJobs'[o] = <<>>
      /\ listening' = listening /\ planeFiles' = planeFiles
  BY <1>1, <1>4, <1>5, HolderAsks, AlloyAssumption
<1>8. /\ clusterQueue' \in [Clusters -> Seq(AlloyCalls)]
      /\ alloyCalls' \in [AlloyCalls -> AlloyRecords \cup {NoRow}]
      /\ QueueInv'
      /\ \A d \in AlloyCalls : d # c => alloyCalls'[d] = alloyCalls[d]
      /\ alloyCalls'[c] = [request |-> Requested(c), stage |-> "start", left |-> {}]
      /\ alloyCalls'[c] # NoRow
  BY <1>4, <1>5, QueuesWait, SMTT(40) DEF AlloyStages
<1>9. /\ alloyRows' \in [AlloyInstances -> {Primary, ReadPool, NoRow}] /\ alloyRows'[i] = type
      /\ \A o \in AlloyInstances : o # i => alloyRows'[o] = alloyRows[o]
  BY <1>4, <1>5 DEF AlloyTypeOK
<1>10. AlloyTypeOK'
  BY <1>4, <1>5, <1>7, <1>8, <1>9 DEF AlloyTypeOK
<1>11. ClusterIsSound(cl)' /\ (type = Primary => InCluster(cl)' = {i})
  <2>1. ClusterIsSound(cl)
    BY <1>5, SoundCluster
  <2>2. /\ cl \in clusters' <=> cl \in clusters
        /\ cl \in clusterUsers' <=> cl \in clusterUsers
        /\ \A o \in AlloyInstances : /\ o \in listening' <=> o \in listening
                                     /\ planeFiles'[o] = planeFiles[o]
                                     /\ o \in leftFiles' <=> o \in leftFiles
    BY <1>4, <1>7
  <2> QED
    BY <1>5, <1>6, <1>9, <2>1, <2>2, Placed
<1>12. OnlyIn(cl)
  BY <1>4, <1>5, <1>7, <1>9 DEF OnlyIn
<1>13. /\ Requested(c)' = Requested(c) /\ Working(c)' /\ JobOf(c)' = Job("start", {DefaultDatabase}, c)
       /\ type # NoRow
  BY <1>5, <1>8, AlloyAssumption DEF Requested, Working, JobOf
<1>14. ChecksOf(c)'
  BY <1>1, <1>2, <1>3, <1>4, <1>9, <1>11, <1>13 DEF ChecksOf
<1>15. JobsAt(c, cl)'
  <2>1. Job("start", {DefaultDatabase}, c).caller = c
    BY DEF Job
  <2>2. \A o \in AlloyInstances : o # i =>
          planeJobs'[o] = IF ClusterOf[o] = cl THEN <<>> ELSE planeJobs[o]
    BY <1>7
  <2> QED
    BY <1>1, <1>2, <1>4, <1>5, <1>7, <1>9, <1>13, <2>1, <2>2, AwaitsOne
<1> QED
  BY <1>1, <1>4, <1>8, <1>10, <1>11, <1>12, <1>14, <1>15, ClusterMoves

LEMMA ShortQueues ==
  <<>> \in Seq(PlaneJobs) /\ \A job \in PlaneJobs : <<job>> \in Seq(PlaneJobs)
<1>1. <<>> \in Seq(PlaneJobs)
  OBVIOUS
<1>2. ASSUME NEW job \in PlaneJobs  PROVE <<job>> \in Seq(PlaneJobs)
  OBVIOUS
<1> QED
  BY <1>1, <1>2

LEMMA StepInstanceStarted ==
  ASSUME AlloyIInv, NEW c \in AlloyCalls, NEW ok \in BOOLEAN, InstanceStarted(c, ok)
  PROVE  AlloyIInv'
<1>1. PICK cl : cl = Requested(c).cluster
  OBVIOUS
<1>2. PICK i : i = Requested(c).inst
  OBVIOUS
<1>3. PICK next : /\ JobEnds(i, c, ok, next)
                  /\ ok => next = <<>>
                  /\ ~ok => next = <<Job("drop", {}, c)>>
  BY <1>2, Zenon DEF InstanceStarted
<1>4. /\ Holds(c, "start") /\ UNCHANGED <<alloyRowVars, leftFiles>>
      /\ ok => AlloyAnswers(c)
      /\ ~ok => AlloyWaits(c, "rollback", {})
  BY DEF InstanceStarted
<1>5. AlloyTypeOK /\ QueueInv /\ Working(c)
  BY <1>4 DEF AlloyIInv, AlloyInvariant, QueueInv, Holds, Working
<1>6. Requested(c).what = "createInstance"
  BY <1>4, <1>5 DEF QueueInv, RequestsFit, Holds
<1>7. cl \in Clusters /\ i \in AlloyInstances /\ ClusterOf[i] = cl
  BY <1>1, <1>2, <1>4, <1>6, HolderParts
<1>8. next \in Seq(PlaneJobs)
  <2>1. Job("drop", {}, c) \in PlaneJobs
    BY AlloyAssumption DEF Job, PlaneJobs
  <2>2. next = <<>> \/ next = <<Job("drop", {}, c)>>
    BY <1>3, Zenon
  <2> QED
    BY <2>1, <2>2, ShortQueues, Zenon
<1>9. /\ PlaneTypeOK' /\ planeJobs'[i] = next
      /\ \A o \in AlloyInstances : o # i =>
           /\ planeJobs'[o] = planeJobs[o] /\ planeFiles'[o] = planeFiles[o]
           /\ o \in listening' <=> o \in listening
      /\ i \in listening' <=> ok
  <2>1. JobDone(c, i, ok, next)
    BY <1>1, <1>3, <1>4, <1>7, <1>8, HolderEndsJob, Zenon
  <2> QED
    BY <1>4, <2>1 DEF JobDone, Holds
<1>10. /\ alloyRows[i] # NoRow
       /\ \A o \in AlloyInstances : ClusterOf[o] = cl /\ o # i => planeJobs[o] = <<>>
  <2>1. OnlyJob(c, i, cl)
    BY <1>1, <1>3, <1>4, <1>7, <1>8, HolderGoesOn, Zenon
  <2> QED
    BY <2>1 DEF OnlyJob
<1>11. ClusterIsSound(cl)'
  <2>1. ClusterIsSound(cl)
    BY <1>7, SoundCluster
  <2>2. InCluster(cl)' = InCluster(cl)
    BY <1>4 DEF InCluster, alloyRowVars
  <2> QED
    BY <1>4, <1>9, <1>10, <2>1, <2>2 DEF ClusterIsSound, alloyRowVars
<1>12. OnlyIn(cl)
  BY <1>4, <1>7, <1>9 DEF OnlyIn, alloyRowVars
<1>13. CASE ok
  <2>1. /\ clusterQueue' \in [Clusters -> Seq(AlloyCalls)]
        /\ alloyCalls' \in [AlloyCalls -> AlloyRecords \cup {NoRow}]
        /\ QueueInv' /\ alloyCalls'[c] = NoRow
        /\ \A d \in AlloyCalls : d # c => alloyCalls'[d] = alloyCalls[d]
    BY <1>4, <1>5, <1>13, QueuesMove
  <2>2. AlloyTypeOK'
    BY <1>4, <1>5, <1>9, <2>1 DEF AlloyTypeOK, alloyRowVars
  <2>3. JobsAt(c, cl)' /\ ~Working(c)'
    <3>1. \A o \in AlloyInstances : ClusterOf[o] = cl => planeJobs'[o] = <<>>
      BY <1>3, <1>9, <1>10, <1>13
    <3> QED
      BY <2>1, <3>1, AwaitsNone
  <2> QED
    BY <1>1, <1>4, <1>11, <1>12, <2>1, <2>2, <2>3, ClusterMoves
<1>14. CASE ~ok
  <2>1. /\ clusterQueue' \in [Clusters -> Seq(AlloyCalls)]
        /\ alloyCalls' \in [AlloyCalls -> AlloyRecords \cup {NoRow}]
        /\ QueueInv'
        /\ \A d \in AlloyCalls : d # c => alloyCalls'[d] = alloyCalls[d]
        /\ alloyCalls'[c] = [request |-> Requested(c), stage |-> "rollback", left |-> {}]
        /\ alloyCalls'[c] # NoRow
    BY <1>4, <1>5, <1>6, <1>14, QueuesWait DEF AlloyStages
  <2>2. AlloyTypeOK'
    BY <1>4, <1>5, <1>9, <2>1 DEF AlloyTypeOK, alloyRowVars
  <2>3. /\ Requested(c)' = Requested(c) /\ Working(c)' /\ JobOf(c)' = Job("drop", {}, c)
        /\ Job("drop", {}, c).caller = c
    BY <2>1 DEF Requested, Working, JobOf, Job
  <2>4. JobsAt(c, cl)'
    <3>1. \A o \in AlloyInstances : o # i =>
            planeJobs'[o] = IF ClusterOf[o] = cl THEN <<>> ELSE planeJobs[o]
      BY <1>9, <1>10
    <3>2. planeJobs'[i] = <<Job("drop", {}, c)>> /\ alloyRows'[i] # NoRow
      BY <1>3, <1>4, <1>9, <1>10, <1>14 DEF alloyRowVars
    <3> QED
      BY <1>1, <1>2, <1>4, <1>6, <1>7, <2>3, <3>1, <3>2, AwaitsOne
  <2>5. ChecksOf(c)'
    <3>1. ChecksOf(c)
      BY <1>5 DEF AlloyIInv, ChecksStay, ChecksOf
    <3>2. alloyRows' = alloyRows /\ \A l : InCluster(l)' = InCluster(l)
      BY <1>4 DEF alloyRowVars, InCluster
    <3> QED
      BY <1>6, <2>3, <3>1, <3>2 DEF ChecksOf
  <2> QED
    BY <1>1, <1>4, <1>11, <1>12, <2>1, <2>2, <2>4, <2>5, ClusterMoves
<1> QED
  BY <1>13, <1>14

LEMMA StepRolledBack ==
  ASSUME AlloyIInv, NEW c \in AlloyCalls, NEW ok \in BOOLEAN, RolledBack(c, ok)
  PROVE  AlloyIInv'
<1>1. PICK cl : cl = Requested(c).cluster
  OBVIOUS
<1>2. PICK i : i = Requested(c).inst
  OBVIOUS
<1>3. JobEnds(i, c, ok, <<>>)
  BY <1>2, Zenon DEF RolledBack
<1>4. /\ Holds(c, "rollback") /\ AlloyAnswers(c)
      /\ NotesDrop(i, ok) /\ WithoutRows({i})
      /\ UNCHANGED <<clusters, clusterUsers, backups>>
  BY <1>2 DEF RolledBack
<1>5. AlloyTypeOK /\ QueueInv /\ Working(c)
  BY <1>4 DEF AlloyIInv, AlloyInvariant, QueueInv, Holds, Working
<1>6. Requested(c).what = "createInstance"
  BY <1>4, <1>5 DEF QueueInv, RequestsFit, Holds
<1>7. cl \in Clusters /\ i \in AlloyInstances /\ ClusterOf[i] = cl
  BY <1>1, <1>2, <1>4, <1>6, HolderParts
<1>8. JobDone(c, i, ok, <<>>) /\ OnlyJob(c, i, cl)
  BY <1>1, <1>3, <1>4, <1>7, HolderEndsJob, HolderGoesOn, ShortQueues, Zenon
<1>9. /\ PlaneTypeOK' /\ planeJobs'[i] = <<>>
      /\ \A o \in AlloyInstances : o # i =>
           /\ planeJobs'[o] = planeJobs[o] /\ planeFiles'[o] = planeFiles[o]
           /\ o \in listening' <=> o \in listening
      /\ i \notin listening' /\ (ok => planeFiles'[i] = {})
  BY <1>4, <1>8 DEF JobDone, Holds
<1>10. /\ alloyRows[i] # NoRow
       /\ \A o \in AlloyInstances : ClusterOf[o] = cl /\ o # i => planeJobs[o] = <<>>
  BY <1>8 DEF OnlyJob
<1>11. CanRemove(i)
  <2>1. alloyRows[i] = Primary => InCluster(cl) = {i}
    BY <1>1, <1>2, <1>5, <1>6 DEF AlloyIInv, ChecksStay
  <2> QED
    BY <1>7, <2>1 DEF CanRemove
<1>12. /\ alloyRows' \in [AlloyInstances -> {Primary, ReadPool, NoRow}] /\ alloyRows'[i] = NoRow
       /\ \A o \in AlloyInstances : o # i => alloyRows'[o] = alloyRows[o]
  BY <1>4, <1>5, <1>7 DEF WithoutRows, AlloyTypeOK
<1>13. /\ leftFiles' \subseteq AlloyInstances
       /\ i \in leftFiles' \/ ok
       /\ \A o \in AlloyInstances : o # i => (o \in leftFiles' <=> o \in leftFiles)
  BY <1>4, <1>5, <1>7 DEF NotesDrop, AlloyTypeOK
<1>14. ClusterIsSound(cl)'
  <2>1. ClusterIsSound(cl)
    BY <1>7, SoundCluster
  <2>2. alloyRows \in [AlloyInstances -> {Primary, ReadPool, NoRow}]
    BY <1>5 DEF AlloyTypeOK
  <2>3. /\ cl \in clusters' <=> cl \in clusters
        /\ cl \in clusterUsers' <=> cl \in clusterUsers
        /\ i \in leftFiles' \/ planeFiles'[i] = {}
    BY <1>4, <1>9, <1>13
  <2> QED
    BY <1>7, <1>9, <1>10, <1>11, <1>12, <1>13, <2>1, <2>2, <2>3, Removed
<1>15. OnlyIn(cl)
  BY <1>4, <1>7, <1>9, <1>12, <1>13 DEF OnlyIn
<1>16. /\ clusterQueue' \in [Clusters -> Seq(AlloyCalls)]
       /\ alloyCalls' \in [AlloyCalls -> AlloyRecords \cup {NoRow}]
       /\ QueueInv' /\ alloyCalls'[c] = NoRow
       /\ \A d \in AlloyCalls : d # c => alloyCalls'[d] = alloyCalls[d]
  BY <1>4, <1>5, QueuesMove
<1>17. AlloyTypeOK'
  BY <1>4, <1>5, <1>9, <1>12, <1>13, <1>16 DEF AlloyTypeOK
<1>18. JobsAt(c, cl)' /\ ~Working(c)'
  BY <1>9, <1>10, <1>16, AwaitsNone
<1> QED
  BY <1>1, <1>4, <1>14, <1>15, <1>16, <1>17, <1>18, ClusterMoves

LEMMA StepDeleteInstance ==
  ASSUME AlloyIInv, NEW c \in AlloyCalls, DeleteInstance(c)
  PROVE  AlloyIInv'
<1>1. PICK cl : cl = Requested(c).cluster
  OBVIOUS
<1>2. PICK i : i = Requested(c).inst
  OBVIOUS
<1>4. /\ Holds(c, "arrived") /\ Requested(c).what = "deleteInstance"
      /\ Begins(c, Requested(c).what)
      /\ Asks(i, Job("drop", {}, c)) /\ AlloyWaits(c, "drop", {})
      /\ UNCHANGED <<alloyRowVars, leftFiles>>
  BY <1>2 DEF DeleteInstance, Begins
<1>5. /\ cl \in Clusters /\ i \in AlloyInstances /\ ClusterOf[i] = cl
      /\ AlloyTypeOK /\ QueueInv
  BY <1>1, <1>2, <1>4, HolderParts DEF AlloyIInv, AlloyInvariant, QueueInv
<1>6. alloyRows[i] # NoRow /\ CanRemove(i)
  BY <1>1, <1>2, <1>4 DEF DeleteInstance, Accepted
<1>7. /\ PlaneTypeOK' /\ planeJobs'[i] = <<Job("drop", {}, c)>>
      /\ \A o \in AlloyInstances : o # i => planeJobs'[o] = planeJobs[o]
      /\ \A o \in AlloyInstances : ClusterOf[o] = cl /\ o # i => planeJobs'[o] = <<>>
      /\ listening' = listening /\ planeFiles' = planeFiles
  BY <1>1, <1>4, <1>5, HolderAsks
<1>8. /\ clusterQueue' \in [Clusters -> Seq(AlloyCalls)]
      /\ alloyCalls' \in [AlloyCalls -> AlloyRecords \cup {NoRow}]
      /\ QueueInv'
      /\ \A d \in AlloyCalls : d # c => alloyCalls'[d] = alloyCalls[d]
      /\ alloyCalls'[c] = [request |-> Requested(c), stage |-> "drop", left |-> {}]
      /\ alloyCalls'[c] # NoRow
  <2>1. /\ "drop" \in AlloyStages /\ {} \in SUBSET AlloyInstances
        /\ "drop" \notin {"start", "rollback"}
        /\ Requested(c).what \in {"deleteInstance", "deleteCluster"}
    BY <1>4 DEF AlloyStages
  <2> QED
    BY <1>4, <1>5, <2>1, QueuesWait
<1>9. AlloyTypeOK'
  BY <1>4, <1>5, <1>7, <1>8 DEF AlloyTypeOK, alloyRowVars
<1>10. InCluster(cl)' = InCluster(cl) /\ alloyRows' = alloyRows
  BY <1>4 DEF InCluster, alloyRowVars
<1>11. ClusterIsSound(cl)'
  <2>1. ClusterIsSound(cl)
    BY <1>5, SoundCluster
  <2> QED
    BY <1>4, <1>7, <1>10, <2>1 DEF ClusterIsSound, alloyRowVars
<1>12. OnlyIn(cl)
  BY <1>4, <1>5, <1>7 DEF OnlyIn, alloyRowVars
<1>13. /\ Requested(c)' = Requested(c) /\ Working(c)' /\ JobOf(c)' = Job("drop", {}, c)
       /\ Job("drop", {}, c).caller = c
  BY <1>8 DEF Requested, Working, JobOf, Job
<1>14. ChecksOf(c)'
  <2>1. CanRemove(i)'
    BY <1>5, <1>6, <1>10 DEF CanRemove
  <2> QED
    BY <1>2, <1>4, <1>6, <1>10, <1>13, <2>1 DEF ChecksOf
<1>15. JobsAt(c, cl)'
  <2>1. \A o \in AlloyInstances : o # i =>
          planeJobs'[o] = IF ClusterOf[o] = cl THEN <<>> ELSE planeJobs[o]
    BY <1>7
  <2> QED
    BY <1>1, <1>2, <1>4, <1>5, <1>6, <1>7, <1>10, <1>13, <2>1, AwaitsOne
<1> QED
  BY <1>1, <1>4, <1>8, <1>9, <1>11, <1>12, <1>14, <1>15, ClusterMoves

LEMMA StepInstanceDropped ==
  ASSUME AlloyIInv, NEW c \in AlloyCalls, NEW ok \in BOOLEAN, InstanceDropped(c, ok)
  PROVE  AlloyIInv'
<1>1. PICK cl : cl = Requested(c).cluster
  OBVIOUS
<1>2. PICK i : i = Requested(c).inst
  OBVIOUS
<1>3. JobEnds(i, c, ok, <<>>)
  BY <1>2, Zenon DEF InstanceDropped
<1>4. /\ Holds(c, "drop") /\ AlloyAnswers(c) /\ Requested(c).what = "deleteInstance"
      /\ NotesDrop(i, ok) /\ WithoutRows(IF ok THEN {i} ELSE {})
      /\ UNCHANGED <<clusters, clusterUsers, backups>>
  BY <1>2 DEF InstanceDropped
<1>5. AlloyTypeOK /\ QueueInv /\ Working(c)
  BY <1>4 DEF AlloyIInv, AlloyInvariant, QueueInv, Holds, Working
<1>7. cl \in Clusters /\ i \in AlloyInstances /\ ClusterOf[i] = cl
  BY <1>1, <1>2, <1>4, HolderParts
<1>8. JobDone(c, i, ok, <<>>) /\ OnlyJob(c, i, cl)
  BY <1>1, <1>3, <1>4, <1>7, HolderEndsJob, HolderGoesOn, ShortQueues, Zenon
<1>9. /\ PlaneTypeOK' /\ planeJobs'[i] = <<>>
      /\ \A o \in AlloyInstances : o # i =>
           /\ planeJobs'[o] = planeJobs[o] /\ planeFiles'[o] = planeFiles[o]
           /\ o \in listening' <=> o \in listening
      /\ i \notin listening' /\ (ok => planeFiles'[i] = {})
  BY <1>4, <1>8 DEF JobDone, Holds
<1>10. /\ alloyRows[i] # NoRow
       /\ \A o \in AlloyInstances : ClusterOf[o] = cl /\ o # i => planeJobs[o] = <<>>
  BY <1>8 DEF OnlyJob
<1>11. CanRemove(i)
  BY <1>2, <1>4, <1>5 DEF AlloyIInv, ChecksStay
<1>12. /\ alloyRows' \in [AlloyInstances -> {Primary, ReadPool, NoRow}]
       /\ alloyRows'[i] = IF ok THEN NoRow ELSE alloyRows[i]
       /\ \A o \in AlloyInstances : o # i => alloyRows'[o] = alloyRows[o]
  BY <1>4, <1>5, <1>7 DEF WithoutRows, AlloyTypeOK
<1>13. /\ leftFiles' \subseteq AlloyInstances
       /\ i \in leftFiles' \/ ok
       /\ \A o \in AlloyInstances : o # i => (o \in leftFiles' <=> o \in leftFiles)
  BY <1>4, <1>5, <1>7 DEF NotesDrop, AlloyTypeOK
<1>14. ClusterIsSound(cl)'
  <2>1. ClusterIsSound(cl)
    BY <1>7, SoundCluster
  <2>2. alloyRows \in [AlloyInstances -> {Primary, ReadPool, NoRow}]
    BY <1>5 DEF AlloyTypeOK
  <2>3. /\ cl \in clusters' <=> cl \in clusters
        /\ cl \in clusterUsers' <=> cl \in clusterUsers
        /\ i \in leftFiles' \/ planeFiles'[i] = {}
    BY <1>4, <1>9, <1>13
  <2>4. CASE ok
    <3>1. alloyRows'[i] = NoRow
      BY <1>12, <2>4
    <3> QED
      BY <1>7, <1>9, <1>10, <1>11, <1>12, <1>13, <2>1, <2>2, <2>3, <3>1, Removed
  <2>5. CASE ~ok
    <3>1. \A o \in AlloyInstances : alloyRows'[o] = alloyRows[o]
      BY <1>12, <2>5
    <3>2. InCluster(cl)' = InCluster(cl) /\ \A o \in InCluster(cl) : o \in AlloyInstances
      BY <3>1 DEF InCluster
    <3> QED
      BY <1>4, <1>9, <1>10, <1>13, <2>1, <3>1, <3>2 DEF ClusterIsSound
  <2> QED
    BY <2>4, <2>5
<1>15. OnlyIn(cl)
  BY <1>4, <1>7, <1>9, <1>12, <1>13 DEF OnlyIn
<1>16. /\ clusterQueue' \in [Clusters -> Seq(AlloyCalls)]
       /\ alloyCalls' \in [AlloyCalls -> AlloyRecords \cup {NoRow}]
       /\ QueueInv' /\ alloyCalls'[c] = NoRow
       /\ \A d \in AlloyCalls : d # c => alloyCalls'[d] = alloyCalls[d]
  BY <1>4, <1>5, QueuesMove
<1>17. AlloyTypeOK'
  BY <1>4, <1>5, <1>9, <1>12, <1>13, <1>16 DEF AlloyTypeOK
<1>18. JobsAt(c, cl)' /\ ~Working(c)'
  BY <1>9, <1>10, <1>16, AwaitsNone
<1> QED
  BY <1>1, <1>4, <1>14, <1>15, <1>16, <1>17, <1>18, ClusterMoves

(* The rows under a cluster go with it.                                      *)
LEMMA Emptied ==
  ASSUME NEW cl \in Clusters, AlloyTypeOK, ClusterGone(cl),
         \A i \in AlloyInstances : ClusterOf[i] = cl =>
           i \notin listening' /\ (i \in leftFiles' \/ planeFiles'[i] = {})
  PROVE  /\ ClusterIsSound(cl)'
         /\ clusters' \subseteq Clusters /\ clusterUsers' \subseteq Clusters
         /\ alloyRows' \in [AlloyInstances -> {Primary, ReadPool, NoRow}]
         /\ \A i \in AlloyInstances : ClusterOf[i] # cl => alloyRows'[i] = alloyRows[i]
         /\ \A l \in Clusters : l # cl => /\ l \in clusters' <=> l \in clusters
                                          /\ l \in clusterUsers' <=> l \in clusterUsers
<1>1. /\ clusters' = clusters \ {cl} /\ clusterUsers' = clusterUsers \ {cl}
      /\ alloyRows' = [i \in AlloyInstances |-> IF i \in InCluster(cl) THEN NoRow ELSE alloyRows[i]]
  BY DEF ClusterGone, WithoutRows
<1>2. /\ alloyRows' \in [AlloyInstances -> {Primary, ReadPool, NoRow}]
      /\ \A i \in AlloyInstances :
           alloyRows'[i] = IF ClusterOf[i] = cl THEN NoRow ELSE alloyRows[i]
  BY <1>1 DEF AlloyTypeOK, InCluster
<1>3. InCluster(cl)' = {}
  BY <1>2 DEF InCluster
<1>4. ClusterIsSound(cl)'
  BY <1>1, <1>2, <1>3 DEF ClusterIsSound
<1> QED
  BY <1>1, <1>2, <1>4 DEF AlloyTypeOK

LEMMA StepDeleteCluster ==
  ASSUME AlloyIInv, NEW c \in AlloyCalls, DeleteCluster(c)
  PROVE  AlloyIInv'
<1>1. PICK cl : cl = Requested(c).cluster
  OBVIOUS
<1>2. /\ Holds(c, "arrived") /\ Requested(c).what = "deleteCluster"
      /\ Begins(c, Requested(c).what) /\ UNCHANGED leftFiles
  BY DEF DeleteCluster, Begins
<1>3. cl \in Clusters /\ AlloyTypeOK /\ QueueInv
  BY <1>1, <1>2, HolderParts DEF AlloyIInv, AlloyInvariant, QueueInv
<1>4. ClusterIsSound(cl)
  BY <1>3, SoundCluster
<1>5. CASE /\ InCluster(cl) = {} /\ ClusterGone(cl) /\ AlloyAnswers(c) /\ UNCHANGED planeVars
  <2>1. \A i \in AlloyInstances : ClusterOf[i] = cl =>
          i \notin listening' /\ (i \in leftFiles' \/ planeFiles'[i] = {})
    BY <1>2, <1>4, <1>5 DEF ClusterIsSound, InCluster, planeVars
  <2>2. /\ ClusterIsSound(cl)'
        /\ clusters' \subseteq Clusters /\ clusterUsers' \subseteq Clusters
        /\ alloyRows' \in [AlloyInstances -> {Primary, ReadPool, NoRow}]
        /\ \A i \in AlloyInstances : ClusterOf[i] # cl => alloyRows'[i] = alloyRows[i]
        /\ \A l \in Clusters : l # cl => /\ l \in clusters' <=> l \in clusters
                                         /\ l \in clusterUsers' <=> l \in clusterUsers
    BY <1>3, <1>5, <2>1, Emptied
  <2>3. backups' = backups
    BY <1>5 DEF ClusterGone
  <2> QED
    BY <1>1, <1>2, <1>5, <2>2, <2>3, AnsweredAtOnce
<1>6. ASSUME NEW i \in InCluster(cl), Asks(i, Job("drop", {}, c)),
             AlloyWaits(c, "drop", InCluster(cl) \ {i}), UNCHANGED alloyRowVars
      PROVE  AlloyIInv'
  <2>1. /\ i \in AlloyInstances /\ ClusterOf[i] = cl /\ alloyRows[i] # NoRow
        /\ InCluster(cl) \ {i} \in SUBSET AlloyInstances
    BY DEF InCluster
  <2>2. /\ PlaneTypeOK' /\ planeJobs'[i] = <<Job("drop", {}, c)>>
        /\ \A o \in AlloyInstances : o # i => planeJobs'[o] = planeJobs[o]
        /\ \A o \in AlloyInstances : ClusterOf[o] = cl /\ o # i => planeJobs'[o] = <<>>
        /\ listening' = listening /\ planeFiles' = planeFiles
    BY <1>1, <1>2, <1>6, <2>1, HolderAsks
  <2>3. /\ clusterQueue' \in [Clusters -> Seq(AlloyCalls)]
        /\ alloyCalls' \in [AlloyCalls -> AlloyRecords \cup {NoRow}]
        /\ QueueInv'
        /\ \A d \in AlloyCalls : d # c => alloyCalls'[d] = alloyCalls[d]
        /\ alloyCalls'[c] = [request |-> Requested(c), stage |-> "drop", left |-> InCluster(cl) \ {i}]
        /\ alloyCalls'[c] # NoRow
    <3>1. /\ "drop" \in AlloyStages
          /\ "drop" \notin {"start", "rollback"}
          /\ Requested(c).what \in {"deleteInstance", "deleteCluster"}
      BY <1>2 DEF AlloyStages
    <3> QED
      BY <1>2, <1>3, <1>6, <2>1, <3>1, QueuesWait
  <2>4. AlloyTypeOK'
    BY <1>2, <1>3, <1>6, <2>2, <2>3 DEF AlloyTypeOK, alloyRowVars
  <2>5. InCluster(cl)' = InCluster(cl) /\ alloyRows' = alloyRows
    BY <1>6 DEF InCluster, alloyRowVars
  <2>6. ClusterIsSound(cl)'
    BY <1>2, <1>4, <1>6, <2>2, <2>5 DEF ClusterIsSound, alloyRowVars
  <2>7. OnlyIn(cl)
    BY <1>2, <1>6, <2>1, <2>2 DEF OnlyIn, alloyRowVars
  <2>8. /\ Requested(c)' = Requested(c) /\ Working(c)' /\ JobOf(c)' = Job("drop", {}, c)
        /\ Job("drop", {}, c).caller = c /\ alloyCalls'[c].left = InCluster(cl) \ {i}
    BY <2>3 DEF Requested, Working, JobOf, Job
  <2>9. WaitsFor(c, i)'
    BY <2>2, <2>8 DEF WaitsFor
  <2>10. ChecksOf(c)'
    BY <1>1, <1>2, <2>5, <2>8, <2>9 DEF ChecksOf
  <2>11. JobsAt(c, cl)'
    <3>1. \A o \in AlloyInstances : o # i =>
            planeJobs'[o] = IF ClusterOf[o] = cl THEN <<>> ELSE planeJobs[o]
      BY <2>2
    <3> QED
      BY <1>1, <1>2, <2>1, <2>2, <2>5, <2>8, <3>1, AwaitsOne
  <2> QED
    BY <1>1, <1>2, <2>3, <2>4, <2>6, <2>7, <2>10, <2>11, ClusterMoves
<1> QED
  BY <1>1, <1>5, <1>6 DEF DeleteCluster

(* The drop of a cascade that another follows.                               *)
LEMMA HolderMoves ==
  ASSUME AlloyIInv, NEW c \in AlloyCalls, Holds(c, "drop"), NEW cl, cl = Requested(c).cluster,
         NEW i \in AlloyInstances, NEW o \in AlloyInstances, ClusterOf[o] = cl,
         NEW ok \in BOOLEAN, JobMoves(i, o, c, ok)
  PROVE  /\ OnlyJob(c, i, cl) /\ i # o /\ PlaneTypeOK'
         /\ planeJobs'[i] = <<>> /\ planeJobs'[o] = <<Job("drop", {}, c)>>
         /\ \A k \in AlloyInstances : k \notin {i, o} => planeJobs'[k] = planeJobs[k]
         /\ \A k \in AlloyInstances : k # i =>
              /\ planeFiles'[k] = planeFiles[k]
              /\ k \in listening' <=> k \in listening
         /\ i \notin listening' /\ (ok => planeFiles'[i] = {})
<1>1. PlaneTypeOK /\ AlloyInstances \subseteq PlaneInstances /\ c \in PlaneCallers
  BY AlloyAssumption DEF AlloyIInv, AlloyInvariant, AlloyTypeOK
<1>2. OnlyJob(c, i, cl)
  BY HolderGoesOn, Zenon
<1>3. i # o /\ Drops(i, ok)
  BY DEF JobMoves
<1>4. planeJobs[o] = <<>> /\ Tail(planeJobs[i]) = <<>>
  BY <1>2, <1>3 DEF OnlyJob
<1>5. Job("drop", {}, c) \in PlaneJobs
  BY <1>1 DEF Job, PlaneJobs
<1>6. /\ planeJobs \in [PlaneInstances -> Seq(PlaneJobs)] /\ Append(<<>>, Job("drop", {}, c)) = <<Job("drop", {}, c)>>
      /\ <<Job("drop", {}, c)>> \in Seq(PlaneJobs) /\ <<>> \in Seq(PlaneJobs)
  <2>1. Append(<<>>, Job("drop", {}, c)) = <<Job("drop", {}, c)>>
    OBVIOUS
  <2> QED
    BY <1>1, <1>5, <2>1, ShortQueues DEF PlaneTypeOK
<1>7. planeJobs' = [[planeJobs EXCEPT ![i] = <<>>] EXCEPT ![o] = <<Job("drop", {}, c)>>]
  <2>1. planeJobs' = [[planeJobs EXCEPT ![i] = Tail(@)] EXCEPT ![o] = Append(@, Job("drop", {}, c))]
    BY DEF JobMoves
  <2> DEFINE first == [planeJobs EXCEPT ![i] = Tail(@)]
  <2>2. first = [planeJobs EXCEPT ![i] = <<>>] /\ first[o] = <<>>
    BY <1>1, <1>3, <1>4, <1>6
  <2>3. planeJobs' = [first EXCEPT ![o] = Append(@, Job("drop", {}, c))]
    BY <2>1
  <2> HIDE DEF first
  <2>4. planeJobs' = [first EXCEPT ![o] = <<Job("drop", {}, c)>>]
    BY <1>6, <2>2, <2>3
  <2> QED
    BY <2>2, <2>4
<1> DEFINE q == <<Job("drop", {}, c)>>
<1> HIDE DEF q
<1>8. /\ planeJobs' \in [PlaneInstances -> Seq(PlaneJobs)]
      /\ planeJobs'[i] = <<>> /\ planeJobs'[o] = q
      /\ \A k \in AlloyInstances : k \notin {i, o} => planeJobs'[k] = planeJobs[k]
  BY <1>1, <1>3, <1>6, <1>7 DEF q
<1>9. /\ listening' \subseteq PlaneInstances
      /\ serves' \in [PlaneInstances -> SUBSET PlaneDatabases]
      /\ planeFiles' \in [PlaneInstances -> SUBSET PlaneDatabases]
      /\ \A k \in PlaneInstances \ listening' : serves'[k] = {}
      /\ \A k \in AlloyInstances : k # i =>
           /\ planeFiles'[k] = planeFiles[k]
           /\ k \in listening' <=> k \in listening
      /\ i \notin listening' /\ (ok => planeFiles'[i] = {})
  BY <1>1, <1>3 DEF Drops, PlaneTypeOK
<1> QED
  BY <1>2, <1>3, <1>8, <1>9 DEF PlaneTypeOK, q

LEMMA StepChildDropped ==
  ASSUME AlloyIInv, NEW c \in AlloyCalls, NEW i \in AlloyInstances, NEW ok \in BOOLEAN,
         ChildDropped(c, i, ok)
  PROVE  AlloyIInv'
<1>1. PICK cl : cl = Requested(c).cluster
  OBVIOUS
<1>2. /\ Holds(c, "drop") /\ Requested(c).what = "deleteCluster" /\ NotesDrop(i, ok)
  BY DEF ChildDropped
<1>3. AlloyTypeOK /\ QueueInv /\ Working(c)
  BY <1>2 DEF AlloyIInv, AlloyInvariant, QueueInv, Holds, Working
<1>4. cl \in Clusters
  BY <1>1, <1>2, HolderParts
<1>5. ClusterIsSound(cl)
  BY <1>4, SoundCluster
<1>6. /\ alloyCalls[c].left \subseteq InCluster(cl)
      /\ \A k \in InCluster(cl) \ alloyCalls[c].left : WaitsFor(c, k) \/ IsEmptied(k)
  BY <1>1, <1>2, <1>3 DEF AlloyIInv, ChecksStay
<1>7. /\ leftFiles' \subseteq AlloyInstances
      /\ i \in leftFiles' \/ ok
      /\ \A o \in AlloyInstances : o # i => (o \in leftFiles' <=> o \in leftFiles)
  BY <1>2, <1>3 DEF NotesDrop, AlloyTypeOK
<1>8. CASE /\ alloyCalls[c].left = {} /\ JobEnds(i, c, ok, <<>>)
           /\ ClusterGone(cl) /\ AlloyAnswers(c)
  <2>0. JobEnds(i, c, ok, <<>>)
    BY <1>8, Zenon
  <2>1. JobDone(c, i, ok, <<>>) /\ OnlyJob(c, i, cl)
    BY <1>1, <1>2, <2>0, HolderEndsJob, HolderGoesOn, ShortQueues, Zenon
  <2>2. /\ PlaneTypeOK' /\ planeJobs'[i] = <<>>
        /\ \A o \in AlloyInstances : o # i =>
             /\ planeJobs'[o] = planeJobs[o] /\ planeFiles'[o] = planeFiles[o]
             /\ o \in listening' <=> o \in listening
        /\ i \notin listening' /\ (ok => planeFiles'[i] = {})
    BY <1>2, <2>1 DEF JobDone, Holds
  <2>3. /\ ClusterOf[i] = cl /\ WaitsFor(c, i)
        /\ \A o \in AlloyInstances : ClusterOf[o] = cl /\ o # i => planeJobs[o] = <<>>
    BY <2>1 DEF OnlyJob
  <2>4. \A o \in AlloyInstances : ClusterOf[o] = cl =>
          o \notin listening' /\ (o \in leftFiles' \/ planeFiles'[o] = {})
    <3> SUFFICES ASSUME NEW o \in AlloyInstances, ClusterOf[o] = cl
                 PROVE  o \notin listening' /\ (o \in leftFiles' \/ planeFiles'[o] = {})
      OBVIOUS
    <3>1. CASE o = i
      BY <1>7, <2>2, <3>1
    <3>2. CASE o # i /\ o \in InCluster(cl)
      <4>1. ~WaitsFor(c, o)
        BY <2>3, <3>2 DEF AlloyIInv, JobsAreAwaited
      <4>2. IsEmptied(o)
        BY <1>6, <1>8, <3>2, <4>1
      <4> QED
        BY <1>7, <2>2, <3>2, <4>2 DEF IsEmptied
    <3>3. CASE o # i /\ o \notin InCluster(cl)
      <4>1. alloyRows[o] = NoRow
        BY <3>3 DEF InCluster
      <4> QED
        BY <1>5, <1>7, <2>2, <3>3, <4>1 DEF ClusterIsSound
    <3> QED
      BY <3>1, <3>2, <3>3
  <2>5. /\ ClusterIsSound(cl)'
        /\ clusters' \subseteq Clusters /\ clusterUsers' \subseteq Clusters
        /\ alloyRows' \in [AlloyInstances -> {Primary, ReadPool, NoRow}]
        /\ \A k \in AlloyInstances : ClusterOf[k] # cl => alloyRows'[k] = alloyRows[k]
        /\ \A l \in Clusters : l # cl => /\ l \in clusters' <=> l \in clusters
                                         /\ l \in clusterUsers' <=> l \in clusterUsers
    BY <1>3, <1>4, <1>8, <2>4, Emptied
  <2>6. backups' = backups
    BY <1>8 DEF ClusterGone
  <2>7. /\ clusterQueue' \in [Clusters -> Seq(AlloyCalls)]
        /\ alloyCalls' \in [AlloyCalls -> AlloyRecords \cup {NoRow}]
        /\ QueueInv' /\ alloyCalls'[c] = NoRow
        /\ \A d \in AlloyCalls : d # c => alloyCalls'[d] = alloyCalls[d]
    BY <1>2, <1>3, <1>8, QueuesMove
  <2>8. AlloyTypeOK'
    BY <1>3, <1>7, <2>2, <2>5, <2>6, <2>7 DEF AlloyTypeOK
  <2>9. OnlyIn(cl)
    BY <1>7, <2>2, <2>3, <2>5 DEF OnlyIn
  <2>10. JobsAt(c, cl)' /\ ~Working(c)'
    BY <2>2, <2>3, <2>7, AwaitsNone
  <2> QED
    BY <1>1, <1>2, <2>5, <2>7, <2>8, <2>9, <2>10, ClusterMoves
<1>9. ASSUME NEW o \in alloyCalls[c].left, JobMoves(i, o, c, ok),
             AlloyWaits(c, "drop", alloyCalls[c].left \ {o}), UNCHANGED alloyRowVars
      PROVE  AlloyIInv'
  <2>1. /\ o \in AlloyInstances /\ ClusterOf[o] = cl /\ alloyRows[o] # NoRow
        /\ alloyCalls[c].left \in SUBSET AlloyInstances
    BY <1>6, <1>9 DEF InCluster
  <2>2. /\ OnlyJob(c, i, cl) /\ i # o /\ PlaneTypeOK'
        /\ planeJobs'[i] = <<>> /\ planeJobs'[o] = <<Job("drop", {}, c)>>
        /\ \A k \in AlloyInstances : k \notin {i, o} => planeJobs'[k] = planeJobs[k]
        /\ \A k \in AlloyInstances : k # i =>
             /\ planeFiles'[k] = planeFiles[k]
             /\ k \in listening' <=> k \in listening
        /\ i \notin listening' /\ (ok => planeFiles'[i] = {})
    BY <1>1, <1>2, <1>9, <2>1, HolderMoves, Zenon
  <2>3. /\ ClusterOf[i] = cl /\ alloyRows[i] # NoRow /\ WaitsFor(c, i)
        /\ \A k \in AlloyInstances : ClusterOf[k] = cl /\ k # i => planeJobs[k] = <<>>
    BY <2>2 DEF OnlyJob
  <2>4. /\ clusterQueue' \in [Clusters -> Seq(AlloyCalls)]
        /\ alloyCalls' \in [AlloyCalls -> AlloyRecords \cup {NoRow}]
        /\ QueueInv'
        /\ \A d \in AlloyCalls : d # c => alloyCalls'[d] = alloyCalls[d]
        /\ alloyCalls'[c] = [request |-> Requested(c), stage |-> "drop",
                             left |-> alloyCalls[c].left \ {o}]
        /\ alloyCalls'[c] # NoRow
    <3>1. /\ "drop" \in AlloyStages /\ alloyCalls[c].left \ {o} \in SUBSET AlloyInstances
          /\ "drop" \notin {"start", "rollback"}
          /\ Requested(c).what \in {"deleteInstance", "deleteCluster"}
      BY <1>2, <2>1 DEF AlloyStages
    <3> QED
      BY <1>2, <1>3, <1>9, <3>1, QueuesWait
  <2>5. AlloyTypeOK'
    BY <1>3, <1>7, <1>9, <2>2, <2>4 DEF AlloyTypeOK, alloyRowVars
  <2>6. InCluster(cl)' = InCluster(cl) /\ alloyRows' = alloyRows
    BY <1>9 DEF InCluster, alloyRowVars
  <2>7. ClusterIsSound(cl)'
    BY <1>5, <1>7, <1>9, <2>2, <2>3, <2>6 DEF ClusterIsSound, alloyRowVars
  <2>8. OnlyIn(cl)
    BY <1>7, <1>9, <2>1, <2>2, <2>3 DEF OnlyIn, alloyRowVars
  <2>9. /\ Requested(c)' = Requested(c) /\ Working(c)' /\ JobOf(c)' = Job("drop", {}, c)
        /\ Job("drop", {}, c).caller = c /\ alloyCalls'[c].left = alloyCalls[c].left \ {o}
    BY <2>4 DEF Requested, Working, JobOf, Job
  <2>10. WaitsFor(c, o)'
    BY <2>2, <2>9 DEF WaitsFor
  <2>11. \A k \in InCluster(cl) \ (alloyCalls[c].left \ {o}) : WaitsFor(c, k)' \/ IsEmptied(k)'
    <3> SUFFICES ASSUME NEW k \in InCluster(cl) \ alloyCalls[c].left, k # o
                 PROVE  IsEmptied(k)'
      BY <2>10
    <3>0. k \in AlloyInstances
      BY DEF InCluster
    <3>1. CASE k = i
      BY <1>7, <2>2, <3>1 DEF IsEmptied
    <3>2. CASE k # i
      <4>1. ~WaitsFor(c, k)
        BY <2>3, <3>0, <3>2 DEF AlloyIInv, JobsAreAwaited
      <4>2. IsEmptied(k)
        BY <1>6, <4>1
      <4> QED
        BY <1>7, <2>2, <3>0, <3>2, <4>2 DEF IsEmptied
    <3> QED
      BY <3>1, <3>2
  <2>12. ChecksOf(c)'
    BY <1>1, <1>2, <1>6, <2>6, <2>9, <2>11 DEF ChecksOf
  <2>13. JobsAt(c, cl)'
    <3>1. \A k \in AlloyInstances : k # o =>
            planeJobs'[k] = IF ClusterOf[k] = cl THEN <<>> ELSE planeJobs[k]
      BY <2>2, <2>3
    <3> QED
      BY <1>1, <1>2, <2>1, <2>2, <2>6, <2>9, <3>1, AwaitsOne
  <2> QED
    BY <1>1, <1>2, <2>4, <2>5, <2>7, <2>8, <2>12, <2>13, ClusterMoves
<1> QED
  <2>1. \/ /\ alloyCalls[c].left = {} /\ JobEnds(i, c, ok, <<>>)
           /\ ClusterGone(cl) /\ AlloyAnswers(c)
        \/ \E o \in alloyCalls[c].left :
             /\ JobMoves(i, o, c, ok)
             /\ AlloyWaits(c, "drop", alloyCalls[c].left \ {o})
             /\ UNCHANGED alloyRowVars
    BY <1>1, Zenon DEF ChildDropped
  <2> QED
    BY <1>8, <1>9, <2>1, Zenon

(* Requests that arrive do not touch what those at work found.               *)
LEMMA StepAlloyArrives ==
  ASSUME AlloyIInv, NEW c \in AlloyCalls, NEW r \in AlloyRequests,
         "inst" \in DOMAIN r => ClusterOf[r.inst] = r.cluster, AlloyArrives(c, r)
  PROVE  AlloyIInv'
<1>1. AlloyTypeOK /\ QueueInv
  BY DEF AlloyIInv, AlloyInvariant, QueueInv
<1>2. /\ clusterQueue' \in [Clusters -> Seq(AlloyCalls)]
      /\ alloyCalls' \in [AlloyCalls -> AlloyRecords \cup {NoRow}]
      /\ QueueInv'
      /\ \A d \in AlloyCalls : d # c => alloyCalls'[d] = alloyCalls[d]
      /\ ~Working(c) /\ ~Working(c)'
  BY <1>1, QueuesGrow
<1>3. UNCHANGED <<alloyRowVars, leftFiles, planeVars>>
  BY DEF AlloyArrives
<1>4. AlloyTypeOK'
  BY <1>1, <1>2, <1>3 DEF AlloyTypeOK, PlaneTypeOK, alloyRowVars, planeVars
<1>5. \A d \in AlloyCalls :
        /\ Working(d)' <=> Working(d)
        /\ Working(d) => /\ alloyCalls'[d] = alloyCalls[d] /\ Requested(d)' = Requested(d)
                         /\ JobOf(d)' = JobOf(d)
  BY <1>2 DEF Working, Requested, JobOf
<1>6. /\ \A d \in AlloyCalls : \A i : WaitsFor(d, i)' <=> WaitsFor(d, i)
      /\ \A l : InCluster(l)' = InCluster(l)
      /\ \A i : /\ IsEmptied(i)' <=> IsEmptied(i)
                /\ CanRemove(i)' <=> CanRemove(i)
  BY <1>3, <1>5 DEF WaitsFor, InCluster, IsEmptied, CanRemove, alloyRowVars, planeVars
<1>7. /\ ChildrenHaveTheirCluster' /\ PlacementHolds'
      /\ AlloyEndpointsHaveRows' /\ AlloyFilesHaveRows'
  BY <1>3, <1>6 DEF AlloyIInv, AlloyInvariant, ChildrenHaveTheirCluster, PlacementHolds,
                    AlloyEndpointsHaveRows, AlloyFilesHaveRows, alloyRowVars, planeVars
<1>8. JobsAreAwaited'
  <2>1. planeJobs' = planeJobs /\ alloyRows' = alloyRows /\ JobsAreAwaited
    BY <1>3 DEF alloyRowVars, planeVars, AlloyIInv
  <2>2. \A d \in AlloyCalls : \A i : WaitsFor(d, i) => Working(d)
    BY DEF WaitsFor
  <2> QED
    BY <1>5, <1>6, <2>1, <2>2 DEF JobsAreAwaited
<1>9. ChecksStay'
  <2> SUFFICES ASSUME NEW d \in AlloyCalls, Working(d)'  PROVE ChecksOf(d)'
    BY DEF ChecksStay, ChecksOf
  <2>1. ChecksOf(d) /\ Working(d)
    BY <1>5 DEF AlloyIInv, ChecksStay, ChecksOf
  <2>2. alloyRows' = alloyRows /\ alloyCalls'[d] = alloyCalls[d] /\ Requested(d)' = Requested(d)
    BY <1>3, <1>5, <2>1 DEF alloyRowVars
  <2>3. Requested(d)'.what = "deleteInstance" => CanRemove(Requested(d).inst)'
    <3>1. \A i : Requested(d).what = "deleteInstance" /\ i = Requested(d).inst => CanRemove(i)'
      BY <1>6, <2>1 DEF ChecksOf
    <3> QED
      BY <2>2, <3>1
  <2> QED
    BY <1>6, <2>1, <2>2, <2>3 DEF ChecksOf
<1> QED
  BY <1>2, <1>4, <1>7, <1>8, <1>9 DEF AlloyIInv, AlloyInvariant, QueueInv

(* Nothing but the backups changes, or nothing at all.                       *)
LEMMA StepBackups ==
  ASSUME AlloyIInv, backups' \subseteq AlloyBackups,
         UNCHANGED <<clusters, alloyRows, clusterUsers, clusterQueue, alloyCalls, leftFiles, planeVars>>
  PROVE  AlloyIInv'
<1>1. AlloyTypeOK' /\ ChildrenHaveTheirCluster' /\ AlloyEndpointsHaveRows' /\ AlloyFilesHaveRows'
  BY DEF AlloyIInv, AlloyInvariant, AlloyTypeOK, PlaneTypeOK, planeVars,
         ChildrenHaveTheirCluster, AlloyEndpointsHaveRows, AlloyFilesHaveRows
<1>2. PlacementHolds'
  BY DEF AlloyIInv, AlloyInvariant, PlacementHolds, InCluster
<1>3. KeysAreQueued' /\ RequestsFit'
  BY DEF AlloyIInv, KeysAreQueued, RequestsFit, Requested, Working
<1>4. JobsAreAwaited'
  BY ZenonT(60) DEF AlloyIInv, JobsAreAwaited, WaitsFor, JobOf, Working, Requested, planeVars
<1>5. ChecksStay'
  BY ZenonT(60) DEF AlloyIInv, ChecksStay, WaitsFor, JobOf, Working, Requested, planeVars,
         InCluster, CanRemove, IsEmptied
<1> QED
  BY <1>1, <1>2, <1>3, <1>4, <1>5 DEF AlloyIInv, AlloyInvariant

LEMMA PlaneRehydrates ==
  ASSUME PlaneTypeOK, NEW persisted, NEW up, NEW named, Rehydrated(persisted, up, named),
         persisted \subseteq PlaneInstances, \A i \in up : named[i] \in SUBSET PlaneDatabases
  PROVE  PlaneTypeOK'
<1>1. /\ up \subseteq PlaneInstances /\ planeFiles \in [PlaneInstances -> SUBSET PlaneDatabases]
      /\ <<>> \in Seq(PlaneJobs)
  BY ShortQueues DEF PlaneTypeOK, Rehydrated
<1>2. planeJobs' \in [PlaneInstances -> Seq(PlaneJobs)]
  BY <1>1 DEF Rehydrated
<1>3. serves' \in [PlaneInstances -> SUBSET PlaneDatabases]
  BY <1>1 DEF Rehydrated
<1>4. planeFiles' \in [PlaneInstances -> SUBSET PlaneDatabases]
  BY <1>1 DEF Rehydrated
<1>5. listening' \subseteq PlaneInstances /\ \A i \in PlaneInstances \ listening' : serves'[i] = {}
  BY <1>1 DEF Rehydrated
<1> QED
  BY <1>2, <1>3, <1>4, <1>5 DEF PlaneTypeOK

LEMMA StepAlloyRestarts ==
  ASSUME AlloyIInv, AlloyRestarts
  PROVE  AlloyIInv'
<1> DEFINE rows == {i \in AlloyInstances : alloyRows[i] # NoRow}
<1>1. PICK up \in SUBSET rows : Rehydrated(rows, up, [i \in up |-> {DefaultDatabase}])
  BY DEF AlloyRestarts
<1>2. AlloyTypeOK /\ AlloyInstances \subseteq PlaneInstances /\ DefaultDatabase \in PlaneDatabases
  BY AlloyAssumption DEF AlloyIInv, AlloyInvariant
<1>3. PlaneTypeOK'
  <2>1. \A i \in up : [k \in up |-> {DefaultDatabase}][i] \in SUBSET PlaneDatabases
    BY <1>2
  <2>2. PlaneTypeOK /\ rows \subseteq PlaneInstances
    BY <1>2 DEF AlloyTypeOK
  <2> HIDE DEF rows
  <2> QED
    BY <1>1, <2>1, <2>2, PlaneRehydrates
<1>4. /\ \A i \in AlloyInstances : planeJobs'[i] = <<>> /\ (i \notin rows => planeFiles'[i] = planeFiles[i])
      /\ listening' \subseteq rows
  BY <1>1, <1>2 DEF Rehydrated
<1>5. /\ \A cl \in Clusters : clusterQueue'[cl] = <<>>
      /\ \A c \in AlloyCalls : alloyCalls'[c] = NoRow
      /\ clusterQueue' \in [Clusters -> Seq(AlloyCalls)]
      /\ alloyCalls' \in [AlloyCalls -> AlloyRecords \cup {NoRow}]
      /\ alloyRows' = alloyRows /\ clusters' = clusters /\ clusterUsers' = clusterUsers
      /\ backups' = backups
      /\ leftFiles \subseteq leftFiles' /\ leftFiles' \subseteq AlloyInstances
  BY <1>2 DEF AlloyRestarts, alloyRowVars, AlloyTypeOK
<1>6. AlloyTypeOK'
  BY <1>2, <1>3, <1>5 DEF AlloyTypeOK
<1>7. ChildrenHaveTheirCluster' /\ AlloyEndpointsHaveRows' /\ AlloyFilesHaveRows'
  BY <1>4, <1>5 DEF AlloyIInv, AlloyInvariant, ChildrenHaveTheirCluster,
                    AlloyEndpointsHaveRows, AlloyFilesHaveRows
<1>8. PlacementHolds'
  BY <1>5 DEF AlloyIInv, AlloyInvariant, PlacementHolds, InCluster
<1>9. KeysAreQueued' /\ RequestsFit' /\ \A c \in AlloyCalls : ~Working(c)'
  BY <1>5 DEF KeysAreQueued, RequestsFit, Working
<1>10. JobsAreAwaited' /\ ChecksStay'
  BY <1>4, <1>9 DEF JobsAreAwaited, ChecksStay, WaitsFor
<1> QED
  BY <1>6, <1>7, <1>8, <1>9, <1>10 DEF AlloyIInv, AlloyInvariant

LEMMA AlloyStarts == AlloyInit => AlloyIInv
<1> SUFFICES ASSUME AlloyInit  PROVE AlloyIInv
  OBVIOUS
<1>1. /\ \A i \in AlloyInstances : alloyRows[i] = NoRow /\ planeJobs[i] = <<>> /\ planeFiles[i] = {}
      /\ \A c \in AlloyCalls : alloyCalls[c] = NoRow
      /\ \A cl \in Clusters : clusterQueue[cl] = <<>>
      /\ listening = {} /\ clusters = {} /\ clusterUsers = {}
  BY AlloyAssumption DEF AlloyInit, PlaneInit
<1>2. PlaneTypeOK
  BY ShortQueues DEF AlloyInit, PlaneInit, PlaneTypeOK
<1>3. AlloyTypeOK
  BY <1>2 DEF AlloyInit, AlloyTypeOK
<1>4. ChildrenHaveTheirCluster /\ PlacementHolds /\ AlloyEndpointsHaveRows /\ AlloyFilesHaveRows
  BY <1>1 DEF ChildrenHaveTheirCluster, PlacementHolds, AlloyEndpointsHaveRows, AlloyFilesHaveRows,
              InCluster
<1>5. KeysAreQueued /\ RequestsFit /\ JobsAreAwaited /\ ChecksStay
  BY <1>1 DEF KeysAreQueued, RequestsFit, JobsAreAwaited, ChecksStay, WaitsFor, Working
<1> QED
  BY <1>3, <1>4, <1>5 DEF AlloyIInv, AlloyInvariant

LEMMA AlloyGoesOn == AlloyIInv /\ [AlloyNext]_alloyVars => AlloyIInv'
<1> SUFFICES ASSUME AlloyIInv, [AlloyNext]_alloyVars  PROVE AlloyIInv'
  OBVIOUS
<1>1. ASSUME NEW c \in AlloyCalls, NEW r \in AlloyRequests,
             "inst" \in DOMAIN r => ClusterOf[r.inst] = r.cluster, AlloyArrives(c, r)
      PROVE  AlloyIInv'
  BY <1>1, StepAlloyArrives
<1>2. ASSUME NEW c \in AlloyCalls, AlloyTurn(c)  PROVE AlloyIInv'
  <2>1. CASE Refused(c)
    BY <2>1, StepRefused
  <2>2. CASE CreateCluster(c)
    BY <2>2, StepCreateCluster
  <2>3. CASE CreateInstance(c)
    BY <2>3, StepCreateInstance
  <2>4. CASE UpdateInstance(c)
    BY <2>4, StepUpdateInstance
  <2>5. CASE ChangeUser(c)
    BY <2>5, StepChangeUser
  <2>6. CASE DeleteInstance(c)
    BY <2>6, StepDeleteInstance
  <2>7. CASE DeleteCluster(c)
    BY <2>7, StepDeleteCluster
  <2>8. ASSUME NEW ok \in BOOLEAN, InstanceStarted(c, ok)  PROVE AlloyIInv'
    BY <2>8, StepInstanceStarted, Zenon
  <2>9. ASSUME NEW ok \in BOOLEAN, RolledBack(c, ok)  PROVE AlloyIInv'
    BY <2>9, StepRolledBack, Zenon
  <2>10. ASSUME NEW ok \in BOOLEAN, InstanceDropped(c, ok)  PROVE AlloyIInv'
    BY <2>10, StepInstanceDropped, Zenon
  <2>11. ASSUME NEW ok \in BOOLEAN, NEW i \in AlloyInstances, ChildDropped(c, i, ok)  PROVE AlloyIInv'
    BY <2>11, StepChildDropped, Zenon
  <2> QED
    BY <1>2, <2>1, <2>2, <2>3, <2>4, <2>5, <2>6, <2>7, <2>8, <2>9, <2>10, <2>11, Zenon
       DEF AlloyTurn
<1>3. ASSUME NEW b \in AlloyBackups, ChangeBackup(b)  PROVE AlloyIInv'
  BY <1>3, StepBackups DEF ChangeBackup, AlloyIInv, AlloyInvariant, AlloyTypeOK
<1>4. CASE AlloyRestarts
  BY <1>4, StepAlloyRestarts
<1>5. CASE UNCHANGED alloyVars
  BY <1>5, StepBackups DEF alloyVars, alloyRowVars, AlloyIInv, AlloyInvariant, AlloyTypeOK
<1> QED
  BY <1>1, <1>2, <1>3, <1>4, <1>5 DEF AlloyNext

(* AlloyInvariant for any clusters, instances and requests: no row outlives  *)
(* its cluster, the placement rules hold through every creation, update,     *)
(* rollback and cascade that the mutex of the cluster lines up, and an       *)
(* endpoint or a file without a row was left by a drop that failed.          *)
THEOREM ClustersAreSound == AlloySpec => []AlloyInvariant
<1>1. AlloyIInv => AlloyInvariant
  BY DEF AlloyIInv
<1> QED
  BY <1>1, AlloyStarts, AlloyGoesOn, PTL DEF AlloySpec

-----------------------------------------------------------------------------
(* Cloud SQL.  The jobs queued at an instance are those of its requests in   *)
(* flight; and while nobody has failed or crossed another, the databases it  *)
(* will serve once they have run are those there are rows of.                *)
Gives(job, d) == job.what \in {"start", "open"} /\ d \in job.databases
Takes(job, d) ==
  \/ job.what = "start" /\ d \notin job.databases
  \/ job.what = "dropDatabase" /\ d \in job.databases

(* Database d is served when the first n of the jobs q have run, where those *)
(* of served are before.                                                     *)
ServedBy(q, n, served, d) ==
  \/ \E k \in 1..n : Gives(q[k], d) /\ \A m \in (k + 1)..n : ~Takes(q[m], d)
  \/ d \in served /\ \A m \in 1..n : ~Takes(q[m], d)

(* Job is what request r of instance i asks for.                             *)
AskedBy(i, job, r) ==
  /\ r.inst = i
  /\ CASE r.what = "create" -> job.what = "start"
       [] r.what = "restart" -> job.what = "start"
       [] r.what \in {"rollback", "delete"} -> job.what = "drop"
       [] r.what = "createDatabase" -> job.what = "open" /\ job.databases = {r.database}
       [] r.what = "deleteDatabase" -> job.what = "dropDatabase" /\ job.databases = {r.database}

JobFits(i, job) ==
  job.caller \in SqlCalls /\ sqlCalls[job.caller] # NoRow /\ AskedBy(i, job, sqlCalls[job.caller])

JobsAreRequests ==
  \A i \in SqlInstances :
    /\ \A k \in 1..Len(planeJobs[i]) : JobFits(i, planeJobs[i][k])
    /\ \A k, m \in 1..Len(planeJobs[i]) : planeJobs[i][k].caller = planeJobs[i][m].caller => k = m
    /\ \A c \in InFlight(i) : \E k \in 1..Len(planeJobs[i]) : planeJobs[i][k].caller = c

HasNoDrop(i) == \A k \in 1..Len(planeJobs[i]) : planeJobs[i][k].what # "drop"

(* Once the jobs q have run, from S on, exactly dbs are served; and no open   *)
(* of q finds its database served already.                                   *)
Matches(q, S, dbs) ==
  /\ \A d \in PlaneDatabases : d \in dbs <=> ServedBy(q, Len(q), S, d)
  /\ \A k \in 1..Len(q) : q[k].what = "open" =>
       \A d \in q[k].databases : ~ServedBy(q, k - 1, S, d)

CreatesFirst(i) ==
  \A k \in 1..Len(planeJobs[i]) : sqlCalls[planeJobs[i][k].caller].what = "create" => k = 1

WillListen(i) == i \in listening \/ (planeJobs[i] # <<>> /\ planeJobs[i][1].what = "start")

WillMatch(i) ==
  WillListen(i) /\ Matches(planeJobs[i], serves[i], sqlRows[i].databases) /\ CreatesFirst(i)

PromiseKept(i) ==
  Blameless(i) =>
    IF SqlHas(i) THEN HasNoDrop(i) => WillMatch(i)
    ELSE InFlight(i) = {} /\ i \notin listening /\ planeFiles[i] = {}

SqlIInv == CloudSqlTypeOK /\ JobsAreRequests /\ \A i \in SqlInstances : PromiseKept(i)

LEMMA ServedAppend ==
  ASSUME NEW q \in Seq(PlaneJobs), NEW job \in PlaneJobs, NEW S, NEW d
  PROVE  /\ \A n \in 0..Len(q) : ServedBy(Append(q, job), n, S, d) <=> ServedBy(q, n, S, d)
         /\ ServedBy(Append(q, job), Len(q) + 1, S, d)
            <=> Gives(job, d) \/ (ServedBy(q, Len(q), S, d) /\ ~Takes(job, d))
<1> DEFINE p == Append(q, job)
<1>1. /\ Len(q) \in Nat /\ p[Len(q) + 1] = job
      /\ \A k \in 1..Len(q) : p[k] = q[k]
  OBVIOUS
<1> HIDE DEF p
<1>2. ASSUME NEW n \in 0..Len(q)
      PROVE  ServedBy(p, n, S, d) <=> ServedBy(q, n, S, d)
  <2>1. \A k \in 1..n : p[k] = q[k] /\ \A m \in (k + 1)..n : p[m] = q[m]
    BY <1>1
  <2> QED
    BY <2>1 DEF ServedBy
<1>3. ServedBy(p, Len(q) + 1, S, d) <=> Gives(job, d) \/ (ServedBy(p, Len(q), S, d) /\ ~Takes(job, d))
  <2>1. ASSUME ServedBy(p, Len(q) + 1, S, d)
        PROVE  Gives(job, d) \/ (ServedBy(p, Len(q), S, d) /\ ~Takes(job, d))
    <3>1. CASE d \in S /\ \A m \in 1..(Len(q) + 1) : ~Takes(p[m], d)
      BY <1>1, <3>1 DEF ServedBy
    <3>2. ASSUME NEW k \in 1..(Len(q) + 1), Gives(p[k], d),
                 \A m \in (k + 1)..(Len(q) + 1) : ~Takes(p[m], d)
          PROVE  Gives(job, d) \/ (ServedBy(p, Len(q), S, d) /\ ~Takes(job, d))
      <4>1. CASE k = Len(q) + 1
        BY <1>1, <3>2, <4>1
      <4>2. CASE k # Len(q) + 1
        <5>1. k \in 1..Len(q) /\ Len(q) + 1 \in (k + 1)..(Len(q) + 1)
          BY <1>1, <4>2
        <5>2. \A m \in (k + 1)..Len(q) : m \in (k + 1)..(Len(q) + 1)
          BY <1>1
        <5> QED
          BY <1>1, <3>2, <5>1, <5>2 DEF ServedBy
      <4> QED
        BY <4>1, <4>2
    <3> QED
      BY <2>1, <3>1, <3>2 DEF ServedBy
  <2>2. ASSUME Gives(job, d)  PROVE ServedBy(p, Len(q) + 1, S, d)
    <3>1. Len(q) + 1 \in 1..(Len(q) + 1) /\ \A m \in (Len(q) + 1 + 1)..(Len(q) + 1) : FALSE
      BY <1>1
    <3> QED
      BY <1>1, <2>2, <3>1 DEF ServedBy
  <2>3. ASSUME ServedBy(p, Len(q), S, d), ~Takes(job, d)  PROVE ServedBy(p, Len(q) + 1, S, d)
    <3>1. \A k \in 1..Len(q) : /\ k \in 1..(Len(q) + 1)
                               /\ \A m \in (k + 1)..(Len(q) + 1) : m \in (k + 1)..Len(q) \/ m = Len(q) + 1
      BY <1>1
    <3>2. \A m \in 1..(Len(q) + 1) : m \in 1..Len(q) \/ m = Len(q) + 1
      BY <1>1
    <3> QED
      BY <1>1, <2>3, <3>1, <3>2 DEF ServedBy
  <2> QED
    BY <2>1, <2>2, <2>3
<1> QED
  BY <1>1, <1>2, <1>3 DEF p

LEMMA ServedTail ==
  ASSUME NEW q \in Seq(PlaneJobs), q # <<>>, NEW n \in 0..(Len(q) - 1), NEW S, NEW T, NEW d,
         d \in T <=> Gives(q[1], d) \/ (d \in S /\ ~Takes(q[1], d))
  PROVE  ServedBy(Tail(q), n, T, d) <=> ServedBy(q, n + 1, S, d)
<1> DEFINE t == Tail(q)
<1>1. /\ Len(q) \in Nat /\ Len(q) >= 1 /\ n \in Nat
      /\ \A k \in 1..n : t[k] = q[k + 1]
  OBVIOUS
<1> HIDE DEF t
<1>2. (\A m \in 1..n : ~Takes(t[m], d)) <=> \A m \in 2..(n + 1) : ~Takes(q[m], d)
  <2>1. ASSUME \A m \in 1..n : ~Takes(t[m], d), NEW m \in 2..(n + 1)  PROVE ~Takes(q[m], d)
    <3>1. m - 1 \in 1..n /\ (m - 1) + 1 = m
      BY <1>1
    <3> QED
      BY <1>1, <2>1, <3>1
  <2>2. ASSUME \A m \in 2..(n + 1) : ~Takes(q[m], d), NEW m \in 1..n  PROVE ~Takes(t[m], d)
    <3>1. m + 1 \in 2..(n + 1)
      BY <1>1
    <3> QED
      BY <1>1, <2>2, <3>1
  <2> QED
    BY <2>1, <2>2
<1>3. ASSUME NEW k \in 1..n
      PROVE  (\A m \in (k + 1)..n : ~Takes(t[m], d)) <=> \A m \in (k + 2)..(n + 1) : ~Takes(q[m], d)
  <2>1. ASSUME \A m \in (k + 1)..n : ~Takes(t[m], d), NEW m \in (k + 2)..(n + 1)  PROVE ~Takes(q[m], d)
    <3>1. m - 1 \in (k + 1)..n /\ m - 1 \in 1..n /\ (m - 1) + 1 = m
      BY <1>1
    <3> QED
      BY <1>1, <2>1, <3>1
  <2>2. ASSUME \A m \in (k + 2)..(n + 1) : ~Takes(q[m], d), NEW m \in (k + 1)..n  PROVE ~Takes(t[m], d)
    <3>1. m + 1 \in (k + 2)..(n + 1) /\ m \in 1..n
      BY <1>1
    <3> QED
      BY <1>1, <2>2, <3>1
  <2> QED
    BY <2>1, <2>2
<1>4. ASSUME ServedBy(t, n, T, d)  PROVE ServedBy(q, n + 1, S, d)
  <2>1. CASE d \in T /\ \A m \in 1..n : ~Takes(t[m], d)
    <3>1. \A m \in 2..(n + 1) : ~Takes(q[m], d)
      BY <1>2, <2>1
    <3>2. CASE Gives(q[1], d)
      BY <1>1, <3>1, <3>2 DEF ServedBy
    <3>3. CASE d \in S /\ ~Takes(q[1], d)
      <4>1. \A m \in 1..(n + 1) : m = 1 \/ m \in 2..(n + 1)
        BY <1>1
      <4> QED
        BY <3>1, <3>3, <4>1 DEF ServedBy
    <3> QED
      BY <2>1, <3>2, <3>3
  <2>2. ASSUME NEW k \in 1..n, Gives(t[k], d), \A m \in (k + 1)..n : ~Takes(t[m], d)
        PROVE  ServedBy(q, n + 1, S, d)
    <3>1. k + 1 \in 1..(n + 1) /\ Gives(q[k + 1], d) /\ (k + 1) + 1 = k + 2
      BY <1>1, <2>2
    <3>2. \A m \in (k + 2)..(n + 1) : ~Takes(q[m], d)
      BY <1>3, <2>2
    <3> QED
      BY <3>1, <3>2 DEF ServedBy
  <2> QED
    BY <1>4, <2>1, <2>2 DEF ServedBy
<1>5. ASSUME ServedBy(q, n + 1, S, d)  PROVE ServedBy(t, n, T, d)
  <2>1. CASE d \in S /\ \A m \in 1..(n + 1) : ~Takes(q[m], d)
    <3>1. d \in T /\ \A m \in 2..(n + 1) : ~Takes(q[m], d)
      BY <1>1, <2>1
    <3> QED
      BY <1>2, <3>1 DEF ServedBy
  <2>2. ASSUME NEW k \in 1..(n + 1), Gives(q[k], d), \A m \in (k + 1)..(n + 1) : ~Takes(q[m], d)
        PROVE  ServedBy(t, n, T, d)
    <3>1. CASE k = 1
      <4>1. d \in T /\ \A m \in 2..(n + 1) : ~Takes(q[m], d)
        BY <2>2, <3>1
      <4> QED
        BY <1>2, <4>1 DEF ServedBy
    <3>2. CASE k # 1
      <4>1. k - 1 \in 1..n /\ (k - 1) + 1 = k /\ (k - 1) + 2 = k + 1
        BY <1>1, <3>2
      <4>2. Gives(t[k - 1], d) /\ \A m \in ((k - 1) + 1)..n : ~Takes(t[m], d)
        BY <1>1, <1>3, <2>2, <4>1
      <4> QED
        BY <4>1, <4>2 DEF ServedBy
    <3> QED
      BY <3>1, <3>2
  <2> QED
    BY <1>5, <2>1, <2>2 DEF ServedBy
<1> QED
  BY <1>4, <1>5 DEF t

LEMMA SqlRequestParts ==
  /\ \A r \in SqlRequests :
       /\ r # NoRow /\ r.inst \in SqlInstances
       /\ r.what \in {"create", "rollback", "delete", "restart", "createDatabase", "deleteDatabase"}
       /\ r.what \in {"createDatabase", "deleteDatabase"} => r.database \in PlaneDatabases
  /\ \A what \in {"create", "rollback", "delete", "restart"} : \A i \in SqlInstances :
       [what |-> what, inst |-> i] \in SqlRequests
  /\ \A what \in {"createDatabase", "deleteDatabase"} : \A i \in SqlInstances :
       \A d \in PlaneDatabases : [what |-> what, inst |-> i, database |-> d] \in SqlRequests
BY CloudSqlAssumption DEF SqlRequests

LEMMA SqlRowParts ==
  \A row \in SqlRecords : /\ row # NoRow /\ row.databases \subseteq PlaneDatabases
                          /\ row.users \in SUBSET {Postgres} /\ row.version \in 1..MaxSettings
BY CloudSqlAssumption DEF SqlRecords

(* The queue of one instance and its requests.                               *)
QueueFits(i) ==
  /\ \A k \in 1..Len(planeJobs[i]) : JobFits(i, planeJobs[i][k])
  /\ \A k, m \in 1..Len(planeJobs[i]) : planeJobs[i][k].caller = planeJobs[i][m].caller => k = m
  /\ \A c \in InFlight(i) : \E k \in 1..Len(planeJobs[i]) : planeJobs[i][k].caller = c

(* Nothing of another instance changes.                                      *)
SqlOnlyIn(i) ==
  /\ \A o \in SqlInstances : o # i =>
       /\ sqlRows'[o] = sqlRows[o] /\ planeJobs'[o] = planeJobs[o]
       /\ o \in listening' <=> o \in listening
       /\ serves'[o] = serves[o] /\ planeFiles'[o] = planeFiles[o]
       /\ o \in degraded' <=> o \in degraded
       /\ o \in crossed' <=> o \in crossed
  /\ \A c \in SqlCalls : sqlCalls'[c] = sqlCalls[c] \/
       /\ sqlCalls[c] # NoRow => sqlCalls[c].inst = i
       /\ sqlCalls'[c] # NoRow => sqlCalls'[c].inst = i

LEMMA SqlMoves ==
  ASSUME SqlIInv, CloudSqlTypeOK', NEW i \in SqlInstances, SqlOnlyIn(i),
         QueueFits(i)', PromiseKept(i)'
  PROVE  SqlIInv'
<1>1. ASSUME NEW o \in SqlInstances, o # i
      PROVE  QueueFits(o)' /\ PromiseKept(o)'
  <2>1. QueueFits(o) /\ PromiseKept(o)
    BY DEF SqlIInv, JobsAreRequests, QueueFits
  <2>2. /\ sqlRows'[o] = sqlRows[o] /\ planeJobs'[o] = planeJobs[o]
        /\ o \in listening' <=> o \in listening
        /\ serves'[o] = serves[o] /\ planeFiles'[o] = planeFiles[o]
        /\ o \in degraded' <=> o \in degraded
        /\ o \in crossed' <=> o \in crossed
    BY <1>1 DEF SqlOnlyIn
  <2>3. \A c \in SqlCalls : sqlCalls[c] # NoRow /\ sqlCalls[c].inst = o => sqlCalls'[c] = sqlCalls[c]
    BY <1>1 DEF SqlOnlyIn
  <2>4. InFlight(o)' = InFlight(o)
    BY <1>1 DEF SqlOnlyIn, InFlight
  <2>5. \A k \in 1..Len(planeJobs[o]) :
          /\ planeJobs[o][k].caller \in SqlCalls
          /\ sqlCalls'[planeJobs[o][k].caller] = sqlCalls[planeJobs[o][k].caller]
    BY <2>1, <2>3 DEF QueueFits, JobFits, AskedBy
  <2>7. QueueFits(o)'
    BY <2>1, <2>2, <2>4, <2>5 DEF QueueFits, JobFits
  <2>8. HasNoDrop(o)' <=> HasNoDrop(o)
    BY <2>2 DEF HasNoDrop
  <2>9. WillMatch(o) => WillMatch(o)'
    <3>1. CreatesFirst(o) => CreatesFirst(o)'
      <4> SUFFICES ASSUME CreatesFirst(o), NEW k \in 1..Len(planeJobs'[o]),
                          sqlCalls'[planeJobs'[o][k].caller].what = "create"
                   PROVE  k = 1
        BY DEF CreatesFirst
      <4> QED
        BY <2>2, <2>5 DEF CreatesFirst
    <3>2. WillListen(o) => WillListen(o)'
      BY <2>2 DEF WillListen
    <3>3. Matches(planeJobs[o], serves[o], sqlRows[o].databases)
          => Matches(planeJobs'[o], serves'[o], sqlRows'[o].databases)
      BY <2>2, Zenon
    <3> QED
      BY <3>1, <3>2, <3>3 DEF WillMatch
  <2>10. PromiseKept(o)'
    BY <2>1, <2>2, <2>4, <2>8, <2>9 DEF PromiseKept, Blameless, SqlHas
  <2> QED
    BY <2>7, <2>10
<1>2. \A o \in SqlInstances : QueueFits(o)' /\ PromiseKept(o)'
  BY <1>1
<1> QED
  BY <1>2 DEF SqlIInv, JobsAreRequests, QueueFits

(* A request of instance i takes the last place in its queue.                *)
LEMMA SqlAsks ==
  ASSUME SqlIInv, NEW i \in SqlInstances, NEW c \in SqlCalls, NEW r \in SqlRequests, r.inst = i,
         Sends(c, r), NEW what \in {"start", "drop", "open", "dropDatabase"},
         NEW dbs \in SUBSET PlaneDatabases, Asks(i, Job(what, dbs, c)),
         AskedBy(i, Job(what, dbs, c), r)
  PROVE  /\ sqlCalls' \in [SqlCalls -> SqlRequests \cup {NoRow}]
         /\ PlaneTypeOK' /\ QueueFits(i)'
         /\ \A o \in SqlCalls : o # c => sqlCalls'[o] = sqlCalls[o]
         /\ sqlCalls[c] = NoRow /\ sqlCalls'[c] = r
         /\ \A o \in SqlInstances : o # i => planeJobs'[o] = planeJobs[o]
         /\ planeJobs'[i] = Append(planeJobs[i], Job(what, dbs, c))
         /\ listening' = listening /\ serves' = serves /\ planeFiles' = planeFiles
<1>1. CloudSqlTypeOK /\ PlaneTypeOK /\ QueueFits(i)
  BY DEF SqlIInv, CloudSqlTypeOK, JobsAreRequests, QueueFits
<1>2. SqlInstances \subseteq PlaneInstances /\ SqlCalls \subseteq PlaneCallers
  BY CloudSqlAssumption
<1> DEFINE job == Job(what, dbs, c)
<1>3. job \in PlaneJobs /\ job.caller = c
  BY <1>2, JobParts
<1> HIDE DEF job
<1>4. /\ PlaneTypeOK'
      /\ planeJobs'[i] = Append(planeJobs[i], job)
      /\ \A o \in PlaneInstances : o # i => planeJobs'[o] = planeJobs[o]
      /\ listening' = listening /\ serves' = serves /\ planeFiles' = planeFiles
  BY <1>1, <1>2, <1>3, PlaneAsked DEF job
<1>5. /\ sqlCalls[c] = NoRow /\ sqlCalls'[c] = r
      /\ \A o \in SqlCalls : o # c => sqlCalls'[o] = sqlCalls[o]
      /\ sqlCalls' \in [SqlCalls -> SqlRequests \cup {NoRow}]
  BY <1>1 DEF Sends, CloudSqlTypeOK
<1> DEFINE q == planeJobs[i]
<1>6. q \in Seq(PlaneJobs)
  BY <1>1, <1>2 DEF PlaneTypeOK
<1>7. /\ Len(q) \in Nat /\ Len(Append(q, job)) = Len(q) + 1 /\ Append(q, job)[Len(q) + 1] = job
      /\ \A k \in 1..Len(q) : Append(q, job)[k] = q[k]
  BY <1>3, <1>6
<1>8. /\ \A k \in 1..Len(q) :
           /\ q[k].caller \in SqlCalls /\ q[k].caller # c
           /\ sqlCalls[q[k].caller] # NoRow /\ AskedBy(i, q[k], sqlCalls[q[k].caller])
      /\ \A k, m \in 1..Len(q) : q[k].caller = q[m].caller => k = m
      /\ \A o \in InFlight(i) : \E k \in 1..Len(q) : q[k].caller = o
  BY <1>1, <1>5 DEF QueueFits, JobFits
<1>9. InFlight(i)' = InFlight(i) \cup {c}
  BY <1>5, SqlRequestParts DEF InFlight
<1>10. QueueFits(i)'
  <2>1. planeJobs'[i] = Append(q, job)
    BY <1>4
  <2>2. \A k \in 1..(Len(q) + 1) : k \in 1..Len(q) \/ k = Len(q) + 1
    BY <1>7
  <2>3. AskedBy(i, job, r)
    BY DEF job
  <2>4. \A k \in 1..(Len(q) + 1) :
          LET j == Append(q, job)[k] IN
            j.caller \in SqlCalls /\ sqlCalls'[j.caller] # NoRow /\ AskedBy(i, j, sqlCalls'[j.caller])
    BY <1>3, <1>5, <1>7, <1>8, <2>2, <2>3, SqlRequestParts
  <2>5. \A k, m \in 1..(Len(q) + 1) : Append(q, job)[k].caller = Append(q, job)[m].caller => k = m
    BY <1>3, <1>7, <1>8, <2>2
  <2>6. \A o \in InFlight(i)' : \E k \in 1..(Len(q) + 1) : Append(q, job)[k].caller = o
    <3>1. 1..Len(q) \subseteq 1..(Len(q) + 1) /\ Len(q) + 1 \in 1..(Len(q) + 1)
      BY <1>7
    <3> QED
      BY <1>3, <1>7, <1>8, <1>9, <3>1
  <2>7. Len(planeJobs'[i]) = Len(q) + 1
    BY <1>7, <2>1
  <2> QED
    BY <2>1, <2>4, <2>5, <2>6, <2>7, SMTT(40) DEF QueueFits, JobFits
<1> QED
  BY <1>2, <1>4, <1>5, <1>10 DEF job

LEMMA MatchAppend ==
  ASSUME NEW q \in Seq(PlaneJobs), NEW job \in PlaneJobs, NEW S, NEW dbs, NEW new,
         Matches(q, S, dbs),
         \A d \in PlaneDatabases : d \in new <=> Gives(job, d) \/ (d \in dbs /\ ~Takes(job, d)),
         job.what = "open" => \A d \in job.databases : d \notin dbs
  PROVE  Matches(Append(q, job), S, new)
<1> DEFINE p == Append(q, job)
<1>1. /\ Len(q) \in Nat /\ Len(p) = Len(q) + 1 /\ p[Len(q) + 1] = job
      /\ \A k \in 1..Len(q) : p[k] = q[k]
      /\ job.databases \subseteq PlaneDatabases
  BY DEF PlaneJobs
<1>2. \A d : /\ \A n \in 0..Len(q) : ServedBy(p, n, S, d) <=> ServedBy(q, n, S, d)
             /\ ServedBy(p, Len(q) + 1, S, d)
                <=> Gives(job, d) \/ (ServedBy(q, Len(q), S, d) /\ ~Takes(job, d))
  BY ServedAppend
<1> HIDE DEF p
<1>3. \A d \in PlaneDatabases : d \in new <=> ServedBy(p, Len(p), S, d)
  BY <1>1, <1>2 DEF Matches
<1>4. ASSUME NEW k \in 1..Len(p), p[k].what = "open", NEW d \in p[k].databases
      PROVE  ~ServedBy(p, k - 1, S, d)
  <2>1. CASE k = Len(q) + 1
    <3>1. k - 1 = Len(q) /\ Len(q) \in 0..Len(q)
      BY <1>1, <2>1
    <3>2. d \in PlaneDatabases /\ d \notin dbs
      BY <1>1, <1>4, <2>1
    <3> QED
      BY <1>2, <3>1, <3>2 DEF Matches
  <2>2. CASE k # Len(q) + 1
    <3>1. k \in 1..Len(q) /\ k - 1 \in 0..Len(q)
      BY <1>1, <2>2
    <3> QED
      BY <1>1, <1>2, <1>4, <3>1 DEF Matches
  <2> QED
    BY <2>1, <2>2
<1>5. Matches(p, S, new)
  BY <1>3, <1>4 DEF Matches
<1> QED
  BY <1>5 DEF p

LEMMA MatchTail ==
  ASSUME NEW q \in Seq(PlaneJobs), q # <<>>, NEW S, NEW T, NEW dbs, Matches(q, S, dbs),
         \A d \in PlaneDatabases : d \in T <=> Gives(q[1], d) \/ (d \in S /\ ~Takes(q[1], d))
  PROVE  Matches(Tail(q), T, dbs)
<1> DEFINE t == Tail(q)
<1>1. /\ Len(q) \in Nat /\ Len(q) >= 1 /\ Len(t) = Len(q) - 1
      /\ \A k \in 1..Len(t) : t[k] = q[k + 1] /\ q[k + 1] \in PlaneJobs
  OBVIOUS
<1>2. \A d \in PlaneDatabases : \A n \in 0..(Len(q) - 1) :
        ServedBy(t, n, T, d) <=> ServedBy(q, n + 1, S, d)
  BY ServedTail
<1> HIDE DEF t
<1>3. \A d \in PlaneDatabases : d \in dbs <=> ServedBy(t, Len(t), T, d)
  <2>1. Len(t) \in 0..(Len(q) - 1) /\ Len(t) + 1 = Len(q)
    BY <1>1
  <2> QED
    BY <1>2, <2>1 DEF Matches
<1>4. ASSUME NEW k \in 1..Len(t), t[k].what = "open", NEW d \in t[k].databases
      PROVE  ~ServedBy(t, k - 1, T, d)
  <2>1. /\ k - 1 \in 0..(Len(q) - 1) /\ (k - 1) + 1 = k
        /\ k + 1 \in 1..Len(q) /\ (k + 1) - 1 = k
    BY <1>1
  <2>2. d \in PlaneDatabases
    BY <1>1, <1>4 DEF PlaneJobs
  <2>3. ~ServedBy(q, k, S, d)
    BY <1>1, <1>4, <2>1 DEF Matches
  <2> QED
    BY <1>2, <2>1, <2>2, <2>3
<1>5. Matches(t, T, dbs)
  BY <1>3, <1>4 DEF Matches
<1> QED
  BY <1>5 DEF t

LEMMA MatchEmpty ==
  ASSUME NEW S \in SUBSET PlaneDatabases, NEW dbs \in SUBSET PlaneDatabases
  PROVE  Matches(<<>>, S, dbs) <=> S = dbs
<1>1. \A d : ServedBy(<<>>, 0, S, d) <=> d \in S
  BY DEF ServedBy
<1>2. Len(<<>>) = 0
  OBVIOUS
<1> QED
  BY <1>1, <1>2 DEF Matches

(* The job at the head of i's queue ends and its request is answered.        *)
LEMMA SqlEnds ==
  ASSUME SqlIInv, NEW i \in SqlInstances, NEW c \in SqlCalls, NEW ok \in BOOLEAN,
         sqlCalls[c] # NoRow, sqlCalls[c].inst = i, JobEnds(i, c, ok, <<>>), Answers(c)
  PROVE  /\ sqlCalls' \in [SqlCalls -> SqlRequests \cup {NoRow}]
         /\ PlaneTypeOK' /\ QueueFits(i)'
         /\ planeJobs[i] \in Seq(PlaneJobs) /\ planeJobs[i] # <<>>
         /\ planeJobs[i][1] \in PlaneJobs /\ AskedBy(i, planeJobs[i][1], sqlCalls[c])
         /\ EndedAs(i, planeJobs[i][1], ok)
         /\ planeJobs'[i] = Tail(planeJobs[i])
         /\ InFlight(i)' = InFlight(i) \ {c} /\ c \in InFlight(i)
         /\ \A o \in SqlCalls : o # c => sqlCalls'[o] = sqlCalls[o]
         /\ sqlCalls'[c] = NoRow
         /\ \A o \in SqlInstances : o # i => planeJobs'[o] = planeJobs[o]
<1>1. CloudSqlTypeOK /\ PlaneTypeOK /\ QueueFits(i)
  BY DEF SqlIInv, CloudSqlTypeOK, JobsAreRequests, QueueFits
<1>2. i \in PlaneInstances /\ SqlInstances \subseteq PlaneInstances
  BY CloudSqlAssumption
<1>3. <<>> \in Seq(PlaneJobs)
  BY ShortQueues
<1> DEFINE q == planeJobs[i]
<1>4. /\ q # <<>> /\ Head(q) \in PlaneJobs /\ Head(q).caller = c
      /\ EndedAs(i, Head(q), ok)
      /\ planeJobs'[i] = Tail(q) \o <<>>
      /\ \A o \in PlaneInstances : o # i => planeJobs'[o] = planeJobs[o]
      /\ PlaneTypeOK'
  BY <1>1, <1>2, <1>3, PlaneJobEnds, Zenon
<1>5. q \in Seq(PlaneJobs)
  BY <1>1, <1>2 DEF PlaneTypeOK
<1> HIDE DEF q
<1>6. /\ Len(q) \in Nat /\ Len(q) >= 1 /\ Head(q) = q[1] /\ Tail(q) \o <<>> = Tail(q)
      /\ Len(Tail(q)) = Len(q) - 1 /\ \A k \in 1..(Len(q) - 1) : Tail(q)[k] = q[k + 1]
  BY <1>4, <1>5
<1>7. /\ sqlCalls'[c] = NoRow /\ \A o \in SqlCalls : o # c => sqlCalls'[o] = sqlCalls[o]
      /\ sqlCalls' \in [SqlCalls -> SqlRequests \cup {NoRow}]
  BY <1>1 DEF Answers, CloudSqlTypeOK
<1>8. InFlight(i)' = InFlight(i) \ {c} /\ c \in InFlight(i)
  BY <1>7 DEF InFlight
<1>9. /\ \A k \in 1..Len(q) :
           /\ q[k].caller \in SqlCalls /\ sqlCalls[q[k].caller] # NoRow
           /\ AskedBy(i, q[k], sqlCalls[q[k].caller])
      /\ \A k, m \in 1..Len(q) : q[k].caller = q[m].caller => k = m
      /\ \A o \in InFlight(i) : \E k \in 1..Len(q) : q[k].caller = o
  BY <1>1 DEF QueueFits, JobFits, q
<1>10. QueueFits(i)'
  <2>1. planeJobs'[i] = Tail(q) /\ Len(planeJobs'[i]) = Len(q) - 1
    BY <1>4, <1>6
  <2>2. \A k \in 1..(Len(q) - 1) : /\ k + 1 \in 1..Len(q) /\ k + 1 # 1 /\ 1 \in 1..Len(q)
                                   /\ Tail(q)[k] = q[k + 1]
    BY <1>6
  <2>3. \A k \in 1..(Len(q) - 1) : Tail(q)[k].caller # c
    BY <1>4, <1>6, <1>9, <2>2
  <2>4. \A k \in 1..(Len(q) - 1) :
          LET j == Tail(q)[k] IN
            j.caller \in SqlCalls /\ sqlCalls'[j.caller] # NoRow /\ AskedBy(i, j, sqlCalls'[j.caller])
    <3> TAKE k \in 1..(Len(q) - 1)
    <3>1. k + 1 \in 1..Len(q) /\ Tail(q)[k] = q[k + 1]
      BY <2>2
    <3>2. /\ q[k + 1].caller \in SqlCalls /\ sqlCalls[q[k + 1].caller] # NoRow
          /\ AskedBy(i, q[k + 1], sqlCalls[q[k + 1].caller])
      BY <1>9, <3>1
    <3>3. q[k + 1].caller # c
      BY <2>3, <3>1
    <3>4. sqlCalls'[q[k + 1].caller] = sqlCalls[q[k + 1].caller]
      BY <1>7, <3>2, <3>3
    <3>5. /\ q[k + 1].caller \in SqlCalls /\ sqlCalls'[q[k + 1].caller] # NoRow
          /\ AskedBy(i, q[k + 1], sqlCalls'[q[k + 1].caller])
      BY <3>2, <3>4
    <3> QED
      BY <3>1, <3>5
  <2>5. \A k, m \in 1..(Len(q) - 1) : Tail(q)[k].caller = Tail(q)[m].caller => k = m
    <3> TAKE k, m \in 1..(Len(q) - 1)
    <3>1. k \in Nat /\ m \in Nat /\ (k + 1 = m + 1 => k = m)
      OBVIOUS
    <3>2. /\ k + 1 \in 1..Len(q) /\ Tail(q)[k] = q[k + 1]
          /\ m + 1 \in 1..Len(q) /\ Tail(q)[m] = q[m + 1]
      BY <2>2
    <3> QED
      BY <1>9, <3>1, <3>2
  <2>6. ASSUME NEW o \in InFlight(i)'
        PROVE  \E k \in 1..(Len(q) - 1) : Tail(q)[k].caller = o
    <3>1. PICK m \in 1..Len(q) : q[m].caller = o
      BY <1>8, <1>9
    <3>2. m # 1
      BY <1>4, <1>6, <1>8, <3>1
    <3>3. m - 1 \in 1..(Len(q) - 1) /\ (m - 1) + 1 = m
      BY <1>6, <3>2
    <3> QED
      BY <2>2, <3>1, <3>3
  <2>7. \A k \in 1..Len(planeJobs'[i]) : JobFits(i, planeJobs[i][k])'
    BY <2>1, <2>4 DEF JobFits
  <2>8. \A k, m \in 1..Len(planeJobs'[i]) :
          planeJobs'[i][k].caller = planeJobs'[i][m].caller => k = m
    BY <2>1, <2>5
  <2>9. \A o \in InFlight(i)' : \E k \in 1..Len(planeJobs'[i]) : planeJobs'[i][k].caller = o
    BY <2>1, <2>6
  <2> QED
    BY <2>7, <2>8, <2>9 DEF QueueFits
<1>11. AskedBy(i, q[1], sqlCalls[c])
  <2>1. 1 \in 1..Len(q)
    BY <1>6
  <2> QED
    BY <1>4, <1>6, <1>9, <2>1
<1>12. q[1] \in PlaneJobs /\ EndedAs(i, q[1], ok) /\ planeJobs'[i] = Tail(q)
  BY <1>4, <1>6, Zenon
<1> QED
  BY <1>2, <1>4, <1>5, <1>7, <1>8, <1>10, <1>11, <1>12 DEF q

LEMMA SqlParts ==
  ASSUME SqlIInv, NEW i \in SqlInstances
  PROVE  /\ CloudSqlTypeOK /\ PlaneTypeOK /\ QueueFits(i) /\ PromiseKept(i)
         /\ i \in PlaneInstances /\ planeJobs[i] \in Seq(PlaneJobs)
         /\ sqlRows[i] # NoRow => /\ sqlRows[i] \in SqlRecords
                                  /\ sqlRows[i].databases \in SUBSET PlaneDatabases
         /\ serves[i] \in SUBSET PlaneDatabases /\ (i \notin listening => serves[i] = {})
         /\ InFlight(i) = {} <=> planeJobs[i] = <<>>
<1>1. CloudSqlTypeOK /\ PlaneTypeOK /\ QueueFits(i) /\ PromiseKept(i)
  BY DEF SqlIInv, CloudSqlTypeOK, JobsAreRequests, QueueFits
<1>2. i \in PlaneInstances
  BY CloudSqlAssumption
<1>3. /\ planeJobs[i] \in Seq(PlaneJobs)
      /\ serves[i] \in SUBSET PlaneDatabases /\ (i \notin listening => serves[i] = {})
  BY <1>1, <1>2 DEF PlaneTypeOK
<1>4. sqlRows[i] # NoRow => /\ sqlRows[i] \in SqlRecords
                            /\ sqlRows[i].databases \in SUBSET PlaneDatabases
  BY <1>1, SqlRowParts DEF CloudSqlTypeOK
<1>5. InFlight(i) = {} <=> planeJobs[i] = <<>>
  <2>1. ASSUME planeJobs[i] # <<>>  PROVE InFlight(i) # {}
    <3>1. 1 \in 1..Len(planeJobs[i])
      BY <1>3, <2>1
    <3>2. planeJobs[i][1].caller \in InFlight(i)
      BY <1>1, <3>1 DEF QueueFits, JobFits, AskedBy, InFlight
    <3> QED
      BY <3>2
  <2>2. ASSUME planeJobs[i] = <<>>, NEW c \in InFlight(i)  PROVE FALSE
    <3>1. 1..Len(planeJobs[i]) = {}
      BY <2>2
    <3> QED
      BY <1>1, <3>1 DEF QueueFits
  <2> QED
    BY <2>1, <2>2
<1> QED
  BY <1>1, <1>2, <1>3, <1>4, <1>5

(* Rows and history change for instance i only.                              *)
SqlChanges(i) ==
  /\ sqlRows' \in [SqlInstances -> SqlRecords \cup {NoRow}]
  /\ degraded' \subseteq SqlInstances /\ crossed' \subseteq SqlInstances
  /\ \A o \in SqlInstances : o # i =>
       /\ sqlRows'[o] = sqlRows[o]
       /\ o \in degraded' <=> o \in degraded
       /\ o \in crossed' <=> o \in crossed

LEMMA SqlGrows ==
  ASSUME SqlIInv, NEW i \in SqlInstances, NEW c \in SqlCalls, NEW r \in SqlRequests, r.inst = i,
         Sends(c, r), NEW what \in {"start", "drop", "open", "dropDatabase"},
         NEW dbs \in SUBSET PlaneDatabases, Asks(i, Job(what, dbs, c)),
         AskedBy(i, Job(what, dbs, c), r), SqlChanges(i), PromiseKept(i)'
  PROVE  SqlIInv'
<1>1. SqlInstances \subseteq PlaneInstances
  BY CloudSqlAssumption
<1>2. /\ sqlCalls' \in [SqlCalls -> SqlRequests \cup {NoRow}]
      /\ PlaneTypeOK' /\ QueueFits(i)'
      /\ \A o \in SqlCalls : o # c => sqlCalls'[o] = sqlCalls[o]
      /\ sqlCalls[c] = NoRow /\ sqlCalls'[c] = r
      /\ \A o \in SqlInstances : o # i => planeJobs'[o] = planeJobs[o]
      /\ listening' = listening /\ serves' = serves /\ planeFiles' = planeFiles
  BY SqlAsks
<1>3. CloudSqlTypeOK'
  BY <1>2 DEF CloudSqlTypeOK, SqlChanges
<1>4. SqlOnlyIn(i)
  BY <1>2 DEF SqlOnlyIn, SqlChanges
<1> QED
  BY <1>2, <1>3, <1>4, SqlMoves

LEMMA SqlCloses ==
  ASSUME SqlIInv, NEW i \in SqlInstances, NEW c \in SqlCalls, NEW ok \in BOOLEAN,
         sqlCalls[c] # NoRow, sqlCalls[c].inst = i, JobEnds(i, c, ok, <<>>), Answers(c),
         SqlChanges(i), PromiseKept(i)'
  PROVE  SqlIInv'
<1>1. /\ sqlCalls' \in [SqlCalls -> SqlRequests \cup {NoRow}]
      /\ PlaneTypeOK' /\ QueueFits(i)'
      /\ EndedAs(i, planeJobs[i][1], ok)
      /\ \A o \in SqlCalls : o # c => sqlCalls'[o] = sqlCalls[o]
      /\ sqlCalls'[c] = NoRow
      /\ \A o \in SqlInstances : o # i => planeJobs'[o] = planeJobs[o]
  BY SqlEnds, ZenonT(60)
<1>2. CloudSqlTypeOK'
  BY <1>1 DEF CloudSqlTypeOK, SqlChanges
<1>3. SqlInstances \subseteq PlaneInstances
  BY CloudSqlAssumption
<1>4. \A o \in SqlInstances : o # i =>
       /\ o \in listening' <=> o \in listening
       /\ serves'[o] = serves[o] /\ planeFiles'[o] = planeFiles[o]
  BY <1>1, <1>3 DEF EndedAs
<1>5. SqlOnlyIn(i)
  BY <1>1, <1>4 DEF SqlOnlyIn, SqlChanges
<1> QED
  BY <1>1, <1>2, <1>5, SqlMoves

(* A request that adds to what is to be served, or takes from it.            *)
LEMMA SqlAsksMore ==
  ASSUME SqlIInv, NEW i \in SqlInstances, NEW c \in SqlCalls, NEW r \in SqlRequests, r.inst = i,
         r.what # "create",
         Sends(c, r), NEW what \in {"start", "open", "dropDatabase"},
         NEW dbs \in SUBSET PlaneDatabases, Asks(i, Job(what, dbs, c)),
         AskedBy(i, Job(what, dbs, c), r), SqlChanges(i),
         SqlHas(i), SqlHas(i)', degraded' = degraded, crossed' = crossed,
         \A d \in PlaneDatabases : d \in sqlRows'[i].databases <=>
           \/ Gives(Job(what, dbs, c), d)
           \/ d \in sqlRows[i].databases /\ ~Takes(Job(what, dbs, c), d),
         what = "open" => \A d \in dbs : d \notin sqlRows[i].databases
  PROVE  SqlIInv'
<1>1. /\ QueueFits(i) /\ PromiseKept(i) /\ i \in PlaneInstances
      /\ planeJobs[i] \in Seq(PlaneJobs)
  BY SqlParts
<1> DEFINE job == Job(what, dbs, c)
<1>2. c \in PlaneCallers
  BY CloudSqlAssumption
<1>3. /\ job \in PlaneJobs /\ job.what = what /\ job.databases = dbs /\ job.caller = c
  BY <1>2, JobParts
<1>4. /\ sqlCalls'[c] = r /\ sqlCalls[c] = NoRow
      /\ \A o \in SqlCalls : o # c => sqlCalls'[o] = sqlCalls[o]
      /\ planeJobs'[i] = Append(planeJobs[i], job)
      /\ listening' = listening /\ serves' = serves /\ planeFiles' = planeFiles
  BY SqlAsks
<1> HIDE DEF job
<1> DEFINE q == planeJobs[i]
<1>q. q \in Seq(PlaneJobs)
  BY <1>1
<1> HIDE DEF q
<1>5. /\ Len(q) \in Nat /\ Len(Append(q, job)) = Len(q) + 1 /\ Append(q, job)[Len(q) + 1] = job
      /\ Append(q, job) # <<>>
      /\ \A k \in 1..Len(q) : k \in 1..(Len(q) + 1) /\ Append(q, job)[k] = q[k]
      /\ \A k \in 1..(Len(q) + 1) : k \in 1..Len(q) \/ k = Len(q) + 1
      /\ q # <<>> => 1 \in 1..Len(q)
  <2>1. /\ Len(q) \in Nat /\ Len(Append(q, job)) = Len(q) + 1 /\ Append(q, job)[Len(q) + 1] = job
        /\ \A k \in 1..Len(q) : Append(q, job)[k] = q[k]
    BY <1>q, <1>3
  <2>2. Append(q, job) # <<>>
    BY <2>1
  <2>3. q # <<>> => 1 \in 1..Len(q)
    BY <1>q
  <2>4. /\ \A k \in 1..Len(q) : k \in 1..(Len(q) + 1)
        /\ \A k \in 1..(Len(q) + 1) : k \in 1..Len(q) \/ k = Len(q) + 1
    BY <2>1
  <2> QED
    BY <2>1, <2>2, <2>3, <2>4
<1>6. PromiseKept(i)'
  <2>1. SUFFICES ASSUME Blameless(i)', HasNoDrop(i)'  PROVE WillMatch(i)'
    BY DEF PromiseKept
  <2>2. Blameless(i)
    BY <2>1 DEF Blameless
  <2>3. HasNoDrop(i)
    BY <1>4, <1>5, <2>1 DEF HasNoDrop, q
  <2>4. WillListen(i) /\ Matches(planeJobs[i], serves[i], sqlRows[i].databases) /\ CreatesFirst(i)
    BY <1>1, <2>2, <2>3 DEF PromiseKept, WillMatch
  <2>5. WillListen(i)'
    BY <1>4, <1>5, <2>4 DEF WillListen, q
  <2>6. Matches(planeJobs'[i], serves'[i], sqlRows'[i].databases)
    <3>1. \A d \in PlaneDatabases : d \in sqlRows'[i].databases <=>
            Gives(job, d) \/ (d \in sqlRows[i].databases /\ ~Takes(job, d))
      BY DEF job
    <3>2. job.what = "open" => \A d \in job.databases : d \notin sqlRows[i].databases
      BY <1>3
    <3>3. Matches(Append(planeJobs[i], job), serves[i], sqlRows'[i].databases)
      BY <1>1, <1>3, <2>4, <3>1, <3>2, MatchAppend
    <3> QED
      BY <1>4, <3>3
  <2>7. CreatesFirst(i)'
    <3>1. \A k \in 1..Len(q) : q[k].caller \in SqlCalls /\ q[k].caller # c
      BY <1>1, <1>4 DEF QueueFits, JobFits, q
    <3>2. \A k \in 1..Len(q) : sqlCalls'[q[k].caller] = sqlCalls[q[k].caller]
      BY <1>4, <3>1
    <3>3. \A k \in 1..Len(q) : sqlCalls'[q[k].caller].what = "create" => k = 1
      BY <2>4, <3>2 DEF CreatesFirst, q
    <3>4. \A k \in 1..(Len(q) + 1) : sqlCalls'[Append(q, job)[k].caller].what = "create" => k = 1
      BY <1>3, <1>4, <1>5, <3>3
    <3>5. planeJobs'[i] = Append(q, job)
      BY <1>4 DEF q
    <3> QED
      BY <1>5, <3>4, <3>5 DEF CreatesFirst
  <2> QED
    BY <2>5, <2>6, <2>7 DEF WillMatch
<1>7. what \in {"start", "drop", "open", "dropDatabase"}
  OBVIOUS
<1> QED
  BY <1>6, <1>7, SqlGrows

LEMMA StepSqlCreateInstance ==
  ASSUME SqlIInv, NEW i \in SqlInstances, NEW c \in SqlCalls, SqlCreateInstance(c, i)
  PROVE  SqlIInv'
<1> DEFINE r == [what |-> "create", inst |-> i]
           row == [databases |-> {Postgres}, users |-> {Postgres}, version |-> 1]
<1>1. /\ CloudSqlTypeOK /\ PromiseKept(i) /\ planeJobs[i] \in Seq(PlaneJobs)
      /\ serves[i] \in SUBSET PlaneDatabases /\ (i \notin listening => serves[i] = {})
      /\ InFlight(i) = {} <=> planeJobs[i] = <<>>
  BY SqlParts
<1>2. /\ r \in SqlRequests /\ r.inst = i /\ r.what = "create" /\ {Postgres} \in SUBSET PlaneDatabases
      /\ row \in SqlRecords /\ row # NoRow /\ row.databases = {Postgres} /\ c \in PlaneCallers
  <2>1. row \in SqlRecords
    BY CloudSqlAssumption DEF SqlRecords
  <2> QED
    BY <2>1, SqlRequestParts, SqlRowParts, CloudSqlAssumption
<1> DEFINE job == Job("start", {Postgres}, c)
<1>3. /\ job \in PlaneJobs /\ job.what = "start" /\ job.databases = {Postgres} /\ job.caller = c
  BY <1>2, JobParts
<1>4. AskedBy(i, job, r)
  BY <1>2, <1>3 DEF AskedBy
<1>5. ~SqlHas(i) /\ Sends(c, r) /\ Asks(i, job) /\ sqlRows' = [sqlRows EXCEPT ![i] = row]
      /\ degraded' = degraded /\ crossed' = crossed
  BY DEF SqlCreateInstance
<1> HIDE DEF r, row, job
<1>6. SqlChanges(i) /\ sqlRows'[i] = row
  BY <1>1, <1>2, <1>5 DEF SqlChanges, CloudSqlTypeOK
<1>7. /\ sqlCalls'[c] = r
      /\ planeJobs'[i] = Append(planeJobs[i], job)
      /\ listening' = listening /\ serves' = serves
  BY <1>2, <1>4, <1>5, SqlAsks DEF job
<1>8. PromiseKept(i)'
  <2>1. SUFFICES ASSUME Blameless(i)'  PROVE WillMatch(i)'
    BY <1>2, <1>6 DEF PromiseKept, SqlHas
  <2>2. planeJobs[i] = <<>> /\ serves[i] = {}
    BY <1>1, <1>5, <2>1 DEF PromiseKept, Blameless
  <2>3. /\ planeJobs'[i] = Append(<<>>, job)
        /\ planeJobs'[i] # <<>> /\ Len(planeJobs'[i]) = 1 /\ planeJobs'[i][1] = job
    <3>1. Append(<<>>, job) # <<>> /\ Len(Append(<<>>, job)) = 1 /\ Append(<<>>, job)[1] = job
      BY <1>3, ShortQueues
    <3> QED
      BY <1>7, <2>2, <3>1
  <2>4. WillListen(i)'
    BY <1>3, <2>3 DEF WillListen
  <2>5. CreatesFirst(i)'
    BY <2>3 DEF CreatesFirst
  <2>6. Matches(Append(planeJobs[i], job), serves[i], row.databases)
    <3>1. Matches(planeJobs[i], serves[i], serves[i])
      BY <1>1, <2>2, MatchEmpty
    <3>2. \A d \in PlaneDatabases :
            d \in row.databases <=> Gives(job, d) \/ (d \in serves[i] /\ ~Takes(job, d))
      BY <1>2, <1>3, <2>2 DEF Gives
    <3>3. job.what # "open"
      BY <1>3
    <3> QED
      BY <1>1, <1>3, <3>1, <3>2, <3>3, MatchAppend
  <2>7. Matches(planeJobs'[i], serves'[i], sqlRows'[i].databases)
    BY <1>6, <1>7, <2>6
  <2> QED
    BY <2>4, <2>5, <2>7 DEF WillMatch
<1> QED
  BY <1>2, <1>4, <1>5, <1>6, <1>8, SqlGrows DEF job

LEMMA StepSqlDeleteInstance ==
  ASSUME SqlIInv, NEW i \in SqlInstances, NEW c \in SqlCalls, SqlDeleteInstance(c, i)
  PROVE  SqlIInv'
<1> DEFINE r == [what |-> "delete", inst |-> i]
<1>1. CloudSqlTypeOK /\ planeJobs[i] \in Seq(PlaneJobs)
  BY SqlParts
<1>2. r \in SqlRequests /\ r.inst = i /\ r.what = "delete" /\ {} \in SUBSET PlaneDatabases /\ c \in PlaneCallers
  BY SqlRequestParts, CloudSqlAssumption
<1> DEFINE job == Job("drop", {}, c)
<1>3. job \in PlaneJobs /\ job.what = "drop"
  BY <1>2, JobParts
<1>4. AskedBy(i, job, r)
  BY <1>2, <1>3 DEF AskedBy
<1>5. SqlHas(i) /\ Sends(c, r) /\ Asks(i, job)
      /\ sqlRows' = sqlRows /\ degraded' = degraded /\ crossed' = crossed
  BY DEF SqlDeleteInstance
<1> HIDE DEF r, job
<1>6. SqlChanges(i)
  BY <1>1, <1>5 DEF SqlChanges, CloudSqlTypeOK
<1>7. planeJobs'[i] = Append(planeJobs[i], job)
  BY <1>2, <1>4, <1>5, SqlAsks DEF job
<1>8. ~HasNoDrop(i)'
  <2>1. /\ Len(planeJobs[i]) + 1 \in 1..Len(planeJobs'[i])
        /\ planeJobs'[i][Len(planeJobs[i]) + 1] = job
    BY <1>1, <1>3, <1>7
  <2> QED
    BY <1>3, <2>1 DEF HasNoDrop
<1>9. PromiseKept(i)'
  BY <1>5, <1>8 DEF PromiseKept, SqlHas
<1> QED
  BY <1>2, <1>4, <1>5, <1>6, <1>9, SqlGrows DEF job

LEMMA StepSqlRestartInstance ==
  ASSUME SqlIInv, NEW i \in SqlInstances, NEW c \in SqlCalls, SqlRestartInstance(c, i)
  PROVE  SqlIInv'
<1> DEFINE r == [what |-> "restart", inst |-> i]
           dbs == sqlRows[i].databases
<1>1. /\ CloudSqlTypeOK /\ SqlHas(i) /\ Sends(c, r)
      /\ Asks(i, Job("start", dbs, c))
      /\ sqlRows' = sqlRows /\ degraded' = degraded /\ crossed' = crossed
  BY SqlParts DEF SqlRestartInstance
<1>2. dbs \in SUBSET PlaneDatabases /\ c \in PlaneCallers
  BY <1>1, SqlParts, CloudSqlAssumption DEF SqlHas
<1>3. r \in SqlRequests /\ r.inst = i /\ r.what = "restart" /\ r.what # "create"
  BY SqlRequestParts
<1> DEFINE job == Job("start", dbs, c)
<1>4. job.what = "start" /\ job.databases = dbs
  BY <1>2, JobParts
<1> HIDE DEF r, job
<1>5. AskedBy(i, job, r)
  BY <1>3, <1>4 DEF AskedBy
<1>6. SqlChanges(i)
  BY <1>1 DEF SqlChanges, CloudSqlTypeOK
<1>7. \A d \in PlaneDatabases : d \in sqlRows'[i].databases <=>
        Gives(job, d) \/ (d \in sqlRows[i].databases /\ ~Takes(job, d))
  BY <1>1, <1>4 DEF Gives, Takes
<1>8. SqlHas(i)'
  BY <1>1 DEF SqlHas
<1> HIDE DEF dbs
<1> QED
  BY <1>1, <1>2, <1>3, <1>5, <1>6, <1>7, <1>8, SqlAsksMore DEF job

LEMMA StepSqlCreateDatabase ==
  ASSUME SqlIInv, NEW i \in SqlInstances, NEW c \in SqlCalls, NEW d \in PlaneDatabases,
         SqlCreateDatabase(c, i, d)
  PROVE  SqlIInv'
<1> DEFINE r == [what |-> "createDatabase", inst |-> i, database |-> d]
<1>1. /\ CloudSqlTypeOK /\ SqlHas(i) /\ Sends(c, r) /\ d \notin sqlRows[i].databases
      /\ Asks(i, Job("open", {d}, c))
      /\ sqlRows' = [sqlRows EXCEPT ![i].databases = @ \cup {d}]
      /\ degraded' = degraded /\ crossed' = crossed
  BY SqlParts DEF SqlCreateDatabase
<1>2. {d} \in SUBSET PlaneDatabases /\ c \in PlaneCallers
  BY CloudSqlAssumption
<1>3. /\ r \in SqlRequests /\ r.inst = i /\ r.what = "createDatabase" /\ r.what # "create"
      /\ r.database = d
  BY SqlRequestParts
<1> DEFINE job == Job("open", {d}, c)
<1>4. job.what = "open" /\ job.databases = {d}
  BY <1>2, JobParts
<1> HIDE DEF r, job
<1>5. AskedBy(i, job, r)
  BY <1>3, <1>4 DEF AskedBy
<1>6. /\ sqlRows' \in [SqlInstances -> SqlRecords \cup {NoRow}]
      /\ \A o \in SqlInstances : o # i => sqlRows'[o] = sqlRows[o]
      /\ sqlRows'[i] # NoRow /\ sqlRows'[i].databases = sqlRows[i].databases \cup {d}
  <2>1. sqlRows[i] \in SqlRecords
    BY <1>1 DEF CloudSqlTypeOK, SqlHas
  <2> DEFINE row == [sqlRows[i] EXCEPT !.databases = @ \cup {d}]
  <2>2. row \in SqlRecords /\ row.databases = sqlRows[i].databases \cup {d}
    BY <2>1 DEF SqlRecords
  <2>3. sqlRows' = [sqlRows EXCEPT ![i] = row]
    BY <1>1
  <2> HIDE DEF row
  <2> QED
    BY <1>1, <2>2, <2>3, SqlRowParts DEF CloudSqlTypeOK
<1>7. SqlChanges(i) /\ SqlHas(i)'
  BY <1>1, <1>6 DEF SqlChanges, CloudSqlTypeOK, SqlHas
<1>8. \A e \in PlaneDatabases : e \in sqlRows'[i].databases <=>
        Gives(job, e) \/ (e \in sqlRows[i].databases /\ ~Takes(job, e))
  BY <1>4, <1>6 DEF Gives, Takes
<1>9. \A e \in {d} : e \notin sqlRows[i].databases
  BY <1>1
<1> QED
  BY <1>1, <1>2, <1>3, <1>5, <1>7, <1>8, <1>9, SqlAsksMore DEF job

LEMMA LessADatabase ==
  ASSUME SqlIInv, NEW i \in SqlInstances, NEW d, sqlRows' = WithoutDatabase(i, d)
  PROVE  /\ sqlRows' \in [SqlInstances -> SqlRecords \cup {NoRow}]
         /\ \A o \in SqlInstances : o # i => sqlRows'[o] = sqlRows[o]
         /\ SqlHas(i)' <=> SqlHas(i)
         /\ SqlHas(i) => sqlRows'[i].databases = sqlRows[i].databases \ {d}
<1>1. CloudSqlTypeOK
  BY DEF SqlIInv
<1>2. CASE SqlHas(i)
  <2>1. sqlRows[i] \in SqlRecords
    BY <1>1, <1>2 DEF CloudSqlTypeOK, SqlHas
  <2> DEFINE row == [sqlRows[i] EXCEPT !.databases = @ \ {d}]
  <2>2. row \in SqlRecords /\ row.databases = sqlRows[i].databases \ {d}
    BY <2>1 DEF SqlRecords
  <2>3. sqlRows' = [sqlRows EXCEPT ![i] = row]
    BY <1>2 DEF WithoutDatabase
  <2> HIDE DEF row
  <2> QED
    BY <1>1, <1>2, <2>2, <2>3, SqlRowParts DEF CloudSqlTypeOK, SqlHas
<1>3. CASE ~SqlHas(i)
  BY <1>1, <1>3 DEF WithoutDatabase, CloudSqlTypeOK, SqlHas
<1> QED
  BY <1>2, <1>3

LEMMA StepSqlDeleteDatabase ==
  ASSUME SqlIInv, NEW i \in SqlInstances, NEW c \in SqlCalls, NEW d \in PlaneDatabases,
         SqlDeleteDatabase(c, i, d)
  PROVE  SqlIInv'
<1> DEFINE r == [what |-> "deleteDatabase", inst |-> i, database |-> d]
<1>1. /\ CloudSqlTypeOK /\ SqlHas(i) /\ Sends(c, r)
      /\ Asks(i, Job("dropDatabase", {d}, c))
      /\ sqlRows' = WithoutDatabase(i, d)
      /\ degraded' = degraded /\ crossed' = crossed
  BY SqlParts DEF SqlDeleteDatabase
<1>2. {d} \in SUBSET PlaneDatabases /\ c \in PlaneCallers
  BY CloudSqlAssumption
<1>3. /\ r \in SqlRequests /\ r.inst = i /\ r.what = "deleteDatabase" /\ r.what # "create"
      /\ r.database = d
  BY SqlRequestParts
<1> DEFINE job == Job("dropDatabase", {d}, c)
<1>4. job.what = "dropDatabase" /\ job.databases = {d}
  BY <1>2, JobParts
<1> HIDE DEF r, job
<1>5. AskedBy(i, job, r)
  BY <1>3, <1>4 DEF AskedBy
<1>6. /\ sqlRows' \in [SqlInstances -> SqlRecords \cup {NoRow}]
      /\ \A o \in SqlInstances : o # i => sqlRows'[o] = sqlRows[o]
      /\ SqlHas(i)' /\ sqlRows'[i].databases = sqlRows[i].databases \ {d}
  BY <1>1, LessADatabase
<1>7. SqlChanges(i)
  BY <1>1, <1>6 DEF SqlChanges, CloudSqlTypeOK
<1>8. \A e \in PlaneDatabases : e \in sqlRows'[i].databases <=>
        Gives(job, e) \/ (e \in sqlRows[i].databases /\ ~Takes(job, e))
  BY <1>4, <1>6 DEF Gives, Takes
<1> QED
  BY <1>1, <1>2, <1>3, <1>5, <1>6, <1>7, <1>8, SqlAsksMore DEF job

(* What is queued behind a job that ends was queued before.                  *)
LEMMA SqlLeft ==
  ASSUME SqlIInv, NEW i \in SqlInstances, NEW c \in SqlCalls, NEW ok \in BOOLEAN,
         sqlCalls[c] # NoRow, sqlCalls[c].inst = i, JobEnds(i, c, ok, <<>>), Answers(c)
  PROVE  /\ planeJobs[i][1].what # "drop" /\ HasNoDrop(i)' => HasNoDrop(i)
         /\ CreatesFirst(i) => CreatesFirst(i)'
         /\ \A k \in 1..Len(Tail(planeJobs[i])) :
              /\ k + 1 \in 1..Len(planeJobs[i]) /\ k + 1 # 1
              /\ Tail(planeJobs[i])[k] = planeJobs[i][k + 1]
              /\ planeJobs[i][k + 1].caller \in InFlight(i) \ {c}
<1> DEFINE q == planeJobs[i]
<1>1. /\ QueueFits(i)' /\ planeJobs[i] \in Seq(PlaneJobs) /\ planeJobs[i] # <<>>
      /\ planeJobs'[i] = Tail(planeJobs[i])
      /\ InFlight(i)' = InFlight(i) \ {c}
      /\ \A o \in SqlCalls : o # c => sqlCalls'[o] = sqlCalls[o]
  <2>0. QueueFits(i)'
    BY SqlEnds, Zenon
  <2>2. planeJobs[i] \in Seq(PlaneJobs) /\ CloudSqlTypeOK
    BY SqlParts
  <2>1. sqlCalls'[c] = NoRow /\ \A o \in SqlCalls : o # c => sqlCalls'[o] = sqlCalls[o]
    BY <2>2 DEF Answers, CloudSqlTypeOK
  <2>3. planeJobs'[i] = Tail(planeJobs[i])
    BY SqlEnds, Zenon
  <2>4. planeJobs[i] # <<>>
    BY DEF JobEnds
  <2>5. InFlight(i)' = InFlight(i) \ {c}
    BY <2>1 DEF InFlight
  <2> QED
    BY <2>0, <2>1, <2>2, <2>3, <2>4, <2>5
<1>2. /\ Len(q) \in Nat /\ Len(q) >= 1 /\ Len(Tail(q)) = Len(q) - 1
      /\ \A k \in 1..Len(Tail(q)) : k + 1 \in 1..Len(q) /\ k + 1 # 1 /\ Tail(q)[k] = q[k + 1]
      /\ \A m \in 1..Len(q) : m = 1 \/ (m - 1 \in 1..Len(Tail(q)) /\ (m - 1) + 1 = m)
  <2>1. q \in Seq(PlaneJobs) /\ q # <<>>
    BY <1>1
  <2> HIDE DEF q
  <2>2. /\ Len(q) \in Nat /\ Len(q) >= 1 /\ Len(Tail(q)) = Len(q) - 1
        /\ \A k \in 1..(Len(q) - 1) : Tail(q)[k] = q[k + 1]
    BY <2>1
  <2> QED
    BY <2>2
<1> HIDE DEF q
<1>3. \A k \in 1..Len(Tail(q)) : Tail(q)[k].caller \in InFlight(i)'
  <2>1. \A k \in 1..Len(planeJobs'[i]) : LET j == planeJobs'[i][k] IN
          j.caller \in SqlCalls /\ sqlCalls'[j.caller] # NoRow /\ sqlCalls'[j.caller].inst = i
    BY <1>1 DEF QueueFits, JobFits, AskedBy
  <2>2. \A o \in SqlCalls : sqlCalls'[o] # NoRow /\ sqlCalls'[o].inst = i => o \in InFlight(i)'
    BY DEF InFlight
  <2> QED
    BY <1>1, <2>1, <2>2 DEF q
<1>4. ASSUME q[1].what # "drop", HasNoDrop(i)'  PROVE HasNoDrop(i)
  <2>1. \A k \in 1..Len(Tail(q)) : Tail(q)[k].what # "drop"
    BY <1>1, <1>4 DEF HasNoDrop, q
  <2>2. \A m \in 1..Len(q) : q[m].what # "drop"
    BY <1>2, <1>4, <2>1
  <2> QED
    BY <2>2 DEF HasNoDrop, q
<1>5. ASSUME CreatesFirst(i)  PROVE CreatesFirst(i)'
  <2>1. ASSUME NEW k \in 1..Len(Tail(q))  PROVE sqlCalls'[Tail(q)[k].caller].what # "create"
    <3>1. Tail(q)[k].caller \in SqlCalls /\ Tail(q)[k].caller # c
      BY <1>1, <1>3 DEF InFlight
    <3>2. sqlCalls'[Tail(q)[k].caller] = sqlCalls[q[k + 1].caller]
      BY <1>1, <1>2, <3>1
    <3> QED
      BY <1>2, <1>5, <3>2 DEF CreatesFirst, q
  <2> QED
    BY <1>1, <2>1 DEF CreatesFirst, q
<1> QED
  BY <1>1, <1>2, <1>3, <1>4, <1>5 DEF q

(* A request whose job succeeds leaves to the rest of the queue what it      *)
(* found in the rows.                                                        *)
LEMMA SqlEndsWell ==
  ASSUME SqlIInv, NEW i \in SqlInstances, NEW c \in SqlCalls,
         sqlCalls[c] # NoRow, sqlCalls[c].inst = i, JobEnds(i, c, TRUE, <<>>), Answers(c),
         sqlCalls[c].what \in {"create", "restart", "createDatabase", "deleteDatabase"},
         sqlRows' = sqlRows, degraded' = degraded, crossed \subseteq crossed'
  PROVE  PromiseKept(i)'
<1> DEFINE q == planeJobs[i]
<1>1. /\ planeJobs[i] \in Seq(PlaneJobs) /\ planeJobs[i] # <<>>
      /\ AskedBy(i, planeJobs[i][1], sqlCalls[c])
      /\ EndedAs(i, planeJobs[i][1], TRUE)
      /\ planeJobs'[i] = Tail(planeJobs[i])
      /\ c \in InFlight(i)
  BY SqlEnds, Zenon
<1>2. /\ planeJobs[i][1].what # "drop" /\ HasNoDrop(i)' => HasNoDrop(i)
      /\ CreatesFirst(i) => CreatesFirst(i)'
  BY SqlLeft, Zenon
<1>3. PromiseKept(i)
  BY SqlParts
<1>4. SUFFICES ASSUME Blameless(i)'
               PROVE  SqlHas(i) /\ (HasNoDrop(i)' => WillMatch(i)')
  BY DEF PromiseKept, SqlHas
<1>5. Blameless(i)
  BY <1>4 DEF Blameless
<1>6. SqlHas(i)
  BY <1>1, <1>3, <1>5 DEF PromiseKept
<1>7. ASSUME HasNoDrop(i)'  PROVE WillMatch(i)'
  <2>1. q[1].what \in {"start", "open", "dropDatabase"}
    BY <1>1 DEF AskedBy
  <2>2. WillListen(i) /\ Matches(planeJobs[i], serves[i], sqlRows[i].databases) /\ CreatesFirst(i)
    BY <1>2, <1>3, <1>5, <1>6, <1>7, <2>1 DEF PromiseKept, WillMatch
  <2>3. q[1].what # "start" => i \in listening
    BY <2>2 DEF WillListen
  <2>4. i \in listening'
    BY <1>1, <2>1, <2>3 DEF EndedAs
  <2>5. \A d \in PlaneDatabases :
          d \in serves'[i] <=> Gives(q[1], d) \/ (d \in serves[i] /\ ~Takes(q[1], d))
    <3>1. CASE q[1].what = "start"
      <4>1. serves'[i] = q[1].databases
        BY <1>1, <3>1 DEF EndedAs
      <4> QED
        BY <3>1, <4>1 DEF Gives, Takes
    <3>2. CASE q[1].what = "open"
      <4>1. serves'[i] = serves[i] \cup q[1].databases
        BY <1>1, <2>3, <3>2 DEF EndedAs
      <4> QED
        BY <3>2, <4>1 DEF Gives, Takes
    <3>3. CASE q[1].what = "dropDatabase"
      <4>1. serves'[i] = serves[i] \ q[1].databases
        BY <1>1, <3>3 DEF EndedAs
      <4> QED
        BY <3>3, <4>1 DEF Gives, Takes
    <3> QED
      BY <2>1, <3>1, <3>2, <3>3
  <2>6. Matches(Tail(planeJobs[i]), serves'[i], sqlRows[i].databases)
    BY <1>1, <2>2, <2>5, MatchTail
  <2>7. Matches(planeJobs'[i], serves'[i], sqlRows'[i].databases)
    BY <1>1, <2>6
  <2>8. WillListen(i)' /\ CreatesFirst(i)'
    BY <1>2, <2>2, <2>4 DEF WillListen
  <2> QED
    BY <2>7, <2>8 DEF WillMatch
<1> QED
  BY <1>6, <1>7

(* A failed open takes its row with it: nothing else in the queue gives that *)
(* database, or anything at all.                                             *)
LEMMA SqlOpenFails ==
  ASSUME SqlIInv, NEW i \in SqlInstances, NEW c \in SqlCalls,
         sqlCalls[c] # NoRow, sqlCalls[c].inst = i, JobEnds(i, c, FALSE, <<>>), Answers(c),
         sqlCalls[c].what = "createDatabase", sqlRows' = WithoutDatabase(i, sqlCalls[c].database),
         \A o \in InFlight(i) \ {c} : sqlCalls[o].what \notin {"createDatabase", "restart"},
         degraded' = degraded, crossed' = crossed
  PROVE  PromiseKept(i)'
<1> DEFINE q == planeJobs[i]
<1> DEFINE d == sqlCalls[c].database
<1>1. /\ AskedBy(i, planeJobs[i][1], sqlCalls[c])
      /\ EndedAs(i, planeJobs[i][1], FALSE)
      /\ planeJobs'[i] = Tail(planeJobs[i])
      /\ c \in InFlight(i)
  BY SqlEnds, Zenon
<1>2. /\ planeJobs[i][1].what # "drop" /\ HasNoDrop(i)' => HasNoDrop(i)
      /\ CreatesFirst(i) => CreatesFirst(i)'
      /\ \A k \in 1..Len(Tail(planeJobs[i])) :
           /\ k + 1 \in 1..Len(planeJobs[i]) /\ k + 1 # 1
           /\ Tail(planeJobs[i])[k] = planeJobs[i][k + 1]
           /\ planeJobs[i][k + 1].caller \in InFlight(i) \ {c}
  BY SqlLeft, Zenon
<1>3. /\ PromiseKept(i) /\ QueueFits(i) /\ q \in Seq(PlaneJobs) /\ q # <<>>
      /\ sqlRows[i] # NoRow => sqlRows[i].databases \in SUBSET PlaneDatabases
  BY SqlParts DEF JobEnds
<1>4. SUFFICES ASSUME Blameless(i)'
               PROVE  SqlHas(i)' /\ (HasNoDrop(i)' => WillMatch(i)')
  BY DEF PromiseKept
<1>5. Blameless(i) /\ SqlHas(i)
  BY <1>1, <1>3, <1>4 DEF Blameless, PromiseKept
<1>6. SqlHas(i)' /\ sqlRows'[i].databases = sqlRows[i].databases \ {d}
  BY <1>5, LessADatabase
<1> HIDE DEF q, d
<1>7. ASSUME HasNoDrop(i)'  PROVE WillMatch(i)'
  <2>1. q[1].what = "open" /\ q[1].databases = {d}
    BY <1>1 DEF AskedBy, q, d
  <2>2. HasNoDrop(i) /\ WillListen(i) /\ Matches(planeJobs[i], serves[i], sqlRows[i].databases) /\ CreatesFirst(i)
    BY <1>2, <1>3, <1>5, <1>7, <2>1 DEF PromiseKept, WillMatch, q
  <2>3. i \in listening' /\ serves'[i] = serves[i]
    BY <1>1, <2>1, <2>2 DEF EndedAs, WillListen, q
  <2>4. d \notin serves[i]
    <3>1. 1 \in 1..Len(q)
      BY <1>3
    <3>2. ~ServedBy(q, 0, serves[i], d)
      BY <2>1, <2>2, <3>1, SMTT(40) DEF Matches, q
    <3>3. \A m \in 1..0 : FALSE
      OBVIOUS
    <3> QED
      BY <3>2, <3>3 DEF ServedBy
  <2>5. \A k \in 1..Len(Tail(q)) : Tail(q)[k].what \notin {"start", "open"}
    <3> TAKE k \in 1..Len(Tail(q))
    <3>1. /\ k + 1 \in 1..Len(q) /\ k + 1 # 1 /\ Tail(q)[k] = q[k + 1]
          /\ q[k + 1].caller \in InFlight(i) \ {c}
      BY <1>2 DEF q
    <3>2. AskedBy(i, q[k + 1], sqlCalls[q[k + 1].caller])
      BY <1>3, <3>1 DEF QueueFits, JobFits, q
    <3>3. sqlCalls[q[k + 1].caller].what # "create"
      BY <2>2, <3>1 DEF CreatesFirst, q
    <3>4. sqlCalls[q[k + 1].caller].what \notin {"createDatabase", "restart"}
      BY <3>1
    <3>5. q[k + 1].what \notin {"start", "open"}
      <4> DEFINE w == sqlCalls[q[k + 1].caller].what
      <4>1. w \in {"create", "restart", "rollback", "delete", "createDatabase", "deleteDatabase"}
        <5>1. q[k + 1].caller \in InFlight(i) /\ CloudSqlTypeOK
          BY <3>1, SqlParts
        <5>2. sqlCalls[q[k + 1].caller] \in SqlRequests
          BY <5>1 DEF InFlight, CloudSqlTypeOK
        <5> QED
          BY <5>2, SqlRequestParts
      <4> HIDE DEF w
      <4>2. w \in {"rollback", "delete", "deleteDatabase"}
        BY <3>3, <3>4, <4>1 DEF w
      <4> QED
        BY <3>2, <4>2 DEF AskedBy, w
    <3> QED
      BY <3>1, <3>5
  <2>6. \A n \in 0..Len(Tail(q)) : \A e : ServedBy(Tail(q), n, serves[i], e) =>
          e \in serves[i]
    <3>1. \A n \in 0..Len(Tail(q)) : \A k \in 1..n : k \in 1..Len(Tail(q))
      BY <1>3
    <3> QED
      BY <2>5, <3>1 DEF ServedBy, Gives
  <2>7. ASSUME NEW e \in PlaneDatabases, e # d
        PROVE  ServedBy(Tail(q), Len(Tail(q)), serves[i], e) <=> ServedBy(q, Len(q), serves[i], e)
    <3>1. e \in serves[i] <=> Gives(q[1], e) \/ (e \in serves[i] /\ ~Takes(q[1], e))
      BY <2>1, <2>7 DEF Gives, Takes
    <3>2. Len(Tail(q)) \in 0..(Len(q) - 1) /\ Len(Tail(q)) + 1 = Len(q)
      BY <1>3
    <3> QED
      BY <1>3, <3>1, <3>2, ServedTail
  <2>8. Matches(Tail(q), serves[i], sqlRows[i].databases \ {d})
    <3>1. ASSUME NEW e \in PlaneDatabases
          PROVE  e \in sqlRows[i].databases \ {d} <=> ServedBy(Tail(q), Len(Tail(q)), serves[i], e)
      <4>1. CASE e = d
        <5>1. Len(Tail(q)) \in 0..Len(Tail(q))
          BY <1>3
        <5> QED
          BY <2>4, <2>6, <4>1, <5>1
      <4>2. CASE e # d
        BY <2>2, <2>7, <4>2 DEF Matches, q
      <4> QED
        BY <4>1, <4>2
    <3> QED
      BY <2>5, <3>1 DEF Matches
  <2>9. Matches(planeJobs'[i], serves'[i], sqlRows'[i].databases)
    BY <1>1, <1>6, <2>3, <2>8 DEF q
  <2>10. WillListen(i)' /\ CreatesFirst(i)'
    BY <1>2, <2>2, <2>3 DEF WillListen
  <2> QED
    BY <2>9, <2>10 DEF WillMatch
<1> QED
  BY <1>6, <1>7

LEMMA StepSqlDatabaseOpened ==
  ASSUME SqlIInv, NEW i \in SqlInstances, NEW c \in SqlCalls, NEW ok \in BOOLEAN,
         SqlDatabaseOpened(c, i, ok)
  PROVE  SqlIInv'
<1>1. /\ sqlCalls[c] # NoRow /\ sqlCalls[c].what = "createDatabase" /\ sqlCalls[c].inst = i
      /\ JobEnds(i, c, ok, <<>>) /\ Answers(c) /\ degraded' = degraded
      /\ crossed \subseteq crossed' /\ crossed' \subseteq crossed \cup {i}
  BY DEF SqlDatabaseOpened, Waits
<1>2. /\ CloudSqlTypeOK
      /\ ok => sqlRows' = sqlRows
      /\ ~ok => sqlRows' = WithoutDatabase(i, sqlCalls[c].database)
      /\ ~ok /\ i \notin crossed' => /\ crossed' = crossed
           /\ \A o \in InFlight(i) \ {c} : sqlCalls[o].what \notin {"createDatabase", "restart"}
  BY SqlParts DEF SqlDatabaseOpened
<1>3. /\ sqlRows' \in [SqlInstances -> SqlRecords \cup {NoRow}]
      /\ \A o \in SqlInstances : o # i => sqlRows'[o] = sqlRows[o]
  BY <1>2, LessADatabase DEF CloudSqlTypeOK
<1>4. SqlChanges(i)
  BY <1>1, <1>2, <1>3 DEF SqlChanges, CloudSqlTypeOK
<1>5. PromiseKept(i)'
  <2>1. CASE ok
    <3>1. JobEnds(i, c, TRUE, <<>>)
      BY <1>1, <2>1
    <3> QED
      BY <1>1, <1>2, <2>1, <3>1, SqlEndsWell
  <2>2. CASE ~ok /\ i \in crossed'
    BY <2>2 DEF PromiseKept, Blameless
  <2>3. CASE ~ok /\ i \notin crossed'
    <3>1. JobEnds(i, c, FALSE, <<>>)
      BY <1>1, <2>3
    <3> QED
      BY <1>1, <1>2, <2>3, <3>1, SqlOpenFails
  <2> QED
    BY <2>1, <2>2, <2>3
<1> QED
  BY <1>1, <1>4, <1>5, SqlCloses, Zenon

LEMMA StepSqlDatabaseDropped ==
  ASSUME SqlIInv, NEW i \in SqlInstances, NEW c \in SqlCalls, NEW ok \in BOOLEAN,
         SqlDatabaseDropped(c, i, ok)
  PROVE  SqlIInv'
<1>1. /\ sqlCalls[c] # NoRow /\ sqlCalls[c].what = "deleteDatabase" /\ sqlCalls[c].inst = i
      /\ JobEnds(i, c, ok, <<>>) /\ Answers(c)
      /\ degraded' = (IF ok THEN degraded ELSE degraded \cup {i})
      /\ crossed' = crossed /\ sqlRows' = sqlRows
  BY DEF SqlDatabaseDropped, Waits
<1>2. CloudSqlTypeOK
  BY SqlParts
<1>3. SqlChanges(i)
  BY <1>1, <1>2 DEF SqlChanges, CloudSqlTypeOK
<1>4. PromiseKept(i)'
  <2>1. CASE ok
    <3>1. JobEnds(i, c, TRUE, <<>>)
      BY <1>1, <2>1
    <3> QED
      BY <1>1, <2>1, <3>1, SqlEndsWell
  <2>2. CASE ~ok
    BY <1>1, <2>2 DEF PromiseKept, Blameless
  <2> QED
    BY <2>1, <2>2
<1> QED
  BY <1>1, <1>3, <1>4, SqlCloses, Zenon

LEMMA StepSqlRestarted ==
  ASSUME SqlIInv, NEW i \in SqlInstances, NEW c \in SqlCalls, NEW ok \in BOOLEAN,
         SqlRestarted(c, i, ok)
  PROVE  SqlIInv'
<1>1. /\ sqlCalls[c] # NoRow /\ sqlCalls[c].what = "restart" /\ sqlCalls[c].inst = i
      /\ JobEnds(i, c, ok, <<>>) /\ Answers(c)
      /\ degraded' = (IF ok THEN degraded ELSE degraded \cup {i})
      /\ crossed \subseteq crossed' /\ crossed' \subseteq crossed \cup {i} /\ sqlRows' = sqlRows
  BY DEF SqlRestarted, Waits
<1>2. CloudSqlTypeOK
  BY SqlParts
<1>3. SqlChanges(i)
  BY <1>1, <1>2 DEF SqlChanges, CloudSqlTypeOK
<1>4. PromiseKept(i)'
  <2>1. CASE ok
    <3>1. JobEnds(i, c, TRUE, <<>>)
      BY <1>1, <2>1
    <3> QED
      BY <1>1, <2>1, <3>1, SqlEndsWell
  <2>2. CASE ~ok
    BY <1>1, <2>2 DEF PromiseKept, Blameless
  <2> QED
    BY <2>1, <2>2
<1> QED
  BY <1>1, <1>3, <1>4, SqlCloses, Zenon

(* A failed start is followed by a drop of the same request.                 *)
LEMMA SqlRollsBack ==
  ASSUME SqlIInv, NEW i \in SqlInstances, NEW c \in SqlCalls,
         sqlCalls[c] # NoRow, sqlCalls[c].inst = i, sqlCalls[c].what = "create",
         JobEnds(i, c, FALSE, <<Job("drop", {}, c)>>),
         sqlCalls' = [sqlCalls EXCEPT ![c].what = "rollback"],
         sqlRows' = sqlRows, degraded' = degraded,
         crossed' = IF SqlHas(i) THEN crossed ELSE crossed \cup {i}
  PROVE  SqlIInv'
<1> DEFINE job == Job("drop", {}, c)
<1>1. /\ CloudSqlTypeOK /\ PlaneTypeOK /\ QueueFits(i) /\ i \in PlaneInstances
      /\ planeJobs[i] \in Seq(PlaneJobs) /\ planeJobs[i] # <<>>
  BY SqlParts DEF JobEnds
<1>2. c \in PlaneCallers /\ {} \in SUBSET PlaneDatabases /\ SqlInstances \subseteq PlaneInstances
  BY CloudSqlAssumption
<1>3. /\ job \in PlaneJobs /\ job.what = "drop" /\ job.caller = c
  BY <1>2, JobParts
<1>4. <<job>> \in Seq(PlaneJobs) /\ JobEnds(i, c, FALSE, <<job>>)
  BY <1>3, ShortQueues
<1> HIDE DEF job
<1>5. /\ Head(planeJobs[i]).caller = c
      /\ EndedAs(i, Head(planeJobs[i]), FALSE)
      /\ planeJobs'[i] = Tail(planeJobs[i]) \o <<job>>
      /\ \A o \in PlaneInstances : o # i => planeJobs'[o] = planeJobs[o]
      /\ PlaneTypeOK'
  <2> DEFINE next == <<job>>
  <2>1. next \in Seq(PlaneJobs) /\ JobEnds(i, c, FALSE, next)
    BY <1>4
  <2> HIDE DEF next
  <2>2. /\ planeJobs[i] # <<>> /\ Head(planeJobs[i]) \in PlaneJobs /\ Head(planeJobs[i]).caller = c
        /\ EndedAs(i, Head(planeJobs[i]), FALSE)
        /\ planeJobs'[i] = Tail(planeJobs[i]) \o next
        /\ \A o \in PlaneInstances : o # i => planeJobs'[o] = planeJobs[o]
        /\ PlaneTypeOK'
    BY <1>1, <2>1, PlaneJobEnds, Zenon
  <2> QED
    BY <2>2 DEF next
<1>6. /\ \A o \in SqlCalls : o # c => sqlCalls'[o] = sqlCalls[o]
      /\ sqlCalls'[c] # NoRow /\ sqlCalls'[c].inst = i /\ sqlCalls'[c].what = "rollback"
      /\ sqlCalls' \in [SqlCalls -> SqlRequests \cup {NoRow}]
  <2>1. sqlCalls[c] \in SqlRequests
    BY <1>1 DEF CloudSqlTypeOK
  <2> DEFINE r == [sqlCalls[c] EXCEPT !.what = "rollback"]
  <2>2. r \in SqlRequests /\ r.inst = i /\ r.what = "rollback"
    BY <2>1 DEF SqlRequests
  <2>3. sqlCalls' = [sqlCalls EXCEPT ![c] = r]
    OBVIOUS
  <2> HIDE DEF r
  <2> QED
    BY <1>1, <2>2, <2>3, SqlRequestParts DEF CloudSqlTypeOK
<1>7. InFlight(i)' = InFlight(i) /\ c \in InFlight(i)
  BY <1>6 DEF InFlight
<1> DEFINE q == planeJobs[i]
<1>8. q \in Seq(PlaneJobs) /\ q # <<>>
  BY <1>1
<1> DEFINE p == Tail(q) \o <<job>>
<1> HIDE DEF q
<1>9. /\ Len(q) \in Nat /\ Len(q) >= 1 /\ Head(q) = q[1] /\ Len(p) = Len(q) /\ p[Len(q)] = job
      /\ \A k \in 1..(Len(q) - 1) : p[k] = q[k + 1]
  <2>1. /\ Len(q) \in Nat /\ Len(q) >= 1 /\ Head(q) = q[1]
        /\ Tail(q) \in Seq(PlaneJobs) /\ Len(Tail(q)) = Len(q) - 1
        /\ \A k \in 1..(Len(q) - 1) : Tail(q)[k] = q[k + 1]
    BY <1>8
  <2> DEFINE t == Tail(q)
  <2> HIDE DEF t
  <2>2. /\ t \in Seq(PlaneJobs) /\ Len(t) = Len(q) - 1
        /\ \A k \in 1..(Len(q) - 1) : t[k] = q[k + 1]
    BY <2>1 DEF t
  <2>3. /\ Len(t \o <<job>>) = Len(t) + 1 /\ (t \o <<job>>)[Len(t) + 1] = job
        /\ \A k \in 1..Len(t) : (t \o <<job>>)[k] = t[k]
    BY <1>3, <1>4, <2>2
  <2>4. Len(t) + 1 = Len(q) /\ p = t \o <<job>>
    BY <2>1, <2>2 DEF t
  <2> HIDE DEF p
  <2> QED
    BY <2>1, <2>2, <2>3, <2>4
<1> HIDE DEF p
<1>10. \A k \in 1..Len(q) :
         \/ k = Len(q) /\ p[k] = job
         \/ /\ k \in 1..(Len(q) - 1) /\ k + 1 \in 1..Len(q) /\ k + 1 # 1 /\ p[k] = q[k + 1]
  BY <1>9
<1>11. /\ \A k \in 1..Len(q) :
            /\ q[k].caller \in SqlCalls /\ sqlCalls[q[k].caller] # NoRow
            /\ AskedBy(i, q[k], sqlCalls[q[k].caller])
       /\ \A k, m \in 1..Len(q) : q[k].caller = q[m].caller => k = m
       /\ \A o \in InFlight(i) : \E k \in 1..Len(q) : q[k].caller = o
       /\ q[1].caller = c /\ 1 \in 1..Len(q)
  BY <1>1, <1>5, <1>9 DEF QueueFits, JobFits, q
<1>12. planeJobs'[i] = p /\ Len(planeJobs'[i]) = Len(q)
  BY <1>5, <1>9 DEF p, q
<1>13. AskedBy(i, job, sqlCalls'[c])
  BY <1>3, <1>6 DEF AskedBy
<1>14. \A k \in 1..(Len(q) - 1) : /\ p[k] = q[k + 1] /\ k + 1 \in 1..Len(q)
                                  /\ q[k + 1].caller # c
  BY <1>9, <1>10, <1>11
<1>15. QueueFits(i)'
  <2>1. ASSUME NEW k \in 1..Len(q)
        PROVE  /\ p[k].caller \in SqlCalls /\ sqlCalls'[p[k].caller] # NoRow
               /\ AskedBy(i, p[k], sqlCalls'[p[k].caller])
    <3>1. CASE k = Len(q)
      BY <1>3, <1>6, <1>9, <1>13, <3>1
    <3>2. CASE k # Len(q)
      <4>1. k \in 1..(Len(q) - 1)
        BY <1>9, <3>2
      <4>2. p[k] = q[k + 1] /\ k + 1 \in 1..Len(q) /\ q[k + 1].caller # c
        BY <1>14, <4>1
      <4>3. /\ q[k + 1].caller \in SqlCalls /\ sqlCalls[q[k + 1].caller] # NoRow
            /\ AskedBy(i, q[k + 1], sqlCalls[q[k + 1].caller])
        BY <1>11, <4>2
      <4>4. sqlCalls'[q[k + 1].caller] = sqlCalls[q[k + 1].caller]
        BY <1>6, <4>2, <4>3
      <4> QED
        BY <4>2, <4>3, <4>4
    <3> QED
      BY <3>1, <3>2
  <2>2. ASSUME NEW k \in 1..Len(q), NEW m \in 1..Len(q), p[k].caller = p[m].caller
        PROVE  k = m
    <3>1. CASE k = Len(q) \/ m = Len(q)
      BY <1>3, <1>9, <1>10, <1>14, <2>2, <3>1
    <3>2. CASE k # Len(q) /\ m # Len(q)
      <4>1. k \in 1..(Len(q) - 1) /\ m \in 1..(Len(q) - 1)
        BY <1>9, <3>2
      <4>2. p[k] = q[k + 1] /\ p[m] = q[m + 1] /\ k + 1 \in 1..Len(q) /\ m + 1 \in 1..Len(q)
        BY <1>14, <4>1
      <4>3. k + 1 = m + 1
        BY <1>11, <2>2, <4>2
      <4> QED
        BY <4>1, <4>3
    <3> QED
      BY <3>1, <3>2
  <2>3. ASSUME NEW o \in InFlight(i)
        PROVE  \E k \in 1..Len(q) : p[k].caller = o
    <3>1. Len(q) \in 1..Len(q)
      BY <1>9
    <3>2. CASE o = c
      BY <1>3, <1>9, <3>1, <3>2
    <3>3. CASE o # c
      <4>1. PICK m \in 1..Len(q) : q[m].caller = o
        BY <1>11
      <4>2. m # 1
        BY <1>11, <3>3, <4>1
      <4>3. m - 1 \in 1..(Len(q) - 1) /\ (m - 1) + 1 = m /\ m - 1 \in 1..Len(q)
        BY <1>9, <4>2
      <4> QED
        BY <1>14, <4>1, <4>3
    <3> QED
      BY <3>2, <3>3
  <2>4. \A k \in 1..Len(planeJobs'[i]) : JobFits(i, planeJobs[i][k])'
    BY <1>12, <2>1 DEF JobFits
  <2>5. \A k, m \in 1..Len(planeJobs'[i]) :
          planeJobs'[i][k].caller = planeJobs'[i][m].caller => k = m
    BY <1>12, <2>2
  <2>6. \A o \in InFlight(i)' : \E k \in 1..Len(planeJobs'[i]) : planeJobs'[i][k].caller = o
    BY <1>7, <1>12, <2>3
  <2> QED
    BY <2>4, <2>5, <2>6 DEF QueueFits
<1>16. PromiseKept(i)'
  <2>1. ~HasNoDrop(i)'
    <3>1. Len(q) \in 1..Len(planeJobs'[i]) /\ planeJobs'[i][Len(q)] = job
      BY <1>9, <1>12
    <3> QED
      BY <1>3, <3>1 DEF HasNoDrop
  <2> QED
    BY <2>1 DEF PromiseKept, Blameless, SqlHas
<1>17. CloudSqlTypeOK'
  BY <1>1, <1>5, <1>6 DEF CloudSqlTypeOK
<1>18. SqlOnlyIn(i)
  <2>1. \A o \in SqlInstances : o # i =>
         /\ o \in listening' <=> o \in listening
         /\ serves'[o] = serves[o] /\ planeFiles'[o] = planeFiles[o]
    BY <1>2, <1>5 DEF EndedAs
  <2> QED
    BY <1>2, <1>5, <1>6, <2>1 DEF SqlOnlyIn
<1> QED
  BY <1>15, <1>16, <1>17, <1>18, SqlMoves

LEMMA StepSqlStarted ==
  ASSUME SqlIInv, NEW i \in SqlInstances, NEW c \in SqlCalls, NEW ok \in BOOLEAN,
         SqlStarted(c, i, ok)
  PROVE  SqlIInv'
<1>1. /\ sqlCalls[c] # NoRow /\ sqlCalls[c].what = "create" /\ sqlCalls[c].inst = i
      /\ degraded' = degraded /\ sqlRows' = sqlRows
      /\ crossed' = (IF SqlHas(i) THEN crossed ELSE crossed \cup {i})
      /\ \/ JobEnds(i, c, TRUE, <<>>) /\ Answers(c)
         \/ /\ JobEnds(i, c, FALSE, <<Job("drop", {}, c)>>)
            /\ sqlCalls' = [sqlCalls EXCEPT ![c].what = "rollback"]
  BY DEF SqlStarted, Waits
<1>2. CASE JobEnds(i, c, TRUE, <<>>) /\ Answers(c)
  <2>1. CloudSqlTypeOK
    BY SqlParts
  <2>2. SqlChanges(i)
    BY <1>1, <2>1 DEF SqlChanges, CloudSqlTypeOK
  <2>3. PromiseKept(i)'
    BY <1>1, <1>2, SqlEndsWell
  <2> QED
    BY <1>1, <1>2, <2>2, <2>3, SqlCloses
<1>3. CASE /\ JobEnds(i, c, FALSE, <<Job("drop", {}, c)>>)
           /\ sqlCalls' = [sqlCalls EXCEPT ![c].what = "rollback"]
  BY <1>1, <1>3, SqlRollsBack
<1> QED
  BY <1>1, <1>2, <1>3

LEMMA StepSqlDropped ==
  ASSUME SqlIInv, NEW i \in SqlInstances, NEW c \in SqlCalls, NEW ok \in BOOLEAN,
         SqlDropped(c, i, ok)
  PROVE  SqlIInv'
<1>1. /\ sqlCalls[c] # NoRow /\ sqlCalls[c].what \in {"rollback", "delete"} /\ sqlCalls[c].inst = i
      /\ JobEnds(i, c, ok, <<>>) /\ Answers(c)
  BY DEF SqlDropped, Waits
<1>2. CloudSqlTypeOK
  BY SqlParts
<1>3. SqlChanges(i)
  BY <1>2 DEF SqlChanges, CloudSqlTypeOK, SqlDropped, RowsGone
<1>4. CASE ~ok \/ InFlight(i) # {c}
  <2>1. i \in degraded' \cup crossed'
    BY <1>4 DEF SqlDropped
  <2>2. PromiseKept(i)'
    BY <2>1 DEF PromiseKept, Blameless
  <2> QED
    BY <1>1, <1>3, <2>2, SqlCloses, Zenon
<1>5. CASE ok /\ InFlight(i) = {c}
  <2>1. JobEnds(i, c, TRUE, <<>>)
    BY <1>1, <1>5
  <2>2. /\ AskedBy(i, planeJobs[i][1], sqlCalls[c])
        /\ EndedAs(i, planeJobs[i][1], TRUE)
    BY <1>1, <2>1, SqlEnds, Zenon
  <2>3. InFlight(i)' = {}
    BY <1>2, <1>1, <1>5 DEF InFlight, Answers, CloudSqlTypeOK
  <2>4. i \notin listening' /\ planeFiles'[i] = {}
    BY <1>1, <2>2 DEF AskedBy, EndedAs
  <2>5. ~SqlHas(i)'
    BY <1>2, <1>5 DEF SqlDropped, RowsGone, SqlHas, CloudSqlTypeOK
  <2>6. PromiseKept(i)'
    BY <2>3, <2>4, <2>5 DEF PromiseKept
  <2> QED
    BY <1>1, <1>3, <2>1, <2>6, SqlCloses
<1> QED
  BY <1>4, <1>5

(* Settings and users: the rows of i change, their databases do not.         *)
LEMMA SqlRowOnly ==
  ASSUME SqlIInv, NEW i \in SqlInstances, NEW row \in SqlRecords, SqlHas(i),
         row.databases = sqlRows[i].databases, sqlRows' = [sqlRows EXCEPT ![i] = row],
         sqlCalls' = sqlCalls, degraded' = degraded, crossed' = crossed, UNCHANGED planeVars
  PROVE  SqlIInv'
<1>1. CloudSqlTypeOK /\ QueueFits(i) /\ PromiseKept(i)
  BY SqlParts
<1>2. /\ planeJobs' = planeJobs /\ listening' = listening
      /\ serves' = serves /\ planeFiles' = planeFiles
  BY DEF planeVars
<1>3. /\ sqlRows' \in [SqlInstances -> SqlRecords \cup {NoRow}]
      /\ sqlRows'[i] = row /\ row # NoRow /\ \A o \in SqlInstances : o # i => sqlRows'[o] = sqlRows[o]
  BY <1>1, SqlRowParts DEF CloudSqlTypeOK
<1>4. CloudSqlTypeOK'
  BY <1>1, <1>2, <1>3 DEF CloudSqlTypeOK, PlaneTypeOK
<1>5. SqlOnlyIn(i)
  BY <1>2, <1>3 DEF SqlOnlyIn
<1>6. QueueFits(i)'
  BY <1>1, <1>2 DEF QueueFits, JobFits, InFlight
<1>7. PromiseKept(i)'
  <2>1. SUFFICES ASSUME Blameless(i)', HasNoDrop(i)'  PROVE WillMatch(i)'
    BY <1>3 DEF PromiseKept, SqlHas
  <2>2. WillMatch(i)
    BY <1>1, <1>2, <2>1 DEF PromiseKept, Blameless, HasNoDrop
  <2>3. Matches(planeJobs'[i], serves'[i], sqlRows'[i].databases)
    BY <1>2, <1>3, <2>2 DEF WillMatch
  <2>4. WillListen(i)' /\ CreatesFirst(i)'
    BY <1>2, <2>2 DEF WillMatch, WillListen, CreatesFirst
  <2> QED
    BY <2>3, <2>4 DEF WillMatch
<1> QED
  BY <1>4, <1>5, <1>6, <1>7, SqlMoves

LEMMA StepApplySettings ==
  ASSUME SqlIInv, NEW i \in SqlInstances, ApplySettings(i)
  PROVE  SqlIInv'
<1>1. CloudSqlTypeOK /\ SqlHas(i) /\ sqlRows[i].version < MaxSettings
  BY SqlParts DEF ApplySettings
<1>2. sqlRows[i] \in SqlRecords
  BY <1>1 DEF CloudSqlTypeOK, SqlHas
<1> DEFINE row == [sqlRows[i] EXCEPT !.version = @ + 1]
<1>3. row \in SqlRecords /\ row.databases = sqlRows[i].databases
  <2>1. sqlRows[i].version + 1 \in 1..MaxSettings
    BY <1>1, <1>2, SqlRowParts, CloudSqlAssumption
  <2> QED
    BY <1>2, <2>1 DEF SqlRecords
<1>4. sqlRows' = [sqlRows EXCEPT ![i] = row]
  BY DEF ApplySettings
<1> HIDE DEF row
<1>5. sqlCalls' = sqlCalls /\ degraded' = degraded /\ crossed' = crossed /\ UNCHANGED planeVars
  BY DEF ApplySettings
<1> QED
  BY <1>1, <1>3, <1>4, <1>5, SqlRowOnly

LEMMA StepSqlChangeUser ==
  ASSUME SqlIInv, NEW i \in SqlInstances, SqlChangeUser(i)
  PROVE  SqlIInv'
<1>1. CloudSqlTypeOK /\ SqlHas(i)
  BY SqlParts DEF SqlChangeUser
<1>2. sqlRows[i] \in SqlRecords
  BY <1>1 DEF CloudSqlTypeOK, SqlHas
<1> DEFINE row == [sqlRows[i] EXCEPT !.users = {Postgres} \ @]
<1>3. row \in SqlRecords /\ row.databases = sqlRows[i].databases
  BY <1>2 DEF SqlRecords
<1>4. sqlRows' = [sqlRows EXCEPT ![i] = row]
  BY DEF SqlChangeUser
<1> HIDE DEF row
<1>5. sqlCalls' = sqlCalls /\ degraded' = degraded /\ crossed' = crossed /\ UNCHANGED planeVars
  BY DEF SqlChangeUser
<1> QED
  BY <1>1, <1>3, <1>4, <1>5, SqlRowOnly

LEMMA StepSqlProcessRestarts ==
  ASSUME SqlIInv, SqlProcessRestarts
  PROVE  SqlIInv'
<1>1. CloudSqlTypeOK /\ PlaneTypeOK /\ SqlInstances \subseteq PlaneInstances
  BY CloudSqlAssumption DEF SqlIInv, CloudSqlTypeOK
<1> DEFINE has == {i \in SqlInstances : SqlHas(i)}
<1>2. PICK up \in SUBSET has :
        /\ Rehydrated(has, up, [i \in up |-> sqlRows[i].databases])
        /\ degraded' = degraded \cup {i \in SqlInstances : i \notin up /\ (SqlHas(i) \/ InFlight(i) # {})}
  BY DEF SqlProcessRestarts
<1>3. /\ sqlCalls' = [c \in SqlCalls |-> NoRow] /\ sqlRows' = sqlRows
      /\ crossed' = crossed \cup {i \in SqlInstances : InFlight(i) # {}}
  BY DEF SqlProcessRestarts
<1>4. \A i \in up : sqlRows[i].databases \in SUBSET PlaneDatabases
  BY <1>1, SqlRowParts DEF CloudSqlTypeOK, SqlHas
<1> DEFINE named == [i \in up |-> sqlRows[i].databases]
<1>5. /\ has \subseteq PlaneInstances /\ \A i \in up : named[i] \in SUBSET PlaneDatabases
  BY <1>1, <1>4
<1> HIDE DEF has
<1>6. /\ Rehydrated(has, up, named) /\ \A i \in up : named[i] = sqlRows[i].databases
  BY <1>2
<1> HIDE DEF named
<1>7. PlaneTypeOK'
  BY <1>1, <1>5, <1>6, PlaneRehydrates
<1>8. CloudSqlTypeOK'
  BY <1>1, <1>2, <1>3, <1>7 DEF CloudSqlTypeOK
<1>9. ASSUME NEW i \in SqlInstances
      PROVE  QueueFits(i)' /\ PromiseKept(i)'
  <2>1. planeJobs'[i] = <<>>
    BY <1>1, <1>6 DEF Rehydrated
  <2>2. InFlight(i)' = {}
    BY <1>3 DEF InFlight
  <2>3. 1..Len(planeJobs'[i]) = {}
    BY <2>1
  <2>4. QueueFits(i)'
    BY <2>2, <2>3 DEF QueueFits
  <2>5. PromiseKept(i)'
    <3>1. SUFFICES ASSUME Blameless(i)'
                   PROVE  IF SqlHas(i)' THEN WillMatch(i)' ELSE i \notin listening' /\ planeFiles'[i] = {}
      BY <2>2 DEF PromiseKept
    <3>2. PromiseKept(i) /\ Blameless(i) /\ (i \in up \/ ~SqlHas(i))
      BY <1>2, <1>3, <3>1, SqlParts DEF Blameless
    <3>3. CASE SqlHas(i)
      <4>1. i \in up
        BY <3>2, <3>3
      <4>2. i \in listening' /\ serves'[i] = sqlRows[i].databases
        BY <1>1, <1>6, <4>1 DEF Rehydrated
      <4>3. Matches(planeJobs'[i], serves'[i], sqlRows'[i].databases)
        BY <1>3, <1>4, <2>1, <4>1, <4>2, MatchEmpty
      <4>4. WillListen(i)' /\ CreatesFirst(i)'
        BY <2>3, <4>2 DEF WillListen, CreatesFirst
      <4>5. SqlHas(i)'
        BY <1>3, <3>3 DEF SqlHas
      <4> QED
        BY <4>3, <4>4, <4>5 DEF WillMatch
    <3>4. CASE ~SqlHas(i)
      <4>1. i \notin up
        BY <1>2, <3>4 DEF has
      <4>2. i \notin listening' /\ planeFiles'[i] = planeFiles[i]
        BY <1>1, <1>6, <4>1 DEF Rehydrated
      <4> QED
        BY <1>3, <3>2, <3>4, <4>2 DEF PromiseKept, SqlHas
    <3> QED
      BY <3>3, <3>4
  <2> QED
    BY <2>4, <2>5
<1> QED
  BY <1>8, <1>9 DEF SqlIInv, JobsAreRequests, QueueFits

LEMMA SqlStarts == CloudSqlInit => SqlIInv
<1> SUFFICES ASSUME CloudSqlInit  PROVE SqlIInv
  OBVIOUS
<1>1. SqlInstances \subseteq PlaneInstances
  BY CloudSqlAssumption
<1>2. PlaneTypeOK
  BY ShortQueues DEF CloudSqlInit, PlaneInit, PlaneTypeOK
<1>3. CloudSqlTypeOK
  BY <1>2 DEF CloudSqlInit, CloudSqlTypeOK
<1>4. ASSUME NEW i \in SqlInstances
      PROVE  QueueFits(i) /\ PromiseKept(i)
  <2>1. planeJobs[i] = <<>> /\ i \notin listening /\ planeFiles[i] = {} /\ ~SqlHas(i)
    BY <1>1 DEF CloudSqlInit, PlaneInit, SqlHas
  <2>2. InFlight(i) = {}
    BY DEF InFlight, CloudSqlInit
  <2>3. 1..Len(planeJobs[i]) = {}
    BY <2>1
  <2> QED
    BY <2>1, <2>2, <2>3 DEF QueueFits, PromiseKept
<1> QED
  BY <1>3, <1>4 DEF SqlIInv, JobsAreRequests, QueueFits

LEMMA SqlStutters == SqlIInv /\ UNCHANGED sqlVars => SqlIInv'
BY DEF SqlIInv, sqlVars, planeVars, CloudSqlTypeOK, PlaneTypeOK, JobsAreRequests, JobFits, InFlight,
       PromiseKept, Blameless, SqlHas, HasNoDrop, WillMatch, WillListen, CreatesFirst

LEMMA SqlGoesOn == SqlIInv /\ [CloudSqlNext]_sqlVars => SqlIInv'
<1> SUFFICES ASSUME SqlIInv, [CloudSqlNext]_sqlVars  PROVE SqlIInv'
  OBVIOUS
<1>1. ASSUME NEW c \in SqlCalls, SqlJobEnds(c)  PROVE SqlIInv'
  <2>1. PICK i \in SqlInstances : \E ok \in BOOLEAN :
          \/ SqlStarted(c, i, ok) \/ SqlDropped(c, i, ok) \/ SqlRestarted(c, i, ok)
          \/ SqlDatabaseOpened(c, i, ok) \/ SqlDatabaseDropped(c, i, ok)
    BY <1>1 DEF SqlJobEnds
  <2>2. ASSUME NEW ok \in BOOLEAN, SqlStarted(c, i, ok)  PROVE SqlIInv'
    BY <2>2, StepSqlStarted, Zenon
  <2>3. ASSUME NEW ok \in BOOLEAN, SqlDropped(c, i, ok)  PROVE SqlIInv'
    BY <2>3, StepSqlDropped, Zenon
  <2>4. ASSUME NEW ok \in BOOLEAN, SqlRestarted(c, i, ok)  PROVE SqlIInv'
    BY <2>4, StepSqlRestarted, Zenon
  <2>5. ASSUME NEW ok \in BOOLEAN, SqlDatabaseOpened(c, i, ok)  PROVE SqlIInv'
    BY <2>5, StepSqlDatabaseOpened, Zenon
  <2>6. ASSUME NEW ok \in BOOLEAN, SqlDatabaseDropped(c, i, ok)  PROVE SqlIInv'
    BY <2>6, StepSqlDatabaseDropped, Zenon
  <2> QED
    BY <2>1, <2>2, <2>3, <2>4, <2>5, <2>6, Zenon
<1>2. ASSUME NEW c \in SqlCalls, NEW i \in SqlInstances,
             SqlCreateInstance(c, i) \/ SqlDeleteInstance(c, i) \/ SqlRestartInstance(c, i)
      PROVE  SqlIInv'
  BY <1>2, StepSqlCreateInstance, StepSqlDeleteInstance, StepSqlRestartInstance
<1>3. ASSUME NEW c \in SqlCalls, NEW i \in SqlInstances, NEW d \in PlaneDatabases,
             SqlCreateDatabase(c, i, d) \/ SqlDeleteDatabase(c, i, d)
      PROVE  SqlIInv'
  BY <1>3, StepSqlCreateDatabase, StepSqlDeleteDatabase
<1>4. ASSUME NEW i \in SqlInstances, ApplySettings(i) \/ SqlChangeUser(i)
      PROVE  SqlIInv'
  BY <1>4, StepApplySettings, StepSqlChangeUser
<1>5. SqlProcessRestarts => SqlIInv'
  BY StepSqlProcessRestarts
<1>6. UNCHANGED sqlVars => SqlIInv'
  BY SqlStutters
<1> QED
  BY <1>1, <1>2, <1>3, <1>4, <1>5, <1>6 DEF CloudSqlNext

(* With the requests of i answered its queue is empty: what will be served   *)
(* is what is.                                                               *)
LEMMA SqlSettles == SqlIInv => CloudSqlInvariant
<1> SUFFICES ASSUME SqlIInv  PROVE CloudSqlInvariant
  OBVIOUS
<1>1. ASSUME NEW i \in SqlInstances, Settled(i), Blameless(i)
      PROVE  /\ i \in listening <=> SqlHas(i)
             /\ SqlHas(i) => serves[i] = sqlRows[i].databases
             /\ ~SqlHas(i) => planeFiles[i] = {}
  <2>1. /\ PromiseKept(i) /\ planeJobs[i] = <<>> /\ serves[i] \in SUBSET PlaneDatabases
        /\ sqlRows[i] # NoRow => sqlRows[i].databases \in SUBSET PlaneDatabases
    BY <1>1, SqlParts DEF Settled
  <2>2. CASE SqlHas(i)
    <3>1. HasNoDrop(i)
      BY <2>1 DEF HasNoDrop
    <3>2. WillListen(i) /\ Matches(planeJobs[i], serves[i], sqlRows[i].databases)
      BY <1>1, <2>1, <2>2, <3>1 DEF PromiseKept, WillMatch
    <3>3. serves[i] = sqlRows[i].databases
      BY <2>1, <2>2, <3>2, MatchEmpty DEF SqlHas
    <3> QED
      BY <2>1, <2>2, <3>2, <3>3 DEF WillListen
  <2>3. CASE ~SqlHas(i)
    BY <1>1, <2>1, <2>3 DEF PromiseKept
  <2> QED
    BY <2>2, <2>3
<1>2. CloudSqlTypeOK
  BY DEF SqlIInv
<1> QED
  BY <1>1, <1>2 DEF CloudSqlInvariant, RowsAreServed, NoFilesInherited

(* Rows, endpoints and files of Cloud SQL agree once the requests of an      *)
(* instance are answered, unless one of them failed after its rows were      *)
(* settled or crossed a delete or a rollback of the same instance: however   *)
(* many requests, instances and databases there are.                         *)
THEOREM InstancesAreServed == CloudSqlSpec => []CloudSqlInvariant
  BY SqlStarts, SqlGoesOn, SqlSettles, PTL DEF CloudSqlSpec

---------------------------------------------------------------------------
(* Memorystore: its instances and their ports, its policies.               *)

(* A set of naturals has a least element, and a bounded one a greatest.    *)
LEMMA LeastNatural ==
  ASSUME NEW S \in SUBSET Nat, S # {}
  PROVE  \E m \in S : \A n \in S : m <= n
<1>1. PICK m \in S : \A n \in S : <<n, m>> \notin OpToRel(<, Nat)
  BY NatLessThanWellFounded, WFMin
<1>2. ASSUME NEW n \in S PROVE m <= n
  <2>1. m \in Nat /\ n \in Nat
    OBVIOUS
  <2>2. n < m => <<n, m>> \in OpToRel(<, Nat)
    BY <2>1 DEF OpToRel
  <2>3. ~(n < m)
    BY <1>1, <2>2, Zenon
  <2> QED
    BY <2>1, <2>3
<1> QED
  BY <1>2
LEMMA GreatestNatural ==
  ASSUME NEW S \in SUBSET Nat, S # {}, NEW bound \in Nat, \A n \in S : n <= bound
  PROVE  \E m \in S : \A n \in S : n <= m
<1> DEFINE T == {bound - n : n \in S}
<1>1. T \in SUBSET Nat /\ T # {}
  <2>1. ASSUME NEW n \in S PROVE bound - n \in Nat
    <3>1. n \in Nat /\ n <= bound
      OBVIOUS
    <3> QED
      BY <3>1
  <2> QED
    BY <2>1
<1> HIDE DEF T
<1>2. PICK m \in T : \A n \in T : m <= n
  BY <1>1, LeastNatural
<1>3. PICK k \in S : m = bound - k
  BY DEF T
<1>4. ASSUME NEW n \in S PROVE n <= k
  <2>1. n \in Nat /\ k \in Nat /\ bound - n \in T
    BY DEF T
  <2> QED
    BY <1>2, <1>3, <2>1
<1> QED
  BY <1>4

USE MemoryAssumption

(* The mutex: who has arrived waits in the queue of its instance once, and   *)
(* who has gone on is at its head.                                           *)
KeyInv ==
  /\ memoryQueue \in [MemoryInstances -> Seq(MemoryCalls)]
  /\ memoryCalls \in [MemoryCalls -> MemoryRecords \cup {NoRow}]
  /\ \A i \in MemoryInstances :
       /\ \A n \in 1 .. Len(memoryQueue[i]) :
            memoryCalls[memoryQueue[i][n]] # NoRow /\ InstanceOf(memoryQueue[i][n]) = i
       /\ \A m, n \in 1 .. Len(memoryQueue[i]) : memoryQueue[i][m] = memoryQueue[i][n] => m = n
  /\ \A c \in MemoryCalls : memoryCalls[c] # NoRow =>
       /\ \E n \in 1 .. Len(memoryQueue[InstanceOf(c)]) : memoryQueue[InstanceOf(c)][n] = c
       /\ memoryCalls[c].stage # "arrived" => memoryQueue[InstanceOf(c)][1] = c

Building(c) == memoryCalls[c] # NoRow /\ memoryCalls[c].stage \in {"probe", "start", "hash", "degrade"}
Ending(c) == memoryCalls[c] # NoRow /\ memoryCalls[c].stage \in {"rollback", "stop"}

(* A port that is held is allocated, and held by one instance.               *)
HeldApart ==
  /\ \A i \in MemoryInstances : {servers[i], degradedPorts[i]} \ {NoPort} \subseteq allocatedPorts
  /\ \A i, o \in MemoryInstances : i # o =>
       {servers[i], degradedPorts[i]} \cap {servers[o], degradedPorts[o]} \subseteq {NoPort}

(* So is one that is claimed, by a call alone.                               *)
ClaimedApart ==
  /\ \A c \in MemoryCalls : Building(c) =>
       /\ memoryCalls[c].port \in allocatedPorts
       /\ \A i \in MemoryInstances : memoryCalls[c].port \notin {servers[i], degradedPorts[i]}
       /\ \A d \in MemoryCalls : Building(d) /\ memoryCalls[d].port = memoryCalls[c].port => d = c
  /\ \A c \in MemoryCalls : memoryCalls[c] # NoRow /\ ~Building(c) => memoryCalls[c].port = NoPort

NoneForgotten ==
  /\ \A p \in allocatedPorts :
       \/ \E i \in MemoryInstances : p \in {servers[i], degradedPorts[i]}
       \/ \E c \in MemoryCalls : memoryCalls[c] # NoRow /\ memoryCalls[c].port = p
  /\ \A i \in MemoryInstances \ LiveInstances :
       servers[i] # NoPort \/ degradedPorts[i] # NoPort =>
         \E c \in MemoryCalls : Ending(c) /\ InstanceOf(c) = i

(* What the holder of a key finds as it left it.                             *)
CallsFindTheirs ==
  \A c \in MemoryCalls :
    /\ Building(c) =>
         /\ servers[InstanceOf(c)] = NoPort /\ degradedPorts[InstanceOf(c)] = NoPort
         /\ memoryRows[InstanceOf(c)] = NoRow
    /\ Building(c) \/ Ending(c) => InstanceOf(c) \notin tokenUsers
    /\ Ending(c) /\ memoryCalls[c].stage = "stop" => memoryRows[InstanceOf(c)] = NoRow
    /\ Ending(c) /\ "collection" \in memoryCalls[c].undo => InstanceOf(c) \notin memoryBackups

(* Respawns come before requests, and find no server.                        *)
RespawnsFirst ==
  respawning # {} =>
    /\ \A c \in MemoryCalls : memoryCalls[c] = NoRow
    /\ \A i \in respawning : /\ memoryRows[i] # NoRow
                             /\ servers[i] = NoPort /\ degradedPorts[i] = NoPort

PortInv == /\ HeldApart /\ ClaimedApart /\ NoneForgotten /\ CallsFindTheirs /\ RespawnsFirst
           /\ EndpointsAreHeld /\ ChildrenHaveTheirInstance

LEMMA MemoryRequestParts ==
  ASSUME NEW r \in AllInstanceRequests
  PROVE  /\ r.inst \in MemoryInstances
         /\ r.what = "protect" => r.on \in BOOLEAN
BY DEF AllInstanceRequests

LEMMA MemoryCallParts ==
  ASSUME KeyInv, NEW c \in MemoryCalls, memoryCalls[c] # NoRow
  PROVE  /\ memoryCalls[c] \in MemoryRecords
         /\ MemoryOf(c) \in AllInstanceRequests /\ InstanceOf(c) \in MemoryInstances
         /\ memoryCalls[c].stage \in CallStages
         /\ memoryCalls[c].port \in Ports \cup {NoPort}
         /\ memoryCalls[c].undo \in SUBSET {"row", "collection"}
<1>0. memoryCalls \in [MemoryCalls -> MemoryRecords \cup {NoRow}]
  BY Zenon DEF KeyInv
<1>1. memoryCalls[c] \in MemoryRecords
  BY <1>0
<1>2. MemoryOf(c) \in AllInstanceRequests
  BY <1>1 DEF MemoryRecords, MemoryOf
<1>3. InstanceOf(c) = MemoryOf(c).inst
  BY DEF InstanceOf, MemoryOf
<1>4. InstanceOf(c) \in MemoryInstances
  BY <1>2, <1>3, MemoryRequestParts
<1> QED
  BY <1>1, <1>2, <1>4 DEF MemoryRecords

(* A call that has its turn is in front of the queue of its instance, and    *)
(* the others there have not begun.                                          *)
LEMMA AtItsTurn ==
  ASSUME KeyInv, NEW c \in MemoryCalls, NEW stage, AtStage(c, stage)
  PROVE  /\ memoryCalls[c] # NoRow
         /\ memoryQueue[InstanceOf(c)] \in Seq(MemoryCalls)
         /\ memoryQueue[InstanceOf(c)] # <<>> /\ memoryQueue[InstanceOf(c)][1] = c
         /\ \A d \in MemoryCalls \ {c} :
              memoryCalls[d] # NoRow /\ InstanceOf(d) = InstanceOf(c) => memoryCalls[d].stage = "arrived"
<1> DEFINE q == memoryQueue[InstanceOf(c)]
<1>1. memoryCalls[c] # NoRow /\ Head(q) = c
  BY DEF AtStage
<1>2. InstanceOf(c) \in MemoryInstances
  BY <1>1, MemoryCallParts
<1>3. q \in Seq(MemoryCalls)
  BY <1>2 DEF KeyInv
<1>4. \E n \in 1 .. Len(q) : q[n] = c
  BY <1>1, Zenon DEF KeyInv
<1> HIDE DEF q
<1>5. q # <<>> /\ q[1] = c
  BY <1>1, <1>3, <1>4
<1>6. ASSUME NEW d \in MemoryCalls \ {c}, memoryCalls[d] # NoRow, InstanceOf(d) = InstanceOf(c)
      PROVE  memoryCalls[d].stage = "arrived"
  <2>1. memoryCalls[d].stage # "arrived" => memoryQueue[InstanceOf(d)][1] = d
    BY <1>6, Zenon DEF KeyInv
  <2> QED
    BY <1>5, <1>6, <2>1 DEF q
<1> QED
  BY <1>1, <1>3, <1>5, <1>6 DEF q

-----------------------------------------------------------------------------
(* The mutex under the three things that happen to it.                       *)
LEMMA KeyArrives ==
  ASSUME KeyInv, NEW c \in MemoryCalls, NEW r \in InstanceRequests, MemoryArrives(c, r)
  PROVE  KeyInv'
<1> DEFINE new == [request |-> r, stage |-> "arrived", port |-> NoPort, undo |-> {}]
           q == memoryQueue[r.inst]
<1>1. r \in AllInstanceRequests /\ r.inst \in MemoryInstances
  BY MemoryRequestParts
<1>2. new \in MemoryRecords /\ new # NoRow /\ new.stage = "arrived" /\ new.request.inst = r.inst
  BY <1>1 DEF MemoryRecords, CallStages
<1>3. /\ memoryCalls[c] = NoRow
      /\ memoryCalls' = [memoryCalls EXCEPT ![c] = new]
      /\ memoryQueue' = [memoryQueue EXCEPT ![r.inst] = Append(q, c)]
  BY DEF MemoryArrives
<1> HIDE DEF new
<1>4. /\ memoryQueue \in [MemoryInstances -> Seq(MemoryCalls)]
      /\ memoryCalls \in [MemoryCalls -> MemoryRecords \cup {NoRow}]
  BY DEF KeyInv
<1>5. memoryCalls' \in [MemoryCalls -> MemoryRecords \cup {NoRow}]
  BY <1>2, <1>3, <1>4
<1>6. q \in Seq(MemoryCalls)
  BY <1>1, <1>4
<1>7. /\ Append(q, c) \in Seq(MemoryCalls) /\ Len(Append(q, c)) = Len(q) + 1 /\ Len(q) \in Nat
      /\ \A n \in 1 .. Len(q) : Append(q, c)[n] = q[n]
      /\ Append(q, c)[Len(q) + 1] = c
  BY <1>6, AppendProperties
<1>8. memoryQueue' \in [MemoryInstances -> Seq(MemoryCalls)]
  BY <1>3, <1>4, <1>7
<1>9. \A i \in MemoryInstances : i # r.inst => memoryQueue'[i] = memoryQueue[i]
  BY <1>3, <1>4
<1>10. memoryQueue'[r.inst] = Append(q, c)
  BY <1>1, <1>3, <1>4
<1>11. /\ memoryCalls'[c] = new
       /\ \A d \in MemoryCalls : d # c => memoryCalls'[d] = memoryCalls[d]
  BY <1>3, <1>4
<1>12. ASSUME NEW i \in MemoryInstances, NEW n \in 1 .. Len(memoryQueue[i])
       PROVE  /\ memoryQueue[i][n] \in MemoryCalls /\ memoryQueue[i][n] # c
              /\ memoryCalls'[memoryQueue[i][n]] # NoRow /\ memoryCalls'[memoryQueue[i][n]].request.inst = i
  <2>1. memoryCalls[memoryQueue[i][n]] # NoRow /\ memoryCalls[memoryQueue[i][n]].request.inst = i
    BY Zenon DEF KeyInv, InstanceOf
  <2>2. memoryQueue[i] \in Seq(MemoryCalls)
    BY <1>4
  <2>3. memoryQueue[i][n] \in MemoryCalls
    BY <2>2
  <2> QED
    BY <1>3, <1>11, <2>1, <2>3
<1>13. ASSUME NEW i \in MemoryInstances
       PROVE  /\ \A n \in 1 .. Len(memoryQueue'[i]) :
                   /\ memoryCalls'[memoryQueue'[i][n]] # NoRow
                   /\ memoryCalls'[memoryQueue'[i][n]].request.inst = i
              /\ \A m, n \in 1 .. Len(memoryQueue'[i]) :
                   memoryQueue'[i][m] = memoryQueue'[i][n] => m = n
  <2>1. \A m, n \in 1 .. Len(memoryQueue[i]) : memoryQueue[i][m] = memoryQueue[i][n] => m = n
    BY Zenon DEF KeyInv
  <2>2. CASE i # r.inst
    BY <1>9, <1>12, <2>1, <2>2
  <2>3. CASE i = r.inst
    <3>1. \A n \in 1 .. Len(q) : /\ q[n] # c /\ memoryCalls'[q[n]] # NoRow
                                 /\ memoryCalls'[q[n]].request.inst = i
      BY <1>12, <2>3
    <3>2. \A m, n \in 1 .. Len(q) : q[m] = q[n] => m = n
      BY <2>1, <2>3
    <3>3. memoryQueue'[i] = Append(q, c)
      BY <1>10, <2>3
    <3> HIDE DEF q
    <3>4. \A n \in 1 .. Len(q) + 1 : n \in 1 .. Len(q) \/ n = Len(q) + 1
      BY <1>7
    <3>5. memoryCalls'[c] # NoRow /\ memoryCalls'[c].request.inst = i
      BY <1>2, <1>11, <2>3
    <3> QED
      BY <1>7, <3>1, <3>2, <3>3, <3>4, <3>5
  <2> QED
    BY <2>2, <2>3
<1>14. ASSUME NEW d \in MemoryCalls, memoryCalls'[d] # NoRow
       PROVE  LET i == memoryCalls'[d].request.inst IN
                /\ \E n \in 1 .. Len(memoryQueue'[i]) : memoryQueue'[i][n] = d
                /\ memoryCalls'[d].stage # "arrived" => memoryQueue'[i][1] = d
  <2>1. CASE d = c
    <3>1. memoryCalls'[d].request.inst = r.inst /\ memoryCalls'[d].stage = "arrived"
      BY <1>2, <1>11, <2>1
    <3>2. Len(q) + 1 \in 1 .. Len(memoryQueue'[r.inst]) /\ memoryQueue'[r.inst][Len(q) + 1] = c
      BY <1>7, <1>10
    <3> QED
      BY <2>1, <3>1, <3>2
  <2>2. CASE d # c
    <3> DEFINE i == memoryCalls[d].request.inst
    <3>1. memoryCalls'[d] = memoryCalls[d]
      BY <1>11, <2>2
    <3>2. /\ \E n \in 1 .. Len(memoryQueue[i]) : memoryQueue[i][n] = d
          /\ memoryCalls[d].stage # "arrived" => memoryQueue[i][1] = d
      BY <1>14, <3>1, Zenon DEF KeyInv, InstanceOf
    <3>3. i \in MemoryInstances
      BY <1>14, <3>1, MemoryCallParts DEF InstanceOf
    <3> HIDE DEF i
    <3>4. CASE i # r.inst
      <4>1. memoryQueue'[i] = memoryQueue[i]
        BY <1>9, <3>3, <3>4
      <4> QED
        BY <3>1, <3>2, <4>1 DEF i
    <3>5. CASE i = r.inst
      <4>1. PICK n \in 1 .. Len(q) : q[n] = d
        BY <3>2, <3>5
      <4> DEFINE a == Append(q, c)
      <4>2. /\ Len(a) = Len(q) + 1 /\ Len(q) \in Nat
            /\ \A m \in 1 .. Len(q) : a[m] = q[m]
        BY <1>7
      <4>3. memoryQueue'[i] = a /\ memoryQueue[i] = q
        BY <1>10, <3>5
      <4> HIDE DEF a, q
      <4>4. n \in 1 .. Len(a) /\ a[n] = d /\ a[1] = q[1]
        BY <4>1, <4>2
      <4>5. /\ \E m \in 1 .. Len(memoryQueue'[i]) : memoryQueue'[i][m] = d
            /\ memoryQueue'[i][1] = memoryQueue[i][1]
        BY <4>3, <4>4
      <4> QED
        BY <3>1, <3>2, <4>5 DEF i
    <3> QED
      BY <3>4, <3>5
  <2> QED
    BY <2>1, <2>2
<1> QED
  BY <1>5, <1>8, <1>13, <1>14, Zenon DEF KeyInv, InstanceOf

LEMMA AwaitsParts ==
  ASSUME KeyInv, NEW c \in MemoryCalls, memoryCalls[c] # NoRow,
         NEW stage \in CallStages, NEW port \in Ports \cup {NoPort},
         NEW undo \in SUBSET {"row", "collection"}, Awaits(c, stage, port, undo)
  PROVE  /\ memoryCalls' \in [MemoryCalls -> MemoryRecords \cup {NoRow}]
         /\ memoryCalls'[c] = [request |-> MemoryOf(c), stage |-> stage, port |-> port, undo |-> undo]
         /\ memoryCalls'[c] # NoRow
         /\ \A d \in MemoryCalls : d # c => memoryCalls'[d] = memoryCalls[d]
         /\ memoryQueue' = memoryQueue
<1> DEFINE new == [request |-> MemoryOf(c), stage |-> stage, port |-> port, undo |-> undo]
<1>1. memoryCalls \in [MemoryCalls -> MemoryRecords \cup {NoRow}]
  BY Zenon DEF KeyInv
<1>2. memoryCalls[c] \in MemoryRecords /\ MemoryOf(c) \in AllInstanceRequests
  BY MemoryCallParts
<1>3. new \in MemoryRecords
  BY <1>2 DEF MemoryRecords
<1>4. memoryCalls' = [memoryCalls EXCEPT ![c] = new]
  BY DEF Awaits, MemoryOf
<1>5. new # NoRow
  BY <1>3
<1>6. memoryQueue' = memoryQueue
  BY DEF Awaits
<1> HIDE DEF new
<1> QED
  BY <1>1, <1>3, <1>4, <1>5, <1>6 DEF new

LEMMA KeyAwaits ==
  ASSUME KeyInv, NEW c \in MemoryCalls, NEW turn, AtStage(c, turn),
         NEW stage \in CallStages, NEW port \in Ports \cup {NoPort},
         NEW undo \in SUBSET {"row", "collection"}, Awaits(c, stage, port, undo)
  PROVE  KeyInv'
<1>1. /\ memoryCalls[c] # NoRow /\ memoryQueue[InstanceOf(c)][1] = c
  BY AtItsTurn
<1>2. /\ memoryCalls' \in [MemoryCalls -> MemoryRecords \cup {NoRow}]
      /\ memoryCalls'[c] = [request |-> MemoryOf(c), stage |-> stage, port |-> port, undo |-> undo]
      /\ memoryCalls'[c] # NoRow
      /\ \A d \in MemoryCalls : d # c => memoryCalls'[d] = memoryCalls[d]
      /\ memoryQueue' = memoryQueue
  BY <1>1, AwaitsParts
<1>3. memoryCalls'[c].request = memoryCalls[c].request
  BY <1>2 DEF MemoryOf
<1>4. /\ \A d \in MemoryCalls : memoryCalls'[d] # NoRow <=> memoryCalls[d] # NoRow
      /\ \A d \in MemoryCalls : memoryCalls'[d].request = memoryCalls[d].request
      /\ \A d \in MemoryCalls : d # c => memoryCalls'[d].stage = memoryCalls[d].stage
  BY <1>1, <1>2, <1>3
<1>5. memoryQueue \in [MemoryInstances -> Seq(MemoryCalls)]
  BY Zenon DEF KeyInv
<1>6. ASSUME NEW i \in MemoryInstances, NEW n \in 1 .. Len(memoryQueue[i])
      PROVE  memoryCalls'[memoryQueue[i][n]] # NoRow /\ memoryCalls'[memoryQueue[i][n]].request.inst = i
  <2>1. memoryCalls[memoryQueue[i][n]] # NoRow /\ memoryCalls[memoryQueue[i][n]].request.inst = i
    BY Zenon DEF KeyInv, InstanceOf
  <2>2. memoryQueue[i] \in Seq(MemoryCalls)
    BY <1>5
  <2>3. memoryQueue[i][n] \in MemoryCalls
    BY <2>2
  <2> QED
    BY <1>4, <2>1, <2>3
<1>7. ASSUME NEW d \in MemoryCalls, memoryCalls'[d] # NoRow
      PROVE  LET i == memoryCalls'[d].request.inst IN
               /\ \E n \in 1 .. Len(memoryQueue[i]) : memoryQueue[i][n] = d
               /\ memoryCalls'[d].stage # "arrived" => memoryQueue[i][1] = d
  <2> DEFINE i == memoryCalls[d].request.inst
  <2>1. /\ \E n \in 1 .. Len(memoryQueue[i]) : memoryQueue[i][n] = d
        /\ memoryCalls[d].stage # "arrived" => memoryQueue[i][1] = d
    <3>1. memoryCalls[d] # NoRow
      BY <1>4, <1>7
    <3> QED
      BY <3>1, Zenon DEF KeyInv, InstanceOf
  <2>2. memoryCalls'[d].request.inst = i
    BY <1>4
  <2>3. d = c => memoryQueue[i][1] = d
    BY <1>1 DEF InstanceOf
  <2> HIDE DEF i
  <2> QED
    BY <1>4, <2>1, <2>2, <2>3
<1>8. \A i \in MemoryInstances :
        \A m, n \in 1 .. Len(memoryQueue[i]) : memoryQueue[i][m] = memoryQueue[i][n] => m = n
  BY Zenon DEF KeyInv
<1> QED
  BY <1>2, <1>5, <1>6, <1>7, <1>8 DEF KeyInv, InstanceOf

LEMMA KeyAnswered ==
  ASSUME KeyInv, NEW c \in MemoryCalls, NEW turn, AtStage(c, turn), MemoryAnswered(c)
  PROVE  /\ KeyInv'
         /\ memoryCalls'[c] = NoRow
         /\ \A d \in MemoryCalls : d # c => memoryCalls'[d] = memoryCalls[d]
<1> DEFINE own == InstanceOf(c)
           q == memoryQueue[own]
<1>1. /\ memoryCalls[c] # NoRow
      /\ q \in Seq(MemoryCalls) /\ q # <<>> /\ q[1] = c
      /\ \A d \in MemoryCalls \ {c} :
           memoryCalls[d] # NoRow /\ InstanceOf(d) = own => memoryCalls[d].stage = "arrived"
  BY AtItsTurn
<1>2. own \in MemoryInstances
  BY <1>1, MemoryCallParts
<1>3. /\ memoryCalls' = [memoryCalls EXCEPT ![c] = NoRow]
      /\ memoryQueue' = [memoryQueue EXCEPT ![own] = Tail(q)]
  BY DEF MemoryAnswered
<1>4. /\ memoryQueue \in [MemoryInstances -> Seq(MemoryCalls)]
      /\ memoryCalls \in [MemoryCalls -> MemoryRecords \cup {NoRow}]
  BY Zenon DEF KeyInv
<1> HIDE DEF q, own
<1>5. /\ memoryCalls'[c] = NoRow
      /\ \A d \in MemoryCalls : d # c => memoryCalls'[d] = memoryCalls[d]
      /\ memoryCalls' \in [MemoryCalls -> MemoryRecords \cup {NoRow}]
  BY <1>3, <1>4
<1>6. /\ Tail(q) \in Seq(MemoryCalls) /\ Len(Tail(q)) = Len(q) - 1 /\ Len(q) \in Nat \ {0}
      /\ \A n \in 1 .. Len(Tail(q)) : Tail(q)[n] = q[n + 1]
  BY <1>1, HeadTailProperties
<1>7. /\ memoryQueue'[own] = Tail(q)
      /\ \A i \in MemoryInstances : i # own => memoryQueue'[i] = memoryQueue[i]
      /\ memoryQueue' \in [MemoryInstances -> Seq(MemoryCalls)]
  BY <1>2, <1>3, <1>4, <1>6
<1>8. ASSUME NEW i \in MemoryInstances, NEW n \in 1 .. Len(memoryQueue[i]), i # own \/ n # 1
      PROVE  memoryCalls'[memoryQueue[i][n]] # NoRow /\ memoryCalls'[memoryQueue[i][n]].request.inst = i
  <2>1. memoryCalls[memoryQueue[i][n]] # NoRow /\ memoryCalls[memoryQueue[i][n]].request.inst = i
    BY Zenon DEF KeyInv, InstanceOf
  <2>2. memoryQueue[i] \in Seq(MemoryCalls)
    BY <1>4
  <2>3. memoryQueue[i][n] \in MemoryCalls
    BY <2>2
  <2>4. memoryQueue[i][n] # c
    <3>1. CASE i # own
      BY <2>1, <3>1 DEF own, InstanceOf
    <3>2. CASE i = own /\ n # 1
      <4>1. \A m, k \in 1 .. Len(memoryQueue[i]) : memoryQueue[i][m] = memoryQueue[i][k] => m = k
        BY Zenon DEF KeyInv
      <4>2. 1 \in 1 .. Len(memoryQueue[i]) /\ memoryQueue[i][1] = c
        BY <1>1, <1>6, <3>2 DEF q
      <4> QED
        BY <3>2, <4>1, <4>2
    <3> QED
      BY <1>8, <3>1, <3>2
  <2> QED
    BY <1>5, <2>1, <2>3, <2>4
<1>9. ASSUME NEW i \in MemoryInstances
      PROVE  /\ \A n \in 1 .. Len(memoryQueue'[i]) :
                  /\ memoryCalls'[memoryQueue'[i][n]] # NoRow
                  /\ memoryCalls'[memoryQueue'[i][n]].request.inst = i
             /\ \A m, n \in 1 .. Len(memoryQueue'[i]) :
                  memoryQueue'[i][m] = memoryQueue'[i][n] => m = n
  <2>1. \A m, n \in 1 .. Len(memoryQueue[i]) : memoryQueue[i][m] = memoryQueue[i][n] => m = n
    BY Zenon DEF KeyInv
  <2>2. CASE i # own
    BY <1>7, <1>8, <2>1, <2>2
  <2>3. CASE i = own
    <3>1. \A n \in 1 .. Len(q) : n # 1 => /\ memoryCalls'[q[n]] # NoRow
                                         /\ memoryCalls'[q[n]].request.inst = i
      BY <1>8, <2>3 DEF q
    <3>2. \A m, n \in 1 .. Len(q) : q[m] = q[n] => m = n
      BY <2>1, <2>3 DEF q
    <3>3. memoryQueue'[i] = Tail(q)
      BY <1>7, <2>3
    <3>4. \A n \in 1 .. Len(Tail(q)) : n + 1 \in 1 .. Len(q) /\ n + 1 # 1
      BY <1>6
    <3>5. \A n \in 1 .. Len(Tail(q)) : /\ memoryCalls'[Tail(q)[n]] # NoRow
                                      /\ memoryCalls'[Tail(q)[n]].request.inst = i
      BY <1>6, <3>1, <3>4
    <3>6. ASSUME NEW m \in 1 .. Len(Tail(q)), NEW n \in 1 .. Len(Tail(q)), Tail(q)[m] = Tail(q)[n]
          PROVE  m = n
      <4>1. q[m + 1] = q[n + 1] /\ m + 1 \in 1 .. Len(q) /\ n + 1 \in 1 .. Len(q)
        BY <1>6, <3>4, <3>6
      <4>2. m + 1 = n + 1
        BY <3>2, <4>1
      <4> QED
        BY <4>2
    <3> QED
      BY <3>3, <3>5, <3>6
  <2> QED
    BY <2>2, <2>3
<1>10. ASSUME NEW d \in MemoryCalls, memoryCalls'[d] # NoRow
       PROVE  LET i == memoryCalls'[d].request.inst IN
                /\ \E n \in 1 .. Len(memoryQueue'[i]) : memoryQueue'[i][n] = d
                /\ memoryCalls'[d].stage # "arrived" => memoryQueue'[i][1] = d
  <2> DEFINE i == memoryCalls[d].request.inst
  <2>1. d # c /\ memoryCalls'[d] = memoryCalls[d]
    BY <1>5, <1>10
  <2>2. /\ \E n \in 1 .. Len(memoryQueue[i]) : memoryQueue[i][n] = d
        /\ memoryCalls[d].stage # "arrived" => memoryQueue[i][1] = d
    BY <1>10, <2>1, Zenon DEF KeyInv, InstanceOf
  <2>3. i \in MemoryInstances
    BY <1>10, <2>1, MemoryCallParts DEF InstanceOf
  <2>4. i = own => memoryCalls[d].stage = "arrived"
    BY <1>1, <1>10, <2>1 DEF InstanceOf
  <2> HIDE DEF i
  <2>5. CASE i # own
    <3>1. memoryQueue'[i] = memoryQueue[i]
      BY <1>7, <2>3, <2>5
    <3> QED
      BY <2>1, <2>2, <3>1 DEF i
  <2>6. CASE i = own
    <3>1. PICK n \in 1 .. Len(q) : q[n] = d
      BY <2>2, <2>6 DEF q
    <3>2. n # 1
      BY <1>1, <2>1, <3>1
    <3>3. n - 1 \in 1 .. Len(Tail(q)) /\ (n - 1) + 1 = n
      BY <1>6, <3>1, <3>2
    <3>4. Tail(q)[n - 1] = d
      BY <1>6, <3>1, <3>3
    <3>5. memoryQueue'[i] = Tail(q)
      BY <1>7, <2>6
    <3> QED
      BY <2>1, <2>4, <2>6, <3>3, <3>4, <3>5 DEF i
  <2> QED
    BY <2>5, <2>6
<1> QED
  BY <1>5, <1>7, <1>9, <1>10, Zenon DEF KeyInv, InstanceOf

-----------------------------------------------------------------------------
ClaimStages == {"probe", "start", "hash", "degrade"}

(* The ports and rows.  What stays as it is while others move:               *)
memoryTables == <<memoryRows, memoryChildren, servers, degradedPorts, respawning, stale>>

(* An allocation goes on: the port tried last is given back, and one that    *)
(* was free is claimed unless the call is over.                              *)
LEMMA BuilderMoves ==
  ASSUME MemoryTypeOK, PortInv, NEW c \in MemoryCalls, memoryCalls[c] # NoRow,
         memoryCalls[c].stage = "arrived" \/ Building(c),
         NEW i \in MemoryInstances, i = InstanceOf(c),
         servers[i] = NoPort, degradedPorts[i] = NoPort, memoryRows[i] = NoRow,
         NEW claim \in SUBSET Ports,
         claim \cap (allocatedPorts \ {memoryCalls[c].port}) = {},
         allocatedPorts' = (allocatedPorts \ {memoryCalls[c].port}) \cup claim,
         \A d \in MemoryCalls : d # c => memoryCalls'[d] = memoryCalls[d],
         \/ claim = {} /\ memoryCalls'[c] = NoRow
         \/ \E p \in Ports, s \in ClaimStages :
              /\ claim = {p} /\ memoryCalls'[c] # NoRow
              /\ memoryCalls'[c] = [request |-> MemoryOf(c), stage |-> s, port |-> p, undo |-> {}],
         respawning = {}, UNCHANGED memoryTables
  PROVE  PortInv'
<1> DEFINE old == memoryCalls[c].port
           kept == allocatedPorts \ {old}
<1>1. /\ UNCHANGED <<memoryRows, tokenUsers, authTokens, collections, memoryBackups>>
      /\ UNCHANGED <<servers, degradedPorts, respawning, stale>>
  BY DEF memoryTables, memoryChildren
<1>2. /\ HeldApart /\ ClaimedApart /\ NoneForgotten /\ CallsFindTheirs
      /\ EndpointsAreHeld /\ ChildrenHaveTheirInstance
  BY DEF PortInv
<1>3. NoPort \notin Ports
  BY DEF NoPort, Ports
<1>4. /\ servers \in [MemoryInstances -> Ports \cup {NoPort}]
      /\ degradedPorts \in [MemoryInstances -> Ports \cup {NoPort}]
      /\ allocatedPorts \subseteq Ports
  BY DEF MemoryTypeOK
<1>5. \A o \in MemoryInstances : old \notin {servers[o], degradedPorts[o]} \ {NoPort}
  <2>1. CASE Building(c)
    BY <1>2, <2>1 DEF ClaimedApart
  <2>2. CASE ~Building(c)
    BY <1>2, <2>2 DEF ClaimedApart
  <2> QED
    BY <2>1, <2>2
<1>6. \A o \in MemoryInstances : {servers[o], degradedPorts[o]} \ {NoPort} \subseteq kept
  BY <1>2, <1>5 DEF HeldApart
<1>7. kept \subseteq allocatedPorts' /\ allocatedPorts' = kept \cup claim
  OBVIOUS
<1>8. \A d \in MemoryCalls : d # c => /\ Building(d)' <=> Building(d)
                                      /\ Ending(d)' <=> Ending(d)
                                      /\ InstanceOf(d)' = InstanceOf(d)
                                      /\ memoryCalls'[d] = memoryCalls[d]
  BY DEF Building, Ending, InstanceOf
<1>9. ~Ending(c)
  BY DEF Ending, Building
<1>10. \/ memoryCalls'[c] = NoRow /\ claim = {}
       \/ /\ memoryCalls'[c] # NoRow /\ Building(c)' /\ ~Ending(c)'
          /\ InstanceOf(c)' = i /\ claim = {memoryCalls'[c].port} /\ memoryCalls'[c].port \in Ports
  <2>1. CASE memoryCalls'[c] = NoRow /\ claim = {}
    BY <2>1
  <2>2. ASSUME NEW p \in Ports, NEW s \in ClaimStages,
               claim = {p}, memoryCalls'[c] # NoRow,
               memoryCalls'[c] = [request |-> MemoryOf(c), stage |-> s, port |-> p, undo |-> {}]
        PROVE  /\ memoryCalls'[c] # NoRow /\ Building(c)' /\ ~Ending(c)'
               /\ InstanceOf(c)' = i /\ claim = {memoryCalls'[c].port} /\ memoryCalls'[c].port \in Ports
    <3>1. memoryCalls'[c].request = MemoryOf(c) /\ memoryCalls'[c].stage = s /\ memoryCalls'[c].port = p
      BY <2>2
    <3>2. InstanceOf(c)' = i
      BY <3>1 DEF InstanceOf, MemoryOf
    <3>3. Building(c)' /\ ~Ending(c)'
      BY <2>2, <3>1 DEF Building, Ending, ClaimStages
    <3> QED
      BY <2>2, <3>1, <3>2, <3>3
  <2> QED
    BY <2>1, <2>2
<1>11. \A d \in MemoryCalls : Building(d) /\ d # c => memoryCalls[d].port \in kept
  <2> SUFFICES ASSUME NEW d \in MemoryCalls, Building(d), d # c PROVE memoryCalls[d].port # old
    BY <1>2 DEF ClaimedApart
  <2>1. CASE Building(c)
    BY <1>2, <2>1 DEF ClaimedApart
  <2>2. CASE ~Building(c)
    <3>1. old = NoPort /\ memoryCalls[d].port \in Ports
      BY <1>2, <1>4, <2>2 DEF ClaimedApart
    <3> QED
      BY <1>3, <3>1
  <2> QED
    BY <2>1, <2>2
<1> HIDE DEF old, kept
<1>12. HeldApart'
  BY <1>1, <1>2, <1>6, <1>7 DEF HeldApart
<1>13. ClaimedApart'
  <2>1. \A d \in MemoryCalls : Building(d)' =>
          /\ memoryCalls'[d].port \in allocatedPorts'
          /\ \A o \in MemoryInstances : memoryCalls'[d].port \notin {servers[o], degradedPorts[o]}
    <3> SUFFICES ASSUME NEW d \in MemoryCalls, Building(d)'
                 PROVE  /\ memoryCalls'[d].port \in allocatedPorts'
                        /\ \A o \in MemoryInstances : memoryCalls'[d].port \notin {servers[o], degradedPorts[o]}
      OBVIOUS
    <3>1. CASE d # c
      BY <1>2, <1>7, <1>8, <1>11, <3>1 DEF ClaimedApart
    <3>2. CASE d = c
      <4>1. memoryCalls'[c].port \in claim /\ memoryCalls'[c].port \in Ports
        BY <1>10, <3>2 DEF Building
      <4>2. memoryCalls'[c].port \notin kept
        BY <4>1 DEF kept, old
      <4> QED
        BY <1>3, <1>6, <1>7, <3>2, <4>1, <4>2
    <3> QED
      BY <3>1, <3>2
  <2>2. ASSUME NEW d \in MemoryCalls, NEW e \in MemoryCalls, Building(d)', Building(e)',
               memoryCalls'[d].port = memoryCalls'[e].port
        PROVE  d = e
    <3>1. ASSUME NEW b \in MemoryCalls, b # c, Building(b)', Building(c)'
          PROVE  memoryCalls'[b].port # memoryCalls'[c].port
      <4>1. memoryCalls'[b].port \in kept
        BY <1>8, <1>11, <3>1
      <4>2. memoryCalls'[c].port \in claim
        BY <1>10, <3>1 DEF Building
      <4> QED
        BY <4>1, <4>2 DEF kept, old
    <3>2. CASE d # c /\ e # c
      BY <1>2, <1>8, <2>2, <3>2 DEF ClaimedApart
    <3>3. CASE d = c \/ e = c
      BY <2>2, <3>1, <3>3
    <3> QED
      BY <3>2, <3>3
  <2>3. \A d \in MemoryCalls : memoryCalls'[d] # NoRow /\ ~Building(d)' => memoryCalls'[d].port = NoPort
    BY <1>2, <1>8, <1>10 DEF ClaimedApart
  <2> QED
    BY <1>1, <2>1, <2>2, <2>3 DEF ClaimedApart
<1>14. NoneForgotten'
  <2>1. ASSUME NEW p \in allocatedPorts'
        PROVE  \/ \E o \in MemoryInstances : p \in {servers[o], degradedPorts[o]}
               \/ \E d \in MemoryCalls : memoryCalls'[d] # NoRow /\ memoryCalls'[d].port = p
    <3>1. CASE p \in claim
      BY <1>10, <3>1
    <3>2. CASE p \in kept
      <4>1. p \in allocatedPorts /\ p # memoryCalls[c].port
        BY <3>2 DEF kept, old
      <4> QED
        BY <1>2, <1>8, <4>1 DEF NoneForgotten
    <3> QED
      BY <1>7, <3>1, <3>2
  <2>2. ASSUME NEW o \in MemoryInstances \ LiveInstances, servers[o] # NoPort \/ degradedPorts[o] # NoPort
        PROVE  \E d \in MemoryCalls : Ending(d)' /\ InstanceOf(d)' = o
    BY <1>2, <1>8, <1>9, <2>2 DEF NoneForgotten
  <2> QED
    BY <1>1, <2>1, <2>2 DEF NoneForgotten, LiveInstances
<1>15. CallsFindTheirs'
  <2>1. i \notin tokenUsers
    BY <1>2 DEF ChildrenHaveTheirInstance, LiveInstances
  <2> SUFFICES ASSUME NEW d \in MemoryCalls
               PROVE  /\ Building(d)' =>
                           /\ servers[InstanceOf(d)'] = NoPort /\ degradedPorts[InstanceOf(d)'] = NoPort
                           /\ memoryRows[InstanceOf(d)'] = NoRow
                      /\ Building(d)' \/ Ending(d)' => InstanceOf(d)' \notin tokenUsers
                      /\ Ending(d)' /\ memoryCalls'[d].stage = "stop" => memoryRows[InstanceOf(d)'] = NoRow
                      /\ Ending(d)' /\ "collection" \in memoryCalls'[d].undo =>
                           InstanceOf(d)' \notin memoryBackups
    BY <1>1 DEF CallsFindTheirs
  <2>2. CASE d # c
    BY <1>2, <1>8, <2>2 DEF CallsFindTheirs
  <2>3. CASE d = c
    BY <1>10, <2>1, <2>3 DEF Building, Ending
  <2> QED
    BY <2>2, <2>3
<1>16. RespawnsFirst'
  BY <1>1 DEF RespawnsFirst
<1>17. EndpointsAreHeld'
  <2> SUFFICES ASSUME NEW o \in LiveInstances \ stale
               PROVE  memoryRows[o].port \in allocatedPorts'
    BY <1>1, <1>2 DEF EndpointsAreHeld, LiveInstances
  <2>1. memoryRows[o].port \in allocatedPorts /\ memoryRows[o].port \in {servers[o], degradedPorts[o]}
    BY <1>2 DEF EndpointsAreHeld
  <2>2. o \in MemoryInstances
    BY DEF LiveInstances
  <2> QED
    BY <1>3, <1>4, <1>6, <1>7, <2>1, <2>2
<1>18. ChildrenHaveTheirInstance'
  BY <1>1, <1>2 DEF ChildrenHaveTheirInstance, LiveInstances
<1> QED
  BY <1>12, <1>13, <1>14, <1>15, <1>16, <1>17, <1>18 DEF PortInv

(* The port becomes the server's or the endpoint's, and storage follows or   *)
(* fails.                                                                    *)
LEMMA PersistsParts ==
  ASSUME KeyInv, MemoryTypeOK, NEW c \in MemoryCalls, NEW turn, AtStage(c, turn),
         NEW i \in MemoryInstances, i = InstanceOf(c), NEW p \in Ports, Persists(c, i, p)
  PROVE  /\ KeyInv'
         /\ memoryRows' \in [MemoryInstances -> MemoryRows \cup {NoRow}]
         /\ \A o \in MemoryInstances : o # i => memoryRows'[o] = memoryRows[o]
         /\ memoryRows'[i] = memoryRows[i] \/ (memoryRows'[i] # NoRow /\ memoryRows'[i].port = p)
         /\ collections \subseteq collections' /\ collections' \subseteq collections \cup {i}
         /\ stale' \subseteq stale /\ stale \ {i} \subseteq stale'
         /\ \A d \in MemoryCalls : d # c => memoryCalls'[d] = memoryCalls[d]
         /\ \/ memoryCalls'[c] = NoRow /\ memoryRows'[i] # NoRow
            \/ /\ memoryCalls'[c] # NoRow /\ Ending(c)' /\ ~Building(c)' /\ InstanceOf(c)' = i
               /\ memoryCalls'[c].stage = "rollback" /\ memoryCalls'[c].port = NoPort
               /\ "collection" \in memoryCalls'[c].undo => i \notin collections
<1> DEFINE row == [port |-> p, protected |-> FALSE]
<1>1. row \in MemoryRows /\ row # NoRow /\ row.port = p
  <2>1. row \in MemoryRows
    BY DEF MemoryRows
  <2> QED
    BY <2>1
<1>2. memoryRows \in [MemoryInstances -> MemoryRows \cup {NoRow}]
  BY DEF MemoryTypeOK
<1>3. memoryCalls[c] # NoRow
  BY AtItsTurn
<1> HIDE DEF row
<1>4. CASE /\ memoryRows' = [memoryRows EXCEPT ![i] = row]
           /\ collections' = collections \cup {i} /\ stale' = stale \ {i} /\ MemoryAnswered(c)
  <2>1. /\ KeyInv' /\ memoryCalls'[c] = NoRow
        /\ \A d \in MemoryCalls : d # c => memoryCalls'[d] = memoryCalls[d]
    BY <1>4, KeyAnswered
  <2>2. /\ memoryRows' \in [MemoryInstances -> MemoryRows \cup {NoRow}]
        /\ memoryRows'[i] = row /\ \A o \in MemoryInstances : o # i => memoryRows'[o] = memoryRows[o]
    BY <1>1, <1>2, <1>4
  <2> QED
    BY <1>1, <1>4, <2>1, <2>2
<1>5. ASSUME NEW done \in {{}, {"row"}, {"row"} \cup (IF i \in collections THEN {} ELSE {"collection"})},
             memoryRows' = IF "row" \in done THEN [memoryRows EXCEPT ![i] = row] ELSE memoryRows,
             collections' = IF "collection" \in done THEN collections \cup {i} ELSE collections,
             Awaits(c, "rollback", NoPort, done), UNCHANGED stale
      PROVE  /\ KeyInv'
             /\ memoryRows' \in [MemoryInstances -> MemoryRows \cup {NoRow}]
             /\ \A o \in MemoryInstances : o # i => memoryRows'[o] = memoryRows[o]
             /\ memoryRows'[i] = memoryRows[i] \/ (memoryRows'[i] # NoRow /\ memoryRows'[i].port = p)
             /\ collections \subseteq collections' /\ collections' \subseteq collections \cup {i}
             /\ stale' \subseteq stale /\ stale \ {i} \subseteq stale'
             /\ \A d \in MemoryCalls : d # c => memoryCalls'[d] = memoryCalls[d]
             /\ memoryCalls'[c] # NoRow /\ Ending(c)' /\ ~Building(c)' /\ InstanceOf(c)' = i
             /\ memoryCalls'[c].stage = "rollback" /\ memoryCalls'[c].port = NoPort
             /\ "collection" \in memoryCalls'[c].undo => i \notin collections
    <2>1. done \in SUBSET {"row", "collection"} /\ ("collection" \in done => i \notin collections)
      BY <1>5
    <2>2. "rollback" \in CallStages
      BY DEF CallStages
    <2>3. /\ memoryCalls'[c] = [request |-> MemoryOf(c), stage |-> "rollback", port |-> NoPort, undo |-> done]
          /\ memoryCalls'[c] # NoRow
          /\ \A d \in MemoryCalls : d # c => memoryCalls'[d] = memoryCalls[d]
      BY <1>3, <1>5, <2>1, <2>2, AwaitsParts
    <2>4. KeyInv'
      BY <1>5, <2>1, <2>2, KeyAwaits
    <2>5. /\ memoryCalls'[c].request = MemoryOf(c) /\ memoryCalls'[c].stage = "rollback"
          /\ memoryCalls'[c].port = NoPort /\ memoryCalls'[c].undo = done
      BY <2>3
    <2>6. InstanceOf(c)' = i
      BY <2>5 DEF InstanceOf, MemoryOf
    <2>7. Ending(c)' /\ ~Building(c)'
      BY <2>3, <2>5 DEF Ending, Building
    <2>8. /\ memoryRows' \in [MemoryInstances -> MemoryRows \cup {NoRow}]
          /\ \A o \in MemoryInstances : o # i => memoryRows'[o] = memoryRows[o]
          /\ memoryRows'[i] = memoryRows[i] \/ (memoryRows'[i] # NoRow /\ memoryRows'[i].port = p)
      BY <1>1, <1>2, <1>5
    <2>9. collections \subseteq collections' /\ collections' \subseteq collections \cup {i}
      BY <1>5
    <2>10. stale' = stale
      BY <1>5
    <2> QED
      BY <2>1, <2>3, <2>4, <2>5, <2>6, <2>7, <2>8, <2>9, <2>10
<1> QED
  BY <1>4, <1>5 DEF Persists, row

LEMMA ServerStands ==
  ASSUME KeyInv, MemoryTypeOK, PortInv, NEW c \in MemoryCalls, NEW turn, AtStage(c, turn), Building(c),
         NEW i \in MemoryInstances, i = InstanceOf(c), NEW p \in Ports, p = memoryCalls[c].port,
         Persists(c, i, p), allocatedPorts' = allocatedPorts,
         \/ servers' = [servers EXCEPT ![i] = p] /\ degradedPorts' = degradedPorts
         \/ degradedPorts' = [degradedPorts EXCEPT ![i] = p] /\ servers' = servers,
         UNCHANGED <<tokenUsers, authTokens, memoryBackups, respawning>>
  PROVE  PortInv'
<1>1. /\ UNCHANGED <<tokenUsers, authTokens, memoryBackups, respawning>>
      /\ memoryCalls[c] # NoRow
  BY DEF Building
<1>2. /\ HeldApart /\ ClaimedApart /\ NoneForgotten /\ CallsFindTheirs
      /\ EndpointsAreHeld /\ ChildrenHaveTheirInstance /\ RespawnsFirst
  BY DEF PortInv
<1>3. NoPort \notin Ports
  BY DEF NoPort, Ports
<1>4. /\ servers \in [MemoryInstances -> Ports \cup {NoPort}]
      /\ degradedPorts \in [MemoryInstances -> Ports \cup {NoPort}]
      /\ allocatedPorts \subseteq Ports
  BY DEF MemoryTypeOK
<1>5. /\ \A o \in MemoryInstances : o # i => memoryRows'[o] = memoryRows[o]
      /\ memoryRows'[i] = memoryRows[i] \/ (memoryRows'[i] # NoRow /\ memoryRows'[i].port = p)
      /\ collections \subseteq collections' /\ collections' \subseteq collections \cup {i}
      /\ stale' \subseteq stale /\ stale \ {i} \subseteq stale'
      /\ \A d \in MemoryCalls : d # c => memoryCalls'[d] = memoryCalls[d]
      /\ \/ memoryCalls'[c] = NoRow /\ memoryRows'[i] # NoRow
         \/ /\ memoryCalls'[c] # NoRow /\ Ending(c)' /\ ~Building(c)' /\ InstanceOf(c)' = i
            /\ memoryCalls'[c].stage = "rollback" /\ memoryCalls'[c].port = NoPort
            /\ "collection" \in memoryCalls'[c].undo => i \notin collections
  BY PersistsParts
<1>6. \A d \in MemoryCalls : d # c => /\ Building(d)' <=> Building(d)
                                      /\ Ending(d)' <=> Ending(d)
                                      /\ InstanceOf(d)' = InstanceOf(d)
                                      /\ memoryCalls'[d] = memoryCalls[d]
  BY <1>5 DEF Building, Ending, InstanceOf
<1>7. \A d \in MemoryCalls : d # c /\ (Building(d) \/ Ending(d)) => InstanceOf(d) # i
  <2>1. \A d \in MemoryCalls \ {c} :
           memoryCalls[d] # NoRow /\ InstanceOf(d) = i => memoryCalls[d].stage = "arrived"
    BY AtItsTurn
  <2> QED
    BY <2>1 DEF Building, Ending
<1>8. /\ servers[i] = NoPort /\ degradedPorts[i] = NoPort /\ memoryRows[i] = NoRow /\ i \notin tokenUsers
  BY <1>2 DEF CallsFindTheirs
<1>9. /\ {servers'[i], degradedPorts'[i]} = {p, NoPort}
      /\ \A o \in MemoryInstances : o # i => servers'[o] = servers[o] /\ degradedPorts'[o] = degradedPorts[o]
  BY <1>4, <1>8
<1>10. /\ p \in allocatedPorts
       /\ \A o \in MemoryInstances : p \notin {servers[o], degradedPorts[o]}
       /\ \A d \in MemoryCalls : Building(d) /\ memoryCalls[d].port = p => d = c
  BY <1>2 DEF ClaimedApart
<1>11. ~Building(c)'
  BY <1>5 DEF Building
<1>12. HeldApart'
  <2>1. \A o \in MemoryInstances : {servers'[o], degradedPorts'[o]} \ {NoPort} \subseteq allocatedPorts'
    BY <1>2, <1>9, <1>10 DEF HeldApart
  <2>2. ASSUME NEW a \in MemoryInstances, NEW b \in MemoryInstances, a # b
        PROVE  {servers'[a], degradedPorts'[a]} \cap {servers'[b], degradedPorts'[b]} \subseteq {NoPort}
    <3>1. CASE a # i /\ b # i
      BY <1>2, <1>9, <2>2, <3>1 DEF HeldApart
    <3>2. CASE a = i
      BY <1>9, <1>10, <2>2, <3>2
    <3>3. CASE b = i
      BY <1>9, <1>10, <2>2, <3>3
    <3> QED
      BY <3>1, <3>2, <3>3
  <2> QED
    BY <2>1, <2>2 DEF HeldApart
<1>13. ClaimedApart'
  <2>1. ASSUME NEW d \in MemoryCalls, Building(d)'
        PROVE  /\ memoryCalls'[d].port \in allocatedPorts'
               /\ \A o \in MemoryInstances : memoryCalls'[d].port \notin {servers'[o], degradedPorts'[o]}
               /\ \A e \in MemoryCalls : Building(e)' /\ memoryCalls'[e].port = memoryCalls'[d].port => e = d
    <3>1. d # c /\ Building(d) /\ memoryCalls'[d] = memoryCalls[d]
      BY <1>6, <1>11, <2>1
    <3>2. /\ memoryCalls[d].port \in allocatedPorts
          /\ \A o \in MemoryInstances : memoryCalls[d].port \notin {servers[o], degradedPorts[o]}
          /\ \A e \in MemoryCalls : Building(e) /\ memoryCalls[e].port = memoryCalls[d].port => e = d
      BY <1>2, <3>1 DEF ClaimedApart
    <3>3. memoryCalls[d].port # p /\ memoryCalls[d].port # NoPort
      BY <1>3, <1>4, <1>10, <3>1, <3>2
    <3>4. \A o \in MemoryInstances : memoryCalls[d].port \notin {servers'[o], degradedPorts'[o]}
      BY <1>9, <3>2, <3>3
    <3>5. \A e \in MemoryCalls : Building(e)' => e # c /\ Building(e) /\ memoryCalls'[e] = memoryCalls[e]
      BY <1>6, <1>11
    <3> QED
      BY <3>1, <3>2, <3>4, <3>5
  <2>2. \A d \in MemoryCalls : memoryCalls'[d] # NoRow /\ ~Building(d)' => memoryCalls'[d].port = NoPort
    BY <1>2, <1>5, <1>6 DEF ClaimedApart
  <2> QED
    BY <2>1, <2>2 DEF ClaimedApart
<1>14. NoneForgotten'
  <2>1. ASSUME NEW q \in allocatedPorts
        PROVE  \/ \E o \in MemoryInstances : q \in {servers'[o], degradedPorts'[o]}
               \/ \E d \in MemoryCalls : memoryCalls'[d] # NoRow /\ memoryCalls'[d].port = q
    <3>1. CASE q = p
      BY <1>9, <3>1
    <3>2. ASSUME NEW o \in MemoryInstances, q \in {servers[o], degradedPorts[o]}
          PROVE  \E a \in MemoryInstances : q \in {servers'[a], degradedPorts'[a]}
      BY <1>3, <1>4, <1>8, <1>9, <3>2
    <3>3. ASSUME q # p, NEW d \in MemoryCalls, memoryCalls[d] # NoRow, memoryCalls[d].port = q
          PROVE  memoryCalls'[d] # NoRow /\ memoryCalls'[d].port = q
      BY <1>6, <3>3
    <3> QED
      BY <1>2, <3>1, <3>2, <3>3 DEF NoneForgotten
  <2>2. ASSUME NEW o \in MemoryInstances, memoryRows'[o] = NoRow, servers'[o] # NoPort \/ degradedPorts'[o] # NoPort
        PROVE  \E d \in MemoryCalls : Ending(d)' /\ InstanceOf(d)' = o
    <3>1. CASE o = i
      BY <1>5, <2>2, <3>1
    <3>2. CASE o # i
      <4>1. \E d \in MemoryCalls : Ending(d) /\ InstanceOf(d) = o
        BY <1>2, <1>5, <1>9, <2>2, <3>2 DEF NoneForgotten, LiveInstances
      <4>2. ~Ending(c)
        BY DEF Building, Ending
      <4> QED
        BY <1>6, <4>1, <4>2
    <3> QED
      BY <3>1, <3>2
  <2>3. \A o \in MemoryInstances \ LiveInstances' : memoryRows'[o] = NoRow
    BY DEF LiveInstances
  <2> QED
    BY <2>1, <2>2, <2>3 DEF NoneForgotten
<1>15. CallsFindTheirs'
  <2> SUFFICES ASSUME NEW d \in MemoryCalls
               PROVE  /\ Building(d)' =>
                           /\ servers'[InstanceOf(d)'] = NoPort /\ degradedPorts'[InstanceOf(d)'] = NoPort
                           /\ memoryRows'[InstanceOf(d)'] = NoRow
                      /\ Building(d)' \/ Ending(d)' => InstanceOf(d)' \notin tokenUsers
                      /\ Ending(d)' /\ memoryCalls'[d].stage = "stop" => memoryRows'[InstanceOf(d)'] = NoRow
                      /\ Ending(d)' /\ "collection" \in memoryCalls'[d].undo =>
                           InstanceOf(d)' \notin memoryBackups
    BY <1>1 DEF CallsFindTheirs
  <2>1. CASE d # c /\ (Building(d) \/ Ending(d))
    <3>1. InstanceOf(d) \in MemoryInstances /\ InstanceOf(d) # i
      BY <1>7, <2>1, MemoryCallParts DEF Building, Ending
    <3>2. /\ servers'[InstanceOf(d)] = servers[InstanceOf(d)]
          /\ degradedPorts'[InstanceOf(d)] = degradedPorts[InstanceOf(d)]
          /\ memoryRows'[InstanceOf(d)] = memoryRows[InstanceOf(d)]
      BY <1>5, <1>9, <3>1
    <3> QED
      BY <1>2, <1>6, <2>1, <3>2 DEF CallsFindTheirs
  <2>2. CASE d # c /\ ~(Building(d) \/ Ending(d))
    BY <1>6, <2>2
  <2>3. CASE d = c
    <3>1. i \notin collections => i \notin memoryBackups
      BY <1>2 DEF ChildrenHaveTheirInstance
    <3> QED
      BY <1>5, <1>8, <1>11, <2>3, <3>1 DEF Ending
  <2> QED
    BY <2>1, <2>2, <2>3
<1>16. RespawnsFirst'
  BY <1>1, <1>2 DEF RespawnsFirst
<1>17. EndpointsAreHeld'
  <2> SUFFICES ASSUME NEW o \in MemoryInstances, memoryRows'[o] # NoRow, o \notin stale'
               PROVE  LET q == memoryRows'[o].port IN
                        /\ servers'[o] = q \/ degradedPorts'[o] = q
                        /\ q \in allocatedPorts'
                        /\ \A a \in MemoryInstances \ {o} : servers'[a] # q /\ degradedPorts'[a] # q
    BY DEF EndpointsAreHeld, LiveInstances
  <2>1. CASE o = i
    <3>1. memoryRows'[o].port = p
      BY <1>5, <1>8, <2>1
    <3> QED
      BY <1>9, <1>10, <2>1, <3>1
  <2>2. CASE o # i
    <3>1. memoryRows'[o] = memoryRows[o] /\ o \notin stale
      BY <1>5, <2>2
    <3>2. /\ servers[o] = memoryRows[o].port \/ degradedPorts[o] = memoryRows[o].port
          /\ memoryRows[o].port \in allocatedPorts
          /\ \A a \in MemoryInstances \ {o} :
               servers[a] # memoryRows[o].port /\ degradedPorts[a] # memoryRows[o].port
      BY <1>2, <3>1 DEF EndpointsAreHeld, LiveInstances
    <3>3. memoryRows[o].port # p /\ memoryRows[o].port # NoPort
      BY <1>3, <1>4, <1>10, <3>2
    <3> QED
      BY <1>9, <2>2, <3>1, <3>2, <3>3
  <2> QED
    BY <2>1, <2>2
<1>18. ChildrenHaveTheirInstance'
  BY <1>1, <1>2, <1>5, <1>8 DEF ChildrenHaveTheirInstance, LiveInstances
<1> QED
  BY <1>12, <1>13, <1>14, <1>15, <1>16, <1>17, <1>18 DEF PortInv

(* A server or an endpoint is given back, once nothing shows it any more.    *)
LEMMA ServerStops ==
  ASSUME KeyInv, MemoryTypeOK, PortInv, NEW c \in MemoryCalls, NEW turn, AtStage(c, turn), Ending(c),
         NEW i \in MemoryInstances, i = InstanceOf(c), Stopped(i), MemoryAnswered(c),
         memoryRows' = [memoryRows EXCEPT ![i] = NoRow],
         \/ collections' = collections
         \/ "collection" \in memoryCalls[c].undo /\ collections' = collections \ {i},
         UNCHANGED <<tokenUsers, authTokens, memoryBackups, respawning, stale>>
  PROVE  PortInv'
<1>1. /\ UNCHANGED <<tokenUsers, authTokens, memoryBackups, respawning, stale>>
      /\ memoryCalls[c] # NoRow
  BY DEF Ending
<1>2. /\ HeldApart /\ ClaimedApart /\ NoneForgotten /\ CallsFindTheirs
      /\ EndpointsAreHeld /\ ChildrenHaveTheirInstance /\ RespawnsFirst
  BY DEF PortInv
<1>3. NoPort \notin Ports
  BY DEF NoPort, Ports
<1>4. /\ servers \in [MemoryInstances -> Ports \cup {NoPort}]
      /\ degradedPorts \in [MemoryInstances -> Ports \cup {NoPort}]
      /\ allocatedPorts \subseteq Ports
      /\ memoryRows \in [MemoryInstances -> MemoryRows \cup {NoRow}]
  BY DEF MemoryTypeOK
<1>5. /\ memoryCalls'[c] = NoRow
      /\ \A d \in MemoryCalls : d # c => memoryCalls'[d] = memoryCalls[d]
  BY KeyAnswered
<1>6. \A d \in MemoryCalls : d # c => /\ Building(d)' <=> Building(d)
                                      /\ Ending(d)' <=> Ending(d)
                                      /\ InstanceOf(d)' = InstanceOf(d)
                                      /\ memoryCalls'[d] = memoryCalls[d]
  BY <1>5 DEF Building, Ending, InstanceOf
<1>7. \A d \in MemoryCalls : d # c /\ (Building(d) \/ Ending(d)) => InstanceOf(d) # i
  <2>1. \A d \in MemoryCalls \ {c} :
           memoryCalls[d] # NoRow /\ InstanceOf(d) = i => memoryCalls[d].stage = "arrived"
    BY AtItsTurn
  <2> QED
    BY <2>1 DEF Building, Ending
<1>8. ~Building(c)' /\ ~Ending(c)' /\ ~Building(c) /\ memoryCalls[c].port = NoPort
  <2>1. ~Building(c)
    BY DEF Ending, Building
  <2> QED
    BY <1>1, <1>2, <1>5, <2>1 DEF Building, Ending, ClaimedApart
<1>9. i \notin tokenUsers /\ collections' \subseteq collections /\ memoryBackups \subseteq collections'
  BY <1>2 DEF CallsFindTheirs, ChildrenHaveTheirInstance
<1>10. /\ servers'[i] = NoPort /\ degradedPorts'[i] = NoPort /\ memoryRows'[i] = NoRow
       /\ \A o \in MemoryInstances : o # i => /\ servers'[o] = servers[o] /\ degradedPorts'[o] = degradedPorts[o]
                                              /\ memoryRows'[o] = memoryRows[o]
       /\ allocatedPorts' = allocatedPorts \ {servers[i], degradedPorts[i]}
  BY <1>4 DEF Stopped
<1>11. \A o \in MemoryInstances : o # i =>
         {servers[o], degradedPorts[o]} \cap {servers[i], degradedPorts[i]} \subseteq {NoPort}
  BY <1>2 DEF HeldApart
<1>12. HeldApart'
  BY <1>2, <1>10, <1>11 DEF HeldApart
<1>13. ClaimedApart'
  <2>1. ASSUME NEW d \in MemoryCalls, Building(d)'
        PROVE  /\ memoryCalls'[d].port \in allocatedPorts'
               /\ \A o \in MemoryInstances : memoryCalls'[d].port \notin {servers'[o], degradedPorts'[o]}
               /\ \A e \in MemoryCalls : Building(e)' /\ memoryCalls'[e].port = memoryCalls'[d].port => e = d
    <3>1. d # c /\ Building(d) /\ memoryCalls'[d] = memoryCalls[d]
      BY <1>6, <1>8, <2>1
    <3>2. /\ memoryCalls[d].port \in allocatedPorts
          /\ \A o \in MemoryInstances : memoryCalls[d].port \notin {servers[o], degradedPorts[o]}
          /\ \A e \in MemoryCalls : Building(e) /\ memoryCalls[e].port = memoryCalls[d].port => e = d
      BY <1>2, <3>1 DEF ClaimedApart
    <3>3. memoryCalls[d].port # NoPort
      BY <1>3, <1>4, <3>2
    <3>4. \A o \in MemoryInstances : memoryCalls[d].port \notin {servers'[o], degradedPorts'[o]}
      BY <1>10, <3>2, <3>3
    <3>5. \A e \in MemoryCalls : Building(e)' => e # c /\ Building(e) /\ memoryCalls'[e] = memoryCalls[e]
      BY <1>6, <1>8
    <3> QED
      BY <1>10, <3>1, <3>2, <3>4, <3>5
  <2>2. \A d \in MemoryCalls : memoryCalls'[d] # NoRow /\ ~Building(d)' => memoryCalls'[d].port = NoPort
    BY <1>2, <1>5, <1>6 DEF ClaimedApart
  <2> QED
    BY <2>1, <2>2 DEF ClaimedApart
<1>14. NoneForgotten'
  <2>1. ASSUME NEW q \in allocatedPorts'
        PROVE  \/ \E o \in MemoryInstances : q \in {servers'[o], degradedPorts'[o]}
               \/ \E d \in MemoryCalls : memoryCalls'[d] # NoRow /\ memoryCalls'[d].port = q
    <3>1. q \in allocatedPorts /\ q \notin {servers[i], degradedPorts[i]} /\ q # NoPort
      BY <1>3, <1>4, <1>10
    <3>2. ASSUME NEW o \in MemoryInstances, q \in {servers[o], degradedPorts[o]}
          PROVE  q \in {servers'[o], degradedPorts'[o]}
      BY <1>10, <3>1, <3>2
    <3>3. ASSUME NEW d \in MemoryCalls, memoryCalls[d] # NoRow, memoryCalls[d].port = q
          PROVE  memoryCalls'[d] # NoRow /\ memoryCalls'[d].port = q
      BY <1>6, <1>8, <3>1, <3>3
    <3> QED
      BY <1>2, <3>1, <3>2, <3>3 DEF NoneForgotten
  <2>2. ASSUME NEW o \in MemoryInstances, memoryRows'[o] = NoRow, servers'[o] # NoPort \/ degradedPorts'[o] # NoPort
        PROVE  \E d \in MemoryCalls : Ending(d)' /\ InstanceOf(d)' = o
    <3>1. o # i
      BY <1>10, <2>2
    <3>2. PICK d \in MemoryCalls : Ending(d) /\ InstanceOf(d) = o
      BY <1>2, <1>10, <2>2, <3>1 DEF NoneForgotten, LiveInstances
    <3>3. d # c
      BY <3>1, <3>2
    <3> QED
      BY <1>6, <3>2, <3>3
  <2>3. \A o \in MemoryInstances \ LiveInstances' : memoryRows'[o] = NoRow
    BY DEF LiveInstances
  <2> QED
    BY <2>1, <2>2, <2>3 DEF NoneForgotten
<1>15. CallsFindTheirs'
  <2> SUFFICES ASSUME NEW d \in MemoryCalls
               PROVE  /\ Building(d)' =>
                           /\ servers'[InstanceOf(d)'] = NoPort /\ degradedPorts'[InstanceOf(d)'] = NoPort
                           /\ memoryRows'[InstanceOf(d)'] = NoRow
                      /\ Building(d)' \/ Ending(d)' => InstanceOf(d)' \notin tokenUsers
                      /\ Ending(d)' /\ memoryCalls'[d].stage = "stop" => memoryRows'[InstanceOf(d)'] = NoRow
                      /\ Ending(d)' /\ "collection" \in memoryCalls'[d].undo =>
                           InstanceOf(d)' \notin memoryBackups
    BY <1>1 DEF CallsFindTheirs
  <2>1. CASE d # c /\ (Building(d) \/ Ending(d))
    <3>1. InstanceOf(d) \in MemoryInstances /\ InstanceOf(d) # i
      BY <1>7, <2>1, MemoryCallParts DEF Building, Ending
    <3>2. /\ servers'[InstanceOf(d)] = servers[InstanceOf(d)]
          /\ degradedPorts'[InstanceOf(d)] = degradedPorts[InstanceOf(d)]
          /\ memoryRows'[InstanceOf(d)] = memoryRows[InstanceOf(d)]
      BY <1>10, <3>1
    <3> QED
      BY <1>2, <1>6, <2>1, <3>2 DEF CallsFindTheirs
  <2>2. CASE d # c /\ ~(Building(d) \/ Ending(d))
    BY <1>6, <2>2
  <2>3. CASE d = c
    BY <1>8, <2>3
  <2> QED
    BY <2>1, <2>2, <2>3
<1>16. RespawnsFirst'
  BY <1>1, <1>2 DEF RespawnsFirst
<1>17. EndpointsAreHeld'
  <2> SUFFICES ASSUME NEW o \in MemoryInstances, memoryRows'[o] # NoRow, o \notin stale
               PROVE  LET q == memoryRows'[o].port IN
                        /\ servers'[o] = q \/ degradedPorts'[o] = q
                        /\ q \in allocatedPorts'
                        /\ \A a \in MemoryInstances \ {o} : servers'[a] # q /\ degradedPorts'[a] # q
    BY <1>1 DEF EndpointsAreHeld, LiveInstances
  <2>1. o # i /\ memoryRows'[o] = memoryRows[o]
    BY <1>10
  <2>2. /\ servers[o] = memoryRows[o].port \/ degradedPorts[o] = memoryRows[o].port
        /\ memoryRows[o].port \in allocatedPorts
        /\ \A a \in MemoryInstances \ {o} :
             servers[a] # memoryRows[o].port /\ degradedPorts[a] # memoryRows[o].port
    BY <1>2, <2>1 DEF EndpointsAreHeld, LiveInstances
  <2>3. memoryRows[o].port # NoPort
    BY <1>3, <1>4, <2>2
  <2> QED
    BY <1>10, <2>1, <2>2, <2>3
<1>18. ChildrenHaveTheirInstance'
  BY <1>1, <1>2, <1>9, <1>10 DEF ChildrenHaveTheirInstance, LiveInstances
<1> QED
  BY <1>12, <1>13, <1>14, <1>15, <1>16, <1>17, <1>18 DEF PortInv

(* A request that moves no port: the rows and what is under them.            *)
LEMMA RowsMove ==
  ASSUME KeyInv, MemoryTypeOK, PortInv, NEW c \in MemoryCalls, memoryCalls[c] # NoRow, respawning = {},
         memoryCalls[c].stage = "arrived",
         NEW i \in MemoryInstances, i = InstanceOf(c),
         \A d \in MemoryCalls : d # c => memoryCalls'[d] = memoryCalls[d],
         \A d \in MemoryCalls \ {c} : memoryCalls[d] # NoRow /\ InstanceOf(d) = i => memoryCalls[d].stage = "arrived",
         \A o \in MemoryInstances : o # i => memoryRows'[o] = memoryRows[o],
         \/ /\ memoryCalls'[c] = NoRow
            /\ memoryRows'[i] = NoRow <=> memoryRows[i] = NoRow
            /\ memoryRows[i] # NoRow => memoryRows'[i].port = memoryRows[i].port
         \/ /\ memoryCalls'[c] # NoRow /\ memoryCalls'[c].stage = "stop" /\ memoryCalls'[c].port = NoPort
            /\ memoryCalls'[c].undo = {} /\ InstanceOf(c)' = i /\ memoryRows'[i] = NoRow,
         memoryBackups' \ {i} = memoryBackups \ {i}, tokenUsers' \ {i} = tokenUsers \ {i},
         ChildrenHaveTheirInstance',
         UNCHANGED <<servers, degradedPorts, allocatedPorts, respawning, stale>>
  PROVE  PortInv'
<1>1. UNCHANGED <<servers, degradedPorts, allocatedPorts, respawning, stale>>
  OBVIOUS
<1>2. /\ HeldApart /\ ClaimedApart /\ NoneForgotten /\ CallsFindTheirs /\ EndpointsAreHeld
      /\ ChildrenHaveTheirInstance
  BY DEF PortInv
<1>3. \A d \in MemoryCalls : d # c => /\ Building(d)' <=> Building(d)
                                      /\ Ending(d)' <=> Ending(d)
                                      /\ InstanceOf(d)' = InstanceOf(d)
                                      /\ memoryCalls'[d] = memoryCalls[d]
  BY DEF Building, Ending, InstanceOf
<1>4. \A d \in MemoryCalls : d # c /\ (Building(d) \/ Ending(d)) => InstanceOf(d) # i
  BY DEF Building, Ending
<1>5. ~Building(c) /\ ~Ending(c) /\ ~Building(c)' /\ memoryCalls[c].port = NoPort
  BY <1>2 DEF Building, Ending, ClaimedApart
<1>6. HeldApart'
  BY <1>1, <1>2 DEF HeldApart
<1>7. ClaimedApart'
  BY <1>1, <1>2, <1>3, <1>5 DEF ClaimedApart
<1>8. NoneForgotten'
  <2>1. ASSUME NEW q \in allocatedPorts
        PROVE  \/ \E o \in MemoryInstances : q \in {servers[o], degradedPorts[o]}
               \/ \E d \in MemoryCalls : memoryCalls'[d] # NoRow /\ memoryCalls'[d].port = q
    <3>1. q # NoPort
      BY DEF MemoryTypeOK, Ports, NoPort
    <3> QED
      BY <1>2, <1>3, <1>5, <3>1 DEF NoneForgotten
  <2>2. ASSUME NEW o \in MemoryInstances, memoryRows'[o] = NoRow, servers[o] # NoPort \/ degradedPorts[o] # NoPort
        PROVE  \E d \in MemoryCalls : Ending(d)' /\ InstanceOf(d)' = o
    <3>1. CASE memoryRows[o] = NoRow
      <4>1. PICK d \in MemoryCalls : Ending(d) /\ InstanceOf(d) = o
        BY <1>2, <2>2, <3>1 DEF NoneForgotten, LiveInstances
      <4> QED
        BY <1>3, <1>5, <4>1
    <3>2. CASE memoryRows[o] # NoRow
      <4>1. o = i /\ memoryCalls'[c] # NoRow /\ memoryCalls'[c].stage = "stop" /\ InstanceOf(c)' = i
        BY <2>2, <3>2
      <4> QED
        BY <4>1 DEF Ending
    <3> QED
      BY <3>1, <3>2
  <2>3. \A o \in MemoryInstances \ LiveInstances' : memoryRows'[o] = NoRow
    BY DEF LiveInstances
  <2> QED
    BY <1>1, <2>1, <2>2, <2>3 DEF NoneForgotten
<1>9. CallsFindTheirs'
  <2> SUFFICES ASSUME NEW d \in MemoryCalls
               PROVE  /\ Building(d)' =>
                           /\ servers[InstanceOf(d)'] = NoPort /\ degradedPorts[InstanceOf(d)'] = NoPort
                           /\ memoryRows'[InstanceOf(d)'] = NoRow
                      /\ Building(d)' \/ Ending(d)' => InstanceOf(d)' \notin tokenUsers'
                      /\ Ending(d)' /\ memoryCalls'[d].stage = "stop" => memoryRows'[InstanceOf(d)'] = NoRow
                      /\ Ending(d)' /\ "collection" \in memoryCalls'[d].undo =>
                           InstanceOf(d)' \notin memoryBackups'
    BY <1>1 DEF CallsFindTheirs
  <2>1. CASE d # c /\ (Building(d) \/ Ending(d))
    <3>1. InstanceOf(d) \in MemoryInstances /\ InstanceOf(d) # i
      BY <1>4, <2>1, MemoryCallParts DEF Building, Ending
    <3>2. /\ memoryRows'[InstanceOf(d)] = memoryRows[InstanceOf(d)]
          /\ InstanceOf(d) \in memoryBackups' <=> InstanceOf(d) \in memoryBackups
          /\ InstanceOf(d) \in tokenUsers' <=> InstanceOf(d) \in tokenUsers
      BY <3>1
    <3> QED
      BY <1>2, <1>3, <2>1, <3>2 DEF CallsFindTheirs
  <2>2. CASE d # c /\ ~(Building(d) \/ Ending(d))
    BY <1>3, <2>2
  <2>3. CASE d = c
    <3>1. CASE memoryCalls'[c] = NoRow
      BY <1>5, <2>3, <3>1 DEF Ending
    <3>2. CASE memoryCalls'[c] # NoRow
      <4>1. memoryRows'[i] = NoRow => i \notin tokenUsers'
        BY DEF ChildrenHaveTheirInstance, LiveInstances
      <4> QED
        BY <1>5, <2>3, <3>2, <4>1
    <3> QED
      BY <3>1, <3>2
  <2> QED
    BY <2>1, <2>2, <2>3
<1>10. RespawnsFirst'
  BY <1>1 DEF RespawnsFirst
<1>11. EndpointsAreHeld'
  <2> SUFFICES ASSUME NEW o \in MemoryInstances, memoryRows'[o] # NoRow, o \notin stale
               PROVE  LET q == memoryRows'[o].port IN
                        /\ servers[o] = q \/ degradedPorts[o] = q
                        /\ q \in allocatedPorts
                        /\ \A a \in MemoryInstances \ {o} : servers[a] # q /\ degradedPorts[a] # q
    BY <1>1 DEF EndpointsAreHeld, LiveInstances
  <2>1. memoryRows[o] # NoRow /\ memoryRows'[o].port = memoryRows[o].port
    OBVIOUS
  <2> QED
    BY <1>2, <2>1 DEF EndpointsAreHeld, LiveInstances
<1> QED
  BY <1>6, <1>7, <1>8, <1>9, <1>10, <1>11 DEF PortInv

-----------------------------------------------------------------------------
LEMMA PortsAreNatural == Ports \subseteq Nat /\ NoPort \in Nat /\ NoPort \notin Ports
BY DEF Ports, NoPort

(* The allocator offers a port of the range that is not claimed, or none.    *)
LEMMA NextPortIsFree ==
  ASSUME NEW after \in Nat, NEW claimed \in SUBSET Ports
  PROVE  NextPort(after, claimed) = NoPort \/ NextPort(after, claimed) \in Ports \ claimed
<1> DEFINE free == {p \in Ports \ claimed : p > after}
<1>1. NextPort(after, claimed) = IF free = {} THEN NoPort ELSE CHOOSE p \in free : \A q \in free : p <= q
  BY DEF NextPort
<1>2. free \in SUBSET Nat /\ free \subseteq Ports \ claimed
  BY DEF Ports
<1> HIDE DEF free
<1>3. CASE free = {}
  BY <1>1, <1>3
<1>4. CASE free # {}
  <2>1. \E p \in free : \A q \in free : p <= q
    BY <1>2, <1>4, LeastNatural
  <2>2. (CHOOSE p \in free : \A q \in free : p <= q) \in free
    BY <2>1
  <2> QED
    BY <1>1, <1>2, <1>4, <2>2
<1> QED
  BY <1>3, <1>4

(* A call that allocates goes on to a port or is over, in each of its ways.  *)
Allocates(c, kept) ==
  /\ \A d \in MemoryCalls : d # c => memoryCalls'[d] = memoryCalls[d]
  /\ \/ allocatedPorts' = kept /\ memoryCalls'[c] = NoRow
     \/ \E p \in Ports \ kept, s \in ClaimStages :
          /\ allocatedPorts' = kept \cup {p} /\ memoryCalls'[c] # NoRow
          /\ memoryCalls'[c] = [request |-> MemoryOf(c), stage |-> s, port |-> p, undo |-> {}]

LEMMA GoesOnAllocates ==
  ASSUME KeyInv, NEW c \in MemoryCalls, NEW turn, AtStage(c, turn), NEW kept,
         NEW p \in Ports, p \notin kept, NEW stage \in ClaimStages,
         allocatedPorts' = kept \cup {p}, Awaits(c, stage, p, {})
  PROVE  KeyInv' /\ Allocates(c, kept)
<1> DEFINE none == {}
<1>1. memoryCalls[c] # NoRow /\ Awaits(c, stage, p, none)
  BY AtItsTurn
<1>2. stage \in CallStages /\ p \in Ports \cup {NoPort} /\ none \in SUBSET {"row", "collection"}
  BY DEF CallStages, ClaimStages
<1> HIDE DEF none
<1>3. KeyInv'
  BY <1>1, <1>2, KeyAwaits
<1>4. /\ memoryCalls'[c] = [request |-> MemoryOf(c), stage |-> stage, port |-> p, undo |-> none]
      /\ memoryCalls'[c] # NoRow
      /\ \A d \in MemoryCalls : d # c => memoryCalls'[d] = memoryCalls[d]
  BY <1>1, <1>2, AwaitsParts
<1> QED
  BY <1>3, <1>4 DEF Allocates, none

LEMMA ClaimsAllocate ==
  ASSUME KeyInv, NEW c \in MemoryCalls, NEW turn, AtStage(c, turn),
         NEW kept \in SUBSET Ports, NEW after \in Nat, NEW stage \in ClaimStages,
         Claims(c, stage, after, kept)
  PROVE  KeyInv' /\ Allocates(c, kept)
<1> DEFINE p == NextPort(after, kept)
<1>1. p # NoPort /\ allocatedPorts' = kept \cup {p} /\ Awaits(c, stage, p, {})
  BY DEF Claims
<1>2. p \in Ports /\ p \notin kept
  BY <1>1, NextPortIsFree
<1> HIDE DEF p
<1> QED
  BY <1>1, <1>2, GoesOnAllocates

LEMMA AnswersAllocate ==
  ASSUME KeyInv, NEW c \in MemoryCalls, NEW turn, AtStage(c, turn),
         NEW kept, allocatedPorts' = kept, MemoryAnswered(c)
  PROVE  KeyInv' /\ Allocates(c, kept)
BY KeyAnswered DEF Allocates

LEMMA DegradesAllocate ==
  ASSUME KeyInv, NEW c \in MemoryCalls, NEW turn, AtStage(c, turn), NEW kept \in SUBSET Ports, Degrades(c, kept)
  PROVE  KeyInv' /\ Allocates(c, kept)
<1>1. CASE NoneLeft(c, kept)
  BY <1>1, AnswersAllocate DEF NoneLeft
<1>2. CASE Claims(c, "degrade", NoPort, kept)
  <2>1. NoPort \in Nat /\ "degrade" \in ClaimStages
    BY DEF NoPort, ClaimStages
  <2> QED
    BY <1>2, <2>1, ClaimsAllocate
<1>3. ASSUME NEW hash, hash = HashPort[InstanceOf(c)], hash \notin kept,
             allocatedPorts' = kept \cup {hash}, Awaits(c, "hash", hash, {})
      PROVE  KeyInv' /\ Allocates(c, kept)
  <2>1. memoryCalls[c] # NoRow
    BY AtItsTurn
  <2>2. hash \in Ports /\ "hash" \in ClaimStages
    BY <1>3, <2>1, MemoryCallParts DEF ClaimStages
  <2> QED
    BY <1>3, <2>2, GoesOnAllocates
<1> QED
  BY <1>1, <1>2, <1>3 DEF Degrades, ClaimsDegraded

MemoryInv == MemoryTypeOK /\ KeyInv /\ PortInv

(* Calls come before the process is up at no time.                           *)
LEMMA NoRespawns ==
  ASSUME MemoryInv, NEW c \in MemoryCalls, memoryCalls[c] # NoRow
  PROVE  respawning = {}
BY DEF MemoryInv, PortInv, RespawnsFirst

LEMMA AllocatesKeeps ==
  ASSUME MemoryInv, KeyInv', NEW c \in MemoryCalls, memoryCalls[c] # NoRow,
         memoryCalls[c].stage = "arrived" \/ Building(c),
         NEW i \in MemoryInstances, i = InstanceOf(c),
         servers[i] = NoPort, degradedPorts[i] = NoPort, memoryRows[i] = NoRow,
         Allocates(c, allocatedPorts \ {memoryCalls[c].port}),
         UNCHANGED <<memoryTables, foreignPorts>>
  PROVE  MemoryInv'
<1> DEFINE kept == allocatedPorts \ {memoryCalls[c].port}
<1>1. UNCHANGED memoryTables /\ respawning = {} /\ MemoryTypeOK /\ PortInv
  BY NoRespawns DEF MemoryInv
<1>2. \A d \in MemoryCalls : d # c => memoryCalls'[d] = memoryCalls[d]
  BY DEF Allocates
<1>3. CASE allocatedPorts' = kept /\ memoryCalls'[c] = NoRow
  <2>1. {} \in SUBSET Ports /\ {} \cap kept = {} /\ allocatedPorts' = kept \cup {}
    BY <1>3
  <2> HIDE DEF kept
  <2>2. PortInv'
    BY <1>1, <1>2, <1>3, <2>1, BuilderMoves DEF kept
  <2>3. allocatedPorts' \subseteq Ports
    BY <1>1, <1>3 DEF MemoryTypeOK, kept
  <2> QED
    BY <1>1, <2>2, <2>3 DEF MemoryInv, MemoryTypeOK, KeyInv, memoryTables, memoryChildren
<1>4. ASSUME NEW p \in Ports \ kept, NEW s \in ClaimStages,
             allocatedPorts' = kept \cup {p}, memoryCalls'[c] # NoRow,
             memoryCalls'[c] = [request |-> MemoryOf(c), stage |-> s, port |-> p, undo |-> {}]
      PROVE  MemoryInv'
  <2>1. {p} \in SUBSET Ports /\ {p} \cap kept = {}
    BY <1>4
  <2> HIDE DEF kept
  <2>2. \E q \in Ports, b \in ClaimStages :
          /\ {p} = {q} /\ memoryCalls'[c] # NoRow
          /\ memoryCalls'[c] = [request |-> MemoryOf(c), stage |-> b, port |-> q, undo |-> {}]
    BY <1>4
  <2>3. PortInv'
    BY <1>1, <1>2, <1>4, <2>1, <2>2, BuilderMoves DEF kept
  <2>4. allocatedPorts' \subseteq Ports
    BY <1>1, <1>4 DEF MemoryTypeOK, kept
  <2> QED
    BY <1>1, <2>3, <2>4 DEF MemoryInv, MemoryTypeOK, KeyInv, memoryTables, memoryChildren
<1> QED
  BY <1>3, <1>4 DEF Allocates

-----------------------------------------------------------------------------
(* The actions.                                                              *)
LEMMA MemoryArrivesKeeps ==
  ASSUME MemoryInv, NEW c \in MemoryCalls, NEW r \in InstanceRequests, MemoryArrives(c, r)
  PROVE  MemoryInv'
<1>1. KeyInv'
  BY KeyArrives DEF MemoryInv
<1>2. /\ UNCHANGED <<memoryRows, tokenUsers, authTokens, collections, memoryBackups>>
      /\ UNCHANGED <<servers, degradedPorts, allocatedPorts, foreignPorts, respawning, stale>>
      /\ memoryCalls[c] = NoRow /\ respawning = {}
  BY DEF MemoryArrives, memoryChildren, valkeyVars
<1>3. /\ HeldApart /\ ClaimedApart /\ NoneForgotten /\ CallsFindTheirs /\ EndpointsAreHeld
      /\ ChildrenHaveTheirInstance /\ MemoryTypeOK
  BY DEF PortInv, MemoryInv
<1>4. memoryCalls \in [MemoryCalls -> MemoryRecords \cup {NoRow}]
  BY DEF MemoryInv, KeyInv
<1>5. /\ \A d \in MemoryCalls : d # c => memoryCalls'[d] = memoryCalls[d]
      /\ memoryCalls'[c] = [request |-> r, stage |-> "arrived", port |-> NoPort, undo |-> {}]
  BY <1>4 DEF MemoryArrives
<1>6. memoryCalls'[c].stage = "arrived" /\ memoryCalls'[c].port = NoPort
  BY <1>5
<1>7. /\ \A d \in MemoryCalls : /\ Building(d)' <=> Building(d)
                                /\ Ending(d)' <=> Ending(d)
      /\ \A d \in MemoryCalls : d # c => memoryCalls'[d] = memoryCalls[d] /\ InstanceOf(d)' = InstanceOf(d)
      /\ ~Building(c) /\ ~Ending(c)
  BY <1>2, <1>5, <1>6 DEF Building, Ending, InstanceOf
<1>8. HeldApart'
  BY <1>2, <1>3 DEF HeldApart
<1>9. ClaimedApart'
  BY <1>2, <1>3, <1>6, <1>7 DEF ClaimedApart
<1>10. NoneForgotten'
  BY <1>2, <1>3, <1>7 DEF NoneForgotten, LiveInstances
<1>11. CallsFindTheirs'
  <2> SUFFICES ASSUME NEW d \in MemoryCalls
               PROVE  /\ Building(d)' =>
                           /\ servers[InstanceOf(d)'] = NoPort /\ degradedPorts[InstanceOf(d)'] = NoPort
                           /\ memoryRows[InstanceOf(d)'] = NoRow
                      /\ Building(d)' \/ Ending(d)' => InstanceOf(d)' \notin tokenUsers
                      /\ Ending(d)' /\ memoryCalls'[d].stage = "stop" => memoryRows[InstanceOf(d)'] = NoRow
                      /\ Ending(d)' /\ "collection" \in memoryCalls'[d].undo =>
                           InstanceOf(d)' \notin memoryBackups
    BY <1>2 DEF CallsFindTheirs
  <2>1. CASE d = c
    BY <1>7, <2>1
  <2>2. CASE d # c
    BY <1>3, <1>7, <2>2 DEF CallsFindTheirs
  <2> QED
    BY <2>1, <2>2
<1>12. RespawnsFirst'
  BY <1>2 DEF RespawnsFirst
<1>13. EndpointsAreHeld' /\ ChildrenHaveTheirInstance'
  BY <1>2, <1>3 DEF EndpointsAreHeld, ChildrenHaveTheirInstance, LiveInstances
<1>14. MemoryTypeOK'
  BY <1>1, <1>2, <1>3 DEF MemoryTypeOK, KeyInv
<1> QED
  BY <1>1, <1>8, <1>9, <1>10, <1>11, <1>12, <1>13, <1>14 DEF MemoryInv, PortInv

(* Allocations: from the request to the port.                                *)
LEMMA AllocationsKeep ==
  ASSUME MemoryInv, NEW c \in MemoryCalls, CreateMemory(c) \/ ProbeEnds(c) \/ ServerFails(c)
  PROVE  MemoryInv'
<1> DEFINE kept == allocatedPorts \ {memoryCalls[c].port}
<1>1. KeyInv /\ MemoryTypeOK /\ PortInv
  BY DEF MemoryInv
<1>2. UNCHANGED <<memoryTables, foreignPorts>>
  BY DEF CreateMemory, ProbeEnds, ServerFails, memoryTables, memoryChildren
<1>3. allocatedPorts \in SUBSET Ports /\ kept \in SUBSET Ports /\ NoPort \in Nat
  BY <1>1 DEF MemoryTypeOK, NoPort
<1> HIDE DEF kept
<1>4. CASE CreateMemory(c)
  <2>1. AtStage(c, "arrived")
    BY <1>4 DEF CreateMemory
  <2>2. memoryCalls[c] # NoRow /\ memoryCalls[c].stage = "arrived"
    BY <2>1 DEF AtStage
  <2>3. InstanceOf(c) \in MemoryInstances /\ memoryRows[InstanceOf(c)] = NoRow
    <3>1. MemoryOf(c).inst \notin LiveInstances
      BY <1>4 DEF CreateMemory, MemoryAccepts
    <3> QED
      BY <1>1, <2>2, <3>1, MemoryCallParts DEF LiveInstances, MemoryOf, InstanceOf
  <2>4. servers[InstanceOf(c)] = NoPort /\ degradedPorts[InstanceOf(c)] = NoPort
    <3>1. ASSUME NEW d \in MemoryCalls, Ending(d), InstanceOf(d) = InstanceOf(c)
          PROVE  FALSE
      <4>1. d # c /\ memoryCalls[d] # NoRow /\ memoryCalls[d].stage # "arrived"
        BY <2>2, <3>1 DEF Ending
      <4> QED
        BY <1>1, <2>1, <3>1, <4>1, AtItsTurn
    <3> QED
      BY <1>1, <2>3, <3>1 DEF PortInv, NoneForgotten, LiveInstances
  <2>5. allocatedPorts = kept
    <3>1. memoryCalls[c].port = NoPort
      BY <1>1, <2>2 DEF PortInv, ClaimedApart, Building
    <3> QED
      BY <1>3, <3>1 DEF kept, Ports, NoPort
  <2>6. KeyInv' /\ Allocates(c, allocatedPorts)
    <3>1. CASE Claims(c, "probe", NoPort, allocatedPorts)
      <4>1. "probe" \in ClaimStages
        BY DEF ClaimStages
      <4> QED
        BY <1>1, <1>3, <2>1, <3>1, <4>1, ClaimsAllocate
    <3>2. CASE Degrades(c, allocatedPorts)
      BY <1>1, <1>3, <2>1, <3>2, DegradesAllocate
    <3> QED
      BY <1>4, <3>1, <3>2 DEF CreateMemory
  <2>7. Allocates(c, kept)
    BY <2>5, <2>6
  <2> QED
    BY <1>2, <2>2, <2>3, <2>4, <2>6, <2>7, AllocatesKeeps DEF kept
<1>5. CASE ProbeEnds(c) \/ ServerFails(c)
  <2>1. PICK turn \in {"probe", "start"} : AtStage(c, turn)
    BY <1>5 DEF ProbeEnds, ServerFails
  <2>2. memoryCalls[c] # NoRow /\ Building(c)
    BY <2>1 DEF AtStage, Building
  <2>3. /\ servers[InstanceOf(c)] = NoPort /\ degradedPorts[InstanceOf(c)] = NoPort
        /\ memoryRows[InstanceOf(c)] = NoRow /\ InstanceOf(c) \in MemoryInstances
        /\ memoryCalls[c].port \in allocatedPorts
    BY <1>1, <2>2, MemoryCallParts DEF PortInv, CallsFindTheirs, ClaimedApart
  <2>4. memoryCalls[c].port \in Ports \ kept /\ memoryCalls[c].port \in Nat
    <3>1. memoryCalls[c].port \in Ports
      BY <1>3, <2>3
    <3> QED
      BY <3>1, PortsAreNatural DEF kept
  <2>5. KeyInv' /\ Allocates(c, kept)
    <3>1. CASE Degrades(c, kept)
      BY <1>1, <1>3, <2>1, <3>1, DegradesAllocate
    <3>2. CASE Claims(c, "probe", memoryCalls[c].port, kept)
      <4>1. "probe" \in ClaimStages
        BY DEF ClaimStages
      <4> QED
        BY <1>1, <1>3, <2>1, <2>4, <3>2, <4>1, ClaimsAllocate
    <3>3. CASE /\ allocatedPorts' = allocatedPorts \cup {memoryCalls[c].port}
               /\ Awaits(c, "start", memoryCalls[c].port, {})
      <4> DEFINE p == memoryCalls[c].port
      <4>1. allocatedPorts' = kept \cup {p} /\ Awaits(c, "start", p, {}) /\ p \in Ports /\ p \notin kept
        BY <2>4, <3>3 DEF kept
      <4>2. "start" \in ClaimStages
        BY DEF ClaimStages
      <4> HIDE DEF p
      <4> QED
        BY <1>1, <2>1, <4>1, <4>2, GoesOnAllocates
    <3> QED
      BY <1>5, <3>1, <3>2, <3>3 DEF ProbeEnds, ServerFails, kept
  <2> QED
    BY <1>2, <2>2, <2>3, <2>5, AllocatesKeeps DEF kept
<1> QED
  BY <1>4, <1>5

LEMMA StandsKeeps ==
  ASSUME MemoryInv, NEW c \in MemoryCalls, NEW turn, AtStage(c, turn), Building(c),
         Persists(c, InstanceOf(c), memoryCalls[c].port), allocatedPorts' = allocatedPorts,
         \/ servers' = [servers EXCEPT ![InstanceOf(c)] = memoryCalls[c].port] /\ degradedPorts' = degradedPorts
         \/ degradedPorts' = [degradedPorts EXCEPT ![InstanceOf(c)] = memoryCalls[c].port] /\ servers' = servers,
         UNCHANGED <<tokenUsers, authTokens, memoryBackups, respawning, foreignPorts>>
  PROVE  MemoryInv'
<1> DEFINE i == InstanceOf(c)
           p == memoryCalls[c].port
<1>1. KeyInv /\ MemoryTypeOK /\ PortInv
  BY DEF MemoryInv
<1>2. i \in MemoryInstances
  BY <1>1, MemoryCallParts DEF Building
<1>3. p \in Ports
  BY <1>1 DEF PortInv, ClaimedApart, MemoryTypeOK
<1>4. UNCHANGED <<tokenUsers, authTokens, memoryBackups, respawning>>
  OBVIOUS
<1>5. PortInv'
  BY <1>1, <1>2, <1>3, <1>4, ServerStands
<1>6. /\ KeyInv'
      /\ memoryRows' \in [MemoryInstances -> MemoryRows \cup {NoRow}]
      /\ collections' \subseteq collections \cup {i} /\ stale' \subseteq stale
  BY <1>1, <1>2, <1>3, PersistsParts
<1>7. /\ servers' \in [MemoryInstances -> Ports \cup {NoPort}]
      /\ degradedPorts' \in [MemoryInstances -> Ports \cup {NoPort}]
  BY <1>1, <1>2, <1>3 DEF MemoryTypeOK
<1>8. MemoryTypeOK'
  BY <1>1, <1>2, <1>6, <1>7 DEF MemoryTypeOK, KeyInv
<1> QED
  BY <1>5, <1>6, <1>8 DEF MemoryInv

LEMMA ServerStartsKeeps ==
  ASSUME MemoryInv, NEW c \in MemoryCalls, ServerStarts(c)
  PROVE  MemoryInv'
<1>1. AtStage(c, "start") /\ Building(c)
  BY DEF ServerStarts, AtStage, Building
<1> QED
  BY <1>1, StandsKeeps DEF ServerStarts

LEMMA EndpointProbedKeeps ==
  ASSUME MemoryInv, NEW c \in MemoryCalls, EndpointProbed(c)
  PROVE  MemoryInv'
<1> DEFINE p == memoryCalls[c].port
           kept == allocatedPorts \ {p}
<1>1. KeyInv /\ MemoryTypeOK /\ PortInv
  BY DEF MemoryInv
<1>2. PICK turn \in {"hash", "degrade"} : AtStage(c, turn)
  BY DEF EndpointProbed
<1>3. memoryCalls[c] # NoRow /\ Building(c)
  BY <1>2 DEF AtStage, Building
<1>4. /\ servers[InstanceOf(c)] = NoPort /\ degradedPorts[InstanceOf(c)] = NoPort
      /\ memoryRows[InstanceOf(c)] = NoRow /\ InstanceOf(c) \in MemoryInstances
      /\ p \in allocatedPorts
  BY <1>1, <1>3, MemoryCallParts DEF PortInv, CallsFindTheirs, ClaimedApart
<1>5. kept \in SUBSET Ports /\ p \in Nat /\ NoPort \in Nat /\ "degrade" \in ClaimStages
  <2>1. allocatedPorts \in SUBSET Ports
    BY <1>1 DEF MemoryTypeOK
  <2>2. p \in Ports
    BY <1>4, <2>1
  <2> QED
    BY <2>1, <2>2, PortsAreNatural DEF ClaimStages
<1>6. CASE /\ degradedPorts' = [degradedPorts EXCEPT ![InstanceOf(c)] = p]
           /\ allocatedPorts' = allocatedPorts \cup {p}
           /\ Persists(c, InstanceOf(c), p)
  <2>1. allocatedPorts' = allocatedPorts
    BY <1>4, <1>6
  <2>2. UNCHANGED <<tokenUsers, authTokens, memoryBackups, servers, foreignPorts, respawning>>
    BY DEF EndpointProbed
  <2> QED
    BY <1>2, <1>3, <1>6, <2>1, <2>2, StandsKeeps
<1>7. ASSUME NEW after \in Nat,
             Claims(c, "degrade", after, kept) \/ (allocatedPorts' = kept /\ MemoryAnswered(c)),
             UNCHANGED <<memoryRows, collections, degradedPorts, stale>>
      PROVE  MemoryInv'
  <2>1. UNCHANGED <<memoryTables, foreignPorts>>
    BY <1>7 DEF EndpointProbed, memoryTables, memoryChildren
  <2> HIDE DEF kept
  <2>2. KeyInv' /\ Allocates(c, kept)
    BY <1>1, <1>2, <1>5, <1>7, ClaimsAllocate, AnswersAllocate
  <2> QED
    BY <1>3, <1>4, <2>1, <2>2, AllocatesKeeps DEF kept
<1>8. (IF memoryCalls[c].stage = "degrade" THEN p ELSE NoPort) \in Nat
  BY <1>5
<1> HIDE DEF p, kept
<1> QED
  BY <1>6, <1>7, <1>8 DEF EndpointProbed, p, kept

LEMMA StopsKeep ==
  ASSUME MemoryInv, NEW c \in MemoryCalls, RolledBackCreate(c) \/ MemoryStopped(c)
  PROVE  MemoryInv'
<1> DEFINE i == InstanceOf(c)
<1>1. KeyInv /\ MemoryTypeOK /\ PortInv
  BY DEF MemoryInv
<1>2. PICK turn \in {"rollback", "stop"} : AtStage(c, turn)
  BY DEF RolledBackCreate, MemoryStopped
<1>3. Ending(c) /\ memoryCalls[c] # NoRow
  BY <1>2 DEF AtStage, Ending
<1>4. i \in MemoryInstances
  BY <1>1, <1>3, MemoryCallParts
<1>5. /\ Stopped(i) /\ MemoryAnswered(c)
      /\ UNCHANGED <<tokenUsers, authTokens, memoryBackups, respawning, stale>> /\ UNCHANGED foreignPorts
      /\ \/ collections' = collections
         \/ "collection" \in memoryCalls[c].undo /\ collections' = collections \ {i}
  BY DEF RolledBackCreate, MemoryStopped, memoryChildren
<1>6. memoryRows' = [memoryRows EXCEPT ![i] = NoRow]
  <2>1. CASE RolledBackCreate(c)
    BY <2>1 DEF RolledBackCreate
  <2>2. CASE MemoryStopped(c)
    <3>1. memoryRows' = memoryRows /\ memoryCalls[c].stage = "stop"
      BY <2>2 DEF MemoryStopped, AtStage
    <3>2. memoryRows[i] = NoRow
      BY <1>1, <1>3, <3>1 DEF PortInv, CallsFindTheirs
    <3> QED
      BY <1>1, <3>1, <3>2 DEF MemoryTypeOK
  <2> QED
    BY <2>1, <2>2
<1> HIDE DEF i
<1>7. PortInv'
  BY <1>1, <1>2, <1>3, <1>4, <1>5, <1>6, ServerStops DEF i
<1>8. KeyInv'
  BY <1>1, <1>2, <1>5, KeyAnswered
<1>9. /\ servers' \in [MemoryInstances -> Ports \cup {NoPort}]
      /\ degradedPorts' \in [MemoryInstances -> Ports \cup {NoPort}]
      /\ allocatedPorts' \subseteq Ports
  BY <1>1, <1>5 DEF MemoryTypeOK, Stopped
<1>10. /\ memoryRows' \in [MemoryInstances -> MemoryRows \cup {NoRow}]
       /\ collections' \subseteq MemoryInstances
  BY <1>1, <1>5, <1>6 DEF MemoryTypeOK
<1>11. MemoryTypeOK'
  BY <1>1, <1>5, <1>8, <1>9, <1>10 DEF MemoryTypeOK, KeyInv
<1> QED
  BY <1>7, <1>8, <1>11 DEF MemoryInv

(* The requests that are answered at once.                                   *)
LEMMA RefusedKeeps ==
  ASSUME MemoryInv, NEW c \in MemoryCalls, MemoryRefused(c)
  PROVE  MemoryInv'
<1>1. KeyInv /\ MemoryTypeOK /\ PortInv
  BY DEF MemoryInv
<1>2. AtStage(c, "arrived") /\ MemoryAnswered(c)
  BY DEF MemoryRefused
<1>3. memoryCalls[c] # NoRow /\ memoryCalls[c].stage = "arrived"
  BY <1>2 DEF AtStage
<1>4. /\ KeyInv' /\ memoryCalls'[c] = NoRow
      /\ \A d \in MemoryCalls : d # c => memoryCalls'[d] = memoryCalls[d]
  BY <1>1, <1>2, KeyAnswered
<1>5. /\ UNCHANGED <<memoryRows, tokenUsers, authTokens, collections, memoryBackups>>
      /\ UNCHANGED <<servers, degradedPorts, allocatedPorts, foreignPorts, respawning, stale>>
  BY DEF MemoryRefused, memoryChildren, valkeyVars
<1>6. InstanceOf(c) \in MemoryInstances /\ respawning = {}
  BY <1>1, <1>3, MemoryCallParts, NoRespawns
<1>7. \A d \in MemoryCalls \ {c} :
         memoryCalls[d] # NoRow /\ InstanceOf(d) = InstanceOf(c) => memoryCalls[d].stage = "arrived"
  BY <1>1, <1>2, AtItsTurn
<1>8. ChildrenHaveTheirInstance'
  BY <1>1, <1>5 DEF PortInv, ChildrenHaveTheirInstance, LiveInstances
<1>9. PortInv'
  BY <1>1, <1>3, <1>4, <1>5, <1>6, <1>7, <1>8, RowsMove
<1>10. MemoryTypeOK'
  BY <1>1, <1>4, <1>5 DEF MemoryTypeOK, KeyInv
<1> QED
  BY <1>4, <1>9, <1>10 DEF MemoryInv

LEMMA DeleteKeeps ==
  ASSUME MemoryInv, NEW c \in MemoryCalls, NEW kept \in BOOLEAN, DeleteMemory(c, kept)
  PROVE  MemoryInv'
<1> DEFINE i == InstanceOf(c)
<1>1. KeyInv /\ MemoryTypeOK /\ PortInv
  BY DEF MemoryInv
<1>2. AtStage(c, "arrived")
  BY DEF DeleteMemory
<1>3. memoryCalls[c] # NoRow /\ memoryCalls[c].stage = "arrived"
  BY <1>2 DEF AtStage
<1>4. i \in MemoryInstances /\ respawning = {}
  BY <1>1, <1>3, MemoryCallParts, NoRespawns
<1>5. /\ tokenUsers' = tokenUsers \ {i} /\ authTokens' = authTokens \ {i}
      /\ UNCHANGED <<collections, memoryBackups>>
      /\ UNCHANGED <<servers, degradedPorts, allocatedPorts, foreignPorts, respawning, stale>>
  BY DEF DeleteMemory, valkeyVars
<1>6. \/ MemoryAnswered(c) /\ memoryRows' = memoryRows
      \/ Awaits(c, "stop", NoPort, {}) /\ memoryRows' = [memoryRows EXCEPT ![i] = NoRow]
  BY DEF DeleteMemory
<1>7. \A d \in MemoryCalls \ {c} :
         memoryCalls[d] # NoRow /\ InstanceOf(d) = i => memoryCalls[d].stage = "arrived"
  BY <1>1, <1>2, AtItsTurn
<1>8. "stop" \in CallStages /\ NoPort \in Ports \cup {NoPort} /\ {} \in SUBSET {"row", "collection"}
  BY DEF CallStages
<1> HIDE DEF i
<1>9. /\ KeyInv'
      /\ \A d \in MemoryCalls : d # c => memoryCalls'[d] = memoryCalls[d]
      /\ \/ memoryCalls'[c] = NoRow /\ memoryRows' = memoryRows
         \/ /\ memoryCalls'[c] # NoRow /\ memoryRows' = [memoryRows EXCEPT ![i] = NoRow]
            /\ memoryCalls'[c] = [request |-> MemoryOf(c), stage |-> "stop", port |-> NoPort, undo |-> {}]
  <2>1. CASE MemoryAnswered(c) /\ memoryRows' = memoryRows
    BY <1>1, <1>2, <2>1, KeyAnswered
  <2>2. CASE Awaits(c, "stop", NoPort, {}) /\ memoryRows' = [memoryRows EXCEPT ![i] = NoRow]
    <3>1. KeyInv'
      BY <1>1, <1>2, <1>8, <2>2, KeyAwaits
    <3>2. /\ memoryCalls'[c] = [request |-> MemoryOf(c), stage |-> "stop", port |-> NoPort, undo |-> {}]
          /\ memoryCalls'[c] # NoRow
          /\ \A d \in MemoryCalls : d # c => memoryCalls'[d] = memoryCalls[d]
      <4>1. Awaits(c, "stop", NoPort, {})
        BY <2>2
      <4> QED
        BY <1>1, <1>3, <1>8, <4>1, AwaitsParts, SMTT(40)
    <3> QED
      BY <2>2, <3>1, <3>2
  <2> QED
    BY <1>6, <2>1, <2>2
<1>10. memoryRows \in [MemoryInstances -> MemoryRows \cup {NoRow}]
  BY <1>1 DEF MemoryTypeOK
<1>11. /\ \A o \in MemoryInstances : o # i => memoryRows'[o] = memoryRows[o]
       /\ memoryRows' \in [MemoryInstances -> MemoryRows \cup {NoRow}]
       /\ \/ memoryCalls'[c] = NoRow /\ memoryRows'[i] = memoryRows[i]
          \/ /\ memoryCalls'[c] # NoRow /\ memoryRows'[i] = NoRow
             /\ memoryCalls'[c] = [request |-> MemoryOf(c), stage |-> "stop", port |-> NoPort, undo |-> {}]
  BY <1>4, <1>9, <1>10
<1>12. \/ memoryCalls'[c] = NoRow /\ memoryRows'[i] = memoryRows[i]
       \/ /\ memoryCalls'[c] # NoRow /\ memoryCalls'[c].stage = "stop" /\ memoryCalls'[c].port = NoPort
          /\ memoryCalls'[c].undo = {} /\ InstanceOf(c)' = i /\ memoryRows'[i] = NoRow
  BY <1>11 DEF InstanceOf, MemoryOf, i
<1>13. ChildrenHaveTheirInstance'
  BY <1>1, <1>5, <1>11, <1>12 DEF PortInv, ChildrenHaveTheirInstance, LiveInstances
<1>14. memoryBackups' \ {i} = memoryBackups \ {i} /\ tokenUsers' \ {i} = tokenUsers \ {i}
  BY <1>5
<1>15. \/ /\ memoryCalls'[c] = NoRow
          /\ memoryRows'[i] = NoRow <=> memoryRows[i] = NoRow
          /\ memoryRows[i] # NoRow => memoryRows'[i].port = memoryRows[i].port
       \/ /\ memoryCalls'[c] # NoRow /\ memoryCalls'[c].stage = "stop" /\ memoryCalls'[c].port = NoPort
          /\ memoryCalls'[c].undo = {} /\ InstanceOf(c)' = i /\ memoryRows'[i] = NoRow
  BY <1>12
<1>16. PortInv'
  BY <1>1, <1>3, <1>4, <1>5, <1>7, <1>9, <1>11, <1>13, <1>14, <1>15, RowsMove DEF i
<1>17. MemoryTypeOK'
  BY <1>1, <1>5, <1>9, <1>11 DEF MemoryTypeOK, KeyInv
<1> QED
  BY <1>9, <1>16, <1>17 DEF MemoryInv

LEMMA ChangeKeeps ==
  ASSUME MemoryInv, NEW c \in MemoryCalls, ChangeMemory(c)
  PROVE  MemoryInv'
<1> DEFINE i == InstanceOf(c)
           r == MemoryOf(c)
           Changed(set, adds, removes) ==
             IF r.what = adds THEN set \cup {i} ELSE IF r.what \in removes THEN set \ {i} ELSE set
<1>1. KeyInv /\ MemoryTypeOK /\ PortInv
  BY DEF MemoryInv
<1>2. AtStage(c, "arrived") /\ MemoryAnswered(c) /\ MemoryAccepts(r)
  BY DEF ChangeMemory
<1>3. memoryCalls[c] # NoRow /\ memoryCalls[c].stage = "arrived"
  BY <1>2 DEF AtStage
<1>4. /\ i \in MemoryInstances /\ respawning = {} /\ r.inst = i
      /\ r.what = "protect" => r.on \in BOOLEAN
  <2>1. r \in AllInstanceRequests /\ i \in MemoryInstances
    BY <1>1, <1>3, MemoryCallParts
  <2>2. r.inst = i
    BY DEF InstanceOf, MemoryOf
  <2> QED
    BY <1>3, <2>1, <2>2, MemoryRequestParts, NoRespawns
<1>5. /\ KeyInv' /\ memoryCalls'[c] = NoRow
      /\ \A d \in MemoryCalls : d # c => memoryCalls'[d] = memoryCalls[d]
  BY <1>1, <1>2, KeyAnswered
<1>6. /\ memoryRows' = IF r.what = "protect" THEN [memoryRows EXCEPT ![r.inst].protected = r.on] ELSE memoryRows
      /\ tokenUsers' = Changed(tokenUsers, "addUser", {"deleteUser"})
      /\ authTokens' = Changed(authTokens, "addToken", {"deleteToken", "deleteUser"})
      /\ memoryBackups' = Changed(memoryBackups, "backup", {"deleteBackup"})
      /\ collections' = Changed(collections, "backup", {})
      /\ UNCHANGED <<servers, degradedPorts, allocatedPorts, foreignPorts, respawning, stale>>
  BY <1>4 DEF ChangeMemory, valkeyVars
<1>7. \A d \in MemoryCalls \ {c} :
         memoryCalls[d] # NoRow /\ InstanceOf(d) = i => memoryCalls[d].stage = "arrived"
  BY <1>1, <1>2, AtItsTurn
<1>8. memoryRows \in [MemoryInstances -> MemoryRows \cup {NoRow}]
  BY <1>1 DEF MemoryTypeOK
<1>9. /\ r.what = "protect" => memoryRows[i] # NoRow
      /\ r.what = "backup" => memoryRows[i] # NoRow
      /\ r.what = "addUser" => memoryRows[i] # NoRow
      /\ r.what = "addToken" => i \in tokenUsers
  BY <1>2, <1>4 DEF MemoryAccepts, LiveInstances
<1> HIDE DEF i, r
<1>10. /\ memoryRows' \in [MemoryInstances -> MemoryRows \cup {NoRow}]
       /\ \A o \in MemoryInstances : o # i => memoryRows'[o] = memoryRows[o]
       /\ memoryRows'[i] = NoRow <=> memoryRows[i] = NoRow
       /\ memoryRows[i] # NoRow => memoryRows'[i].port = memoryRows[i].port
  <2>1. CASE r.what = "protect"
    <3> DEFINE row == [memoryRows[i] EXCEPT !.protected = r.on]
    <3>1. memoryRows[i] \in MemoryRows
      BY <1>4, <1>8, <1>9, <2>1
    <3>2. row \in MemoryRows /\ row.port = memoryRows[i].port
      BY <1>4, <2>1, <3>1 DEF MemoryRows
    <3>3. row # NoRow
      BY <3>2
    <3>4. memoryRows' = [memoryRows EXCEPT ![i] = row]
      BY <1>4, <1>6, <2>1
    <3> HIDE DEF row
    <3> QED
      BY <1>4, <1>8, <1>9, <2>1, <3>2, <3>3, <3>4
  <2>2. CASE r.what # "protect"
    BY <1>6, <1>8, <2>2
  <2> QED
    BY <2>1, <2>2
<1>11. \A o \in MemoryInstances : memoryRows'[o] = NoRow <=> memoryRows[o] = NoRow
  BY <1>10
<1>12. ChildrenHaveTheirInstance'
  <2>1. tokenUsers \subseteq LiveInstances /\ authTokens \subseteq tokenUsers /\ memoryBackups \subseteq collections
    BY <1>1 DEF PortInv, ChildrenHaveTheirInstance
  <2>2. LiveInstances' = LiveInstances
    BY <1>11 DEF LiveInstances
  <2>3. r.what = "addUser" => i \in LiveInstances
    BY <1>4, <1>9 DEF LiveInstances
  <2>4. tokenUsers' \subseteq LiveInstances
    BY <1>6, <2>1, <2>3
  <2>5. authTokens' \subseteq tokenUsers'
    BY <1>6, <1>9, <2>1
  <2>6. memoryBackups' \subseteq collections'
    BY <1>6, <2>1
  <2> QED
    BY <2>2, <2>4, <2>5, <2>6 DEF ChildrenHaveTheirInstance
<1>13. memoryBackups' \ {i} = memoryBackups \ {i} /\ tokenUsers' \ {i} = tokenUsers \ {i}
  BY <1>6
<1>14. PortInv'
  BY <1>1, <1>3, <1>4, <1>5, <1>6, <1>7, <1>10, <1>12, <1>13, RowsMove DEF i
<1>15. MemoryTypeOK'
  <2>1. /\ tokenUsers' \subseteq MemoryInstances /\ authTokens' \subseteq MemoryInstances
        /\ memoryBackups' \subseteq MemoryInstances /\ collections' \subseteq MemoryInstances
    BY <1>1, <1>4, <1>6 DEF MemoryTypeOK
  <2> QED
    BY <1>1, <1>5, <1>6, <1>10, <2>1 DEF MemoryTypeOK, KeyInv
<1> QED
  BY <1>5, <1>14, <1>15 DEF MemoryInv

LEMMA ForeignKeeps ==
  ASSUME MemoryInv, NEW p \in ForeignRange, ForeignMoves(p)
  PROVE  MemoryInv'
<1>1. /\ UNCHANGED <<memoryRows, tokenUsers, authTokens, collections, memoryBackups>>
      /\ UNCHANGED <<memoryQueue, memoryCalls, servers, degradedPorts, allocatedPorts, respawning, stale>>
      /\ foreignPorts' \subseteq foreignPorts \cup {p}
  BY DEF ForeignMoves, memoryChildren, valkeyVars
<1>2. p \in Ports
  OBVIOUS
<1>3. MemoryTypeOK'
  BY <1>1, <1>2 DEF MemoryInv, MemoryTypeOK
<1>4. KeyInv'
  BY <1>1 DEF MemoryInv, KeyInv, InstanceOf
<1>5. PortInv'
  BY <1>1 DEF MemoryInv, PortInv, HeldApart, ClaimedApart, NoneForgotten, CallsFindTheirs, RespawnsFirst,
              EndpointsAreHeld, ChildrenHaveTheirInstance, LiveInstances, Building, Ending, InstanceOf
<1> QED
  BY <1>3, <1>4, <1>5 DEF MemoryInv

LEMMA RestartsKeep ==
  ASSUME MemoryInv, MemoryRestarts
  PROVE  MemoryInv'
<1>1. /\ UNCHANGED <<memoryRows, tokenUsers, authTokens, collections, memoryBackups>>
      /\ memoryCalls' = [c \in MemoryCalls |-> NoRow] /\ memoryQueue' = [i \in MemoryInstances |-> <<>>]
      /\ servers' = [i \in MemoryInstances |-> NoPort] /\ degradedPorts' = [i \in MemoryInstances |-> NoPort]
      /\ allocatedPorts' = {} /\ respawning' = LiveInstances /\ stale' = LiveInstances
  BY DEF MemoryRestarts, memoryChildren
<1>2. /\ \A c \in MemoryCalls : memoryCalls'[c] = NoRow
      /\ \A i \in MemoryInstances : memoryQueue'[i] = <<>> /\ servers'[i] = NoPort /\ degradedPorts'[i] = NoPort
  BY <1>1
<1>3. foreignPorts' \subseteq Ports
  <2>1. \A c \in MemoryCalls : memoryCalls[c] # NoRow /\ memoryCalls[c].stage = "start" => memoryCalls[c].port \in Ports
    BY DEF MemoryInv, PortInv, ClaimedApart, Building, MemoryTypeOK
  <2>2. \A i \in MemoryInstances : servers[i] \in Ports \cup {NoPort}
    BY DEF MemoryInv, MemoryTypeOK
  <2>3. foreignPorts \subseteq Ports
    BY DEF MemoryInv, MemoryTypeOK
  <2> QED
    BY <2>1, <2>2, <2>3 DEF MemoryRestarts
<1>4. LiveInstances \subseteq MemoryInstances /\ \A i \in LiveInstances : memoryRows[i] # NoRow
  BY DEF LiveInstances
<1>5. KeyInv'
  <2>1. memoryCalls' \in [MemoryCalls -> MemoryRecords \cup {NoRow}]
    BY <1>1
  <2>2. <<>> \in Seq(MemoryCalls) /\ Len(<<>>) = 0
    OBVIOUS
  <2>3. memoryQueue' \in [MemoryInstances -> Seq(MemoryCalls)]
    BY <1>1, <2>2
  <2>4. \A i \in MemoryInstances : 1 .. Len(memoryQueue'[i]) = {}
    BY <1>2, <2>2
  <2> QED
    BY <1>2, <2>1, <2>3, <2>4 DEF KeyInv
<1>6. MemoryTypeOK'
  BY <1>1, <1>3, <1>4, <1>5 DEF MemoryInv, MemoryTypeOK, KeyInv
<1>7. \A c \in MemoryCalls : ~Building(c)' /\ ~Ending(c)'
  BY <1>2 DEF Building, Ending
<1>8. HeldApart' /\ ClaimedApart'
  BY <1>1, <1>2, <1>7 DEF HeldApart, ClaimedApart
<1>9. NoneForgotten' /\ CallsFindTheirs'
  BY <1>1, <1>2, <1>7 DEF NoneForgotten, CallsFindTheirs
<1>10. RespawnsFirst'
  BY <1>1, <1>2, <1>4 DEF RespawnsFirst
<1>11. EndpointsAreHeld'
  BY <1>1 DEF EndpointsAreHeld, LiveInstances
<1>12. ChildrenHaveTheirInstance'
  BY <1>1 DEF MemoryInv, PortInv, ChildrenHaveTheirInstance, LiveInstances
<1> QED
  BY <1>5, <1>6, <1>8, <1>9, <1>10, <1>11, <1>12 DEF MemoryInv, PortInv

(* A respawned instance gets a port that nobody has.                         *)
LEMMA RespawnGets ==
  ASSUME MemoryInv, NEW i \in respawning, NEW p \in Ports, p \notin allocatedPorts,
         respawning' = respawning \ {i}, allocatedPorts' = allocatedPorts \cup {p},
         memoryRows' = [memoryRows EXCEPT ![i].port = p], stale' = stale \ {i},
         \/ servers' = [servers EXCEPT ![i] = p] /\ degradedPorts' = degradedPorts
         \/ degradedPorts' = [degradedPorts EXCEPT ![i] = p] /\ servers' = servers,
         UNCHANGED <<tokenUsers, authTokens, collections, memoryBackups, memoryQueue, memoryCalls, foreignPorts>>
  PROVE  MemoryInv'
<1>1. KeyInv /\ MemoryTypeOK /\ PortInv
  BY DEF MemoryInv
<1>2. UNCHANGED <<tokenUsers, authTokens, collections, memoryBackups, memoryQueue, memoryCalls, foreignPorts>>
  OBVIOUS
<1>3. i \in MemoryInstances
  BY <1>1 DEF MemoryTypeOK
<1>4. /\ \A c \in MemoryCalls : memoryCalls[c] = NoRow
      /\ \A o \in respawning : memoryRows[o] # NoRow /\ servers[o] = NoPort /\ degradedPorts[o] = NoPort
  BY <1>1 DEF PortInv, RespawnsFirst
<1>5. /\ servers \in [MemoryInstances -> Ports \cup {NoPort}]
      /\ degradedPorts \in [MemoryInstances -> Ports \cup {NoPort}]
      /\ allocatedPorts \subseteq Ports
      /\ memoryRows \in [MemoryInstances -> MemoryRows \cup {NoRow}]
  BY <1>1 DEF MemoryTypeOK
<1>6. /\ servers' \in [MemoryInstances -> Ports \cup {NoPort}]
      /\ degradedPorts' \in [MemoryInstances -> Ports \cup {NoPort}]
      /\ {servers'[i], degradedPorts'[i]} = {p, NoPort}
      /\ \A o \in MemoryInstances : o # i => servers'[o] = servers[o] /\ degradedPorts'[o] = degradedPorts[o]
  BY <1>3, <1>4, <1>5
<1>7. /\ memoryRows' \in [MemoryInstances -> MemoryRows \cup {NoRow}]
      /\ memoryRows'[i] # NoRow /\ memoryRows'[i].port = p
      /\ \A o \in MemoryInstances : o # i => memoryRows'[o] = memoryRows[o]
  <2> DEFINE row == [memoryRows[i] EXCEPT !.port = p]
  <2>1. memoryRows[i] \in MemoryRows
    BY <1>3, <1>4, <1>5
  <2>2. row \in MemoryRows /\ row.port = p
    BY <2>1 DEF MemoryRows
  <2>3. row # NoRow
    BY <2>2
  <2>4. memoryRows' = [memoryRows EXCEPT ![i] = row]
    OBVIOUS
  <2> HIDE DEF row
  <2> QED
    BY <1>3, <1>5, <2>2, <2>3, <2>4
<1>8. /\ \A o \in MemoryInstances : {servers[o], degradedPorts[o]} \ {NoPort} \subseteq allocatedPorts
      /\ \A a, b \in MemoryInstances : a # b =>
           {servers[a], degradedPorts[a]} \cap {servers[b], degradedPorts[b]} \subseteq {NoPort}
  BY <1>1 DEF PortInv, HeldApart
<1>9. p # NoPort /\ \A o \in MemoryInstances : p \notin {servers[o], degradedPorts[o]}
  BY <1>8, PortsAreNatural
<1>10. HeldApart'
  <2>1. \A o \in MemoryInstances : {servers'[o], degradedPorts'[o]} \ {NoPort} \subseteq allocatedPorts'
    BY <1>6, <1>8
  <2>2. ASSUME NEW a \in MemoryInstances, NEW b \in MemoryInstances, a # b
        PROVE  {servers'[a], degradedPorts'[a]} \cap {servers'[b], degradedPorts'[b]} \subseteq {NoPort}
    <3>1. CASE a # i /\ b # i
      BY <1>6, <1>8, <2>2, <3>1
    <3>2. CASE a = i
      BY <1>6, <1>9, <2>2, <3>2
    <3>3. CASE b = i
      BY <1>6, <1>9, <2>2, <3>3
    <3> QED
      BY <3>1, <3>2, <3>3
  <2> QED
    BY <2>1, <2>2 DEF HeldApart
<1>11. \A c \in MemoryCalls : ~Building(c)' /\ ~Ending(c)' /\ ~Building(c) /\ ~Ending(c)
  BY <1>2, <1>4 DEF Building, Ending
<1>12. ClaimedApart' /\ CallsFindTheirs'
  BY <1>2, <1>4, <1>11 DEF ClaimedApart, CallsFindTheirs
<1>13. NoneForgotten'
  <2>1. ASSUME NEW q \in allocatedPorts'
        PROVE  \E o \in MemoryInstances : q \in {servers'[o], degradedPorts'[o]}
    <3>1. CASE q = p
      BY <1>3, <1>6, <3>1
    <3>2. CASE q \in allocatedPorts
      <4>1. PICK o \in MemoryInstances : q \in {servers[o], degradedPorts[o]}
        BY <1>1, <1>4, <3>2 DEF PortInv, NoneForgotten
      <4>2. o # i
        BY <1>4, <1>5, <3>2, <4>1, PortsAreNatural
      <4> QED
        BY <1>6, <4>1, <4>2
    <3> QED
      BY <3>1, <3>2
  <2>2. ASSUME NEW o \in MemoryInstances, memoryRows'[o] = NoRow
        PROVE  servers'[o] = NoPort /\ degradedPorts'[o] = NoPort
    <3>1. o # i /\ memoryRows[o] = NoRow
      BY <1>7, <2>2
    <3>2. servers[o] = NoPort /\ degradedPorts[o] = NoPort
      BY <1>1, <1>11, <3>1 DEF PortInv, NoneForgotten, LiveInstances
    <3> QED
      BY <1>6, <3>1, <3>2
  <2>3. \A o \in MemoryInstances \ LiveInstances' : memoryRows'[o] = NoRow
    BY DEF LiveInstances
  <2> QED
    BY <2>1, <2>2, <2>3 DEF NoneForgotten
<1>14. RespawnsFirst'
  <2>1. \A o \in respawning : o \in MemoryInstances
    BY <1>1 DEF MemoryTypeOK
  <2> QED
    BY <1>2, <1>4, <1>6, <1>7, <2>1 DEF RespawnsFirst
<1>15. EndpointsAreHeld'
  <2> SUFFICES ASSUME NEW o \in MemoryInstances, memoryRows'[o] # NoRow, o \notin stale'
               PROVE  LET q == memoryRows'[o].port IN
                        /\ servers'[o] = q \/ degradedPorts'[o] = q
                        /\ q \in allocatedPorts'
                        /\ \A a \in MemoryInstances \ {o} : servers'[a] # q /\ degradedPorts'[a] # q
    BY DEF EndpointsAreHeld, LiveInstances
  <2>1. CASE o = i
    BY <1>6, <1>7, <1>9, <2>1
  <2>2. CASE o # i
    <3>1. memoryRows'[o] = memoryRows[o] /\ o \notin stale
      BY <1>7, <2>2
    <3>2. /\ servers[o] = memoryRows[o].port \/ degradedPorts[o] = memoryRows[o].port
          /\ memoryRows[o].port \in allocatedPorts
          /\ \A a \in MemoryInstances \ {o} :
               servers[a] # memoryRows[o].port /\ degradedPorts[a] # memoryRows[o].port
      BY <1>1, <3>1 DEF PortInv, EndpointsAreHeld, LiveInstances
    <3>3. memoryRows[o].port # p /\ memoryRows[o].port # NoPort
      BY <1>5, <3>2, PortsAreNatural
    <3> QED
      BY <1>6, <2>2, <3>1, <3>2, <3>3
  <2> QED
    BY <2>1, <2>2
<1>16. ChildrenHaveTheirInstance'
  <2>1. LiveInstances \subseteq LiveInstances'
    BY <1>3, <1>7 DEF LiveInstances
  <2> QED
    BY <1>1, <1>2, <2>1 DEF PortInv, ChildrenHaveTheirInstance
<1>17. KeyInv'
  BY <1>1, <1>2 DEF KeyInv, InstanceOf
<1>18. MemoryTypeOK'
  BY <1>1, <1>2, <1>3, <1>6, <1>7 DEF MemoryTypeOK
<1> QED
  BY <1>10, <1>12, <1>13, <1>14, <1>15, <1>16, <1>17, <1>18 DEF MemoryInv, PortInv

LEMMA RespawnsKeep ==
  ASSUME MemoryInv, NEW i \in MemoryInstances, Respawns(i)
  PROVE  MemoryInv'
<1> DEFINE free == {p \in Ports \ allocatedPorts : ~Listened(p)}
           first == NextPort(NoPort, Ports \ free)
           endpoint == IF HashPort[i] \in free THEN HashPort[i] ELSE first
           Gets(p) == /\ allocatedPorts' = allocatedPorts \cup {p}
                      /\ memoryRows' = [memoryRows EXCEPT ![i].port = p]
                      /\ stale' = stale \ {i}
<1>1. /\ i \in respawning /\ respawning' = respawning \ {i}
      /\ UNCHANGED <<tokenUsers, authTokens, collections, memoryBackups, memoryQueue, memoryCalls, foreignPorts>>
      /\ \/ /\ first # NoPort /\ Gets(first)
            /\ servers' = [servers EXCEPT ![i] = first] /\ UNCHANGED degradedPorts
         \/ /\ endpoint # NoPort /\ Gets(endpoint)
            /\ degradedPorts' = [degradedPorts EXCEPT ![i] = endpoint] /\ UNCHANGED servers
         \/ UNCHANGED <<memoryRows, servers, degradedPorts, allocatedPorts, stale>>
  BY DEF Respawns, memoryChildren
<1>2. \A p \in free : p \in Ports /\ p \notin allocatedPorts
  OBVIOUS
<1>3. first = NoPort \/ first \in free
  <2>1. Ports \ free \in SUBSET Ports /\ Ports \ (Ports \ free) \subseteq free
    OBVIOUS
  <2> HIDE DEF free
  <2> QED
    BY <2>1, NextPortIsFree, PortsAreNatural
<1>4. endpoint = NoPort \/ endpoint \in free
  BY <1>3
<1> HIDE DEF free, first, endpoint
<1>5. CASE first # NoPort /\ Gets(first) /\ servers' = [servers EXCEPT ![i] = first] /\ UNCHANGED degradedPorts
  <2>1. first \in Ports /\ first \notin allocatedPorts
    BY <1>2, <1>3, <1>5
  <2> QED
    BY <1>1, <1>5, <2>1, RespawnGets
<1>6. CASE /\ endpoint # NoPort /\ Gets(endpoint)
           /\ degradedPorts' = [degradedPorts EXCEPT ![i] = endpoint] /\ UNCHANGED servers
  <2>1. endpoint \in Ports /\ endpoint \notin allocatedPorts
    BY <1>2, <1>4, <1>6
  <2> QED
    BY <1>1, <1>6, <2>1, RespawnGets
<1>7. CASE UNCHANGED <<memoryRows, servers, degradedPorts, allocatedPorts, stale>>
  <2>1. UNCHANGED <<tokenUsers, authTokens, collections, memoryBackups, memoryQueue, memoryCalls, foreignPorts>>
    BY <1>1
  <2>2. MemoryTypeOK'
    BY <1>1, <1>7, <2>1 DEF MemoryInv, MemoryTypeOK
  <2>3. KeyInv'
    BY <2>1 DEF MemoryInv, KeyInv, InstanceOf
  <2>4. RespawnsFirst'
    BY <1>1, <1>7, <2>1 DEF MemoryInv, PortInv, RespawnsFirst
  <2>5. /\ HeldApart' /\ ClaimedApart' /\ NoneForgotten' /\ CallsFindTheirs'
        /\ EndpointsAreHeld' /\ ChildrenHaveTheirInstance'
    BY <1>7, <2>1 DEF MemoryInv, PortInv, HeldApart, ClaimedApart, NoneForgotten, CallsFindTheirs,
              EndpointsAreHeld, ChildrenHaveTheirInstance, LiveInstances, Building, Ending, InstanceOf
  <2> QED
    BY <2>2, <2>3, <2>4, <2>5 DEF MemoryInv, PortInv
<1> QED
  BY <1>1, <1>5, <1>6, <1>7

-----------------------------------------------------------------------------

LEMMA MemoryStarts == MemoryInit => MemoryInv
<1> SUFFICES ASSUME MemoryInit PROVE MemoryInv
  OBVIOUS
<1> USE DEF MemoryInit
<1>1. /\ \A c \in MemoryCalls : memoryCalls[c] = NoRow /\ ~Building(c) /\ ~Ending(c)
      /\ \A i \in MemoryInstances : memoryQueue[i] = <<>> /\ servers[i] = NoPort /\ degradedPorts[i] = NoPort
      /\ LiveInstances = {}
  BY DEF Building, Ending, LiveInstances
<1>2. MemoryTypeOK
  <2>1. <<>> \in Seq(MemoryCalls)
    OBVIOUS
  <2>2. foreignPorts \subseteq Ports
    OBVIOUS
  <2> QED
    BY <2>1, <2>2 DEF MemoryTypeOK
<1>3. KeyInv
  <2>1. <<>> \in Seq(MemoryCalls) /\ Len(<<>>) = 0
    OBVIOUS
  <2>2. \A i \in MemoryInstances : 1 .. Len(memoryQueue[i]) = {}
    BY <1>1, <2>1
  <2> QED
    BY <1>1, <1>2, <2>2 DEF KeyInv, MemoryTypeOK
<1>4. PortInv
  BY <1>1 DEF PortInv, HeldApart, ClaimedApart, NoneForgotten, CallsFindTheirs, RespawnsFirst,
              EndpointsAreHeld, ChildrenHaveTheirInstance
<1> QED
  BY <1>2, <1>3, <1>4 DEF MemoryInv

LEMMA MemoryStep == MemoryInv /\ [MemoryNext]_memoryVars => MemoryInv'
<1> SUFFICES ASSUME MemoryInv, [MemoryNext]_memoryVars PROVE MemoryInv'
  OBVIOUS
<1>1. CASE UNCHANGED memoryVars
  <2> USE <1>1 DEF memoryVars, memoryChildren, valkeyVars
  <2>1. MemoryTypeOK'
    BY DEF MemoryInv, MemoryTypeOK
  <2>2. KeyInv'
    BY DEF MemoryInv, KeyInv, InstanceOf
  <2>3. HeldApart' /\ ClaimedApart'
    BY DEF MemoryInv, PortInv, HeldApart, ClaimedApart, Building
  <2>4. NoneForgotten' /\ CallsFindTheirs'
    BY DEF MemoryInv, PortInv, NoneForgotten, CallsFindTheirs, LiveInstances, Building, Ending, InstanceOf
  <2>5. RespawnsFirst' /\ EndpointsAreHeld' /\ ChildrenHaveTheirInstance'
    BY DEF MemoryInv, PortInv, RespawnsFirst, EndpointsAreHeld, ChildrenHaveTheirInstance, LiveInstances
  <2> QED
    BY <2>1, <2>2, <2>3, <2>4, <2>5 DEF MemoryInv, PortInv
<1>2. ASSUME NEW c \in MemoryCalls, NEW r \in InstanceRequests, MemoryArrives(c, r) PROVE MemoryInv'
  BY <1>2, MemoryArrivesKeeps
<1>3. ASSUME NEW c \in MemoryCalls, MemoryTurn(c) PROVE MemoryInv'
  <2>1. CASE MemoryRefused(c)
    BY <2>1, RefusedKeeps
  <2>2. CASE ChangeMemory(c)
    BY <2>2, ChangeKeeps
  <2>3. CASE CreateMemory(c) \/ ProbeEnds(c) \/ ServerFails(c)
    BY <2>3, AllocationsKeep
  <2>4. CASE ServerStarts(c)
    BY <2>4, ServerStartsKeeps
  <2>5. CASE EndpointProbed(c)
    BY <2>5, EndpointProbedKeeps
  <2>6. CASE RolledBackCreate(c) \/ MemoryStopped(c)
    BY <2>6, StopsKeep
  <2>7. CASE \E kept \in BOOLEAN : DeleteMemory(c, kept)
    BY <2>7, DeleteKeeps
  <2> QED
    BY <1>3, <2>1, <2>2, <2>3, <2>4, <2>5, <2>6, <2>7 DEF MemoryTurn
<1>4. ASSUME NEW p \in ForeignRange, ForeignMoves(p) PROVE MemoryInv'
  BY <1>4, ForeignKeeps
<1>5. CASE MemoryRestarts
  BY <1>5, RestartsKeep
<1>6. ASSUME NEW i \in MemoryInstances, Respawns(i) PROVE MemoryInv'
  BY <1>6, RespawnsKeep
<1> QED
  BY <1>1, <1>2, <1>3, <1>4, <1>5, <1>6 DEF MemoryNext

LEMMA MemoryInvShows == MemoryInv => MemoryInvariant
<1> SUFFICES ASSUME MemoryInv PROVE PortsBelong
  BY DEF MemoryInv, PortInv, MemoryInvariant
<1>1. NoneForgotten /\ KeyInv
  BY DEF MemoryInv, PortInv
<1>2. ASSUME NEW i \in MemoryInstances \ LiveInstances, servers[i] # NoPort \/ degradedPorts[i] # NoPort
      PROVE  memoryQueue[i] # <<>> /\ memoryCalls[Head(memoryQueue[i])].stage \in {"rollback", "stop"}
  <2>1. PICK c \in MemoryCalls : Ending(c) /\ InstanceOf(c) = i
    BY <1>1, <1>2 DEF NoneForgotten
  <2>2. memoryCalls[c] # NoRow /\ memoryCalls[c].stage \in {"rollback", "stop"}
    BY <2>1 DEF Ending
  <2>3. /\ \E n \in 1 .. Len(memoryQueue[i]) : memoryQueue[i][n] = c
        /\ memoryQueue[i][1] = c
    <3>1. /\ \E n \in 1 .. Len(memoryQueue[InstanceOf(c)]) : memoryQueue[InstanceOf(c)][n] = c
          /\ memoryCalls[c].stage # "arrived" => memoryQueue[InstanceOf(c)][1] = c
      BY <1>1, <2>2, Zenon DEF KeyInv
    <3> QED
      BY <2>1, <2>2, <3>1
  <2>4. memoryQueue[i] \in Seq(MemoryCalls)
    BY <1>1 DEF KeyInv
  <2> DEFINE q == memoryQueue[i]
  <2> HIDE DEF q
  <2>5. q # <<>> /\ Head(q) = c
    BY <2>3, <2>4 DEF q
  <2> QED
    BY <2>2, <2>5 DEF q
<1> QED
  BY <1>1, <1>2 DEF PortsBelong, NoneForgotten

LEMMA MemoryHolds == MemorySpec => []MemoryInv
BY MemoryStarts, MemoryStep, PTL DEF MemorySpec

HIDE MemoryAssumption

-----------------------------------------------------------------------------
(* The policies: the same of their revisions and etags.                     *)

USE AclAssumption

(* An etag is newer than every one that clients have read or a policy has.   *)
AclInv ==
  /\ AclInvariant
  /\ \A p \in Policies : /\ policies[p] # NoRow => policies[p].etag <= etags
                         /\ \A view \in policyViews[p] : view.etag <= etags

LEMMA AclWrites ==
  ASSUME AclInv, NEW p \in Policies, NEW rules \in Rules, etags < MaxEtags,
         policies' = [policies EXCEPT ![p] = [rules |-> rules, etag |-> etags + 1]],
         SnapshotRules(p, rules), Shown(p, [rules |-> rules, etag |-> etags + 1]),
         etags' = etags + 1
  PROVE  AclInv'
<1> DEFINE row == [rules |-> rules, etag |-> etags + 1]
           last == Len(policyRevisions[p])
           revision == [number |-> last + 1, rules |-> rules]
<1>1. /\ etags \in Nat /\ etags + 1 \in 1 .. MaxEtags /\ etags' \in 0 .. MaxEtags
      /\ row \in PolicyRows /\ row # NoRow /\ row.etag = etags' /\ row.rules = rules
  BY DEF AclInv, AclInvariant, AclTypeOK, PolicyRows
<1> DEFINE Revisions == [number : 1 .. MaxEtags, rules : Rules]
<1>2. /\ policyRevisions \in [Policies -> Seq(Revisions)]
      /\ last \in Nat /\ last <= etags
  <2>1. policyRevisions \in [Policies -> Seq(Revisions)]
    BY DEF AclInv, AclInvariant, AclTypeOK
  <2>2. policyRevisions[p] \in Seq(Revisions)
    <3> HIDE DEF Revisions
    <3> QED
      BY <2>1
  <2>3. last \in Nat
    <3> HIDE DEF Revisions, row, revision
    <3> QED
      BY <2>2
  <2>4. CASE policies[p] = NoRow
    <3>1. (policies[p] = NoRow) <=> (Len(policyRevisions[p]) = 0)
      BY Zenon DEF AclInv, AclInvariant, RevisionsMatchPolicy
    <3>2. last = 0
      BY <2>4, <3>1
    <3> HIDE DEF Revisions, row, revision, last
    <3> QED
      BY <1>1, <2>1, <2>3, <3>2
  <2>5. CASE policies[p] # NoRow
    <3>1. /\ last <= policies[p].etag
          /\ policies[p].etag <= etags
          /\ policies[p] \in PolicyRows
      BY <2>5, Zenon DEF AclInv, AclInvariant, AclTypeOK, RevisionsMatchPolicy
    <3>2. policies[p].etag \in 1 .. MaxEtags
      BY <3>1 DEF PolicyRows
    <3> HIDE DEF Revisions, row, revision, last
    <3> QED
      BY <1>1, <2>1, <2>3, <3>1, <3>2
  <2> QED
    BY <2>4, <2>5
<1>3. revision \in Revisions
  BY <1>1, <1>2
<1>4. /\ policyRevisions' = [policyRevisions EXCEPT ![p] = Append(policyRevisions[p], revision)]
      /\ policyViews' = [policyViews EXCEPT ![p] = policyViews[p] \cup {row}]
      /\ policies' = [policies EXCEPT ![p] = row]
  BY DEF SnapshotRules, Shown
<1>5. /\ Append(policyRevisions[p], revision) \in Seq(Revisions)
      /\ Len(Append(policyRevisions[p], revision)) = last + 1
      /\ \A n \in 1 .. last : Append(policyRevisions[p], revision)[n] = policyRevisions[p][n]
      /\ Append(policyRevisions[p], revision)[last + 1] = revision
  <2> HIDE DEF revision, Revisions
  <2>1. policyRevisions[p] \in Seq(Revisions)
    BY <1>2
  <2> QED
    BY <1>3, <2>1, AppendProperties
<1> HIDE DEF row, revision, last
<1>6. AclTypeOK'
  BY <1>1, <1>4, <1>5, ZenonT(60) DEF AclInv, AclInvariant, AclTypeOK
<1>7. RevisionsMatchPolicy'
  <2> SUFFICES ASSUME NEW o \in Policies
               PROVE  /\ \A n \in 1 .. Len(policyRevisions'[o]) : policyRevisions'[o][n].number = n
                      /\ (policies'[o] = NoRow) <=> (Len(policyRevisions'[o]) = 0)
                      /\ policies'[o] # NoRow =>
                           /\ policyRevisions'[o][Len(policyRevisions'[o])].rules = policies'[o].rules
                           /\ Len(policyRevisions'[o]) <= policies'[o].etag
    BY DEF RevisionsMatchPolicy
  <2>1. CASE o # p
    BY <1>4, <2>1 DEF AclInv, AclInvariant, AclTypeOK, RevisionsMatchPolicy
  <2>2. CASE o = p
    <3>1. policies'[o] = row /\ policyRevisions'[o] = Append(policyRevisions[p], revision)
      BY <1>4, <2>2 DEF AclInv, AclInvariant, AclTypeOK
    <3>2. revision.number = last + 1 /\ revision.rules = rules
      BY DEF revision
    <3>3. \A n \in 1 .. last : policyRevisions[p][n].number = n
      BY DEF AclInv, AclInvariant, RevisionsMatchPolicy, last
    <3> QED
      BY <1>1, <1>2, <1>5, <3>1, <3>2, <3>3
  <2> QED
    BY <2>1, <2>2
<1>8. EtagShowsTheRules'
  BY <1>1, <1>4 DEF AclInv, AclInvariant, AclTypeOK, EtagShowsTheRules, PolicyRows
<1>9. \A o \in Policies : /\ policies'[o] # NoRow => policies'[o].etag <= etags'
                          /\ \A view \in policyViews'[o] : view.etag <= etags'
  BY <1>1, <1>4 DEF AclInv, AclInvariant, AclTypeOK, PolicyRows
<1> QED
  BY <1>6, <1>7, <1>8, <1>9 DEF AclInv, AclInvariant

LEMMA AclDeletes ==
  ASSUME AclInv, NEW p \in Policies, NEW etag, DeleteAclPolicy(p, etag)
  PROVE  AclInv'
<1> USE DEF DeleteAclPolicy
<1>0. <<>> \in Seq([number : 1 .. MaxEtags, rules : Rules])
  OBVIOUS
<1>1. AclTypeOK'
  BY <1>0 DEF AclInv, AclInvariant, AclTypeOK
<1>2. RevisionsMatchPolicy'
  BY DEF AclInv, AclInvariant, AclTypeOK, RevisionsMatchPolicy
<1>3. EtagShowsTheRules'
  BY DEF AclInv, AclInvariant, AclTypeOK, EtagShowsTheRules
<1>4. \A o \in Policies : /\ policies'[o] # NoRow => policies'[o].etag <= etags'
                          /\ \A view \in policyViews'[o] : view.etag <= etags'
  BY DEF AclInv, AclInvariant, AclTypeOK
<1> QED
  BY <1>1, <1>2, <1>3, <1>4 DEF AclInv, AclInvariant

LEMMA AclStep == AclInv /\ [AclNext]_aclVars => AclInv'
<1> SUFFICES ASSUME AclInv, [AclNext]_aclVars PROVE AclInv'
  OBVIOUS
<1>1. CASE UNCHANGED aclVars
  BY <1>1 DEF aclVars, AclInv, AclInvariant, AclTypeOK, RevisionsMatchPolicy, EtagShowsTheRules
<1>2. ASSUME NEW p \in Policies, NEW rules \in Rules, CreateAclPolicy(p, rules) \/ UpdateAclPolicy(p, rules)
      PROVE  AclInv'
  <2>1. /\ etags < MaxEtags /\ etags' = etags + 1
        /\ policies' = [policies EXCEPT ![p] = [rules |-> rules, etag |-> etags + 1]]
        /\ SnapshotRules(p, rules) /\ Shown(p, [rules |-> rules, etag |-> etags + 1])
    BY <1>2 DEF CreateAclPolicy, UpdateAclPolicy
  <2> QED
    BY <2>1, AclWrites
<1>3. ASSUME NEW p \in Policies, NEW etag, DeleteAclPolicy(p, etag)
      PROVE  AclInv'
  BY <1>3, AclDeletes
<1> QED
  BY <1>1, <1>2, <1>3 DEF AclNext

LEMMA AclHolds == AclSpec => []AclInv
<1>1. AclInit => AclInv
  BY DEF AclInit, AclInv, AclInvariant, AclTypeOK, RevisionsMatchPolicy, EtagShowsTheRules
<1> QED
  BY <1>1, AclStep, PTL DEF AclSpec

(* Memorystore, for any instances, requests, ranges of ports and policies,   *)
(* whatever storage, the servers and other processes do: no two instances    *)
(* hold a port, an instance that runs advertises the one it holds, no port   *)
(* is lost, no user or token outlives its instance; a policy's revisions are *)
(* its own, and an etag a client has read is that of the rules it read.      *)
THEOREM MemorystoreIsSound == MemorySpec /\ AclSpec => []MemorystoreInvariant
<1>1. AclInv => AclInvariant
  BY DEF AclInv
<1> QED
  BY <1>1, MemoryHolds, AclHolds, MemoryInvShows, PTL DEF MemorystoreInvariant
===========================================================================
