---------------------------- MODULE Memorystore -----------------------------
(***************************************************************************)
(* Memorystore for Valkey (services/memorystore): instances with a real      *)
(* valkey-server each, the token users, auth tokens and backups under them.  *)
(* Every change of an instance or of what is under it holds the instance's   *)
(* key of one ResourceMutex, through the real I/O it waits for: the probe    *)
(* of a port, the start and the exit of a server.                            *)
(*                                                                           *)
(* The data plane is on (without it an endpoint is a name and no server      *)
(* exists).  What the operating system's other processes listen on is        *)
(* foreignPorts, servers of an earlier life of the emulator included.        *)
(***************************************************************************)
EXTENDS Absent, Integers, Sequences, FiniteSets, Naturals

CONSTANTS
  MemoryInstances, MemoryCalls,
  PortRangeEnd,    (* the range is 1 .. PortRangeEnd                         *)
  HashPort,        (* deriveDeterministicPort()                              *)
  InstanceRequests, (* bound: the requests made                              *)
  ForeignRange     (* bound: the ports other processes come to listen on     *)

Ports == 1 .. PortRangeEnd
NoPort == 0

AllInstanceRequests ==
  [what : {"create", "delete", "backup", "deleteBackup", "addUser", "addToken", "deleteToken"},
   inst : MemoryInstances]
  \cup [what : {"protect"}, inst : MemoryInstances, on : BOOLEAN]
  \cup [what : {"deleteUser"}, inst : MemoryInstances, force : BOOLEAN]

(* The port of discoveryEndpoints and deletionProtectionEnabled.             *)
MemoryRows == [port : Ports, protected : BOOLEAN]
(* Stages of a call that holds its key: waiting for the probe of a port for  *)
(* a server, of the hash port or another for an endpoint, for the server, for*)
(* a server's exit.                                                          *)
CallStages == {"arrived", "probe", "start", "hash", "degrade", "rollback", "stop"}
MemoryRecords == [request : AllInstanceRequests, stage : CallStages, port : Ports \cup {NoPort},
                  undo : SUBSET {"row", "collection"}]

ASSUME MemoryAssumption ==
  /\ PortRangeEnd \in Nat
  /\ HashPort \in [MemoryInstances -> Ports]
  /\ InstanceRequests \subseteq AllInstanceRequests /\ ForeignRange \subseteq Ports
  /\ NoRow \notin MemoryRecords /\ NoRow \notin MemoryRows

VARIABLES
  memoryRows,    (* the instance rows                                        *)
  tokenUsers,    (* the instances with a row of a token user                 *)
  authTokens,    (* the instances with an auth token of that user            *)
  collections,   (* the instances with a backup collection                   *)
  memoryBackups, (* the instances with a backup                              *)
  memoryQueue,   (* the mutex: by instance, the holder and those behind it   *)
  memoryCalls,   (* the requests in flight                                   *)
  servers,       (* serversByInstanceName: the port, NoPort if none          *)
  degradedPorts, (* degradedPortsByInstanceName                              *)
  allocatedPorts,
  foreignPorts,  (* ports other processes listen on                          *)
  respawning,    (* the instances initialize() has still to respawn          *)
  stale          (* history: instances a restart left without a data plane   *)

memoryChildren == <<tokenUsers, authTokens, collections, memoryBackups>>
valkeyVars == <<servers, degradedPorts, allocatedPorts>>
memoryVars == <<memoryRows, memoryChildren, memoryQueue, memoryCalls, valkeyVars, foreignPorts,
                respawning, stale>>

MemoryInit ==
  /\ memoryRows = [i \in MemoryInstances |-> NoRow]
  /\ tokenUsers = {} /\ authTokens = {} /\ collections = {} /\ memoryBackups = {}
  /\ memoryQueue = [i \in MemoryInstances |-> <<>>]
  /\ memoryCalls = [c \in MemoryCalls |-> NoRow]
  /\ servers = [i \in MemoryInstances |-> NoPort] /\ degradedPorts = servers
  /\ allocatedPorts = {} /\ foreignPorts \in SUBSET ForeignRange
  /\ respawning = {} /\ stale = {}

MemoryOf(c) == memoryCalls[c].request
InstanceOf(c) == memoryCalls[c].request.inst
LiveInstances == {i \in MemoryInstances : memoryRows[i] # NoRow}

(* isPortListening(): a server of this process or another listens.           *)
Listened(p) == p \in foreignPorts \/ \E i \in MemoryInstances : servers[i] = p

-----------------------------------------------------------------------------
(* runExclusivelyPerName() and the requests of TokenAuthService.             *)
MemoryArrives(c, request) ==
  /\ memoryCalls[c] = NoRow /\ respawning = {}
  /\ memoryCalls' = [memoryCalls EXCEPT
       ![c] = [request |-> request, stage |-> "arrived", port |-> NoPort, undo |-> {}]]
  /\ memoryQueue' = [memoryQueue EXCEPT ![request.inst] = Append(@, c)]
  /\ UNCHANGED <<memoryRows, memoryChildren, valkeyVars, foreignPorts, respawning, stale>>

AtStageUnqueued(c, stage) ==  \* mutant: no mutex
  memoryCalls[c] # NoRow /\ memoryCalls[c].stage = stage

AtStage(c, stage) ==
  /\ memoryCalls[c] # NoRow /\ memoryCalls[c].stage = stage
  /\ Head(memoryQueue[InstanceOf(c)]) = c

MemoryAnswered(c) ==
  /\ memoryCalls' = [memoryCalls EXCEPT ![c] = NoRow]
  /\ memoryQueue' = [memoryQueue EXCEPT ![InstanceOf(c)] = Tail(@)]

Awaits(c, stage, port, undo) ==
  /\ memoryCalls' = [memoryCalls EXCEPT
       ![c] = [request |-> @.request, stage |-> stage, port |-> port, undo |-> undo]]
  /\ UNCHANGED memoryQueue

(* The checks of a request that has its turn.                                *)
MemoryAccepts(r) ==
  CASE r.what = "create"       -> r.inst \notin LiveInstances
    [] r.what = "delete"       -> r.inst \in LiveInstances /\ ~memoryRows[r.inst].protected
    [] r.what = "protect"      -> r.inst \in LiveInstances
    [] r.what = "backup"       -> r.inst \in LiveInstances \ memoryBackups
    [] r.what = "deleteBackup" -> r.inst \in memoryBackups
    [] r.what = "addUser"      -> r.inst \in LiveInstances \ tokenUsers
    [] r.what = "deleteUser"   -> r.inst \in tokenUsers /\ (r.inst \in authTokens => r.force)
    [] r.what = "addToken"     -> r.inst \in tokenUsers \ authTokens
    [] r.what = "deleteToken"  -> r.inst \in authTokens

MemoryRefused(c) ==
  /\ AtStage(c, "arrived") /\ ~MemoryAccepts(MemoryOf(c))
  /\ MemoryAnswered(c)
  /\ UNCHANGED <<memoryRows, memoryChildren, valkeyVars, foreignPorts, respawning, stale>>

-----------------------------------------------------------------------------
(* PortAllocator.allocate(): the port claimed to be probed next, of those    *)
(* after the last one tried.                                                 *)
NextPort(after, claimed) ==
  LET free == {p \in Ports \ claimed : p > after} IN
    IF free = {} THEN NoPort ELSE CHOOSE p \in free : \A q \in free : p <= q

(* claim(): before its probe, so that no other allocation tries it.          *)
Claims(c, stage, after, kept) ==
  LET p == NextPort(after, kept) IN
    p # NoPort /\ allocatedPorts' = kept \cup {p} /\ Awaits(c, stage, p, {})

(* buildDegradedEndpoint(): the hash port first, then the range.             *)
ClaimsDegraded(c, kept) ==
  LET hash == HashPort[InstanceOf(c)] IN
    \/ /\ hash \notin kept
       /\ allocatedPorts' = kept \cup {hash}
       /\ Awaits(c, "hash", hash, {})
    \/ hash \in kept /\ Claims(c, "degrade", NoPort, kept)

NoneLeft(c, kept) == kept = Ports /\ allocatedPorts' = kept /\ MemoryAnswered(c)

(* A start that cannot have a server: an endpoint only, or a refusal.        *)
Degrades(c, kept) == ClaimsDegraded(c, kept) \/ NoneLeft(c, kept)

CreateMemory(c) ==
  /\ AtStage(c, "arrived") /\ MemoryOf(c).what = "create" /\ MemoryAccepts(MemoryOf(c))
  /\ \/ Claims(c, "probe", NoPort, allocatedPorts)
     \/ Degrades(c, allocatedPorts)  \* no binary is found
  /\ UNCHANGED <<memoryRows, memoryChildren, servers, degradedPorts, foreignPorts, respawning, stale>>

(* The probe for a server ends: the server is spawned, or the next is tried. *)
ProbeEnds(c) ==
  /\ AtStage(c, "probe")
  /\ LET p == memoryCalls[c].port
         kept == allocatedPorts \ {p} IN
       \/ ~Listened(p) /\ allocatedPorts' = allocatedPorts \cup {p} /\ Awaits(c, "start", p, {})
       \/ /\ Listened(p)
          /\ \/ Claims(c, "probe", p, kept)
             \/ NextPort(p, kept) = NoPort /\ Degrades(c, kept)
  /\ UNCHANGED <<memoryRows, memoryChildren, servers, degradedPorts, foreignPorts, respawning, stale>>

(* createInstanceExclusively() once it has an endpoint: row, collection and  *)
(* operation, or the failure of storage at one of them.                      *)
Persists(c, i, port) ==
  LET makes == IF i \in collections THEN {} ELSE {"collection"} IN
    \/ /\ memoryRows' = [memoryRows EXCEPT ![i] = [port |-> port, protected |-> FALSE]]
       /\ collections' = collections \cup {i}
       /\ stale' = stale \ {i}
       /\ MemoryAnswered(c)
    \/ \E done \in {{}, {"row"}, {"row"} \cup makes} :
         /\ memoryRows' = IF "row" \in done
                          THEN [memoryRows EXCEPT ![i] = [port |-> port, protected |-> FALSE]]
                          ELSE memoryRows
         /\ collections' = IF "collection" \in done THEN collections \cup {i} ELSE collections
         /\ Awaits(c, "rollback", NoPort, done)
         /\ UNCHANGED stale

(* waitUntilPortIsListening(): the server answers, or it has exited or time  *)
(* is up and its exit is awaited.                                            *)
ServerStarts(c) ==
  /\ AtStage(c, "start") /\ memoryCalls[c].port \notin foreignPorts
  /\ servers' = [servers EXCEPT ![InstanceOf(c)] = memoryCalls[c].port]
  /\ Persists(c, InstanceOf(c), memoryCalls[c].port)
  /\ UNCHANGED <<tokenUsers, authTokens, memoryBackups, degradedPorts, allocatedPorts, foreignPorts, respawning>>

ServerFails(c) ==
  /\ AtStage(c, "start")
  /\ Degrades(c, allocatedPorts \ {memoryCalls[c].port})
  /\ UNCHANGED <<memoryRows, memoryChildren, servers, degradedPorts, foreignPorts, respawning, stale>>

(* The probe for an endpoint ends; after the hash port's the scan starts at  *)
(* the first.                                                                *)
EndpointProbed(c) ==
  /\ AtStage(c, "hash") \/ AtStage(c, "degrade")
  /\ LET p == memoryCalls[c].port
         kept == allocatedPorts \ {p}
         after == IF memoryCalls[c].stage = "degrade" THEN p ELSE NoPort IN
       \/ /\ ~Listened(p)
          /\ degradedPorts' = [degradedPorts EXCEPT ![InstanceOf(c)] = p]
          /\ allocatedPorts' = allocatedPorts \cup {p}
          /\ Persists(c, InstanceOf(c), p)
       \/ /\ Listened(p)
          /\ \/ Claims(c, "degrade", after, kept)
             \/ NextPort(after, kept) = NoPort /\ allocatedPorts' = kept /\ MemoryAnswered(c)
          /\ UNCHANGED <<memoryRows, collections, degradedPorts, stale>>
  /\ UNCHANGED <<tokenUsers, authTokens, memoryBackups, servers, foreignPorts, respawning>>

-----------------------------------------------------------------------------
(* stopServerForInstance(): an endpoint is given back, a server's exit is    *)
(* awaited.                                                                  *)
Stopped(i) ==
  /\ servers' = [servers EXCEPT ![i] = NoPort]
  /\ degradedPorts' = [degradedPorts EXCEPT ![i] = NoPort]
  /\ allocatedPorts' = allocatedPorts \ {servers[i], degradedPorts[i]}

(* The rollback of a create whose storage failed.                            *)
RolledBackCreate(c) ==
  /\ AtStage(c, "rollback")
  /\ Stopped(InstanceOf(c)) /\ MemoryAnswered(c)
  /\ collections' = IF "collection" \in memoryCalls[c].undo
                    THEN collections \ {InstanceOf(c)} ELSE collections
  /\ memoryRows' = [memoryRows EXCEPT ![InstanceOf(c)] = NoRow]
  /\ UNCHANGED <<tokenUsers, authTokens, memoryBackups, foreignPorts, respawning, stale>>

(* deleteInstanceExclusively(): users and tokens, the row, then the server.  *)
(* kept: storage fails at the row.                                           *)
DeleteMemory(c, kept) ==
  /\ AtStage(c, "arrived") /\ MemoryOf(c).what = "delete" /\ MemoryAccepts(MemoryOf(c))
  /\ tokenUsers' = tokenUsers \ {InstanceOf(c)} /\ authTokens' = authTokens \ {InstanceOf(c)}
  /\ \/ kept /\ MemoryAnswered(c) /\ UNCHANGED memoryRows
     \/ /\ ~kept /\ Awaits(c, "stop", NoPort, {})
        /\ memoryRows' = [memoryRows EXCEPT ![InstanceOf(c)] = NoRow]
  /\ UNCHANGED <<collections, memoryBackups, valkeyVars, foreignPorts, respawning, stale>>

MemoryStopped(c) ==
  /\ AtStage(c, "stop")
  /\ Stopped(InstanceOf(c)) /\ MemoryAnswered(c)
  /\ UNCHANGED <<memoryRows, memoryChildren, foreignPorts, respawning, stale>>

(* updateInstanceExclusively(), backupInstanceExclusively(), BackupService   *)
(* (deleteBackup needs no key, and takes it here) and TokenAuthService.      *)
ChangeMemory(c) ==
  LET r == MemoryOf(c)
      Changed(set, adds, removes) ==
        IF r.what = adds THEN set \cup {r.inst} ELSE IF r.what \in removes THEN set \ {r.inst} ELSE set IN
  /\ AtStage(c, "arrived") /\ r.what \notin {"create", "delete"} /\ MemoryAccepts(r)
  /\ memoryRows' = IF r.what = "protect" THEN [memoryRows EXCEPT ![r.inst].protected = r.on] ELSE memoryRows
  /\ tokenUsers' = Changed(tokenUsers, "addUser", {"deleteUser"})
  /\ authTokens' = Changed(authTokens, "addToken", {"deleteToken", "deleteUser"})
  /\ memoryBackups' = Changed(memoryBackups, "backup", {"deleteBackup"})
  /\ collections' = Changed(collections, "backup", {})
  /\ MemoryAnswered(c)
  /\ UNCHANGED <<valkeyVars, foreignPorts, respawning, stale>>

-----------------------------------------------------------------------------
(* The process ends, in order or not: a server that is being waited for, or  *)
(* that nobody stops, goes on.                                               *)
MemoryRestarts ==
  /\ memoryCalls' = [c \in MemoryCalls |-> NoRow]
  /\ memoryQueue' = [i \in MemoryInstances |-> <<>>]
  /\ \E inOrder \in BOOLEAN :
       LET waitedFor == {c \in MemoryCalls : memoryCalls[c] # NoRow /\ memoryCalls[c].stage = "start"}
           recorded == {servers[i] : i \in MemoryInstances} \ {NoPort}
       IN  foreignPorts' = foreignPorts \cup {memoryCalls[c].port : c \in waitedFor}
                           \cup (IF inOrder THEN {} ELSE recorded)
  /\ servers' = [i \in MemoryInstances |-> NoPort] /\ degradedPorts' = servers'
  /\ allocatedPorts' = {}
  /\ respawning' = LiveInstances /\ stale' = LiveInstances
  /\ UNCHANGED <<memoryRows, memoryChildren>>

(* respawnDataPlaneForInstance(), one after the other before a request is    *)
(* taken.  Nothing else asks for ports then, so an allocation is one step.   *)
Respawns(i) ==
  LET free == {p \in Ports \ allocatedPorts : ~Listened(p)}
      first == NextPort(NoPort, Ports \ free)
      endpoint == IF HashPort[i] \in free THEN HashPort[i] ELSE first
      Gets(p) == /\ allocatedPorts' = allocatedPorts \cup {p}
                 /\ memoryRows' = [memoryRows EXCEPT ![i].port = p]
                 /\ stale' = stale \ {i} IN
  /\ i \in respawning /\ respawning' = respawning \ {i}
  /\ \/ /\ first # NoPort /\ Gets(first)
        /\ servers' = [servers EXCEPT ![i] = first] /\ UNCHANGED degradedPorts
     \/ /\ endpoint # NoPort /\ Gets(endpoint)
        /\ degradedPorts' = [degradedPorts EXCEPT ![i] = endpoint] /\ UNCHANGED servers
     \/ \* the ports are out, or the row cannot be written and the server is stopped
        UNCHANGED <<memoryRows, servers, degradedPorts, allocatedPorts, stale>>
  /\ UNCHANGED <<memoryChildren, memoryQueue, memoryCalls, foreignPorts>>

(* Other processes of the machine come and go.                               *)
ForeignMoves(p) ==
  /\ \/ p \in foreignPorts /\ foreignPorts' = foreignPorts \ {p}
     \/ ~Listened(p) /\ foreignPorts' = foreignPorts \cup {p}
  /\ UNCHANGED <<memoryRows, memoryChildren, memoryQueue, memoryCalls, valkeyVars, respawning, stale>>

MemoryTurn(c) ==
  \/ MemoryRefused(c) \/ ChangeMemory(c)
  \/ CreateMemory(c) \/ ProbeEnds(c) \/ ServerStarts(c) \/ ServerFails(c) \/ EndpointProbed(c)
  \/ RolledBackCreate(c) \/ MemoryStopped(c)
  \/ \E kept \in BOOLEAN : DeleteMemory(c, kept)

MemoryNext ==
  \/ \E c \in MemoryCalls : \E r \in InstanceRequests : MemoryArrives(c, r)
  \/ \E c \in MemoryCalls : MemoryTurn(c)
  \/ \E p \in ForeignRange : ForeignMoves(p)
  \/ MemoryRestarts
  \/ \E i \in MemoryInstances : Respawns(i)

MemorySpec == MemoryInit /\ [][MemoryNext]_memoryVars

-----------------------------------------------------------------------------

MemoryTypeOK ==
  /\ memoryRows \in [MemoryInstances -> MemoryRows \cup {NoRow}]
  /\ \A set \in {tokenUsers, authTokens, collections, memoryBackups, respawning, stale} : set \subseteq MemoryInstances
  /\ memoryQueue \in [MemoryInstances -> Seq(MemoryCalls)]
  /\ memoryCalls \in [MemoryCalls -> MemoryRecords \cup {NoRow}]
  /\ servers \in [MemoryInstances -> Ports \cup {NoPort}]
  /\ degradedPorts \in [MemoryInstances -> Ports \cup {NoPort}]
  /\ allocatedPorts \subseteq Ports /\ foreignPorts \subseteq Ports

(* The port an instance advertises is its own, held by its server or kept    *)
(* for it, and no other has it: "a port already bound by a DIFFERENT         *)
(* instance's live valkey-server must never be advertised"                   *)
(* (valkey-process-manager.ts lines 222-230).  Left out are the instances a  *)
(* restart could not serve, and those whose create is being undone.          *)
EndpointsAreHeld ==
  \A i \in LiveInstances \ stale :
    LET p == memoryRows[i].port IN
      /\ servers[i] = p \/ degradedPorts[i] = p
      /\ p \in allocatedPorts
      /\ \A o \in MemoryInstances \ {i} : servers[o] # p /\ degradedPorts[o] # p

(* A server and a reservation belong to an instance with a row, or to the    *)
(* call that makes or removes it: none is lost (lines 188-206).              *)
PortsBelong ==
  /\ \A i \in MemoryInstances \ LiveInstances :
       servers[i] # NoPort \/ degradedPorts[i] # NoPort =>
         memoryQueue[i] # <<>> /\ memoryCalls[Head(memoryQueue[i])].stage \in {"rollback", "stop"}
  /\ \A p \in allocatedPorts :
       \/ \E i \in MemoryInstances : p \in {servers[i], degradedPorts[i]}
       \/ \E c \in MemoryCalls : memoryCalls[c] # NoRow /\ memoryCalls[c].port = p

(* No user is left under an instance that is gone and no token under a user  *)
(* that is gone (instance-service.ts lines 493-498), and a collection stays  *)
(* as long as its backups (lines 190-196).                                   *)
ChildrenHaveTheirInstance ==
  /\ tokenUsers \subseteq LiveInstances /\ authTokens \subseteq tokenUsers
  /\ memoryBackups \subseteq collections

(* What lines 222-230 promise, over restarts as well.                        *)
AdvertisedOnce ==
  respawning = {} => \A i, o \in LiveInstances : memoryRows[i].port = memoryRows[o].port => i = o

(* Rows, servers and ports of Memorystore agree.                             *)
MemoryInvariant ==
  MemoryTypeOK /\ EndpointsAreHeld /\ PortsBelong /\ ChildrenHaveTheirInstance
-----------------------------------------------------------------------------
(***************************************************************************)
(* ACL policies of Memorystore (AclPolicyService and its repository): each   *)
(* change of the rules leaves a revision, numbered by a count of those       *)
(* there are, and gives the policy a new etag.  A request is one step: it    *)
(* waits for storage only.                                                   *)
(***************************************************************************)

CONSTANTS
  Policies, Rules,
  MaxEtags         (* bound: etags given, to all policies and over time      *)

PolicyRows == [rules : Rules, etag : 1 .. MaxEtags]

ASSUME AclAssumption == MaxEtags \in Nat /\ NoRow \notin PolicyRows

VARIABLES
  policies,        (* the rows                                               *)
  policyRevisions, (* by policy: number and rules of each, by createdAt      *)
  etags,           (* history: the etags given, a new one for each uuid      *)
  policyViews      (* history: what clients read of the policies             *)
aclVars == <<policies, policyRevisions, etags, policyViews>>

AclInit ==
  /\ policies = [p \in Policies |-> NoRow]
  /\ policyRevisions = [p \in Policies |-> <<>>]
  /\ etags = 0
  /\ policyViews = [p \in Policies |-> {}]

(* snapshotRevision(): countRevisionsForPolicy() + 1.                        *)
SnapshotRules(p, rules) ==
  policyRevisions' = [policyRevisions EXCEPT ![p] = Append(@, [number |-> Len(@) + 1, rules |-> rules])]

(* The answer to create, update and get shows rules and etag.                *)
Shown(p, row) == policyViews' = [policyViews EXCEPT ![p] = @ \cup {row}]

CreateAclPolicy(p, rules) ==
  /\ policies[p] = NoRow /\ etags < MaxEtags
  /\ etags' = etags + 1
  /\ LET row == [rules |-> rules, etag |-> etags'] IN
       /\ policies' = [policies EXCEPT ![p] = row]
       /\ SnapshotRules(p, rules) /\ Shown(p, row)

(* updateAclPolicy() with rules; without them it changes nothing.            *)
UpdateAclPolicy(p, rules) ==
  /\ policies[p] # NoRow /\ etags < MaxEtags
  /\ etags' = etags + 1
  /\ LET row == [rules |-> rules, etag |-> etags'] IN
       /\ policies' = [policies EXCEPT ![p] = row]
       /\ SnapshotRules(p, rules) /\ Shown(p, row)

(* ABORTED for an etag that is not the current one; none is not compared.    *)
DeleteAclPolicy(p, etag) ==
  /\ policies[p] # NoRow /\ etag \in {0, policies[p].etag}
  /\ policies' = [policies EXCEPT ![p] = NoRow]
  /\ policyRevisions' = [policyRevisions EXCEPT ![p] = <<>>]
  /\ UNCHANGED <<etags, policyViews>>

AclNext ==
  \E p \in Policies :
    \/ \E rules \in Rules : CreateAclPolicy(p, rules) \/ UpdateAclPolicy(p, rules)
    \/ \E etag \in {0} \cup {v.etag : v \in policyViews[p]} : DeleteAclPolicy(p, etag)

AclSpec == AclInit /\ [][AclNext]_aclVars

AclTypeOK ==
  /\ policies \in [Policies -> PolicyRows \cup {NoRow}]
  /\ policyRevisions \in [Policies -> Seq([number : 1 .. MaxEtags, rules : Rules])]
  /\ etags \in 0 .. MaxEtags
  /\ policyViews \in [Policies -> SUBSET PolicyRows]

(* "Orphaning them would resurrect a deleted policy's rules under a newly-   *)
(* created policy of the same name" (acl-policy-repository.ts lines 97-98):  *)
(* the revisions are the policy's own, and as numbered as the changes are.   *)
RevisionsMatchPolicy ==
  \A p \in Policies :
    LET last == Len(policyRevisions[p]) IN
      /\ \A n \in 1 .. last : policyRevisions[p][n].number = n
      /\ (policies[p] = NoRow) <=> (last = 0)
      /\ policies[p] # NoRow =>
           policyRevisions[p][last].rules = policies[p].rules /\ last <= policies[p].etag

(* A delete with the etag a client read removes what that client read: it is *)
(* not "captured before any number of intervening updates"                   *)
(* (acl-policy-service.ts lines 117-120).                                    *)
EtagShowsTheRules ==
  \A p \in Policies : policies[p] # NoRow =>
    \A view \in policyViews[p] : view.etag = policies[p].etag => view = policies[p]

(* Policies, their revisions and their etags agree.                          *)
AclInvariant == AclTypeOK /\ RevisionsMatchPolicy /\ EtagShowsTheRules

(* Instances and their ports, policies and their revisions.                  *)
MemorystoreInvariant == MemoryInvariant /\ AclInvariant
=============================================================================
