------------------------------ MODULE DataPlane ------------------------------
(***************************************************************************)
(* DataPlaneManager (shared/postgres-data-plane/data-plane-manager.ts) with  *)
(* the ResourceMutex and the PortAllocator it owns (shared/utils/), over     *)
(* the database manager, module DatabaseManager.                             *)
(*                                                                           *)
(* Each caller, an API request, makes one call of the facade at a time and   *)
(* any number of them; Shutdown is the caller that runs stopAll().  Waits    *)
(* end a step: for the mutex, an engine's boot or close, the removal of      *)
(* files, and the probe of a port.  Whether a probe finds a listener and     *)
(* whether a bind succeeds is up to the machine.                             *)
(*                                                                           *)
(* The mutex is a chain of promises: a call waits for its predecessor, the   *)
(* call that was the tail of its key when it came.                           *)
(***************************************************************************)
EXTENDS Integers, FiniteSets

CONSTANTS
  Instances, Names, NoId,  (* as in DatabaseManager                          *)
  Requesters, Shutdown,    (* callers                                        *)
  NoCaller,
  Requests,                (* the calls made: [kind, instance, names]        *)
  MaxPort                  (* the range of ports is 1..MaxPort               *)

Callers == Requesters \cup {Shutdown}
Ports == 1 .. MaxPort
NoPort == 0

VARIABLES
  databases, opening, discarding, dropping, files, op, outcome, owed, (* DatabaseManager *)
  instances,      (* instances: port and databases, port = NoPort if absent  *)
  allocatedPorts, (* PortAllocator.allocatedPorts                            *)
  tail,           (* ResourceMutex.tailByKey                                 *)
  predecessor,    (* the call whose end a call waits for                     *)
  work,           (* how far each caller's call has come                     *)
  stopping        (* how far stopAll() has come, and what it has to stop     *)

Manager == INSTANCE DatabaseManager

Kinds == {"start", "stop", "dropInstance", "openDatabase", "dropDatabase"}

ASSUME DataPlaneAssumption ==
  /\ Manager!Keys \cap Instances = {} /\ NoId \notin Manager!Ids /\ Names # {}
  /\ Instances # {} /\ Shutdown \notin Requesters /\ NoCaller \notin Callers
  /\ Requests \subseteq [kind : Kinds, instance : Instances, names : SUBSET Names]
  /\ \A r \in Requests :
       r.kind \in {"openDatabase", "dropDatabase"} => \E n \in Names : r.names = {n}
  /\ MaxPort \in Nat

managerVars == <<databases, opening, discarding, dropping, files, op, outcome, owed>>
mutexVars == <<tail, predecessor>>
vars == <<managerVars, instances, allocatedPorts, mutexVars, work, stopping>>

Absent == [port |-> NoPort, databases |-> {}]
IsRunning(i) == instances[i].port # NoPort

(* step: where the call waits.  todo: databases to open or close; booting:   *)
(* the one being opened; opened: startInstanceLocked's `opened`; port: the   *)
(* port held; preferred: previousPort; next: the first port of the range     *)
(* still to try, or NoPort before the preferred one; refused: ports that did *)
(* not bind.                                                                 *)
Steps == {"idle", "queued", "closing", "opening", "claiming", "probing", "unwinding",
          "removing", "returning"}
Work == [kind : Kinds, instance : Instances, names : SUBSET Names, step : Steps,
         todo : SUBSET Names, booting : SUBSET Names, opened : SUBSET Names,
         port : Ports \cup {NoPort}, preferred : Ports \cup {NoPort},
         next : 0 .. MaxPort + 1, refused : SUBSET Ports]

Start(request, step) ==
  [kind |-> request.kind, instance |-> request.instance, names |-> request.names,
   step |-> step, todo |-> {}, booting |-> {}, opened |-> {}, port |-> NoPort,
   preferred |-> NoPort, next |-> NoPort, refused |-> {}]

Idle == Start([kind |-> "stop", instance |-> CHOOSE i \in Instances : TRUE,
               names |-> {}], "idle")

Init ==
  /\ Manager!Init
  /\ instances = [i \in Instances |-> Absent]
  /\ allocatedPorts = {}
  /\ tail = [i \in Instances |-> NoCaller]
  /\ predecessor = [c \in Callers |-> NoCaller]
  /\ work = [c \in Callers |-> Idle]
  /\ stopping = [step |-> "no", todo |-> {}]

-----------------------------------------------------------------------------
(* ResourceMutex.runExclusively()                                            *)

Queue(c, request) ==
  /\ work[c].step = "idle"
  /\ work' = [work EXCEPT ![c] = Start(request, "queued")]
  /\ predecessor' = [predecessor EXCEPT ![c] = tail[request.instance]]
  /\ tail' = [tail EXCEPT ![request.instance] = c]
  /\ UNCHANGED <<managerVars, instances, allocatedPorts>>

BeginAtOnce(c) == work[c].step = "queued"  \* mutant: no mutex

(* The predecessor settled, whether it resolved or rejected.                 *)
MayBegin(c) == work[c].step = "queued" /\ predecessor[c] = NoCaller

ReturnForgetting(c) ==  \* mutant: the key is forgotten though others wait for it
  /\ work[c].step = "returning"
  /\ work' = [work EXCEPT ![c] = Idle]
  /\ predecessor' = [d \in Callers |-> IF predecessor[d] = c THEN NoCaller ELSE predecessor[d]]
  /\ tail' = [tail EXCEPT ![work[c].instance] = NoCaller]
  /\ UNCHANGED <<managerVars, instances, allocatedPorts, stopping>>

ReturnIfResolved(c) ==  \* mutant: then(operation) without the second handler
  LET rejected == work[c].kind = "start" /\ ~IsRunning(work[c].instance)
  IN
  /\ work[c].step = "returning"
  /\ work' = [work EXCEPT ![c] = Idle]
  /\ predecessor' = [d \in Callers |->
       IF predecessor[d] = c /\ ~rejected THEN NoCaller ELSE predecessor[d]]
  /\ tail' = [i \in Instances |-> IF tail[i] = c THEN NoCaller ELSE tail[i]]
  /\ UNCHANGED <<managerVars, instances, allocatedPorts, stopping>>

(* The call settles: the next one may begin, and the key of the last one is  *)
(* forgotten.                                                                *)
Return(c) ==
  /\ work[c].step = "returning"
  /\ work' = [work EXCEPT ![c] = Idle]
  /\ predecessor' = [d \in Callers |-> IF predecessor[d] = c THEN NoCaller ELSE predecessor[d]]
  /\ tail' = [i \in Instances |-> IF tail[i] = c THEN NoCaller ELSE tail[i]]
  /\ UNCHANGED <<managerVars, instances, allocatedPorts, stopping>>

-----------------------------------------------------------------------------
(* stopInstanceLocked(), the first half of startInstanceLocked() and of      *)
(* dropInstanceLocked().                                                     *)

Goes(c, step) == work' = [work EXCEPT ![c].step = step]

Closing(c, step, names) ==
  work' = [work EXCEPT ![c].step = step, ![c].todo = names,
                       ![c].port = instances[work[c].instance].port]

StopsFirst == {"start", "stop", "dropInstance"}

StopListener(c) ==
  /\ MayBegin(c) /\ work[c].kind \in StopsFirst /\ IsRunning(work[c].instance)
  /\ instances' = [instances EXCEPT ![work[c].instance] = Absent]
  /\ Closing(c, "closing", instances[work[c].instance].databases)
  /\ UNCHANGED <<managerVars, allocatedPorts, mutexVars, stopping>>

CloseNext(c) ==
  /\ work[c].step \in {"closing", "unwinding"}
  /\ \E n \in work[c].todo :
       /\ Manager!CallClose(c, <<work[c].instance, n>>)
       /\ work' = [work EXCEPT ![c].todo = @ \ {n}]
  /\ UNCHANGED <<instances, allocatedPorts, mutexVars, stopping>>

IsDone(c) == work[c].todo = {} /\ op[c] = Manager!NoOp

OpenAll(c, previousPort) ==
  work' = [work EXCEPT ![c].step = "opening", ![c].todo = work[c].names,
                       ![c].port = NoPort, ![c].preferred = previousPort]

(* databaseManager.dropInstance(), after the instance has stopped.           *)
RemoveInstance(c) ==
  /\ Manager!CallDropInstance(c, work[c].instance)
  /\ work' = [work EXCEPT ![c].step = "removing", ![c].port = NoPort]

KeepPort(c) == UNCHANGED allocatedPorts  \* mutant: the port is not given back

ReleasePort(c) == allocatedPorts' = allocatedPorts \ {work[c].port}

StoppedStart(c) ==
  /\ work[c].step = "closing" /\ IsDone(c) /\ work[c].kind = "start"
  /\ ReleasePort(c)
  /\ OpenAll(c, work[c].port)
  /\ UNCHANGED <<managerVars, instances, mutexVars, stopping>>

StoppedDrop(c) ==
  /\ work[c].step = "closing" /\ IsDone(c) /\ work[c].kind = "dropInstance"
  /\ ReleasePort(c)
  /\ RemoveInstance(c)
  /\ UNCHANGED <<instances, mutexVars, stopping>>

Stopped(c) ==
  /\ work[c].step = "closing" /\ IsDone(c) /\ work[c].kind = "stop"
  /\ ReleasePort(c)
  /\ work' = [work EXCEPT ![c].step = "returning", ![c].port = NoPort]
  /\ UNCHANGED <<managerVars, instances, mutexVars, stopping>>

(* The same three when nothing is running.                                   *)
BeginStart(c) ==
  /\ MayBegin(c) /\ work[c].kind = "start" /\ ~IsRunning(work[c].instance)
  /\ OpenAll(c, NoPort)
  /\ UNCHANGED <<managerVars, instances, allocatedPorts, mutexVars, stopping>>

BeginDrop(c) ==
  /\ MayBegin(c) /\ work[c].kind = "dropInstance" /\ ~IsRunning(work[c].instance)
  /\ RemoveInstance(c)
  /\ UNCHANGED <<instances, allocatedPorts, mutexVars, stopping>>

NothingToDo(c) ==
  /\ MayBegin(c) /\ work[c].kind \in {"stop", "openDatabase"}
  /\ ~IsRunning(work[c].instance)
  /\ Goes(c, "returning")
  /\ UNCHANGED <<managerVars, instances, allocatedPorts, mutexVars, stopping>>

-----------------------------------------------------------------------------
(* startInstanceLocked(): databases first, then a port.                      *)

OpenNext(c) ==
  /\ work[c].step = "opening" /\ work[c].booting = {}
  /\ \E n \in work[c].todo :
       /\ Manager!CallOpen(c, <<work[c].instance, n>>)
       /\ work' = [work EXCEPT ![c].todo = @ \ {n}, ![c].booting = {n}]
  /\ UNCHANGED <<instances, allocatedPorts, mutexVars, stopping>>

Opened(c) ==
  /\ work[c].step = "opening" /\ work[c].booting # {} /\ op[c] = Manager!NoOp
  /\ outcome[c] = "ok"
  /\ work[c].kind = "start"
  /\ work' = [work EXCEPT ![c].booting = {}, ![c].opened = @ \cup work[c].booting]
  /\ UNCHANGED <<managerVars, instances, allocatedPorts, mutexVars, stopping>>

UnwindNothing(c) ==  \* mutant: a failed start leaves its databases open
  work' = [work EXCEPT ![c].step = "returning"]

(* The databases opened so far are closed and the start throws.              *)
Unwind(c) ==
  work' = [work EXCEPT ![c].step = "unwinding", ![c].todo = work[c].opened,
                       ![c].booting = {}, ![c].refused = {}]

OpenFails(c) ==
  /\ work[c].step = "opening" /\ work[c].booting # {} /\ op[c] = Manager!NoOp
  /\ outcome[c] = "failed"
  /\ work[c].kind = "start"
  /\ Unwind(c)
  /\ UNCHANGED <<managerVars, instances, allocatedPorts, mutexVars, stopping>>

Unwound(c) ==
  /\ work[c].step = "unwinding" /\ IsDone(c)
  /\ Goes(c, "returning")
  /\ UNCHANGED <<managerVars, instances, allocatedPorts, mutexVars, stopping>>

AllOpen(c) ==
  /\ work[c].step = "opening" /\ work[c].booting = {} /\ work[c].todo = {}
  /\ Goes(c, "claiming")
  /\ UNCHANGED <<managerVars, instances, allocatedPorts, mutexVars, stopping>>

(* allocate(): the preferred port, then the range from its start, without    *)
(* those already claimed.                                                    *)
Untried(c) ==
  LET w == work[c]
  IN IF w.next = NoPort /\ w.preferred \in Ports \ allocatedPorts THEN {w.preferred}
     ELSE {p \in Ports \ allocatedPorts : p >= w.next}

ClaimPort(c) ==
  /\ work[c].step = "claiming"
  /\ \E p \in Untried(c) :
       /\ \A q \in Untried(c) : p <= q
       /\ allocatedPorts' = allocatedPorts \cup {p}
       /\ work' = [work EXCEPT ![c].step = "probing", ![c].port = p]
  /\ UNCHANGED <<managerVars, instances, mutexVars, stopping>>

(* Something else listens there.                                             *)
PortIsTaken(c) ==
  LET w == work[c]
      wasPreferred == w.next = NoPort /\ w.port = w.preferred
  IN
  /\ w.step = "probing"
  /\ allocatedPorts' = allocatedPorts \ {w.port}
  /\ work' = [work EXCEPT ![c].step = "claiming", ![c].port = NoPort,
                          ![c].next = IF wasPreferred THEN 1 ELSE w.port + 1]
  /\ UNCHANGED <<managerVars, instances, mutexVars, stopping>>

(* allocateBound(): the port stays claimed and allocate() starts over.       *)
BindFails(c) ==
  /\ work[c].step = "probing"
  /\ work' = [work EXCEPT ![c].step = "claiming", ![c].port = NoPort, ![c].next = NoPort,
                          ![c].refused = @ \cup {work[c].port}]
  /\ UNCHANGED <<managerVars, instances, allocatedPorts, mutexVars, stopping>>

(* The instance is published.                                                *)
BindSucceeds(c) ==
  LET w == work[c] IN
  /\ w.step = "probing"
  /\ instances' = [instances EXCEPT ![w.instance] =
                     [port |-> w.port, databases |-> w.opened]]
  /\ allocatedPorts' = allocatedPorts \ w.refused
  /\ work' = [work EXCEPT ![c].step = "returning", ![c].port = NoPort, ![c].refused = {}]
  /\ UNCHANGED <<managerVars, mutexVars, stopping>>

NoPortIsLeft(c) ==
  /\ work[c].step = "claiming" /\ Untried(c) = {}
  /\ allocatedPorts' = allocatedPorts \ work[c].refused
  /\ Unwind(c)
  /\ UNCHANGED <<managerVars, instances, mutexVars, stopping>>

-----------------------------------------------------------------------------
(* openDatabaseLocked(), dropDatabase()                                      *)

BeginOpenDatabase(c) ==
  LET w == work[c] IN
  /\ MayBegin(c) /\ w.kind = "openDatabase" /\ IsRunning(w.instance)
  /\ \E n \in w.names : Manager!CallOpen(c, <<w.instance, n>>)
  /\ work' = [work EXCEPT ![c].step = "opening", ![c].booting = w.names]
  /\ UNCHANGED <<instances, allocatedPorts, mutexVars, stopping>>

OpenDatabaseReturns(c) ==
  LET w == work[c] IN
  /\ w.kind = "openDatabase" /\ w.step = "opening" /\ op[c] = Manager!NoOp
  /\ instances' = [instances EXCEPT ![w.instance].databases =
                     IF outcome[c] = "ok" THEN @ \cup w.names ELSE @]
  /\ work' = [work EXCEPT ![c].step = "returning", ![c].booting = {}]
  /\ UNCHANGED <<managerVars, allocatedPorts, mutexVars, stopping>>

ForgetDatabase(i, names) ==
  instances' = [instances EXCEPT ![i].databases = @ \ names]

BeginDropDatabase(c) ==
  LET w == work[c] IN
  /\ MayBegin(c) /\ w.kind = "dropDatabase"
  /\ ForgetDatabase(w.instance, w.names)
  /\ \E n \in w.names : Manager!CallDrop(c, <<w.instance, n>>)
  /\ Goes(c, "removing")
  /\ UNCHANGED <<allocatedPorts, mutexVars, stopping>>

RemovalReturns(c) ==
  /\ work[c].step = "removing" /\ op[c] = Manager!NoOp
  /\ Goes(c, "returning")
  /\ UNCHANGED <<managerVars, instances, allocatedPorts, mutexVars, stopping>>

-----------------------------------------------------------------------------
(* stopAll(): stopInstance() for a snapshot of the keys, then closeAll().    *)

StopAll ==
  /\ stopping.step = "no"
  /\ stopping' = [step |-> "stopping", todo |-> {i \in Instances : IsRunning(i)}]
  /\ UNCHANGED <<managerVars, instances, allocatedPorts, mutexVars, work>>

StopNext ==
  /\ stopping.step = "stopping"
  /\ \E i \in stopping.todo :
       /\ Queue(Shutdown, [kind |-> "stop", instance |-> i, names |-> {}])
       /\ stopping' = [stopping EXCEPT !.todo = @ \ {i}]

CloseAll ==
  /\ stopping.step = "stopping" /\ stopping.todo = {} /\ work[Shutdown].step = "idle"
  /\ Manager!CallCloseAll(Shutdown)
  /\ stopping' = [stopping EXCEPT !.step = "closed"]
  /\ UNCHANGED <<instances, allocatedPorts, mutexVars, work>>

-----------------------------------------------------------------------------

Request(c) ==
  /\ \E request \in Requests : Queue(c, request)
  /\ UNCHANGED stopping

GoesOn(c) ==
  \/ StopListener(c) \/ CloseNext(c) \/ StoppedStart(c) \/ StoppedDrop(c) \/ Stopped(c)
  \/ BeginStart(c) \/ BeginDrop(c) \/ NothingToDo(c)
  \/ OpenNext(c) \/ Opened(c) \/ OpenFails(c) \/ Unwound(c) \/ AllOpen(c)
  \/ ClaimPort(c) \/ PortIsTaken(c) \/ BindFails(c) \/ BindSucceeds(c) \/ NoPortIsLeft(c)
  \/ BeginOpenDatabase(c) \/ OpenDatabaseReturns(c)
  \/ BeginDropDatabase(c) \/ RemovalReturns(c)
  \/ Return(c)

ElsewhereUnchanged ==
  UNCHANGED <<instances, allocatedPorts, mutexVars, work, stopping>>

Boots(k) == Manager!BootEnds(k) /\ ElsewhereUnchanged
Manages(c) == Manager!GoesOn(c) /\ ElsewhereUnchanged

Next ==
  \/ \E c \in Requesters : Request(c)
  \/ \E c \in Callers : GoesOn(c) \/ Manages(c)
  \/ \E k \in Manager!Keys : Boots(k)
  \/ StopAll \/ StopNext \/ CloseAll

Spec == Init /\ [][Next]_vars

-----------------------------------------------------------------------------

Instance == [port : Ports \cup {NoPort}, databases : SUBSET Names]

TypeOK ==
  /\ instances \in [Instances -> Instance]
  /\ allocatedPorts \subseteq Ports
  /\ tail \in [Instances -> Callers \cup {NoCaller}]
  /\ predecessor \in [Callers -> Callers \cup {NoCaller}]
  /\ work \in [Callers -> Work]
  /\ stopping \in [step : {"no", "stopping", "closed"}, todo : SUBSET Instances]

IsActive(c) == work[c].step \notin {"idle", "queued"}

(* The mutex: calls for one instance do not overlap, however many queue up   *)
(* while others finish and its key is forgotten (resource-mutex.ts, line 45).*)
MutualExclusion ==
  \A c, d \in Callers :
    c # d /\ IsActive(c) /\ IsActive(d) => work[c].instance # work[d].instance

(* While the process is not shutting down, no two engines have a data        *)
(* directory open, not even one that is still closing; and an engine that is *)
(* closing keeps its files.                                                  *)
Engines(k) == {<<"closing", c>> : c \in {c \in Callers : k \in op[c].closing}}
              \cup {<<"open", k>> : x \in {k} \cap databases}
              \cup {<<"boot", k>> : x \in {k} \cap opening}
OneEnginePerDirectory ==
  stopping.step = "no" =>
    \A k \in Manager!Keys :
      /\ Cardinality(Engines(k)) <= 1
      /\ Engines(k) # {} => k \in files

(* A listener has an engine behind each of its databases: a stop or a drop   *)
(* that overlaps a start never leaves one that answers and refuses everybody *)
(* (comment at line 123).                                                    *)
ServedIsOpen ==
  stopping.step = "no" =>
    \A i \in Instances, n \in Names :
      n \in instances[i].databases => <<i, n>> \in databases

(* An engine runs behind a listener or for a call that is not over: a start  *)
(* that fails leaves none behind (comment at line 191).                      *)
NoEngineWithoutListener ==
  \A i \in Instances, n \in Names :
    <<i, n>> \in databases \cup opening =>
      \/ n \in instances[i].databases
      \/ \E c \in Callers : IsActive(c) /\ work[c].instance = i

(* When dropInstance() returns, the instance has no listener, no engine and  *)
(* no files, whatever starts and opens overlapped it.                        *)
DropLeavesNothing ==
  [][\A c \in Callers :
       work[c].kind = "dropInstance" /\ work[c].step = "removing"
         /\ work'[c].step = "returning"
       => /\ ~IsRunning(work[c].instance)'
          /\ \A n \in Names :
               <<work[c].instance, n>> \notin databases' \cup opening' \cup files']_vars

(* A port is claimed by one holder, an instance or a call under way, and is  *)
(* given back when that is gone: none is leaked by a failed bind or start,   *)
(* and none is given back twice.                                             *)
Holding(c) == ({work[c].port} \ {NoPort}) \cup work[c].refused
Serving(i) == {instances[i].port} \ {NoPort}
PortsAccounted ==
  /\ allocatedPorts = UNION ({Holding(c) : c \in Callers} \cup {Serving(i) : i \in Instances})
  /\ \A c, d \in Callers : c # d => Holding(c) \cap Holding(d) = {}
  /\ \A i, j \in Instances : i # j => Serving(i) \cap Serving(j) = {}
  /\ \A c \in Callers, i \in Instances : Holding(c) \cap Serving(i) = {}

(* A restart comes back on its port (comment at line 216): nobody takes it   *)
(* while the databases reopen.                                               *)
RestartKeepsPort ==
  \A c \in Callers :
    work[c].step = "opening" /\ work[c].kind = "start" =>
      /\ \A i \in Instances : work[c].preferred \notin Serving(i)
      /\ \A d \in Callers : work[c].preferred \notin Holding(d)

(* Every step uses the database manager as it expects: no two drops overlap. *)
UsesDatabaseManager == Manager!Spec

(* Whoever waits on the promise chain of an instance waits for a call that   *)
(* is still queued or at work there: one that rejects does not break the     *)
(* chain behind it (resource-mutex.ts, lines 38 and 42).                     *)
WaitsForACall ==
  \A c \in Callers :
    work[c].step = "queued" /\ predecessor[c] # NoCaller =>
      /\ work[predecessor[c]].step # "idle"
      /\ work[predecessor[c]].instance = work[c].instance

(* The mutex of an instance: one call at work, and whoever waits waits for a*)
(* call that is still there to wake it (resource-mutex.ts lines 30-50).      *)
CallsTakeTurns == TypeOK /\ MutualExclusion /\ WaitsForACall

(* Engines and listeners belong together: what is served is open, and what a*)
(* failed start opened is not left behind.                                   *)
EnginesMatchListeners == ServedIsOpen /\ NoEngineWithoutListener
=============================================================================
