--------------------------- MODULE DataPlaneProofs ---------------------------
(***************************************************************************)
(* Proofs about DataPlane for any instances, databases, callers and ports.   *)
(* The mutex excludes: the calls of an instance form a chain from the one    *)
(* that is active to the tail.  Hence drops do not overlap, which is what    *)
(* the database manager expects of its callers, and what is proved of the    *)
(* manager holds of the two together.  EInv says what each call under way    *)
(* still holds or has to close: with it, ports are accounted for, engines    *)
(* match listeners, and a drop leaves nothing.                               *)
(***************************************************************************)
EXTENDS DataPlane, FiniteSetTheorems, TLAPS

(* The theorems of the database manager, about the manager of this module.   *)
Proved == INSTANCE DatabaseManagerProofs

-----------------------------------------------------------------------------

IsCalling(c, i) == work[c].step # "idle" /\ work[c].instance = i

(* s[1], ..., s[n] are the calls of instance i, each waiting for the one     *)
(* before it; the last is the tail.                                          *)
Chain(i, n, s) ==
  /\ \A c \in Callers : IsCalling(c, i) <=> \E j \in 1 .. n : s[j] = c
  /\ \A j, k \in 1 .. n : s[j] = s[k] => j = k
  /\ \A j \in 1 .. n : predecessor[s[j]] = IF j = 1 THEN NoCaller ELSE s[j - 1]
  /\ tail[i] = IF n = 0 THEN NoCaller ELSE s[n]

HasChain == \A i \in Instances : \E n \in Nat : \E s \in [1 .. n -> Callers] : Chain(i, n, s)

(* A call that probes holds a port.                                          *)
ProbesPort == \A c \in Callers : work[c].step = "probing" => work[c].port \in Ports

ActiveIsFirst == \A c \in Callers : IsActive(c) => predecessor[c] = NoCaller

(* A drop in the manager is of a call that waits for it, for its instance.   *)
DropsHere(c) ==
  op[c].kind \in Manager!Drops =>
    /\ work[c].step = "removing"
    /\ Manager!Scope(op[c].id) \subseteq {work[c].instance} \X Names

DInv ==
  /\ TypeOK
  /\ ProbesPort
  /\ HasChain
  /\ ActiveIsFirst
  /\ \A c \in Callers : DropsHere(c)
  /\ Proved!IInv

-----------------------------------------------------------------------------

LEMMA StartType ==
  ASSUME NEW kind \in Kinds, NEW i \in Instances, NEW names \in SUBSET Names, NEW step \in Steps
  PROVE  Start([kind |-> kind, instance |-> i, names |-> names], step) \in Work
  BY DataPlaneAssumption DEF Start, Work, Ports, NoPort

LEMMA IdleType == Idle \in Work /\ Idle.step = "idle"
<1>1. (CHOOSE i \in Instances : TRUE) \in Instances
  BY DataPlaneAssumption
<1> DEFINE i == CHOOSE i \in Instances : TRUE
<1>2. i \in Instances
  BY <1>1
<1>3. Idle = Start([kind |-> "stop", instance |-> i, names |-> {}], "idle")
  BY DEF Idle
<1> HIDE DEF i
<1>4. Idle \in Work
  BY <1>2, <1>3, StartType DEF Kinds, Steps
<1> QED
  BY <1>3, <1>4 DEF Start

(* What a step of a call does to the mutex and to itself.                    *)
Moves(c) ==
  /\ UNCHANGED <<mutexVars, stopping>>
  /\ work' \in [Callers -> Work]
  /\ \A d \in Callers : d # c => work'[d] = work[d]
  /\ work'[c].instance = work[c].instance
  /\ work[c].step # "idle" /\ work'[c].step \notin {"idle", "queued"}
  /\ work[c].step = "queued" => predecessor[c] = NoCaller
  /\ work'[c].step = "probing" => work'[c].port \in Ports

(* A step of a call by its record.                                           *)
LEMMA MoveTo ==
  ASSUME TypeOK, NEW c \in Callers, NEW w \in Work,
         work' = [work EXCEPT ![c] = w],
         w.instance = work[c].instance,
         work[c].step # "idle", w.step \notin {"idle", "queued"},
         w.step = "probing" => w.port \in Ports,
         work[c].step = "queued" => predecessor[c] = NoCaller,
         UNCHANGED <<mutexVars, stopping>>
  PROVE  Moves(c)
  BY DEF TypeOK, Moves

LEMMA StopMoves ==
  ASSUME TypeOK, ProbesPort, NEW c \in Callers,
         \/ StopListener(c)
         \/ CloseNext(c)
         \/ StoppedStart(c)
         \/ StoppedDrop(c)
         \/ Stopped(c)
         \/ BeginStart(c)
         \/ BeginDrop(c)
         \/ NothingToDo(c)
  PROVE  Moves(c)
<1>w. work[c] \in Work
  BY DEF TypeOK
<1>1. CASE StopListener(c)
  <2> DEFINE w == [work[c] EXCEPT !.step = "closing",
                     !.todo = instances[work[c].instance].databases,
                     !.port = instances[work[c].instance].port]
  <2>i. instances[work[c].instance] \in Instance
    BY <1>w DEF TypeOK, Work
  <2>1. w \in Work /\ w.instance = work[c].instance /\ w.step \notin {"idle", "queued"}
       /\ (w.step = "probing" => w.port \in Ports)
    BY <1>w, <2>i DEF Work, Instance, Steps
  <2>2. work' = [work EXCEPT ![c] = w] /\ UNCHANGED <<mutexVars, stopping>>
    BY <1>1 DEF StopListener, Closing
  <2>3. work[c].step # "idle" /\ (work[c].step = "queued" => predecessor[c] = NoCaller)
    BY <1>1 DEF StopListener, MayBegin
  <2> HIDE DEF w
  <2> QED
    BY <2>1, <2>2, <2>3, MoveTo
<1>2. CASE CloseNext(c)
  <2>0. PICK n \in work[c].todo : work' = [work EXCEPT ![c].todo = @ \ {n}]
    BY <1>2 DEF CloseNext
  <2> DEFINE w == [work[c] EXCEPT !.todo = work[c].todo \ {n}]
  <2>1. w \in Work /\ w.instance = work[c].instance /\ w.step \notin {"idle", "queued"}
       /\ (w.step = "probing" => w.port \in Ports)
    BY <1>w, <1>2 DEF Work, Steps, CloseNext
  <2>2. work' = [work EXCEPT ![c] = w] /\ UNCHANGED <<mutexVars, stopping>>
    BY <1>2, <2>0 DEF CloseNext
  <2>3. work[c].step # "idle" /\ (work[c].step = "queued" => predecessor[c] = NoCaller)
    BY <1>2 DEF CloseNext, MayBegin
  <2> HIDE DEF w
  <2> QED
    BY <2>1, <2>2, <2>3, MoveTo
<1>3. CASE StoppedStart(c)
  <2> DEFINE w == [work[c] EXCEPT !.step = "opening",
                     !.todo = work[c].names,
                     !.port = NoPort,
                     !.preferred = work[c].port]
  <2>1. w \in Work /\ w.instance = work[c].instance /\ w.step \notin {"idle", "queued"}
       /\ (w.step = "probing" => w.port \in Ports)
    BY <1>w DEF Work, Steps
  <2>2. work' = [work EXCEPT ![c] = w] /\ UNCHANGED <<mutexVars, stopping>>
    BY <1>3 DEF StoppedStart, OpenAll
  <2>3. work[c].step # "idle" /\ (work[c].step = "queued" => predecessor[c] = NoCaller)
    BY <1>3 DEF StoppedStart, MayBegin
  <2> HIDE DEF w
  <2> QED
    BY <2>1, <2>2, <2>3, MoveTo
<1>4. CASE StoppedDrop(c)
  <2> DEFINE w == [work[c] EXCEPT !.step = "removing",
                     !.port = NoPort]
  <2>1. w \in Work /\ w.instance = work[c].instance /\ w.step \notin {"idle", "queued"}
       /\ (w.step = "probing" => w.port \in Ports)
    BY <1>w DEF Work, Steps
  <2>2. work' = [work EXCEPT ![c] = w] /\ UNCHANGED <<mutexVars, stopping>>
    BY <1>4 DEF StoppedDrop, RemoveInstance
  <2>3. work[c].step # "idle" /\ (work[c].step = "queued" => predecessor[c] = NoCaller)
    BY <1>4 DEF StoppedDrop, MayBegin
  <2> HIDE DEF w
  <2> QED
    BY <2>1, <2>2, <2>3, MoveTo
<1>5. CASE Stopped(c)
  <2> DEFINE w == [work[c] EXCEPT !.step = "returning",
                     !.port = NoPort]
  <2>1. w \in Work /\ w.instance = work[c].instance /\ w.step \notin {"idle", "queued"}
       /\ (w.step = "probing" => w.port \in Ports)
    BY <1>w DEF Work, Steps
  <2>2. work' = [work EXCEPT ![c] = w] /\ UNCHANGED <<mutexVars, stopping>>
    BY <1>5 DEF Stopped
  <2>3. work[c].step # "idle" /\ (work[c].step = "queued" => predecessor[c] = NoCaller)
    BY <1>5 DEF Stopped, MayBegin
  <2> HIDE DEF w
  <2> QED
    BY <2>1, <2>2, <2>3, MoveTo
<1>6. CASE BeginStart(c)
  <2> DEFINE w == [work[c] EXCEPT !.step = "opening",
                     !.todo = work[c].names,
                     !.port = NoPort,
                     !.preferred = NoPort]
  <2>1. w \in Work /\ w.instance = work[c].instance /\ w.step \notin {"idle", "queued"}
       /\ (w.step = "probing" => w.port \in Ports)
    BY <1>w DEF Work, Steps
  <2>2. work' = [work EXCEPT ![c] = w] /\ UNCHANGED <<mutexVars, stopping>>
    BY <1>6 DEF BeginStart, OpenAll
  <2>3. work[c].step # "idle" /\ (work[c].step = "queued" => predecessor[c] = NoCaller)
    BY <1>6 DEF BeginStart, MayBegin
  <2> HIDE DEF w
  <2> QED
    BY <2>1, <2>2, <2>3, MoveTo
<1>7. CASE BeginDrop(c)
  <2> DEFINE w == [work[c] EXCEPT !.step = "removing",
                     !.port = NoPort]
  <2>1. w \in Work /\ w.instance = work[c].instance /\ w.step \notin {"idle", "queued"}
       /\ (w.step = "probing" => w.port \in Ports)
    BY <1>w DEF Work, Steps
  <2>2. work' = [work EXCEPT ![c] = w] /\ UNCHANGED <<mutexVars, stopping>>
    BY <1>7 DEF BeginDrop, RemoveInstance
  <2>3. work[c].step # "idle" /\ (work[c].step = "queued" => predecessor[c] = NoCaller)
    BY <1>7 DEF BeginDrop, MayBegin
  <2> HIDE DEF w
  <2> QED
    BY <2>1, <2>2, <2>3, MoveTo
<1>8. CASE NothingToDo(c)
  <2> DEFINE w == [work[c] EXCEPT !.step = "returning"]
  <2>1. w \in Work /\ w.instance = work[c].instance /\ w.step \notin {"idle", "queued"}
       /\ (w.step = "probing" => w.port \in Ports)
    BY <1>w DEF Work, Steps
  <2>2. work' = [work EXCEPT ![c] = w] /\ UNCHANGED <<mutexVars, stopping>>
    BY <1>8 DEF NothingToDo, Goes
  <2>3. work[c].step # "idle" /\ (work[c].step = "queued" => predecessor[c] = NoCaller)
    BY <1>8 DEF NothingToDo, MayBegin
  <2> HIDE DEF w
  <2> QED
    BY <2>1, <2>2, <2>3, MoveTo
<1> QED
  BY <1>1, <1>2, <1>3, <1>4, <1>5, <1>6, <1>7, <1>8

LEMMA StartMoves ==
  ASSUME TypeOK, ProbesPort, NEW c \in Callers,
         \/ OpenNext(c)
         \/ Opened(c)
         \/ OpenFails(c)
         \/ Unwound(c)
         \/ AllOpen(c)
         \/ ClaimPort(c)
         \/ PortIsTaken(c)
         \/ BindFails(c)
         \/ BindSucceeds(c)
         \/ NoPortIsLeft(c)
  PROVE  Moves(c)
<1>w. work[c] \in Work
  BY DEF TypeOK
<1>1. CASE OpenNext(c)
  <2>0. PICK n \in work[c].todo : work' = [work EXCEPT ![c].todo = @ \ {n}, ![c].booting = {n}]
    BY <1>1 DEF OpenNext
  <2> DEFINE w == [work[c] EXCEPT !.todo = work[c].todo \ {n},
                     !.booting = {n}]
  <2>1. w \in Work /\ w.instance = work[c].instance /\ w.step \notin {"idle", "queued"}
       /\ (w.step = "probing" => w.port \in Ports)
    BY <1>w, <2>0, <1>1 DEF Work, Steps, OpenNext
  <2>2. work' = [work EXCEPT ![c] = w] /\ UNCHANGED <<mutexVars, stopping>>
    BY <1>1, <2>0 DEF OpenNext
  <2>3. work[c].step # "idle" /\ (work[c].step = "queued" => predecessor[c] = NoCaller)
    BY <1>1 DEF OpenNext, MayBegin
  <2> HIDE DEF w
  <2> QED
    BY <2>1, <2>2, <2>3, MoveTo
<1>2. CASE Opened(c)
  <2> DEFINE w == [work[c] EXCEPT !.booting = {},
                     !.opened = work[c].opened \cup work[c].booting]
  <2>1. w \in Work /\ w.instance = work[c].instance /\ w.step \notin {"idle", "queued"}
       /\ (w.step = "probing" => w.port \in Ports)
    BY <1>w, <1>2 DEF Work, Steps, Opened
  <2>2. work' = [work EXCEPT ![c] = w] /\ UNCHANGED <<mutexVars, stopping>>
    BY <1>2 DEF Opened
  <2>3. work[c].step # "idle" /\ (work[c].step = "queued" => predecessor[c] = NoCaller)
    BY <1>2 DEF Opened, MayBegin
  <2> HIDE DEF w
  <2> QED
    BY <2>1, <2>2, <2>3, MoveTo
<1>3. CASE OpenFails(c)
  <2> DEFINE w == [work[c] EXCEPT !.step = "unwinding",
                     !.todo = work[c].opened,
                     !.booting = {},
                     !.refused = {}]
  <2>1. w \in Work /\ w.instance = work[c].instance /\ w.step \notin {"idle", "queued"}
       /\ (w.step = "probing" => w.port \in Ports)
    BY <1>w DEF Work, Steps
  <2>2. work' = [work EXCEPT ![c] = w] /\ UNCHANGED <<mutexVars, stopping>>
    BY <1>3 DEF OpenFails, Unwind
  <2>3. work[c].step # "idle" /\ (work[c].step = "queued" => predecessor[c] = NoCaller)
    BY <1>3 DEF OpenFails, MayBegin
  <2> HIDE DEF w
  <2> QED
    BY <2>1, <2>2, <2>3, MoveTo
<1>4. CASE Unwound(c)
  <2> DEFINE w == [work[c] EXCEPT !.step = "returning"]
  <2>1. w \in Work /\ w.instance = work[c].instance /\ w.step \notin {"idle", "queued"}
       /\ (w.step = "probing" => w.port \in Ports)
    BY <1>w DEF Work, Steps
  <2>2. work' = [work EXCEPT ![c] = w] /\ UNCHANGED <<mutexVars, stopping>>
    BY <1>4 DEF Unwound, Goes
  <2>3. work[c].step # "idle" /\ (work[c].step = "queued" => predecessor[c] = NoCaller)
    BY <1>4 DEF Unwound, MayBegin
  <2> HIDE DEF w
  <2> QED
    BY <2>1, <2>2, <2>3, MoveTo
<1>5. CASE AllOpen(c)
  <2> DEFINE w == [work[c] EXCEPT !.step = "claiming"]
  <2>1. w \in Work /\ w.instance = work[c].instance /\ w.step \notin {"idle", "queued"}
       /\ (w.step = "probing" => w.port \in Ports)
    BY <1>w DEF Work, Steps
  <2>2. work' = [work EXCEPT ![c] = w] /\ UNCHANGED <<mutexVars, stopping>>
    BY <1>5 DEF AllOpen, Goes
  <2>3. work[c].step # "idle" /\ (work[c].step = "queued" => predecessor[c] = NoCaller)
    BY <1>5 DEF AllOpen, MayBegin
  <2> HIDE DEF w
  <2> QED
    BY <2>1, <2>2, <2>3, MoveTo
<1>6. CASE ClaimPort(c)
  <2>0. PICK p \in Untried(c) : work' = [work EXCEPT ![c].step = "probing", ![c].port = p]
    BY <1>6 DEF ClaimPort
  <2>u. p \in Ports
    BY DEF Untried
  <2> DEFINE w == [work[c] EXCEPT !.step = "probing",
                     !.port = p]
  <2>1. w \in Work /\ w.instance = work[c].instance /\ w.step \notin {"idle", "queued"}
       /\ (w.step = "probing" => w.port \in Ports)
    BY <1>w, <2>u DEF Work, Steps
  <2>2. work' = [work EXCEPT ![c] = w] /\ UNCHANGED <<mutexVars, stopping>>
    BY <1>6, <2>0 DEF ClaimPort
  <2>3. work[c].step # "idle" /\ (work[c].step = "queued" => predecessor[c] = NoCaller)
    BY <1>6 DEF ClaimPort, MayBegin
  <2> HIDE DEF w
  <2> QED
    BY <2>1, <2>2, <2>3, MoveTo
<1>7. CASE PortIsTaken(c)
  <2> DEFINE w == [work[c] EXCEPT !.step = "claiming",
                     !.port = NoPort,
                     !.next = IF work[c].next = NoPort /\ work[c].port = work[c].preferred THEN 1 ELSE work[c].port + 1]
  <2>n. w.next \in 0 .. MaxPort + 1
    BY <1>w, <1>7, DataPlaneAssumption DEF Work, PortIsTaken, ProbesPort, Ports, NoPort
  <2>1. w \in Work /\ w.instance = work[c].instance /\ w.step \notin {"idle", "queued"}
       /\ (w.step = "probing" => w.port \in Ports)
    BY <1>w, <2>n DEF Work, Steps, NoPort
  <2>2. work' = [work EXCEPT ![c] = w] /\ UNCHANGED <<mutexVars, stopping>>
    BY <1>7 DEF PortIsTaken
  <2>3. work[c].step # "idle" /\ (work[c].step = "queued" => predecessor[c] = NoCaller)
    BY <1>7 DEF PortIsTaken, MayBegin
  <2> HIDE DEF w
  <2> QED
    BY <2>1, <2>2, <2>3, MoveTo
<1>8. CASE BindFails(c)
  <2> DEFINE w == [work[c] EXCEPT !.step = "claiming",
                     !.port = NoPort,
                     !.next = NoPort,
                     !.refused = work[c].refused \cup {work[c].port}]
  <2>p. work[c].port \in Ports
    BY <1>8 DEF BindFails, ProbesPort
  <2>r. work[c].refused \cup {work[c].port} \subseteq Ports
    BY <1>w, <2>p DEF Work
  <2>n. NoPort \in 0 .. MaxPort + 1
    BY DataPlaneAssumption DEF NoPort
  <2>1. w \in Work /\ w.instance = work[c].instance /\ w.step \notin {"idle", "queued"}
       /\ (w.step = "probing" => w.port \in Ports)
    BY <1>w, <2>r, <2>n DEF Work, Steps
  <2>2. work' = [work EXCEPT ![c] = w] /\ UNCHANGED <<mutexVars, stopping>>
    BY <1>8 DEF BindFails
  <2>3. work[c].step # "idle" /\ (work[c].step = "queued" => predecessor[c] = NoCaller)
    BY <1>8 DEF BindFails, MayBegin
  <2> HIDE DEF w
  <2> QED
    BY <2>1, <2>2, <2>3, MoveTo
<1>9. CASE BindSucceeds(c)
  <2> DEFINE w == [work[c] EXCEPT !.step = "returning",
                     !.port = NoPort,
                     !.refused = {}]
  <2>1. w \in Work /\ w.instance = work[c].instance /\ w.step \notin {"idle", "queued"}
       /\ (w.step = "probing" => w.port \in Ports)
    BY <1>w DEF Work, Steps
  <2>2. work' = [work EXCEPT ![c] = w] /\ UNCHANGED <<mutexVars, stopping>>
    BY <1>9 DEF BindSucceeds
  <2>3. work[c].step # "idle" /\ (work[c].step = "queued" => predecessor[c] = NoCaller)
    BY <1>9 DEF BindSucceeds, MayBegin
  <2> HIDE DEF w
  <2> QED
    BY <2>1, <2>2, <2>3, MoveTo
<1>10. CASE NoPortIsLeft(c)
  <2> DEFINE w == [work[c] EXCEPT !.step = "unwinding",
                     !.todo = work[c].opened,
                     !.booting = {},
                     !.refused = {}]
  <2>1. w \in Work /\ w.instance = work[c].instance /\ w.step \notin {"idle", "queued"}
       /\ (w.step = "probing" => w.port \in Ports)
    BY <1>w DEF Work, Steps
  <2>2. work' = [work EXCEPT ![c] = w] /\ UNCHANGED <<mutexVars, stopping>>
    BY <1>10 DEF NoPortIsLeft, Unwind
  <2>3. work[c].step # "idle" /\ (work[c].step = "queued" => predecessor[c] = NoCaller)
    BY <1>10 DEF NoPortIsLeft, MayBegin
  <2> HIDE DEF w
  <2> QED
    BY <2>1, <2>2, <2>3, MoveTo
<1> QED
  BY <1>1, <1>2, <1>3, <1>4, <1>5, <1>6, <1>7, <1>8, <1>9, <1>10

LEMMA DatabaseMoves ==
  ASSUME TypeOK, ProbesPort, NEW c \in Callers,
         \/ BeginOpenDatabase(c)
         \/ OpenDatabaseReturns(c)
         \/ BeginDropDatabase(c)
         \/ RemovalReturns(c)
  PROVE  Moves(c)
<1>w. work[c] \in Work
  BY DEF TypeOK
<1>1. CASE BeginOpenDatabase(c)
  <2> DEFINE w == [work[c] EXCEPT !.step = "opening",
                     !.booting = work[c].names]
  <2>1. w \in Work /\ w.instance = work[c].instance /\ w.step \notin {"idle", "queued"}
       /\ (w.step = "probing" => w.port \in Ports)
    BY <1>w DEF Work, Steps
  <2>2. work' = [work EXCEPT ![c] = w] /\ UNCHANGED <<mutexVars, stopping>>
    BY <1>1 DEF BeginOpenDatabase
  <2>3. work[c].step # "idle" /\ (work[c].step = "queued" => predecessor[c] = NoCaller)
    BY <1>1 DEF BeginOpenDatabase, MayBegin
  <2> HIDE DEF w
  <2> QED
    BY <2>1, <2>2, <2>3, MoveTo
<1>2. CASE OpenDatabaseReturns(c)
  <2> DEFINE w == [work[c] EXCEPT !.step = "returning",
                     !.booting = {}]
  <2>1. w \in Work /\ w.instance = work[c].instance /\ w.step \notin {"idle", "queued"}
       /\ (w.step = "probing" => w.port \in Ports)
    BY <1>w DEF Work, Steps
  <2>2. work' = [work EXCEPT ![c] = w] /\ UNCHANGED <<mutexVars, stopping>>
    BY <1>2 DEF OpenDatabaseReturns
  <2>3. work[c].step # "idle" /\ (work[c].step = "queued" => predecessor[c] = NoCaller)
    BY <1>2 DEF OpenDatabaseReturns, MayBegin
  <2> HIDE DEF w
  <2> QED
    BY <2>1, <2>2, <2>3, MoveTo
<1>3. CASE BeginDropDatabase(c)
  <2> DEFINE w == [work[c] EXCEPT !.step = "removing"]
  <2>1. w \in Work /\ w.instance = work[c].instance /\ w.step \notin {"idle", "queued"}
       /\ (w.step = "probing" => w.port \in Ports)
    BY <1>w DEF Work, Steps
  <2>2. work' = [work EXCEPT ![c] = w] /\ UNCHANGED <<mutexVars, stopping>>
    BY <1>3 DEF BeginDropDatabase, Goes
  <2>3. work[c].step # "idle" /\ (work[c].step = "queued" => predecessor[c] = NoCaller)
    BY <1>3 DEF BeginDropDatabase, MayBegin
  <2> HIDE DEF w
  <2> QED
    BY <2>1, <2>2, <2>3, MoveTo
<1>4. CASE RemovalReturns(c)
  <2> DEFINE w == [work[c] EXCEPT !.step = "returning"]
  <2>1. w \in Work /\ w.instance = work[c].instance /\ w.step \notin {"idle", "queued"}
       /\ (w.step = "probing" => w.port \in Ports)
    BY <1>w DEF Work, Steps
  <2>2. work' = [work EXCEPT ![c] = w] /\ UNCHANGED <<mutexVars, stopping>>
    BY <1>4 DEF RemovalReturns, Goes
  <2>3. work[c].step # "idle" /\ (work[c].step = "queued" => predecessor[c] = NoCaller)
    BY <1>4 DEF RemovalReturns, MayBegin
  <2> HIDE DEF w
  <2> QED
    BY <2>1, <2>2, <2>3, MoveTo
<1> QED
  BY <1>1, <1>2, <1>3, <1>4

-----------------------------------------------------------------------------
(* The chains of the mutex.                                                  *)

LEMMA MovesKeepsChains ==
  ASSUME TypeOK, HasChain, NEW c \in Callers, Moves(c)
  PROVE  HasChain'
<1>1. \A d \in Callers, i \in Instances : IsCalling(d, i)' <=> IsCalling(d, i)
  BY DEF Moves, IsCalling
<1> SUFFICES ASSUME NEW i \in Instances
            PROVE  (\E n \in Nat : \E s \in [1 .. n -> Callers] : Chain(i, n, s))'
  BY DEF HasChain
<1>n. PICK n \in Nat : \E s \in [1 .. n -> Callers] : Chain(i, n, s)
  BY DEF HasChain
<1>2. PICK s \in [1 .. n -> Callers] : Chain(i, n, s)
  BY <1>n
<1>3. Chain(i, n, s)'
  BY <1>1, <1>2 DEF Chain, Moves, mutexVars
<1> QED
  BY <1>3

LEMMA QueueKeepsChains ==
  ASSUME TypeOK, HasChain, NEW c \in Callers, NEW request,
         request.instance \in Instances, Queue(c, request)
  PROVE  HasChain'
<1> DEFINE j == request.instance
<1>1. /\ work[c].step = "idle"
      /\ work'[c].step = "queued" /\ work'[c].instance = j
      /\ \A d \in Callers : d # c => work'[d] = work[d]
  BY DEF Queue, TypeOK, Start
<1>2. /\ predecessor'[c] = tail[j]
      /\ \A d \in Callers : d # c => predecessor'[d] = predecessor[d]
      /\ tail'[j] = c
      /\ \A i \in Instances : i # j => tail'[i] = tail[i]
  BY DEF Queue, TypeOK
<1> SUFFICES ASSUME NEW i \in Instances
            PROVE  (\E n \in Nat : \E s \in [1 .. n -> Callers] : Chain(i, n, s))'
  BY DEF HasChain
<1>n. PICK n \in Nat : \E s \in [1 .. n -> Callers] : Chain(i, n, s)
  BY DEF HasChain
<1>3. PICK s \in [1 .. n -> Callers] : Chain(i, n, s)
  BY <1>n
<1>4. \A k \in 1 .. n : s[k] # c
  BY <1>1, <1>3 DEF Chain, IsCalling
<1> HIDE DEF j
<1>5. CASE i # j
  <2>1. \A d \in Callers : IsCalling(d, i)' <=> IsCalling(d, i)
    BY <1>1, <1>5 DEF IsCalling
  <2>2. Chain(i, n, s)'
    BY <2>1, <1>2, <1>3, <1>4, <1>5 DEF Chain
  <2> QED
    BY <2>2
<1>6. CASE i = j
  <2> DEFINE t == [k \in 1 .. n + 1 |-> IF k = n + 1 THEN c ELSE s[k]]
  <2>1. t \in [1 .. n + 1 -> Callers] /\ n + 1 \in Nat
    OBVIOUS
  <2>2. \A k \in 1 .. n + 1 : t[k] = IF k = n + 1 THEN c ELSE s[k]
    OBVIOUS
  <2> HIDE DEF t
  <2>3. \A d \in Callers : IsCalling(d, i)' <=> IsCalling(d, i) \/ d = c
    BY <1>1, <1>6 DEF IsCalling
  <2>4. (\A d \in Callers : IsCalling(d, i) <=> \E k \in 1 .. n + 1 : t[k] = d)'
    BY <2>2, <2>3, <1>3 DEF Chain
  <2>5. \A k, l \in 1 .. n + 1 : t[k] = t[l] => k = l
    BY <2>2, <1>3, <1>4 DEF Chain
  <2>6. \A k \in 1 .. n + 1 : predecessor'[t[k]] = IF k = 1 THEN NoCaller ELSE t[k - 1]
    BY <2>2, <1>2, <1>3, <1>4, <1>6 DEF Chain
  <2>7. tail'[i] = t[n + 1]
    BY <2>2, <1>2, <1>6
  <2>8. Chain(i, n + 1, t)'
    BY <2>4, <2>5, <2>6, <2>7 DEF Chain
  <2> QED
    BY <2>1, <2>8
<1> QED
  BY <1>5, <1>6

LEMMA FirstOfChain ==
  ASSUME TypeOK, NEW i \in Instances, NEW n \in Nat, NEW s \in [1 .. n -> Callers],
         Chain(i, n, s), NEW c \in Callers, IsCalling(c, i), predecessor[c] = NoCaller
  PROVE  n >= 1 /\ s[1] = c
<1>1. PICK k \in 1 .. n : s[k] = c
  BY DEF Chain
<1>2. k = 1
  BY <1>1, DataPlaneAssumption DEF Chain
<1> QED
  BY <1>1, <1>2

LEMMA ReturnKeepsChains ==
  ASSUME TypeOK, HasChain, NEW c \in Callers, predecessor[c] = NoCaller, Return(c)
  PROVE  HasChain'
<1>1. /\ work[c].step # "idle" /\ work'[c].step = "idle"
      /\ \A d \in Callers : d # c => work'[d] = work[d]
  BY IdleType DEF Return, TypeOK
<1>2. /\ \A d \in Callers : predecessor'[d] = IF predecessor[d] = c THEN NoCaller ELSE predecessor[d]
      /\ \A i \in Instances : tail'[i] = IF tail[i] = c THEN NoCaller ELSE tail[i]
  BY DEF Return
<1>c. c # NoCaller
  BY DataPlaneAssumption
<1> SUFFICES ASSUME NEW i \in Instances
            PROVE  (\E n \in Nat : \E s \in [1 .. n -> Callers] : Chain(i, n, s))'
  BY DEF HasChain
<1>n. PICK n \in Nat : \E s \in [1 .. n -> Callers] : Chain(i, n, s)
  BY DEF HasChain
<1>3. PICK s \in [1 .. n -> Callers] : Chain(i, n, s)
  BY <1>n
<1>4. CASE ~IsCalling(c, i)
  <2>1. \A k \in 1 .. n : s[k] # c
    BY <1>3, <1>4 DEF Chain
  <2>2. \A d \in Callers : IsCalling(d, i)' <=> IsCalling(d, i)
    BY <1>1, <1>4 DEF IsCalling
  <2>3. \A k \in 1 .. n : predecessor'[s[k]] = predecessor[s[k]]
    BY <2>1, <1>2, <1>3, <1>c DEF Chain
  <2>4. tail'[i] = tail[i]
    BY <2>1, <1>2, <1>3, <1>c DEF Chain
  <2>5. Chain(i, n, s)'
    BY <2>2, <2>3, <2>4, <1>3 DEF Chain
  <2> QED
    BY <2>5
<1>5. CASE IsCalling(c, i)
  <2> DEFINE m == n - 1
             t == [k \in 1 .. m |-> s[k + 1]]
  <2>1. n >= 1 /\ s[1] = c
    BY <1>3, <1>5, FirstOfChain
  <2>2. m \in Nat /\ n = m + 1 /\ t \in [1 .. m -> Callers]
    BY <2>1
  <2>3. \A k \in 1 .. m : t[k] = s[k + 1]
    OBVIOUS
  <2> HIDE DEF m, t
  <2>4. \A d \in Callers : IsCalling(d, i)' <=> IsCalling(d, i) /\ d # c
    BY <1>1 DEF IsCalling
  <2>5. (\A d \in Callers : IsCalling(d, i) <=> \E k \in 1 .. m : t[k] = d)'
    <3> SUFFICES ASSUME NEW d \in Callers
                 PROVE  IsCalling(d, i)' <=> \E k \in 1 .. m : t[k] = d
      OBVIOUS
    <3>1. ASSUME IsCalling(d, i)' PROVE \E k \in 1 .. m : t[k] = d
      <4>1. PICK k \in 1 .. n : s[k] = d
        BY <3>1, <2>4, <1>3 DEF Chain
      <4>2. k # 1
        BY <4>1, <3>1, <2>4, <2>1
      <4>3. k - 1 \in 1 .. m /\ t[k - 1] = d
        BY <4>1, <4>2, <2>2, <2>3
      <4> QED
        BY <4>3
    <3>2. ASSUME NEW k \in 1 .. m, t[k] = d PROVE IsCalling(d, i)'
      <4>1. k + 1 \in 1 .. n /\ s[k + 1] = d /\ 1 \in 1 .. n /\ k + 1 # 1
        BY <3>2, <2>2, <2>3
      <4>2. d # c
        BY <4>1, <2>1, <1>3 DEF Chain
      <4> QED
        BY <4>1, <4>2, <2>4, <1>3 DEF Chain
    <3> QED
      BY <3>1, <3>2
  <2>6. \A k, l \in 1 .. m : t[k] = t[l] => k = l
    BY <2>2, <2>3, <1>3 DEF Chain
  <2>7. ASSUME NEW k \in 1 .. m
        PROVE  predecessor'[t[k]] = IF k = 1 THEN NoCaller ELSE t[k - 1]
    <3>1. k + 1 \in 1 .. n /\ t[k] = s[k + 1] /\ s[k + 1] \in Callers
      BY <2>2, <2>3
    <3>2. predecessor[t[k]] = s[k]
      BY <3>1, <1>3 DEF Chain
    <3>3. CASE k = 1
      BY <3>1, <3>2, <3>3, <2>1, <1>2
    <3>4. CASE k # 1
      <4>1. k - 1 \in 1 .. m /\ t[k - 1] = s[k]
        BY <3>4, <2>2, <2>3
      <4>2. s[k] # c
        BY <3>4, <2>1, <2>2, <1>3 DEF Chain
      <4> QED
        BY <3>1, <3>2, <3>4, <4>1, <4>2, <1>2
    <3> QED
      BY <3>3, <3>4
  <2>8. tail'[i] = IF m = 0 THEN NoCaller ELSE t[m]
    <3>1. tail[i] = s[n]
      BY <2>1, <1>3 DEF Chain
    <3>2. CASE m = 0
      BY <3>1, <3>2, <2>1, <2>2, <1>2
    <3>3. CASE m # 0
      <4>1. t[m] = s[n]
        BY <3>3, <2>2, <2>3
      <4>2. s[n] # c
        BY <3>3, <2>1, <2>2, <1>3 DEF Chain
      <4> QED
        BY <3>1, <3>3, <4>1, <4>2, <1>2
    <3> QED
      BY <3>2, <3>3
  <2>9. Chain(i, m, t)'
    BY <2>5, <2>6, <2>7, <2>8 DEF Chain
  <2> QED
    BY <2>2, <2>9
<1> QED
  BY <1>4, <1>5

(* Of the calls of an instance that have begun or may, there is one.         *)
LEMMA FirstIsOne ==
  ASSUME TypeOK, HasChain, NEW c \in Callers, NEW d \in Callers,
         work[c].step # "idle", work[d].step # "idle",
         predecessor[c] = NoCaller, predecessor[d] = NoCaller,
         work[c].instance = work[d].instance
  PROVE  c = d
<1> DEFINE i == work[c].instance
<1>1. i \in Instances /\ IsCalling(c, i) /\ IsCalling(d, i)
  BY DEF TypeOK, Work, IsCalling
<1> HIDE DEF i
<1>2. PICK n \in Nat : \E s \in [1 .. n -> Callers] : Chain(i, n, s)
  BY <1>1 DEF HasChain
<1>3. PICK s \in [1 .. n -> Callers] : Chain(i, n, s)
  BY <1>2
<1>4. s[1] = c /\ s[1] = d
  BY <1>1, <1>3, FirstOfChain
<1> QED
  BY <1>4

LEMMA ChainExcludes ==
  ASSUME TypeOK, HasChain, ActiveIsFirst
  PROVE  MutualExclusion
  BY FirstIsOne DEF MutualExclusion, ActiveIsFirst, IsActive

-----------------------------------------------------------------------------
(* Types.                                                                    *)

LEMMA GlobalsType ==
  ASSUME TypeOK, ProbesPort, NEW c \in Callers, GoesOn(c)
  PROVE  instances' \in [Instances -> Instance] /\ allocatedPorts' \subseteq Ports
<1>w. work[c] \in Work
  BY DEF TypeOK
<1>i. \A i \in Instances : instances[i] \in Instance
  BY DEF TypeOK
<1>1. CASE StopListener(c)
  BY <1>1 DEF StopListener, Absent, TypeOK, Instance, NoPort
<1>2. CASE ClaimPort(c)
  BY <1>2 DEF ClaimPort, Untried, TypeOK
<1>3. CASE BindSucceeds(c)
  <2>1. work[c].port \in Ports \cup {NoPort} /\ work[c].opened \subseteq Names
    BY <1>w DEF Work
  <2>2. [port |-> work[c].port, databases |-> work[c].opened] \in Instance
    BY <2>1 DEF Instance
  <2> QED
    BY <1>3, <2>2 DEF BindSucceeds, TypeOK
<1>4. CASE OpenDatabaseReturns(c)
  <2> DEFINE i == work[c].instance
             r == [instances[i] EXCEPT !.databases =
                     IF outcome[c] = "ok" THEN @ \cup work[c].names ELSE @]
  <2>1. i \in Instances /\ work[c].names \subseteq Names
    BY <1>w DEF Work
  <2>2. r \in Instance
    BY <1>i, <2>1 DEF Instance
  <2>3. instances' = [instances EXCEPT ![i] = r] /\ allocatedPorts' = allocatedPorts
    BY <1>4 DEF OpenDatabaseReturns
  <2> HIDE DEF i, r
  <2> QED
    BY <2>1, <2>2, <2>3 DEF TypeOK
<1>5. CASE BeginDropDatabase(c)
  <2> DEFINE i == work[c].instance
             r == [instances[i] EXCEPT !.databases = @ \ work[c].names]
  <2>1. i \in Instances
    BY <1>w DEF Work
  <2>2. r \in Instance
    BY <1>i, <2>1 DEF Instance
  <2>3. instances' = [instances EXCEPT ![i] = r] /\ allocatedPorts' = allocatedPorts
    BY <1>5 DEF BeginDropDatabase, ForgetDatabase
  <2> HIDE DEF i, r
  <2> QED
    BY <2>1, <2>2, <2>3 DEF TypeOK
<1>6. CASE StoppedStart(c) \/ StoppedDrop(c) \/ Stopped(c) \/ PortIsTaken(c) \/ NoPortIsLeft(c)
  BY <1>6 DEF StoppedStart, StoppedDrop, Stopped, PortIsTaken, NoPortIsLeft, ReleasePort, TypeOK
<1>7. CASE \/ CloseNext(c) \/ BeginStart(c) \/ BeginDrop(c) \/ NothingToDo(c)
           \/ OpenNext(c) \/ Opened(c) \/ OpenFails(c) \/ Unwound(c) \/ AllOpen(c)
           \/ BindFails(c) \/ BeginOpenDatabase(c) \/ RemovalReturns(c) \/ Return(c)
  BY <1>7 DEF CloseNext, BeginStart, BeginDrop, NothingToDo, OpenNext, Opened, OpenFails,
     Unwound, AllOpen, BindFails, BeginOpenDatabase, RemovalReturns, Return, TypeOK
<1> QED
  BY <1>1, <1>2, <1>3, <1>4, <1>5, <1>6, <1>7 DEF GoesOn

LEMMA GoesOnMoves ==
  ASSUME TypeOK, ProbesPort, NEW c \in Callers, GoesOn(c), ~Return(c)
  PROVE  Moves(c)
  BY StopMoves, StartMoves, DatabaseMoves DEF GoesOn

LEMMA MovesType ==
  ASSUME TypeOK, ProbesPort, NEW c \in Callers, GoesOn(c), Moves(c)
  PROVE  TypeOK' /\ ProbesPort'
<1>1. TypeOK'
  BY GlobalsType DEF TypeOK, Moves, mutexVars
<1>2. ProbesPort'
  BY DEF ProbesPort, Moves
<1> QED
  BY <1>1, <1>2

LEMMA ReturnType ==
  ASSUME TypeOK, ProbesPort, NEW c \in Callers, Return(c)
  PROVE  TypeOK' /\ ProbesPort'
  BY IdleType DEF Return, TypeOK, ProbesPort

LEMMA QueueType ==
  ASSUME TypeOK, ProbesPort, NEW c \in Callers, NEW kind \in Kinds, NEW i \in Instances,
         NEW names \in SUBSET Names,
         Queue(c, [kind |-> kind, instance |-> i, names |-> names]),
         stopping' \in [step : {"no", "stopping", "closed"}, todo : SUBSET Instances]
  PROVE  TypeOK' /\ ProbesPort'
<1> DEFINE request == [kind |-> kind, instance |-> i, names |-> names]
           w == Start(request, "queued")
<1>1. w \in Work /\ w.step = "queued"
  BY StartType DEF Start, Steps
<1>2. work' = [work EXCEPT ![c] = w] /\ request.instance = i
  BY DEF Queue
<1>3. /\ predecessor' = [predecessor EXCEPT ![c] = tail[request.instance]]
      /\ tail' = [tail EXCEPT ![request.instance] = c]
      /\ UNCHANGED <<instances, allocatedPorts>>
  BY DEF Queue
<1> HIDE DEF w, request
<1> QED
  BY <1>1, <1>2, <1>3 DEF TypeOK, ProbesPort

-----------------------------------------------------------------------------
(* The database manager and its callers.                                     *)

LEMMA SameManager ==
  /\ Manager!Init => Proved!Init
  /\ [Manager!Next]_managerVars => [Proved!Next]_Proved!vars
<1>1. Manager!Init => Proved!Init
  BY DEF Manager!Init, Proved!Init, Manager!NoOp, Proved!NoOp, Manager!Waiting,
         Proved!Waiting, Manager!Keys, Proved!Keys
<1>2. \A k : Manager!BootEnds(k) => Proved!BootEnds(k)
  BY DEF Manager!BootEnds, Proved!BootEnds, Manager!BootSucceeds, Proved!BootSucceeds,
         Manager!BootIsLate, Proved!BootIsLate, Manager!Discarded, Proved!Discarded,
         Manager!BootFails, Proved!BootFails, Manager!Dropping, Proved!Dropping,
         Manager!Settle, Proved!Settle, Manager!Dispose, Proved!Dispose,
         Manager!NoOp, Proved!NoOp, Manager!Waiting, Proved!Waiting
<1>3. \A c, k : Manager!CallOpen(c, k) => Proved!CallOpen(c, k)
  BY DEF Manager!CallOpen, Proved!CallOpen, Manager!RefuseOpen, Proved!RefuseOpen,
         Manager!ReturnExisting, Proved!ReturnExisting, Manager!AwaitBoot,
         Proved!AwaitBoot, Manager!Dropping, Proved!Dropping,
         Manager!NoOp, Proved!NoOp, Manager!Waiting, Proved!Waiting
<1>4. \A c, kind, id, todo :
        Manager!StartClosing(c, kind, id, todo) => Proved!StartClosing(c, kind, id, todo)
  BY DEF Manager!StartClosing, Proved!StartClosing, Manager!Tracked, Proved!Tracked,
         Manager!NoOp, Proved!NoOp, Manager!Waiting, Proved!Waiting
<1>5. \A id : Proved!DropsOverlap(id) => Manager!DropsOverlap(id)
  BY DEF Manager!DropsOverlap, Proved!DropsOverlap, Manager!Drops, Proved!Drops,
         Manager!Scope, Proved!Scope
<1>6. \A c, k : Manager!CallClose(c, k) => Proved!CallClose(c, k)
  BY <1>4 DEF Manager!CallClose, Proved!CallClose
<1>d. \A c, k : Manager!Drop(c, k) => Proved!Drop(c, k)
  BY <1>4, <1>5 DEF Manager!Drop, Proved!Drop, Manager!CallDrop, Proved!CallDrop
<1>i. \A c, i : Manager!DropInstance(c, i) => Proved!DropInstance(c, i)
  BY <1>4, <1>5 DEF Manager!DropInstance, Proved!DropInstance, Manager!CallDropInstance,
     Proved!CallDropInstance, Manager!Tracked, Proved!Tracked, Manager!Scope, Proved!Scope
<1>a. \A c : Manager!CallCloseAll(c) => Proved!CallCloseAll(c)
  BY <1>4 DEF Manager!CallCloseAll, Proved!CallCloseAll, Manager!Tracked, Proved!Tracked
<1>7. \A c : Manager!GoesOn(c) => Proved!GoesOn(c)
  BY DEF Manager!GoesOn, Proved!GoesOn, Manager!CloseNext, Proved!CloseNext,
     Manager!EngineCloses, Proved!EngineCloses, Manager!CloseReturns, Proved!CloseReturns,
     Manager!DropGoesOn, Proved!DropGoesOn, Manager!Removed, Proved!Removed,
     Manager!AllClosed, Proved!AllClosed, Manager!Dispose, Proved!Dispose,
     Manager!Drops, Proved!Drops, Manager!Tracked, Proved!Tracked, Manager!Scope,
     Proved!Scope, Manager!NoOp, Proved!NoOp, Manager!Waiting, Proved!Waiting,
     Manager!Keys, Proved!Keys
<1>8. Manager!Next => Proved!Next
  <2>1. Manager!Keys = Proved!Keys
    BY DEF Manager!Keys, Proved!Keys
  <2>2. CASE \E k \in Manager!Keys : Manager!BootEnds(k)
    BY <2>1, <2>2, <1>2 DEF Proved!Next
  <2>3. ASSUME NEW c \in Callers, NEW k \in Manager!Keys,
               Manager!CallOpen(c, k) \/ Manager!CallClose(c, k) \/ Manager!Drop(c, k)
        PROVE  Proved!Next
    <3>1. Proved!CallOpen(c, k) \/ Proved!CallClose(c, k) \/ Proved!Drop(c, k)
      BY <2>3, <1>3, <1>6, <1>d
    <3> QED
      BY <2>1, <3>1 DEF Proved!Next
  <2>4. ASSUME NEW c \in Callers, NEW i \in Instances, Manager!DropInstance(c, i)
        PROVE  Proved!Next
    <3>1. Proved!DropInstance(c, i)
      BY <2>4, <1>i
    <3> QED
      BY <3>1 DEF Proved!Next
  <2>5. ASSUME NEW c \in Callers, Manager!CallCloseAll(c) \/ Manager!GoesOn(c)
        PROVE  Proved!Next
    <3>1. Proved!CallCloseAll(c) \/ Proved!GoesOn(c)
      BY <2>5, <1>a, <1>7
    <3> QED
      BY <3>1 DEF Proved!Next
  <2> QED
    BY <2>2, <2>3, <2>4, <2>5 DEF Manager!Next
<1> QED
  BY <1>1, <1>8 DEF managerVars, Proved!vars

LEMMA ManagerTyped ==
  ASSUME Proved!IInv
  PROVE  op \in [Callers -> Manager!Operation]
  BY DEF Proved!IInv, Proved!TypeOK, Proved!Operation, Manager!Operation, Proved!Keys,
     Manager!Keys, Proved!Ids, Manager!Ids, Proved!Closes, Manager!Closes, Proved!Drops,
     Manager!Drops

LEMMA ManagerInv ==
  ASSUME Proved!IInv, Manager!Next \/ UNCHANGED managerVars
  PROVE  Proved!IInv'
<1>1. Manager!Keys \cap Instances = {} /\ NoId \notin Manager!Ids /\ Names # {}
  BY DataPlaneAssumption
<1>2. Proved!Keys \cap Instances = {} /\ NoId \notin Proved!Ids /\ Names # {}
  BY <1>1 DEF Manager!Keys, Proved!Keys, Manager!Ids, Proved!Ids
<1>3. [Proved!Next]_Proved!vars
  BY SameManager
<1> QED
  BY <1>2, <1>3, Proved!NextInv

(* No drop is under way for a call that may begin one.                       *)
LEMMA NoOverlap ==
  ASSUME DInv, NEW c \in Callers, NEW id, op[c] = Manager!NoOp,
         work[c].step # "idle", predecessor[c] = NoCaller,
         Manager!Scope(id) \subseteq {work[c].instance} \X Names
  PROVE  ~Manager!DropsOverlap(id)
<1> SUFFICES ASSUME NEW d \in Callers, op[d].kind \in Manager!Drops,
                    Manager!Scope(op[d].id) \cap Manager!Scope(id) # {}
             PROVE  FALSE
  BY DEF Manager!DropsOverlap
<1>1. /\ work[d].step = "removing"
      /\ Manager!Scope(op[d].id) \subseteq {work[d].instance} \X Names
  BY DEF DInv, DropsHere
<1>2. work[d].instance = work[c].instance
  <2>1. PICK k : k \in {work[d].instance} \X Names /\ k \in {work[c].instance} \X Names
    BY <1>1
  <2> QED
    BY <2>1
<1>3. predecessor[d] = NoCaller
  BY <1>1 DEF DInv, ActiveIsFirst, IsActive
<1>4. c = d
  BY <1>1, <1>2, <1>3, FirstIsOne DEF DInv
<1> QED
  BY <1>4 DEF Manager!NoOp, Manager!Waiting, Manager!Drops

(* A step of a call leaves the drops of the others alone.                    *)
LEMMA MovesKeepsDrops ==
  ASSUME \A d \in Callers : DropsHere(d), NEW c \in Callers, Moves(c),
         \A d \in Callers : d # c => op'[d] = op[d],
         op'[c].kind \in Manager!Drops =>
           /\ work'[c].step = "removing"
           /\ Manager!Scope(op'[c].id) \subseteq {work[c].instance} \X Names
  PROVE  \A d \in Callers : DropsHere(d)'
<1> SUFFICES ASSUME NEW d \in Callers
             PROVE  DropsHere(d)'
  OBVIOUS
<1>1. CASE d = c
  BY <1>1 DEF DropsHere, Moves
<1>2. CASE d # c
  <2>1. op'[d] = op[d] /\ work'[d] = work[d]
    BY <1>2 DEF Moves
  <2>2. DropsHere(d)
    OBVIOUS
  <2> QED
    BY <2>1, <2>2 DEF DropsHere
<1> QED
  BY <1>1, <1>2

(* What a call of the manager that starts to close makes of op.              *)
LEMMA ClosingOp ==
  ASSUME Proved!IInv, NEW c \in Callers, NEW kind, NEW id, NEW todo,
         Manager!StartClosing(c, kind, id, todo)
  PROVE  /\ op[c] = Manager!NoOp
         /\ op'[c].kind = kind /\ op'[c].id = id
         /\ \A d \in Callers : d # c => op'[d] = op[d]
  BY ManagerTyped DEF Manager!StartClosing, Manager!Waiting

LEMMA OpenOp ==
  ASSUME Proved!IInv, NEW c \in Callers, NEW k, Manager!CallOpen(c, k)
  PROVE  /\ op'[c].kind \in {"none", "open"}
         /\ \A d \in Callers : d # c => op'[d] = op[d]
  BY ManagerTyped DEF Manager!CallOpen, Manager!RefuseOpen, Manager!ReturnExisting,
     Manager!AwaitBoot, Manager!Waiting, Manager!NoOp

(* What a step of a call means to the manager and to the drops.              *)
MeetsManager ==
  /\ Manager!Next \/ UNCHANGED managerVars
  /\ \A d \in Callers : DropsHere(d)'

LEMMA OpenMeets ==
  ASSUME DInv, NEW c \in Callers, Moves(c), NEW n \in Names,
         Manager!CallOpen(c, <<work[c].instance, n>>)
  PROVE  MeetsManager
<1>1. work[c].instance \in Instances
  BY DEF DInv, TypeOK, Work
<1>2. <<work[c].instance, n>> \in Manager!Keys
  BY <1>1 DEF Manager!Keys
<1>3. Manager!Next
  BY <1>2 DEF Manager!Next
<1>4. /\ op'[c].kind \in {"none", "open"}
      /\ \A d \in Callers : d # c => op'[d] = op[d]
  BY OpenOp DEF DInv
<1>5. op'[c].kind \notin Manager!Drops
  BY <1>4 DEF Manager!Drops
<1> QED
  BY <1>3, <1>4, <1>5, MovesKeepsDrops DEF DInv, MeetsManager

LEMMA CloseMeets ==
  ASSUME DInv, NEW c \in Callers, Moves(c), NEW n \in Names,
         Manager!CallClose(c, <<work[c].instance, n>>)
  PROVE  MeetsManager
<1> DEFINE k == <<work[c].instance, n>>
<1>1. work[c].instance \in Instances
  BY DEF DInv, TypeOK, Work
<1>2. k \in Manager!Keys
  BY <1>1 DEF Manager!Keys
<1> HIDE DEF k
<1>3. Manager!Next
  BY <1>2 DEF Manager!Next, k
<1>4. Manager!StartClosing(c, "close", k, {k})
  BY DEF Manager!CallClose, k
<1>5. /\ op'[c].kind = "close"
      /\ \A d \in Callers : d # c => op'[d] = op[d]
  BY <1>4, ClosingOp DEF DInv
<1>6. op'[c].kind \notin Manager!Drops
  BY <1>5 DEF Manager!Drops
<1> QED
  BY <1>3, <1>5, <1>6, MovesKeepsDrops DEF DInv, MeetsManager

LEMMA DropMeets ==
  ASSUME DInv, NEW c \in Callers, Moves(c), work'[c].step = "removing",
         predecessor[c] = NoCaller, NEW n \in Names,
         Manager!CallDrop(c, <<work[c].instance, n>>)
  PROVE  MeetsManager
<1> DEFINE k == <<work[c].instance, n>>
<1>1. work[c].instance \in Instances
  BY DEF DInv, TypeOK, Work
<1>2. k \in Manager!Keys /\ k \in {work[c].instance} \X Names
  BY <1>1 DEF Manager!Keys
<1> HIDE DEF k
<1>3. Manager!Scope(k) \subseteq {work[c].instance} \X Names
  BY <1>2, DataPlaneAssumption DEF Manager!Scope
<1>4. Manager!StartClosing(c, "drop", k, {k})
  BY DEF Manager!CallDrop, k
<1>5. /\ op[c] = Manager!NoOp /\ op'[c].id = k
      /\ \A d \in Callers : d # c => op'[d] = op[d]
  BY <1>4, ClosingOp DEF DInv
<1>6. ~Manager!DropsOverlap(k)
  BY <1>3, <1>5, NoOverlap DEF Moves
<1>7. Manager!Next
  BY <1>2, <1>6 DEF Manager!Next, Manager!Drop, k
<1> QED
  BY <1>3, <1>5, <1>7, MovesKeepsDrops DEF DInv, MeetsManager

LEMMA DropInstanceMeets ==
  ASSUME DInv, NEW c \in Callers, Moves(c), work'[c].step = "removing",
         predecessor[c] = NoCaller, Manager!CallDropInstance(c, work[c].instance)
  PROVE  MeetsManager
<1> DEFINE i == work[c].instance
<1>1. i \in Instances
  BY DEF DInv, TypeOK, Work
<1>2. Manager!Scope(i) \subseteq {i} \X Names
  BY <1>1 DEF Manager!Scope
<1>3. Manager!StartClosing(c, "dropInstance", i, Manager!Tracked \cap Manager!Scope(i))
  BY DEF Manager!CallDropInstance
<1>4. /\ op[c] = Manager!NoOp /\ op'[c].id = i
      /\ \A d \in Callers : d # c => op'[d] = op[d]
  BY <1>3, ClosingOp DEF DInv
<1>5. ~Manager!DropsOverlap(i)
  BY <1>2, <1>4, NoOverlap DEF Moves
<1>6. Manager!Next
  BY <1>1, <1>5 DEF Manager!Next, Manager!DropInstance
<1> QED
  BY <1>2, <1>4, <1>6, MovesKeepsDrops DEF DInv, MeetsManager

LEMMA QuietMeets ==
  ASSUME DInv, NEW c \in Callers, Moves(c), UNCHANGED managerVars,
         work[c].step # "removing" \/ op[c] = Manager!NoOp
  PROVE  MeetsManager
<1>1. op[c].kind \notin Manager!Drops
  BY DEF DInv, DropsHere, Manager!NoOp, Manager!Waiting, Manager!Drops
<1>2. op' = op
  BY DEF managerVars
<1> QED
  BY <1>1, <1>2, MovesKeepsDrops DEF DInv, MeetsManager

LEMMA GoesOnMeets ==
  ASSUME DInv, NEW c \in Callers, GoesOn(c), ~Return(c)
  PROVE  Moves(c) /\ MeetsManager
<1>m. Moves(c)
  BY GoesOnMoves DEF DInv
<1>w. work[c] \in Work /\ work \in [Callers -> Work]
  BY DEF DInv, TypeOK
<1>1. CASE CloseNext(c)
  <2>1. PICK n \in work[c].todo : Manager!CallClose(c, <<work[c].instance, n>>)
    BY <1>1 DEF CloseNext
  <2>2. n \in Names
    BY <1>w DEF Work
  <2> QED
    BY <1>m, <2>1, <2>2, CloseMeets
<1>2. CASE OpenNext(c)
  <2>1. PICK n \in work[c].todo : Manager!CallOpen(c, <<work[c].instance, n>>)
    BY <1>2 DEF OpenNext
  <2>2. n \in Names
    BY <1>w DEF Work
  <2> QED
    BY <1>m, <2>1, <2>2, OpenMeets
<1>3. CASE BeginOpenDatabase(c)
  <2>1. PICK n \in work[c].names : Manager!CallOpen(c, <<work[c].instance, n>>)
    BY <1>3 DEF BeginOpenDatabase
  <2>2. n \in Names
    BY <1>w DEF Work
  <2> QED
    BY <1>m, <2>1, <2>2, OpenMeets
<1>4. CASE BeginDropDatabase(c)
  <2>1. PICK n \in work[c].names : Manager!CallDrop(c, <<work[c].instance, n>>)
    BY <1>4 DEF BeginDropDatabase
  <2>2. n \in Names
    BY <1>w DEF Work
  <2>3. work'[c].step = "removing" /\ predecessor[c] = NoCaller
    BY <1>4, <1>w DEF BeginDropDatabase, Goes, MayBegin, Work
  <2> QED
    BY <1>m, <2>1, <2>2, <2>3, DropMeets
<1>5. CASE StoppedDrop(c) \/ BeginDrop(c)
  <2>1. RemoveInstance(c)
    BY <1>5 DEF StoppedDrop, BeginDrop
  <2>2. work'[c].step = "removing"
    BY <2>1, <1>w DEF RemoveInstance, Work
  <2>3. predecessor[c] = NoCaller
    BY <1>5 DEF StoppedDrop, BeginDrop, MayBegin, DInv, ActiveIsFirst, IsActive
  <2> QED
    BY <1>m, <2>1, <2>2, <2>3, DropInstanceMeets DEF RemoveInstance
<1>6. CASE \/ StopListener(c) \/ StoppedStart(c) \/ Stopped(c) \/ BeginStart(c)
           \/ NothingToDo(c) \/ Opened(c) \/ OpenFails(c) \/ Unwound(c) \/ AllOpen(c)
           \/ ClaimPort(c) \/ PortIsTaken(c) \/ BindFails(c) \/ BindSucceeds(c)
           \/ NoPortIsLeft(c) \/ OpenDatabaseReturns(c) \/ RemovalReturns(c)
  <2>1. UNCHANGED managerVars
    BY <1>6 DEF StopListener, StoppedStart, Stopped, BeginStart, NothingToDo, Opened,
       OpenFails, Unwound, AllOpen, ClaimPort, PortIsTaken, BindFails, BindSucceeds,
       NoPortIsLeft, OpenDatabaseReturns, RemovalReturns
  <2>2. work[c].step # "removing" \/ op[c] = Manager!NoOp
    BY <1>6 DEF StopListener, StoppedStart, Stopped, BeginStart, NothingToDo, Opened,
       OpenFails, Unwound, AllOpen, ClaimPort, PortIsTaken, BindFails, BindSucceeds,
       NoPortIsLeft, OpenDatabaseReturns, RemovalReturns, MayBegin
  <2> QED
    BY <1>m, <2>1, <2>2, QuietMeets
<1> QED
  BY <1>m, <1>1, <1>2, <1>3, <1>4, <1>5, <1>6 DEF GoesOn

LEMMA MovesKeepsFirst ==
  ASSUME ActiveIsFirst, NEW c \in Callers, Moves(c)
  PROVE  ActiveIsFirst'
  BY DEF ActiveIsFirst, IsActive, Moves, mutexVars

LEMMA GoesOnInv ==
  ASSUME DInv, NEW c \in Callers, GoesOn(c), ~Return(c)
  PROVE  DInv'
<1>1. Moves(c) /\ MeetsManager
  BY GoesOnMeets
<1>2. TypeOK' /\ ProbesPort'
  BY <1>1, MovesType DEF DInv
<1>3. HasChain' /\ ActiveIsFirst'
  BY <1>1, MovesKeepsChains, MovesKeepsFirst DEF DInv
<1>4. Proved!IInv'
  BY <1>1, ManagerInv DEF MeetsManager, DInv
<1> QED
  BY <1>1, <1>2, <1>3, <1>4 DEF DInv, MeetsManager

LEMMA ReturnInv ==
  ASSUME DInv, NEW c \in Callers, Return(c)
  PROVE  DInv' /\ UNCHANGED managerVars
<1>1. TypeOK' /\ ProbesPort' /\ UNCHANGED managerVars
  BY ReturnType DEF DInv, Return
<1>2. work[c].step = "returning" /\ predecessor[c] = NoCaller
  BY DEF Return, DInv, ActiveIsFirst, IsActive
<1>3. HasChain'
  BY <1>2, ReturnKeepsChains DEF DInv
<1>4. /\ work'[c].step = "idle"
      /\ \A d \in Callers : d # c => work'[d] = work[d]
  BY IdleType DEF Return, DInv, TypeOK
<1>5. ActiveIsFirst'
  BY <1>4 DEF ActiveIsFirst, IsActive, Return, DInv
<1>6. \A d \in Callers : DropsHere(d)'
  <2>1. op' = op /\ op[c].kind \notin Manager!Drops
    BY <1>1, <1>2 DEF managerVars, DInv, DropsHere
  <2> QED
    BY <1>4, <2>1 DEF DropsHere, DInv
<1>7. Proved!IInv'
  BY <1>1, ManagerInv DEF DInv
<1> QED
  BY <1>1, <1>3, <1>5, <1>6, <1>7 DEF DInv

LEMMA QueueInv ==
  ASSUME DInv, NEW c \in Callers, NEW kind \in Kinds, NEW i \in Instances,
         NEW names \in SUBSET Names,
         Queue(c, [kind |-> kind, instance |-> i, names |-> names]),
         stopping' \in [step : {"no", "stopping", "closed"}, todo : SUBSET Instances]
  PROVE  DInv' /\ UNCHANGED managerVars
<1> DEFINE request == [kind |-> kind, instance |-> i, names |-> names]
<1>1. TypeOK' /\ ProbesPort'
  BY QueueType DEF DInv
<1>2. request.instance = i /\ Queue(c, request)
  OBVIOUS
<1> HIDE DEF request
<1>3. HasChain'
  BY <1>2, QueueKeepsChains DEF DInv
<1>4. /\ work[c].step = "idle" /\ work'[c].step = "queued"
      /\ \A d \in Callers : d # c => work'[d] = work[d] /\ predecessor'[d] = predecessor[d]
      /\ UNCHANGED managerVars
  BY <1>2 DEF Queue, Start, DInv, TypeOK
<1>5. ActiveIsFirst'
  BY <1>4 DEF ActiveIsFirst, IsActive, DInv
<1>6. \A d \in Callers : DropsHere(d)'
  <2>1. op' = op /\ op[c].kind \notin Manager!Drops
    BY <1>4 DEF managerVars, DInv, DropsHere
  <2> QED
    BY <1>4, <2>1 DEF DropsHere, DInv
<1>7. Proved!IInv'
  BY <1>4, ManagerInv DEF DInv
<1> QED
  BY <1>1, <1>3, <1>4, <1>5, <1>6, <1>7 DEF DInv

(* Steps of the manager alone: an operation keeps what it is of, or is over. *)
GoesOnOrEnds(d) ==
  op'[d].kind \in Manager!Drops => op[d].kind \in Manager!Drops /\ op'[d].id = op[d].id

LEMMA ElsewhereInv ==
  ASSUME DInv, Manager!Next \/ UNCHANGED managerVars,
         UNCHANGED <<instances, allocatedPorts, mutexVars, work>>,
         stopping' \in [step : {"no", "stopping", "closed"}, todo : SUBSET Instances],
         \A d \in Callers : GoesOnOrEnds(d)
  PROVE  DInv'
<1>1. TypeOK' /\ ProbesPort' /\ ActiveIsFirst'
  BY DEF DInv, TypeOK, ProbesPort, ActiveIsFirst, IsActive, mutexVars
<1>2. HasChain'
  BY DEF DInv, HasChain, Chain, IsCalling, mutexVars
<1>3. \A d \in Callers : DropsHere(d)'
  BY DEF DInv, DropsHere, GoesOnOrEnds
<1>4. Proved!IInv'
  BY ManagerInv DEF DInv
<1> QED
  BY <1>1, <1>2, <1>3, <1>4 DEF DInv

LEMMA BootsInv ==
  ASSUME DInv, NEW k \in Manager!Keys, Boots(k)
  PROVE  DInv' /\ Manager!Next
<1>1. Manager!Next
  BY DEF Boots, Manager!Next
<1>2. \A d \in Callers : op'[d] = op[d] \/ op'[d] = Manager!NoOp
  BY DEF Boots, Manager!BootEnds, Manager!BootSucceeds, Manager!BootIsLate,
     Manager!Discarded, Manager!BootFails, Manager!Settle
<1>3. \A d \in Callers : GoesOnOrEnds(d)
  BY <1>2 DEF GoesOnOrEnds, Manager!NoOp, Manager!Waiting, Manager!Drops
<1> QED
  BY <1>1, <1>3, ElsewhereInv DEF Boots, ElsewhereUnchanged, DInv, TypeOK

LEMMA ManagesInv ==
  ASSUME DInv, NEW c \in Callers, Manages(c)
  PROVE  DInv' /\ Manager!Next
<1>1. Manager!Next
  BY DEF Manages, Manager!Next
<1>2. op \in [Callers -> Manager!Operation]
  BY ManagerTyped DEF DInv
<1>r. op[c] \in Manager!Operation
  BY <1>2
<1>3. /\ op'[c] = Manager!NoOp \/ (op'[c].kind = op[c].kind /\ op'[c].id = op[c].id)
      /\ \A d \in Callers : d # c => op'[d] = op[d]
  <2>1. CASE \E k \in Manager!Keys : Manager!CloseNext(c, k) \/ Manager!EngineCloses(c, k)
    <3>1. PICK k \in Manager!Keys : Manager!CloseNext(c, k) \/ Manager!EngineCloses(c, k)
      BY <2>1
    <3>2. CASE Manager!CloseNext(c, k)
      BY <1>2, <1>r, <3>2 DEF Manager!CloseNext, Manager!Operation
    <3>3. CASE Manager!EngineCloses(c, k)
      BY <1>2, <1>r, <3>3 DEF Manager!EngineCloses, Manager!Operation
    <3> QED
      BY <3>1, <3>2, <3>3
  <2>2. CASE Manager!CloseReturns(c) \/ Manager!Removed(c)
    BY <1>2, <2>2 DEF Manager!CloseReturns, Manager!Removed
  <2>3. CASE Manager!DropGoesOn(c)
    <3>1. PICK remaining : op' = [op EXCEPT ![c].todo = remaining,
                                            ![c].removing = (remaining = {})]
      BY <2>3 DEF Manager!DropGoesOn
    <3> QED
      BY <1>2, <1>r, <3>1 DEF Manager!Operation
  <2> QED
    BY <2>1, <2>2, <2>3 DEF Manages, Manager!GoesOn
<1>4. \A d \in Callers : GoesOnOrEnds(d)
  BY <1>3 DEF GoesOnOrEnds, Manager!NoOp, Manager!Waiting, Manager!Drops
<1> QED
  BY <1>1, <1>4, ElsewhereInv DEF Manages, ElsewhereUnchanged, DInv, TypeOK

LEMMA CloseAllInv ==
  ASSUME DInv, CloseAll
  PROVE  DInv' /\ Manager!Next
<1>1. Shutdown \in Callers
  BY DEF Callers
<1>2. Manager!Next
  BY <1>1 DEF CloseAll, Manager!Next
<1>3. Manager!StartClosing(Shutdown, "closeAll", NoId, Manager!Tracked)
  BY DEF CloseAll, Manager!CallCloseAll
<1>4. /\ op'[Shutdown].kind = "closeAll"
      /\ \A d \in Callers : d # Shutdown => op'[d] = op[d]
  BY <1>1, <1>3, ClosingOp DEF DInv
<1>5. \A d \in Callers : GoesOnOrEnds(d)
  BY <1>4 DEF GoesOnOrEnds, Manager!Drops
<1>6. stopping' \in [step : {"no", "stopping", "closed"}, todo : SUBSET Instances]
  BY DEF CloseAll, DInv, TypeOK
<1> QED
  BY <1>2, <1>5, <1>6, ElsewhereInv DEF CloseAll

LEMMA NextInv == DInv /\ [Next]_vars => DInv' /\ (Manager!Next \/ UNCHANGED managerVars)
<1> SUFFICES ASSUME DInv, [Next]_vars
             PROVE  DInv' /\ (Manager!Next \/ UNCHANGED managerVars)
  OBVIOUS
<1>1. ASSUME NEW c \in Requesters, Request(c)
      PROVE  DInv' /\ UNCHANGED managerVars
  <2>1. PICK request \in Requests : Queue(c, request)
    BY <1>1 DEF Request
  <2>2. request \in [kind : Kinds, instance : Instances, names : SUBSET Names]
    BY DataPlaneAssumption
  <2>3. PICK kind \in Kinds, i \in Instances, names \in SUBSET Names :
          request = [kind |-> kind, instance |-> i, names |-> names]
    BY <2>2
  <2>4. c \in Callers /\ Queue(c, [kind |-> kind, instance |-> i, names |-> names])
    BY <2>1, <2>3 DEF Callers
  <2>5. stopping' \in [step : {"no", "stopping", "closed"}, todo : SUBSET Instances]
    BY <1>1 DEF Request, DInv, TypeOK
  <2> QED
    BY <2>4, <2>5, QueueInv
<1>2. ASSUME NEW c \in Callers, GoesOn(c)
      PROVE  DInv' /\ (Manager!Next \/ UNCHANGED managerVars)
  <2>1. CASE Return(c)
    BY <2>1, ReturnInv
  <2>2. CASE ~Return(c)
    BY <1>2, <2>2, GoesOnInv, GoesOnMeets DEF MeetsManager
  <2> QED
    BY <2>1, <2>2
<1>3. CASE \E c \in Callers : Manages(c)
  BY <1>3, ManagesInv
<1>4. CASE \E k \in Manager!Keys : Boots(k)
  BY <1>4, BootsInv
<1>5. CASE StopAll \/ UNCHANGED vars
  <2>1. /\ UNCHANGED <<managerVars, instances, allocatedPorts, mutexVars, work>>
        /\ stopping' \in [step : {"no", "stopping", "closed"}, todo : SUBSET Instances]
    BY <1>5 DEF StopAll, vars, DInv, TypeOK
  <2>2. \A d \in Callers : GoesOnOrEnds(d)
    BY <2>1 DEF GoesOnOrEnds, managerVars
  <2> QED
    BY <2>1, <2>2, ElsewhereInv
<1>6. CASE StopNext
  <2>1. PICK i \in stopping.todo :
          /\ Queue(Shutdown, [kind |-> "stop", instance |-> i, names |-> {}])
          /\ stopping' = [stopping EXCEPT !.todo = @ \ {i}]
    BY <1>6 DEF StopNext
  <2>2. i \in Instances /\ Shutdown \in Callers /\ "stop" \in Kinds
    BY DEF DInv, TypeOK, Callers, Kinds
  <2>3. stopping' \in [step : {"no", "stopping", "closed"}, todo : SUBSET Instances]
    BY <2>1 DEF DInv, TypeOK
  <2> QED
    BY <2>1, <2>2, <2>3, QueueInv
<1>7. CASE CloseAll
  BY <1>7, CloseAllInv
<1> QED
  BY <1>1, <1>2, <1>3, <1>4, <1>5, <1>6, <1>7 DEF Next

LEMMA InitInv == Init => DInv
<1> SUFFICES ASSUME Init PROVE DInv
  OBVIOUS
<1>1. work \in [Callers -> Work] /\ \A c \in Callers : work[c].step = "idle"
  BY IdleType DEF Init
<1>2. Absent \in Instance
  BY DEF Absent, Instance
<1>3. TypeOK
  BY <1>1, <1>2 DEF Init, TypeOK
<1>4. ProbesPort /\ ActiveIsFirst
  BY <1>1 DEF ProbesPort, ActiveIsFirst, IsActive
<1>5. HasChain
  <2> SUFFICES ASSUME NEW i \in Instances
               PROVE  \E n \in Nat : \E s \in [1 .. n -> Callers] : Chain(i, n, s)
    BY DEF HasChain
  <2> DEFINE s == [j \in 1 .. 0 |-> NoCaller]
  <2>1. s \in [1 .. 0 -> Callers] /\ 0 \in Nat
    OBVIOUS
  <2>2. Chain(i, 0, s)
    BY <1>1 DEF Chain, IsCalling, Init
  <2> QED
    BY <2>1, <2>2
<1>6. \A c \in Callers : DropsHere(c)
  BY DEF Init, Manager!Init, DropsHere, Manager!NoOp, Manager!Waiting, Manager!Drops
<1>7. Proved!IInv
  <2>1. Manager!Keys \cap Instances = {} /\ NoId \notin Manager!Ids /\ Names # {}
    BY DataPlaneAssumption
  <2>2. Proved!Keys \cap Instances = {} /\ NoId \notin Proved!Ids /\ Names # {}
    BY <2>1 DEF Manager!Keys, Proved!Keys, Manager!Ids, Proved!Ids
  <2> QED
    BY <2>2, SameManager, Proved!InitInv DEF Init
<1> QED
  BY <1>3, <1>4, <1>5, <1>6, <1>7 DEF DInv

LEMMA Invariance == Spec => []DInv
  BY InitInv, NextInv, PTL DEF Spec

-----------------------------------------------------------------------------

(* Every field of the manager, of its mutex and of its port allocator holds  *)
(* what the code declares for it.                                            *)
THEOREM TypeCorrect == Spec => []TypeOK
<1>1. DInv => TypeOK
  BY DEF DInv
<1> QED
  BY <1>1, Invariance, PTL

(* ResourceMutex: two calls for an instance are never past their turn        *)
(* together, with any number of them waiting.                                *)
THEOREM MutexExcludes == Spec => []MutualExclusion
<1>1. DInv => MutualExclusion
  BY ChainExcludes DEF DInv
<1> QED
  BY <1>1, Invariance, PTL

(* ResourceMutex: whoever waits, waits for a call that will end.             *)
THEOREM NobodyWaitsForTheGone == Spec => []WaitsForACall
<1>1. ASSUME TypeOK, HasChain PROVE WaitsForACall
  <2> SUFFICES ASSUME NEW c \in Callers, work[c].step = "queued", predecessor[c] # NoCaller
               PROVE  IsCalling(predecessor[c], work[c].instance)
    BY DEF WaitsForACall, IsCalling
  <2> DEFINE i == work[c].instance
  <2>1. i \in Instances
    BY <1>1 DEF TypeOK, Work
  <2>2. PICK n \in Nat : \E s \in [1 .. n -> Callers] : Chain(i, n, s)
    BY <1>1, <2>1 DEF HasChain
  <2>3. PICK s \in [1 .. n -> Callers] : Chain(i, n, s)
    BY <2>2
  <2>4. PICK j \in 1 .. n : s[j] = c
    BY <2>3 DEF Chain, IsCalling
  <2>5. predecessor[c] = s[j - 1] /\ j - 1 \in 1 .. n
    BY <2>2, <2>3, <2>4 DEF Chain
  <2>6. s[j - 1] \in Callers
    BY <2>3, <2>5
  <2> QED
    BY <2>3, <2>5, <2>6 DEF Chain
<1> QED
  BY <1>1, Invariance, PTL DEF DInv

(* ResourceMutex: the calls of an instance take turns, and none is forgotten.*)
THEOREM CallsAreSerial == Spec => []CallsTakeTurns
<1>1. TypeOK /\ MutualExclusion /\ WaitsForACall => CallsTakeTurns
  BY DEF CallsTakeTurns
<1> QED
  BY <1>1, TypeCorrect, MutexExcludes, NobodyWaitsForTheGone, PTL

(* DataPlaneManager serialises drops, as PGliteDatabaseManager needs.        *)
THEOREM ManagerIsUsedWell == Spec => UsesDatabaseManager
<1>1. Init => Manager!Init
  BY DEF Init
<1>2. DInv /\ [Next]_vars => [Manager!Next]_Manager!vars
  BY NextInv DEF managerVars, Manager!vars
<1> QED
  BY <1>1, <1>2, Invariance, PTL DEF Spec, UsesDatabaseManager, Manager!Spec

(* So no engine of the data plane runs over files that a drop removed.       *)
THEOREM FilesStay == Spec => []Manager!FilesUnderEngines
<1>1. DInv => Manager!FilesUnderEngines
  BY DEF DInv, Proved!IInv, Proved!FilesUnderEngines, Manager!FilesUnderEngines
<1> QED
  BY <1>1, Invariance, PTL


-----------------------------------------------------------------------------
(* Engines, listeners and ports.                                             *)

KeysOf(i, names) == {i} \X names

(* Where a call has taken the listener of its instance down, or has found    *)
(* none.                                                                     *)
Quiet(w) ==
  \/ w.step \in {"closing", "unwinding", "claiming", "probing"}
  \/ w.step = "opening" /\ (w.kind = "start" \/ w.booting = {})
  \/ w.step = "removing" /\ w.kind # "dropDatabase"

(* The ports a call holds, by how far it has come.                           *)
HoldsInTurn(c) ==
  LET w == work[c] IN
  /\ w.step \in {"closing", "probing"} \/ w.port = NoPort
  /\ w.step \in {"claiming", "probing"} \/ w.refused = {}
  /\ w.port \notin w.refused

(* The operation of the manager a call waits for is its own.                 *)
WaitsForItsOwn(c) ==
  LET w == work[c] IN
  /\ op[c].kind = "none" => op[c] = Manager!NoOp
  /\ op[c].kind = "closeAll" => c = Shutdown /\ stopping.step = "closed" /\ w.step = "idle"
  /\ op[c].kind = "open" =>
       w.step = "opening" /\ \E n \in Names : op[c].id = <<w.instance, n>> /\ w.booting = {n}
  /\ op[c].kind = "close" => w.step \in {"closing", "unwinding"}
  /\ op[c].kind # "closeAll" => op[c].todo \cup op[c].closing \subseteq KeysOf(w.instance, Names)

(* What its instance serves meanwhile.                                       *)
ServesMeanwhile(c) ==
  LET w == work[c] IN
  /\ Quiet(w) => instances[w.instance] = Absent
  /\ w.step \in {"queued", "closing"} => w.opened = {} /\ w.booting = {}
  /\ w.step = "opening" /\ w.kind # "start" =>
       /\ w.kind = "openDatabase" /\ w.booting = w.names /\ w.opened = {}
       /\ IsRunning(w.instance)
  /\ w.kind \in {"openDatabase", "dropDatabase"} => \E n \in Names : w.names = {n}
  /\ w.step = "removing" /\ w.kind = "dropDatabase" =>
       /\ w.names \cap instances[w.instance].databases = {}
       /\ op[c].kind # "dropInstance" /\ op[c].todo \subseteq KeysOf(w.instance, w.names)

(* An engine that is closing, other than by closeAll(), is the only one of   *)
(* its key and keeps its files.                                              *)
ClosesAlone(c) ==
  op[c].kind # "closeAll" =>
    op[c].closing \cap (databases \cup opening) = {} /\ op[c].closing \subseteq files

(* What a call has opened is open, until closeAll().                         *)
KeepsOpen(c) ==
  LET w == work[c] IN
  stopping.step # "closed" =>
    /\ w.step \in {"opening", "claiming", "probing"} => KeysOf(w.instance, w.opened) \subseteq databases
    /\ w.step = "opening" /\ op[c] = Manager!NoOp /\ outcome[c] = "ok" =>
         KeysOf(w.instance, w.booting) \subseteq databases

(* The databases a call still has to close or to publish.                    *)
Pending(c) ==
  LET w == work[c] IN
  (IF w.step \in {"closing", "unwinding"} THEN w.todo ELSE {})
  \cup (IF w.step \in {"opening", "claiming", "probing"} THEN w.opened ELSE {})
  \cup (IF w.step = "opening" /\ (op[c] # Manager!NoOp \/ outcome[c] = "ok") THEN w.booting ELSE {})
  \cup {n \in Names : <<w.instance, n>> \in op[c].todo}

EnginesAccounted ==
  \A i \in Instances, n \in Names : <<i, n>> \in databases \cup opening =>
    \/ n \in instances[i].databases
    \/ \E c \in Callers : IsActive(c) /\ work[c].instance = i /\ n \in Pending(c)

ServesWhatIsOpen ==
  stopping.step # "closed" => \A i \in Instances : KeysOf(i, instances[i].databases) \subseteq databases

AbsentServesNone == \A i \in Instances : ~IsRunning(i) => instances[i].databases = {}
ShutdownEnds == stopping.step = "closed" => work[Shutdown].step = "idle"

(* PortsAccounted, port by port.                                             *)
PortsInv ==
  /\ \A c \in Callers : Holding(c) \subseteq allocatedPorts
  /\ \A i \in Instances : Serving(i) \subseteq allocatedPorts
  /\ \A p \in allocatedPorts :
        (\E c \in Callers : p \in Holding(c)) \/ (\E i \in Instances : p \in Serving(i))
  /\ \A c, d \in Callers : c # d => Holding(c) \cap Holding(d) = {}
  /\ \A i, j \in Instances : i # j => Serving(i) \cap Serving(j) = {}
  /\ \A c \in Callers, i \in Instances : Holding(c) \cap Serving(i) = {}

CallInv(c) ==
  HoldsInTurn(c) /\ WaitsForItsOwn(c) /\ ServesMeanwhile(c) /\ ClosesAlone(c) /\ KeepsOpen(c)

EInv ==
  /\ \A c \in Callers : CallInv(c)
  /\ EnginesAccounted /\ ServesWhatIsOpen /\ AbsentServesNone /\ ShutdownEnds
  /\ PortsInv

-----------------------------------------------------------------------------

LEMMA ManagerNoOp ==
  /\ Manager!NoOp.kind = "none" /\ Manager!NoOp.id = NoId
  /\ Manager!NoOp.todo = {} /\ Manager!NoOp.closing = {}
  BY DEF Manager!NoOp, Manager!Waiting

(* A step of c at instance i gives some ports back and claims others.        *)
LEMMA PortsStep ==
  ASSUME PortsInv, NEW c \in Callers, NEW i \in Instances,
         \A d \in Callers \ {c} : Holding(d)' = Holding(d),
         \A j \in Instances \ {i} : Serving(j)' = Serving(j),
         Holding(c)' \cap Serving(i)' = {},
         \A p \in Holding(c)' \cup Serving(i)' :
           p \in allocatedPorts => p \in Holding(c) \cup Serving(i),
         allocatedPorts' = (allocatedPorts \ (Holding(c) \cup Serving(i)))
                             \cup Holding(c)' \cup Serving(i)'
  PROVE  PortsInv'
<1> DEFINE H(d) == Holding(d)
           G(d) == Holding(d)'
           S(j) == Serving(j)
           R(j) == Serving(j)'
<1>a. /\ \A d \in Callers : H(d) \subseteq allocatedPorts
      /\ \A j \in Instances : S(j) \subseteq allocatedPorts
      /\ \A p \in allocatedPorts : (\E d \in Callers : p \in H(d)) \/ (\E j \in Instances : p \in S(j))
      /\ \A d, e \in Callers : d # e => H(d) \cap H(e) = {}
      /\ \A j, k \in Instances : j # k => S(j) \cap S(k) = {}
      /\ \A d \in Callers, j \in Instances : H(d) \cap S(j) = {}
  BY DEF PortsInv
<1>b. /\ \A d \in Callers \ {c} : G(d) = H(d)
      /\ \A j \in Instances \ {i} : R(j) = S(j)
      /\ G(c) \cap R(i) = {}
      /\ \A p \in G(c) \cup R(i) : p \in allocatedPorts => p \in H(c) \cup S(i)
      /\ allocatedPorts' = (allocatedPorts \ (H(c) \cup S(i))) \cup G(c) \cup R(i)
  OBVIOUS
<1> SUFFICES
      /\ \A d \in Callers : G(d) \subseteq allocatedPorts'
      /\ \A j \in Instances : R(j) \subseteq allocatedPorts'
      /\ \A p \in allocatedPorts' : (\E d \in Callers : p \in G(d)) \/ (\E j \in Instances : p \in R(j))
      /\ \A d, e \in Callers : d # e => G(d) \cap G(e) = {}
      /\ \A j, k \in Instances : j # k => R(j) \cap R(k) = {}
      /\ \A d \in Callers, j \in Instances : G(d) \cap R(j) = {}
  BY DEF PortsInv
<1> HIDE DEF H, G, S, R
<1>1. ASSUME NEW d \in Callers PROVE G(d) \subseteq allocatedPorts'
  BY <1>a, <1>b
<1>2. ASSUME NEW j \in Instances PROVE R(j) \subseteq allocatedPorts'
  BY <1>a, <1>b
<1>3. ASSUME NEW p \in allocatedPorts'
      PROVE  (\E d \in Callers : p \in G(d)) \/ (\E j \in Instances : p \in R(j))
  <2>1. CASE p \in G(c) \cup R(i)
    BY <2>1
  <2>2. CASE p \notin G(c) \cup R(i)
    <3>1. p \in allocatedPorts /\ p \notin H(c) /\ p \notin S(i)
      BY <1>b, <2>2
    <3> QED
      BY <1>a, <1>b, <3>1
  <2> QED
    BY <2>1, <2>2
<1>4. ASSUME NEW d \in Callers, NEW e \in Callers, d # e PROVE G(d) \cap G(e) = {}
  BY <1>a, <1>b, <1>4
<1>5. ASSUME NEW j \in Instances, NEW k \in Instances, j # k PROVE R(j) \cap R(k) = {}
  BY <1>a, <1>b, <1>5
<1>6. ASSUME NEW d \in Callers, NEW j \in Instances PROVE G(d) \cap R(j) = {}
  BY <1>a, <1>b
<1> QED
  BY <1>1, <1>2, <1>3, <1>4, <1>5, <1>6

LEMMA PortsKept ==
  ASSUME PortsInv, UNCHANGED allocatedPorts,
         \A d \in Callers : work'[d].port = work[d].port /\ work'[d].refused = work[d].refused,
         \A j \in Instances : instances'[j].port = instances[j].port
  PROVE  PortsInv'
<1>1. /\ \A d \in Callers : Holding(d)' = Holding(d)
      /\ \A j \in Instances : Serving(j)' = Serving(j)
  BY DEF Holding, Serving
<1> QED
  BY <1>1 DEF PortsInv

LEMMA PortsImply == PortsInv => PortsAccounted
  BY DEF PortsInv, PortsAccounted

(* While a call is at work, no other is for its instance.                    *)
LEMMA AloneAtWork ==
  ASSUME DInv, NEW c \in Callers, work[c].step # "idle",
         work[c].step = "queued" => predecessor[c] = NoCaller,
         NEW d \in Callers, d # c, IsActive(d)
  PROVE  work[d].instance # work[c].instance
<1>1. predecessor[c] = NoCaller /\ predecessor[d] = NoCaller
  BY DEF DInv, ActiveIsFirst, IsActive
<1> QED
  BY <1>1, FirstIsOne DEF DInv, IsActive

(* The engines of an instance are its listener's or its call's.              *)
LEMMA AccountedAtWork ==
  ASSUME DInv, EInv, NEW c \in Callers, work[c].step # "idle",
         work[c].step = "queued" => predecessor[c] = NoCaller,
         NEW n \in Names, <<work[c].instance, n>> \in databases \cup opening
  PROVE  n \in instances[work[c].instance].databases \/ n \in Pending(c)
<1>1. work[c].instance \in Instances
  BY DEF DInv, TypeOK, Work
<1>2. CASE n \notin instances[work[c].instance].databases
  <2>1. PICK d \in Callers : /\ IsActive(d) /\ work[d].instance = work[c].instance
                             /\ n \in Pending(d)
    BY <1>1, <1>2 DEF EInv, EnginesAccounted
  <2>2. d = c
    BY <2>1, AloneAtWork
  <2> QED
    BY <2>1, <2>2
<1> QED
  BY <1>2

(* Operations are over when a call has none to wait for.                     *)
LEMMA NoOpThen ==
  ASSUME DInv, EInv, NEW c \in Callers,
         \/ work[c].step \in {"queued", "claiming", "probing", "returning"}
         \/ work[c].step = "opening" /\ work[c].booting = {}
  PROVE  op[c] = Manager!NoOp
<1>1. op[c] \in Manager!Operation
  BY ManagerTyped DEF DInv
<1>2. op[c].kind \notin Manager!Drops
  BY DEF DInv, DropsHere
<1>3. op[c].kind \notin {"open", "close", "closeAll"}
  BY DEF EInv, CallInv, WaitsForItsOwn
<1>4. op[c].kind = "none"
  BY <1>1, <1>2, <1>3 DEF Manager!Operation, Manager!Closes, Manager!Drops
<1> QED
  BY <1>4 DEF EInv, CallInv, WaitsForItsOwn

(* What a step of a call does elsewhere: nothing.                            *)
StaysHere(c) ==
  LET i == work[c].instance IN
  /\ databases' = databases
  /\ opening \subseteq opening' /\ opening' \subseteq opening \cup KeysOf(i, Names)
  /\ files \subseteq files'
  /\ \A d \in Callers \ {c} : op'[d] = op[d] /\ outcome'[d] = outcome[d]
  /\ \A j \in Instances \ {i} : instances'[j] = instances[j]

LEMMA OthersKeep ==
  ASSUME DInv, EInv, NEW c \in Callers, Moves(c), StaysHere(c), NEW d \in Callers \ {c}
  PROVE  CallInv(d)'
<1>1. work'[d] = work[d] /\ op'[d] = op[d] /\ outcome'[d] = outcome[d] /\ stopping' = stopping
  BY DEF Moves, StaysHere
<1>2. work[c].step # "idle" /\ (work[c].step = "queued" => predecessor[c] = NoCaller)
  BY DEF Moves
<1>3. IsActive(d) => work[d].instance # work[c].instance
  BY <1>2, AloneAtWork
<1>4. work[d].instance \in Instances
  BY DEF DInv, TypeOK, Work
<1>5. IsActive(d) => instances'[work[d].instance] = instances[work[d].instance]
  BY <1>3, <1>4 DEF StaysHere
<1>6. CallInv(d)
  BY DEF EInv
<1>7. HoldsInTurn(d)'
  BY <1>1, <1>6 DEF CallInv, HoldsInTurn
<1>8. WaitsForItsOwn(d)'
  BY <1>1, <1>6 DEF CallInv, WaitsForItsOwn
<1>9. ServesMeanwhile(d)'
  BY <1>1, <1>5, <1>6 DEF CallInv, ServesMeanwhile, Quiet, IsActive, IsRunning
<1>10. ClosesAlone(d)'
  <2>1. CASE ~IsActive(d)
    <3>1. op[d].kind \notin {"open", "close"}
      BY <1>6, <2>1 DEF CallInv, WaitsForItsOwn, IsActive
    <3>2. op[d].kind \notin Manager!Drops
      BY <2>1 DEF DInv, DropsHere, IsActive
    <3>3. op[d] \in Manager!Operation
      BY ManagerTyped DEF DInv
    <3>4. op[d].kind = "closeAll" \/ op[d] = Manager!NoOp
      BY <1>6, <3>1, <3>2, <3>3 DEF Manager!Operation, Manager!Closes, Manager!Drops,
         CallInv, WaitsForItsOwn
    <3> QED
      BY <1>1, <3>4, ManagerNoOp DEF ClosesAlone
  <2>2. CASE IsActive(d)
    <3>1. op[d].kind # "closeAll"
      BY <1>6, <2>2 DEF CallInv, WaitsForItsOwn, IsActive
    <3>2. op[d].closing \subseteq KeysOf(work[d].instance, Names)
      BY <1>6, <3>1 DEF CallInv, WaitsForItsOwn
    <3>3. KeysOf(work[d].instance, Names) \cap KeysOf(work[c].instance, Names) = {}
      BY <1>3, <2>2 DEF KeysOf
    <3>4. op[d].closing \cap (databases \cup opening) = {} /\ op[d].closing \subseteq files
      BY <1>6, <3>1 DEF CallInv, ClosesAlone
    <3> QED
      BY <1>1, <3>2, <3>3, <3>4 DEF ClosesAlone, StaysHere
  <2> QED
    BY <2>1, <2>2
<1>11. KeepsOpen(d)'
  BY <1>1, <1>6 DEF CallInv, KeepsOpen, StaysHere
<1> QED
  BY <1>7, <1>8, <1>9, <1>10, <1>11 DEF CallInv

(* So a step of a call is judged by what it does at its own instance.        *)
LEMMA StepHere ==
  ASSUME DInv, EInv, NEW c \in Callers, Moves(c), StaysHere(c),
         CallInv(c)', PortsInv',
         \A n \in Names : <<work[c].instance, n>> \in databases' \cup opening' =>
           n \in instances'[work[c].instance].databases \/ n \in Pending(c)',
         stopping.step # "closed" =>
           KeysOf(work[c].instance, instances'[work[c].instance].databases) \subseteq databases,
         instances'[work[c].instance].port # NoPort
           \/ instances'[work[c].instance].databases = {}
  PROVE  EInv'
<1> DEFINE i == work[c].instance
<1>1. i \in Instances /\ work'[c].instance = i /\ IsActive(c)' /\ stopping' = stopping
  BY DEF DInv, TypeOK, Work, Moves, IsActive
<1>2. \A d \in Callers : CallInv(d)'
  BY OthersKeep
<1>3. EnginesAccounted'
  <2> SUFFICES ASSUME NEW j \in Instances, NEW n \in Names, <<j, n>> \in databases' \cup opening'
               PROVE  \/ n \in instances'[j].databases
                      \/ \E d \in Callers : /\ IsActive(d)' /\ work'[d].instance = j
                                            /\ n \in Pending(d)'
    BY DEF EnginesAccounted
  <2>1. CASE j = i
    BY <1>1, <2>1
  <2>2. CASE j # i
    <3>1. <<j, n>> \in databases \cup opening
      BY <2>2 DEF StaysHere, KeysOf
    <3>2. CASE n \in instances[j].databases
      BY <2>2, <3>2 DEF StaysHere
    <3>3. CASE n \notin instances[j].databases
      <4>1. PICK d \in Callers : IsActive(d) /\ work[d].instance = j /\ n \in Pending(d)
        BY <3>1, <3>3 DEF EInv, EnginesAccounted
      <4>2. work'[d] = work[d] /\ op'[d] = op[d] /\ outcome'[d] = outcome[d]
        BY <2>2, <4>1 DEF Moves, StaysHere
      <4>3. IsActive(d)' /\ work'[d].instance = j /\ Pending(d)' = Pending(d)
        BY <4>1, <4>2 DEF IsActive, Pending
      <4> QED
        BY <4>1, <4>3
    <3> QED
      BY <3>2, <3>3
  <2> QED
    BY <2>1, <2>2
<1>4. ServesWhatIsOpen'
  BY <1>1 DEF ServesWhatIsOpen, StaysHere, EInv
<1>5. AbsentServesNone'
  BY <1>1 DEF AbsentServesNone, IsRunning, StaysHere, EInv
<1>6. ShutdownEnds'
  BY DEF ShutdownEnds, EInv, Moves, Callers
<1> QED
  BY <1>2, <1>3, <1>4, <1>5, <1>6 DEF EInv

-----------------------------------------------------------------------------
(* Steps of a call that do not touch the manager.                            *)

LEMMA QuietStep ==
  ASSUME DInv, EInv, NEW c \in Callers, NEW i, i = work[c].instance, Moves(c),
         UNCHANGED managerVars, op[c] = Manager!NoOp,
         \A j \in Instances \ {i} : instances'[j] = instances[j],
         work'[c].kind = work[c].kind, work'[c].names = work[c].names,
         work'[c].step # "removing",
         work'[c].step = "closing" => work'[c].opened = {} /\ work'[c].booting = {},
         work'[c].step = "opening" => work[c].kind = "start" /\ work'[c].booting = {},
         HoldsInTurn(c)', PortsInv',
         Quiet(work'[c]) => instances'[i] = Absent,
         instances'[i].port # NoPort \/ instances'[i].databases = {},
         stopping.step # "closed" =>
           /\ KeysOf(i, instances'[i].databases) \subseteq databases
           /\ work'[c].step \in {"opening", "claiming", "probing"} =>
                KeysOf(i, work'[c].opened) \subseteq databases,
         \A n \in Names : <<i, n>> \in databases \cup opening =>
           (n \in instances[i].databases \cup Pending(c) => n \in instances'[i].databases \cup Pending(c)')
  PROVE  EInv'
<1>1. StaysHere(c)
  BY DEF StaysHere, managerVars
<1>2. op'[c] = Manager!NoOp /\ work'[c].instance = i /\ work'[c].step \notin {"idle", "queued"}
      /\ stopping' = stopping /\ databases' = databases /\ opening' = opening
  BY DEF managerVars, Moves
<1>3. CallInv(c)
  BY DEF EInv
<1>4. WaitsForItsOwn(c)'
  BY <1>2, ManagerNoOp DEF WaitsForItsOwn
<1>5. ServesMeanwhile(c)'
  BY <1>2, <1>3 DEF ServesMeanwhile, CallInv
<1>6. ClosesAlone(c)'
  BY <1>2, ManagerNoOp DEF ClosesAlone
<1>7. KeepsOpen(c)'
  BY <1>2 DEF KeepsOpen, KeysOf
<1>8. CallInv(c)'
  BY <1>4, <1>5, <1>6, <1>7 DEF CallInv
<1>9. ASSUME NEW n \in Names, <<i, n>> \in databases' \cup opening'
      PROVE  n \in instances'[i].databases \/ n \in Pending(c)'
  <2>1. n \in instances[i].databases \/ n \in Pending(c)
    BY <1>2, <1>9, AccountedAtWork DEF Moves
  <2> QED
    BY <1>2, <1>9, <2>1
<1> QED
  BY <1>1, <1>8, <1>9, StepHere

(* The ports of the others stay.                                             *)
LEMMA PortsHere ==
  ASSUME PortsInv, NEW c \in Callers, NEW i \in Instances, Moves(c),
         \A j \in Instances \ {i} : instances'[j] = instances[j],
         Holding(c)' \cap Serving(i)' = {},
         \A p \in Holding(c)' \cup Serving(i)' :
           p \in allocatedPorts => p \in Holding(c) \cup Serving(i),
         allocatedPorts' = (allocatedPorts \ (Holding(c) \cup Serving(i)))
                             \cup Holding(c)' \cup Serving(i)'
  PROVE  PortsInv'
<1>1. \A d \in Callers \ {c} : Holding(d)' = Holding(d)
  BY DEF Holding, Moves
<1>2. \A j \in Instances \ {i} : Serving(j)' = Serving(j)
  BY DEF Serving
<1> QED
  BY <1>1, <1>2, PortsStep

LEMMA StopListenerKeeps ==
  ASSUME DInv, EInv, NEW c \in Callers, NEW i \in Instances, i = work[c].instance, Moves(c),
         StopListener(c)
  PROVE  EInv'
<1> DEFINE w == work'[c]
<1>1. work[c] \in Work /\ work \in [Callers -> Work]
      /\ instances \in [Instances -> Instance]
  BY DEF DInv, TypeOK, Work
<1>2. /\ w.step = "closing" /\ w.todo = instances[i].databases /\ w.port = instances[i].port
      /\ w.refused = work[c].refused /\ w.kind = work[c].kind /\ w.names = work[c].names
      /\ w.opened = work[c].opened /\ w.booting = work[c].booting
  BY <1>1 DEF StopListener, Closing, Work
<1>3. /\ work[c].step = "queued" /\ op[c] = Manager!NoOp
      /\ work[c].port = NoPort /\ work[c].refused = {}
      /\ work[c].opened = {} /\ work[c].booting = {}
  <2>1. work[c].step = "queued"
    BY DEF StopListener, MayBegin
  <2> QED
    BY <2>1, NoOpThen DEF EInv, CallInv, HoldsInTurn, ServesMeanwhile
<1>4. /\ instances' = [instances EXCEPT ![i] = Absent] /\ UNCHANGED <<managerVars, allocatedPorts>>
      /\ instances[i].port # NoPort
  BY DEF StopListener, IsRunning
<1>5. instances'[i] = Absent /\ \A j \in Instances \ {i} : instances'[j] = instances[j]
  BY <1>1, <1>4
<1>7. Holding(c)' = Serving(i) /\ Serving(i)' = {} /\ Holding(c) = {}
  BY <1>2, <1>3, <1>4, <1>5 DEF Holding, Serving, Absent
<1>8. PortsInv'
  <2>1. Serving(i) \subseteq allocatedPorts /\ PortsInv
    BY <1>1 DEF EInv, PortsInv
  <2> QED
    BY <1>4, <1>5, <1>7, <2>1, PortsHere
<1>9. Pending(c) = {}
  BY <1>3, ManagerNoOp DEF Pending
<1>10. instances[i].databases \subseteq Pending(c)'
  BY <1>2 DEF Pending
<1>11. HoldsInTurn(c)'
  BY <1>2, <1>3 DEF HoldsInTurn
<1> QED
  BY <1>2, <1>3, <1>4, <1>5, <1>8, <1>9, <1>10, <1>11, QuietStep DEF Absent, KeysOf

(* The rest of a call's stop: its port goes back.                            *)
LEMMA StoppedKeeps ==
  ASSUME DInv, EInv, NEW c \in Callers, NEW i \in Instances, i = work[c].instance, Moves(c),
         StoppedStart(c) \/ Stopped(c)
  PROVE  EInv'
<1> DEFINE w == work'[c]
<1>1. work[c] \in Work /\ work \in [Callers -> Work]
  BY DEF DInv, TypeOK
<1>2. /\ work[c].step = "closing" /\ work[c].todo = {} /\ op[c] = Manager!NoOp
      /\ UNCHANGED <<managerVars, instances>> /\ allocatedPorts' = allocatedPorts \ {work[c].port}
  BY DEF StoppedStart, Stopped, IsDone, ReleasePort
<1>3. /\ w.port = NoPort /\ w.refused = work[c].refused /\ w.opened = work[c].opened
      /\ w.booting = work[c].booting
      /\ w.kind = work[c].kind /\ w.names = work[c].names
      /\ w.step = "returning" \/ (w.step = "opening" /\ w.kind = "start")
  BY <1>1 DEF StoppedStart, Stopped, OpenAll, Work
<1>4. /\ instances[i] = Absent /\ work[c].refused = {}
      /\ work[c].opened = {} /\ work[c].booting = {}
  BY <1>2 DEF EInv, CallInv, HoldsInTurn, ServesMeanwhile, Quiet
<1>5. PortsInv'
  <2>1. Holding(c)' = {} /\ Serving(i)' = {} /\ Serving(i) = {}
    BY <1>2, <1>3, <1>4 DEF Holding, Serving, Absent
  <2>2. Holding(c) = {work[c].port} \ {NoPort} /\ NoPort \notin allocatedPorts
    BY <1>4, DataPlaneAssumption DEF Holding, DInv, TypeOK, Ports, NoPort
  <2> QED
    BY <1>2, <2>1, <2>2, PortsHere DEF EInv
<1>6. Pending(c) = {}
  BY <1>2, ManagerNoOp DEF Pending
<1>7. HoldsInTurn(c)'
  BY <1>3, <1>4 DEF HoldsInTurn
<1>10. instances' = instances /\ instances'[i].databases = {} /\ KeysOf(i, {}) = {}
  BY <1>2, <1>4 DEF Absent, KeysOf
<1> QED
  BY <1>2, <1>3, <1>4, <1>5, <1>6, <1>7, <1>10, QuietStep

(* ... or there was nothing to stop.                                         *)
LEMMA BeginsKeep ==
  ASSUME DInv, EInv, NEW c \in Callers, NEW i \in Instances, i = work[c].instance, Moves(c),
         BeginStart(c) \/ NothingToDo(c)
  PROVE  EInv'
<1> DEFINE w == work'[c]
<1>1. work[c] \in Work /\ work \in [Callers -> Work] /\ instances[i] \in Instance
  BY DEF DInv, TypeOK
<1>2. /\ work[c].step = "queued" /\ instances[i].port = NoPort
      /\ UNCHANGED <<managerVars, instances, allocatedPorts>>
  BY DEF BeginStart, NothingToDo, MayBegin, IsRunning
<1>3. /\ w.port = NoPort /\ w.refused = work[c].refused /\ w.opened = work[c].opened
      /\ w.booting = work[c].booting
      /\ w.kind = work[c].kind /\ w.names = work[c].names
      /\ w.step = "returning" \/ (w.step = "opening" /\ w.kind = "start")
  <2>1. work[c].port = NoPort
    BY <1>2 DEF EInv, CallInv, HoldsInTurn
  <2> QED
    BY <1>1, <2>1 DEF BeginStart, NothingToDo, OpenAll, Goes, Work
<1>4. /\ work[c].refused = {} /\ work[c].port = NoPort
      /\ work[c].opened = {} /\ work[c].booting = {}
  BY <1>2 DEF EInv, CallInv, HoldsInTurn, ServesMeanwhile
<1>5. instances[i] = Absent
  <2>1. instances[i].databases = {}
    BY <1>2 DEF EInv, AbsentServesNone, IsRunning
  <2> QED
    BY <1>1, <1>2, <2>1 DEF Absent, Instance
<1>6. op[c] = Manager!NoOp
  BY <1>2, NoOpThen
<1>7. PortsInv'
  BY <1>2, <1>3, <1>4, PortsKept DEF EInv, Moves
<1>8. Pending(c) = {}
  BY <1>2, <1>6, ManagerNoOp DEF Pending
<1>9. HoldsInTurn(c)'
  BY <1>3, <1>4 DEF HoldsInTurn
<1>10. instances' = instances /\ instances'[i].databases = {} /\ KeysOf(i, {}) = {}
  BY <1>2, <1>5 DEF Absent, KeysOf
<1> QED
  BY <1>2, <1>3, <1>4, <1>5, <1>6, <1>7, <1>8, <1>9, <1>10, QuietStep

(* Databases are opened one by one; one that fails undoes the others.        *)
LEMMA OpensKeep ==
  ASSUME DInv, EInv, NEW c \in Callers, NEW i \in Instances, i = work[c].instance, Moves(c),
         Opened(c) \/ OpenFails(c) \/ AllOpen(c)
  PROVE  EInv'
<1> DEFINE w == work'[c]
<1>1. work[c] \in Work /\ work \in [Callers -> Work]
  BY DEF DInv, TypeOK
<1>2. work[c].step = "opening" /\ UNCHANGED <<managerVars, instances, allocatedPorts>>
  BY DEF Opened, OpenFails, AllOpen
<1>3. op[c] = Manager!NoOp
  <2>1. CASE AllOpen(c)
    BY <2>1, NoOpThen DEF AllOpen
  <2> QED
    BY <2>1 DEF Opened, OpenFails
<1>4. work[c].refused = {} /\ work[c].port = NoPort /\ instances[i] = Absent
  <2>1. Quiet(work[c])
    BY <1>2 DEF Opened, OpenFails, AllOpen, Quiet
  <2> QED
    BY <1>2, <2>1 DEF EInv, CallInv, HoldsInTurn, ServesMeanwhile
<1>5. /\ w.port = NoPort /\ w.refused = {} /\ w.kind = work[c].kind /\ w.names = work[c].names
      /\ w.booting = {}
      /\ \/ /\ w.step = "opening" /\ work[c].kind = "start" /\ outcome[c] = "ok"
            /\ w.opened = work[c].opened \cup work[c].booting
         \/ w.step = "unwinding" /\ w.todo = work[c].opened /\ outcome[c] # "ok"
         \/ w.step = "claiming" /\ w.opened = work[c].opened /\ work[c].booting = {}
  BY <1>1, <1>4 DEF Opened, OpenFails, AllOpen, Unwind, Goes, Work
<1>6. PortsInv'
  BY <1>2, <1>4, <1>5, PortsKept DEF EInv, Moves
<1>7. Pending(c) \subseteq Pending(c)'
  <2>1. outcome' = outcome /\ op' = op
    BY <1>2 DEF managerVars
  <2> QED
    BY <1>2, <1>3, <1>5, <2>1, ManagerNoOp DEF Pending
<1>8. HoldsInTurn(c)'
  BY <1>5 DEF HoldsInTurn
<1>9. stopping.step # "closed" /\ w.step \in {"opening", "claiming", "probing"} =>
        KeysOf(i, w.opened) \subseteq databases
  BY <1>2, <1>3, <1>5 DEF EInv, CallInv, KeepsOpen, KeysOf
<1>10. instances' = instances /\ instances'[i].databases = {} /\ KeysOf(i, {}) = {}
  BY <1>2, <1>4 DEF Absent, KeysOf
<1> QED
  BY <1>2, <1>3, <1>4, <1>5, <1>6, <1>7, <1>8, <1>9, <1>10, QuietStep

(* A call that has nothing left to wait for.                                 *)
LEMMA EndsKeep ==
  ASSUME DInv, EInv, NEW c \in Callers, NEW i \in Instances, i = work[c].instance, Moves(c),
         Unwound(c) \/ RemovalReturns(c)
  PROVE  EInv'
<1> DEFINE w == work'[c]
<1>1. work[c] \in Work /\ work \in [Callers -> Work]
  BY DEF DInv, TypeOK
<1>2. /\ UNCHANGED <<managerVars, instances, allocatedPorts>> /\ op[c] = Manager!NoOp
      /\ work[c].step = "removing" \/ (work[c].step = "unwinding" /\ work[c].todo = {})
  BY DEF Unwound, RemovalReturns, IsDone
<1>3. /\ w.port = work[c].port /\ w.refused = work[c].refused /\ w.step = "returning"
      /\ w.kind = work[c].kind /\ w.names = work[c].names
  BY <1>1 DEF Unwound, RemovalReturns, Goes, Work
<1>4. HoldsInTurn(c)'
  BY <1>2, <1>3 DEF HoldsInTurn, EInv, CallInv
<1>5. PortsInv'
  BY <1>2, <1>3, PortsKept DEF EInv, Moves
<1>6. Pending(c) = {}
  BY <1>2, ManagerNoOp DEF Pending
<1>7. stopping.step # "closed" => KeysOf(i, instances'[i].databases) \subseteq databases
  BY <1>2 DEF EInv, ServesWhatIsOpen
<1>8. instances'[i].port # NoPort \/ instances'[i].databases = {}
  BY <1>2 DEF EInv, AbsentServesNone, IsRunning
<1>9. ~Quiet(w)
  BY <1>3 DEF Quiet
<1> QED
  BY <1>2, <1>3, <1>4, <1>5, <1>6, <1>7, <1>8, <1>9, QuietStep

LEMMA OpenDatabaseKeeps ==
  ASSUME DInv, EInv, NEW c \in Callers, NEW i \in Instances, i = work[c].instance, Moves(c),
         OpenDatabaseReturns(c)
  PROVE  EInv'
<1> DEFINE w == work'[c]
           served == IF outcome[c] = "ok" THEN instances[i].databases \cup work[c].names
                     ELSE instances[i].databases
<1>1. /\ work[c] \in Work /\ work \in [Callers -> Work]
      /\ instances \in [Instances -> Instance] /\ instances[i] \in Instance
  BY DEF DInv, TypeOK
<1>2. /\ UNCHANGED <<managerVars, allocatedPorts>> /\ op[c] = Manager!NoOp
      /\ work[c].step = "opening" /\ work[c].kind = "openDatabase"
  BY DEF OpenDatabaseReturns
<1>3. /\ w.port = work[c].port /\ w.refused = work[c].refused /\ w.step = "returning"
      /\ w.kind = work[c].kind /\ w.names = work[c].names
  BY <1>1 DEF OpenDatabaseReturns, Work
<1>4. work[c].booting = work[c].names /\ instances[i].port # NoPort
  BY <1>2 DEF EInv, CallInv, ServesMeanwhile, IsRunning
<1>5. /\ instances'[i].databases = served /\ instances'[i].port = instances[i].port
      /\ \A j \in Instances \ {i} : instances'[j] = instances[j]
  BY <1>1 DEF OpenDatabaseReturns, Instance
<1>6. PortsInv'
  BY <1>2, <1>3, <1>5, PortsKept DEF EInv, Moves
<1>7. HoldsInTurn(c)'
  BY <1>2, <1>3 DEF HoldsInTurn, EInv, CallInv
<1>8. stopping.step # "closed" => KeysOf(i, served) \subseteq databases
  <2>1. stopping.step # "closed" => KeysOf(i, instances[i].databases) \subseteq databases
    BY DEF EInv, ServesWhatIsOpen
  <2>2. stopping.step # "closed" /\ outcome[c] = "ok" => KeysOf(i, work[c].names) \subseteq databases
    BY <1>2, <1>4 DEF EInv, CallInv, KeepsOpen
  <2> QED
    BY <2>1, <2>2 DEF KeysOf
<1>9. ASSUME NEW n \in Names, <<i, n>> \in databases \cup opening,
             n \in instances[i].databases \cup Pending(c)
      PROVE  n \in served \/ n \in Pending(c)'
  <2>1. CASE n \in Pending(c) /\ n \notin instances[i].databases
    <3>1. n \in work[c].opened \/ (outcome[c] = "ok" /\ n \in work[c].names)
      BY <2>1, <1>2, <1>4, ManagerNoOp DEF Pending
    <3>2. work[c].opened = {}
      BY <1>2 DEF EInv, CallInv, ServesMeanwhile
    <3> QED
      BY <3>1, <3>2
  <2> QED
    BY <1>9, <2>1
<1>10. ~Quiet(w)
  BY <1>3 DEF Quiet
<1> HIDE DEF served
<1> QED
  BY <1>2, <1>3, <1>4, <1>5, <1>6, <1>7, <1>8, <1>9, <1>10, QuietStep

(* Ports are claimed, probed and bound.                                      *)
LEMMA ClaimsKeep ==
  ASSUME DInv, EInv, NEW c \in Callers, NEW i \in Instances, i = work[c].instance, Moves(c),
         ClaimPort(c) \/ PortIsTaken(c) \/ BindFails(c)
  PROVE  EInv'
<1> DEFINE w == work'[c]
<1>1. work[c] \in Work /\ work \in [Callers -> Work]
  BY DEF DInv, TypeOK
<1>2. /\ work[c].step \in {"claiming", "probing"} /\ UNCHANGED <<managerVars, instances>>
      /\ work[c].step = "claiming" => work[c].port = NoPort
  BY DEF ClaimPort, PortIsTaken, BindFails, EInv, CallInv, HoldsInTurn
<1>3. op[c] = Manager!NoOp
  BY <1>2, NoOpThen
<1>4. instances[i] = Absent
  BY <1>2 DEF EInv, CallInv, ServesMeanwhile, Quiet
<1>5. /\ w.opened = work[c].opened /\ w.kind = work[c].kind /\ w.names = work[c].names
      /\ w.step \in {"claiming", "probing"}
  BY <1>1, <1>2 DEF ClaimPort, PortIsTaken, BindFails, Work
<1>6. Holding(c) \subseteq allocatedPorts /\ work[c].port \notin work[c].refused
      /\ NoPort \notin allocatedPorts /\ NoPort \notin work[c].refused
  BY <1>1, DataPlaneAssumption DEF EInv, PortsInv, CallInv, HoldsInTurn, DInv, TypeOK, Ports, NoPort, Work
<1>7. Serving(i) = {} /\ Serving(i)' = {}
  BY <1>2, <1>4 DEF Serving, Absent
<1>8. HoldsInTurn(c)' /\ PortsInv'
  <2>1. CASE ClaimPort(c)
    <3>1. PICK p \in Untried(c) :
            /\ allocatedPorts' = allocatedPorts \cup {p}
            /\ work' = [work EXCEPT ![c].step = "probing", ![c].port = p]
      BY <2>1 DEF ClaimPort
    <3>2. p \notin allocatedPorts /\ p # NoPort
      BY DEF Untried, Ports, NoPort
    <3>3. w.port = p /\ w.refused = work[c].refused /\ w.step = "probing"
      BY <1>1, <3>1 DEF Work
    <3>4. Holding(c) = work[c].refused
      BY <1>2, <2>1 DEF ClaimPort, Holding
    <3>5. Holding(c)' = {p} \cup work[c].refused
      BY <3>2, <3>3 DEF Holding
    <3>6. PortsInv'
      BY <1>2, <1>6, <1>7, <3>1, <3>2, <3>4, <3>5, PortsHere DEF EInv
    <3> QED
      BY <1>6, <3>2, <3>3, <3>4, <3>6 DEF HoldsInTurn
  <2>2. CASE PortIsTaken(c)
    <3>1. w.port = NoPort /\ w.refused = work[c].refused /\ w.step = "claiming"
      BY <1>1, <2>2 DEF PortIsTaken, Work
    <3>2. allocatedPorts' = allocatedPorts \ {work[c].port}
      BY <2>2 DEF PortIsTaken
    <3>3. Holding(c)' = work[c].refused
      BY <3>1 DEF Holding
    <3>4. Holding(c) = ({work[c].port} \ {NoPort}) \cup work[c].refused
      BY DEF Holding
    <3>5. PortsInv'
      BY <1>2, <1>6, <1>7, <3>2, <3>3, <3>4, PortsHere DEF EInv
    <3> QED
      BY <1>6, <3>1, <3>5 DEF HoldsInTurn
  <2>3. CASE BindFails(c)
    <3>1. /\ w.port = NoPort /\ w.refused = work[c].refused \cup {work[c].port}
          /\ w.step = "claiming"
      BY <1>1, <2>3 DEF BindFails, Work
    <3>2. work[c].port # NoPort
      BY <2>3 DEF BindFails, DInv, ProbesPort, Ports, NoPort
    <3>3. allocatedPorts' = allocatedPorts
      BY <2>3 DEF BindFails
    <3>4. Holding(c)' = Holding(c)
      BY <3>1, <3>2 DEF Holding
    <3>5. PortsInv'
      BY <1>2, <1>6, <1>7, <3>3, <3>4, PortsHere DEF EInv
    <3> QED
      BY <1>6, <3>1, <3>2, <3>5 DEF HoldsInTurn
  <2> QED
    BY <2>1, <2>2, <2>3
<1>9. Pending(c) = Pending(c)'
  BY <1>2, <1>3, <1>5 DEF Pending, managerVars, Moves
<1>10. instances' = instances /\ instances'[i].databases = {} /\ KeysOf(i, {}) = {}
  BY <1>2, <1>4 DEF Absent, KeysOf
<1>11. stopping.step # "closed" => KeysOf(i, w.opened) \subseteq databases
  BY <1>2, <1>5 DEF EInv, CallInv, KeepsOpen
<1> QED
  BY <1>2, <1>3, <1>4, <1>5, <1>8, <1>9, <1>10, <1>11, QuietStep

LEMMA BindKeeps ==
  ASSUME DInv, EInv, NEW c \in Callers, NEW i \in Instances, i = work[c].instance, Moves(c),
         BindSucceeds(c) \/ NoPortIsLeft(c)
  PROVE  EInv'
<1> DEFINE w == work'[c]
<1>1. work[c] \in Work /\ work \in [Callers -> Work] /\ instances \in [Instances -> Instance]
  BY DEF DInv, TypeOK
<1>2. /\ work[c].step \in {"claiming", "probing"} /\ UNCHANGED managerVars
      /\ allocatedPorts' = allocatedPorts \ work[c].refused
  BY DEF BindSucceeds, NoPortIsLeft
<1>3. op[c] = Manager!NoOp
  BY <1>2, NoOpThen
<1>4. instances[i] = Absent /\ Serving(i) = {}
  <2>1. instances[i] = Absent
    BY <1>2 DEF EInv, CallInv, ServesMeanwhile, Quiet
  <2> QED
    BY <2>1 DEF Serving, Absent
<1>5. /\ w.port = NoPort /\ w.refused = {} /\ w.kind = work[c].kind /\ w.names = work[c].names
  BY <1>1, <1>2 DEF BindSucceeds, NoPortIsLeft, Unwind, Work, EInv, CallInv, HoldsInTurn
<1>6. Holding(c)' = {} /\ HoldsInTurn(c)'
  BY <1>5 DEF Holding, HoldsInTurn
<1>7. Holding(c) \subseteq allocatedPorts /\ work[c].port \notin work[c].refused
  BY DEF EInv, PortsInv, CallInv, HoldsInTurn
<1>8. Pending(c) = work[c].opened
  BY <1>2, <1>3, ManagerNoOp DEF Pending
<1>9. stopping.step # "closed" => KeysOf(i, work[c].opened) \subseteq databases
  BY <1>2 DEF EInv, CallInv, KeepsOpen
<1>10. CASE BindSucceeds(c)
  <2>1. /\ w.step = "returning" /\ work[c].port \in Ports
        /\ instances' = [instances EXCEPT ![i] =
                           [port |-> work[c].port, databases |-> work[c].opened]]
    BY <1>1, <1>10 DEF BindSucceeds, Work, DInv, ProbesPort
  <2>2. /\ instances'[i].port = work[c].port /\ instances'[i].databases = work[c].opened
        /\ \A j \in Instances \ {i} : instances'[j] = instances[j] /\ work[c].port # NoPort
    BY <1>1, <2>1 DEF Ports, NoPort
  <2>3. work[c].port # NoPort
    BY <2>1 DEF Ports, NoPort
  <2>4. Serving(i)' = {work[c].port} /\ Holding(c) = {work[c].port} \cup work[c].refused
    BY <2>2, <2>3 DEF Serving, Holding
  <2>5. PortsInv'
    BY <1>2, <1>4, <1>6, <1>7, <2>2, <2>4, PortsHere DEF EInv
  <2>6. ~Quiet(w)
    BY <2>1 DEF Quiet
  <2> QED
    BY <1>2, <1>3, <1>4, <1>5, <1>6, <1>8, <1>9, <2>1, <2>2, <2>3, <2>5, <2>6, QuietStep DEF Absent
<1>11. CASE NoPortIsLeft(c)
  <2>1. w.step = "unwinding" /\ w.todo = work[c].opened /\ instances' = instances
    BY <1>1, <1>11 DEF NoPortIsLeft, Unwind, Work
  <2>2. Serving(i)' = {} /\ Holding(c) = work[c].refused
    BY <1>4, <1>11, <2>1 DEF NoPortIsLeft, EInv, CallInv, HoldsInTurn, Serving, Holding
  <2>3. PortsInv'
    BY <1>2, <1>4, <1>6, <1>7, <2>1, <2>2, PortsHere DEF EInv
  <2>4. Pending(c) \subseteq Pending(c)'
    BY <1>8, <2>1 DEF Pending
  <2>5. instances'[i].databases = {} /\ KeysOf(i, {}) = {}
    BY <1>4, <2>1 DEF Absent, KeysOf
  <2> QED
    BY <1>2, <1>3, <1>4, <1>5, <1>6, <2>1, <2>3, <2>4, <2>5, QuietStep
<1> QED
  BY <1>10, <1>11

-----------------------------------------------------------------------------
(* Steps of a call that call the manager.                                    *)

LEMMA ClosingIs ==
  ASSUME DInv, NEW c \in Callers, NEW kind, NEW id, NEW todo,
         Manager!StartClosing(c, kind, id, todo)
  PROVE  /\ op[c] = Manager!NoOp /\ op'[c] = Manager!Waiting(kind, id, todo)
         /\ op'[c].kind = kind /\ op'[c].id = id /\ op'[c].todo = todo /\ op'[c].closing = {}
         /\ \A d \in Callers \ {c} : op'[d] = op[d]
         /\ UNCHANGED <<databases, opening, files, outcome>>
  BY ManagerTyped DEF DInv, Manager!StartClosing, Manager!Waiting

LEMMA CloseNextKeeps ==
  ASSUME DInv, EInv, NEW c \in Callers, NEW i \in Instances, i = work[c].instance, Moves(c),
         CloseNext(c)
  PROVE  EInv'
<1> DEFINE w == work'[c]
<1>1. work[c] \in Work /\ work \in [Callers -> Work]
  BY DEF DInv, TypeOK
<1>2. PICK n \in work[c].todo :
        /\ Manager!CallClose(c, <<i, n>>)
        /\ work' = [work EXCEPT ![c].todo = @ \ {n}]
  BY DEF CloseNext
<1>3. /\ op[c] = Manager!NoOp /\ op'[c].kind = "close" /\ op'[c].todo = {<<i, n>>}
      /\ op'[c].closing = {} /\ \A d \in Callers \ {c} : op'[d] = op[d]
      /\ UNCHANGED <<databases, opening, files, outcome>>
  <2>1. Manager!StartClosing(c, "close", <<i, n>>, {<<i, n>>})
    BY <1>2 DEF Manager!CallClose
  <2> QED
    BY <2>1, ClosingIs
<1>4. work[c].step \in {"closing", "unwinding"} /\ UNCHANGED <<instances, allocatedPorts>>
  BY DEF CloseNext
<1>5. /\ w.step = work[c].step /\ w.port = work[c].port /\ w.refused = work[c].refused
      /\ w.kind = work[c].kind /\ w.names = work[c].names /\ w.instance = i
      /\ w.opened = work[c].opened /\ w.booting = work[c].booting /\ w.todo = work[c].todo \ {n}
      /\ n \in Names
  BY <1>1, <1>2 DEF Work
<1>6. StaysHere(c)
  BY <1>3, <1>4 DEF StaysHere
<1>7. instances[i] = Absent
  BY <1>4 DEF EInv, CallInv, ServesMeanwhile, Quiet
<1>8. PortsInv'
  BY <1>4, <1>5, PortsKept DEF EInv, Moves
<1>9. CallInv(c)'
  <2>1. HoldsInTurn(c)'
    BY <1>4, <1>5 DEF HoldsInTurn, EInv, CallInv
  <2>2. WaitsForItsOwn(c)'
    BY <1>3, <1>4, <1>5, ManagerNoOp DEF WaitsForItsOwn, KeysOf
  <2>3. ServesMeanwhile(c)'
    BY <1>4, <1>5, <1>7 DEF ServesMeanwhile, EInv, CallInv
  <2>4. ClosesAlone(c)'
    BY <1>3 DEF ClosesAlone
  <2>5. KeepsOpen(c)'
    BY <1>4, <1>5 DEF KeepsOpen
  <2> QED
    BY <2>1, <2>2, <2>3, <2>4, <2>5 DEF CallInv
<1>10. Pending(c) \subseteq Pending(c)'
  BY <1>3, <1>4, <1>5, ManagerNoOp DEF Pending
<1>11. ASSUME NEW m \in Names, <<i, m>> \in databases' \cup opening'
       PROVE  m \in instances'[i].databases \/ m \in Pending(c)'
  <2>1. m \in instances[i].databases \/ m \in Pending(c)
    BY <1>3, <1>4, <1>11, AccountedAtWork
  <2> QED
    BY <1>4, <1>10, <2>1
<1>12. instances'[i].databases = {} /\ KeysOf(i, {}) = {}
  BY <1>4, <1>7 DEF Absent, KeysOf
<1> QED
  BY <1>6, <1>8, <1>9, <1>11, <1>12, StepHere

LEMMA OpenIs ==
  ASSUME DInv, NEW c \in Callers, NEW k, Manager!CallOpen(c, k)
  PROVE  /\ op[c] = Manager!NoOp /\ op'[c].todo = {} /\ op'[c].closing = {}
         /\ \/ /\ op'[c] = Manager!NoOp /\ opening' = opening
               /\ outcome'[c] = "failed" \/ (outcome'[c] = "ok" /\ k \in databases)
            \/ /\ op'[c].kind = "open" /\ op'[c].id = k /\ op'[c] # Manager!NoOp
               /\ opening' = opening \cup {k}
         /\ databases' = databases /\ files \subseteq files'
         /\ \A d \in Callers \ {c} : op'[d] = op[d] /\ outcome'[d] = outcome[d]
<1>1. op \in [Callers -> Manager!Operation] /\ outcome \in [Callers -> {"none", "ok", "failed"}]
  BY ManagerTyped DEF DInv, Proved!IInv, Proved!TypeOK
<1>2. CASE Manager!RefuseOpen(c, k)
  BY <1>1, <1>2, ManagerNoOp DEF Manager!RefuseOpen, Manager!CallOpen
<1>3. CASE Manager!ReturnExisting(c, k)
  BY <1>1, <1>3, ManagerNoOp DEF Manager!ReturnExisting, Manager!CallOpen
<1>4. CASE Manager!AwaitBoot(c, k)
  BY <1>1, <1>4 DEF Manager!AwaitBoot, Manager!CallOpen, Manager!Waiting, Manager!NoOp
<1> QED
  BY <1>2, <1>3, <1>4 DEF Manager!CallOpen

(* A call that opens n waits for it, or knows already how that ended.        *)
LEMMA OpeningKeeps ==
  ASSUME DInv, EInv, NEW c \in Callers, NEW i \in Instances, i = work[c].instance, Moves(c),
         NEW n \in Names, Manager!CallOpen(c, <<i, n>>), UNCHANGED <<instances, allocatedPorts>>,
         work'[c].step = "opening", work'[c].booting = {n},
         work'[c].kind = work[c].kind, work'[c].names = work[c].names,
         work'[c].opened = work[c].opened,
         work'[c].port = work[c].port, work'[c].refused = work[c].refused,
         \/ /\ work[c].step = "opening" /\ work[c].booting = {} /\ work[c].kind = "start"
            /\ instances[i] = Absent
         \/ /\ work[c].step = "queued" /\ work[c].kind = "openDatabase" /\ IsRunning(i)
            /\ work[c].names = {n}
  PROVE  EInv'
<1> DEFINE w == work'[c]
<1>1. w.instance = i
  BY DEF Moves
<1>2. /\ op[c] = Manager!NoOp /\ op'[c].todo = {} /\ op'[c].closing = {}
      /\ \/ /\ op'[c] = Manager!NoOp /\ opening' = opening
            /\ outcome'[c] = "failed" \/ (outcome'[c] = "ok" /\ <<i, n>> \in databases)
         \/ /\ op'[c].kind = "open" /\ op'[c].id = <<i, n>> /\ op'[c] # Manager!NoOp
            /\ opening' = opening \cup {<<i, n>>}
      /\ databases' = databases /\ files \subseteq files'
      /\ \A d \in Callers \ {c} : op'[d] = op[d] /\ outcome'[d] = outcome[d]
  BY OpenIs
<1>3. StaysHere(c)
  BY <1>2 DEF StaysHere, KeysOf
<1>4. PortsInv'
  BY PortsKept DEF EInv, Moves
<1>5. work[c].step = "queued" => work[c].opened = {}
  BY DEF EInv, CallInv, ServesMeanwhile
<1>6. stopping.step # "closed" => KeysOf(i, work[c].opened) \subseteq databases
  <2>1. work[c].step = "opening" /\ stopping.step # "closed" =>
          KeysOf(i, work[c].opened) \subseteq databases
    BY DEF EInv, CallInv, KeepsOpen
  <2> QED
    BY <1>5, <2>1 DEF KeysOf
<1>7. CallInv(c)'
  <2>1. HoldsInTurn(c)'
    BY DEF HoldsInTurn, EInv, CallInv
  <2>2. WaitsForItsOwn(c)'
    BY <1>1, <1>2, ManagerNoOp DEF WaitsForItsOwn, KeysOf
  <2>3. ServesMeanwhile(c)'
    BY <1>1, <1>5 DEF ServesMeanwhile, Quiet, EInv, CallInv, IsRunning
  <2>4. ClosesAlone(c)'
    BY <1>2 DEF ClosesAlone
  <2>5. KeepsOpen(c)'
    BY <1>1, <1>2, <1>6 DEF KeepsOpen, KeysOf, Moves
  <2> QED
    BY <2>1, <2>2, <2>3, <2>4, <2>5 DEF CallInv
<1>8. Pending(c) \subseteq Pending(c)'
  BY <1>2, ManagerNoOp DEF Pending
<1>9. ASSUME NEW m \in Names, <<i, m>> \in databases' \cup opening'
      PROVE  m \in instances'[i].databases \/ m \in Pending(c)'
  <2>1. CASE <<i, m>> \in databases \cup opening
    <3>1. m \in instances[i].databases \/ m \in Pending(c)
      BY <2>1, AccountedAtWork DEF Moves
    <3> QED
      BY <1>8, <3>1
  <2>2. CASE <<i, m>> \notin databases \cup opening
    <3>1. m = n /\ op'[c] # Manager!NoOp
      BY <1>2, <1>9, <2>2
    <3> QED
      BY <3>1 DEF Pending
  <2> QED
    BY <2>1, <2>2
<1>10. instances'[i].port # NoPort \/ instances'[i].databases = {}
  BY DEF EInv, AbsentServesNone, IsRunning
<1>11. stopping.step # "closed" => KeysOf(i, instances'[i].databases) \subseteq databases
  BY DEF EInv, ServesWhatIsOpen
<1> QED
  BY <1>3, <1>4, <1>7, <1>9, <1>10, <1>11, StepHere

LEMMA OpenNextKeeps ==
  ASSUME DInv, EInv, NEW c \in Callers, NEW i \in Instances, i = work[c].instance, Moves(c),
         OpenNext(c)
  PROVE  EInv'
<1>1. work[c] \in Work /\ work \in [Callers -> Work]
  BY DEF DInv, TypeOK
<1>2. PICK n \in work[c].todo :
        /\ Manager!CallOpen(c, <<i, n>>)
        /\ work' = [work EXCEPT ![c].todo = @ \ {n}, ![c].booting = {n}]
  BY DEF OpenNext
<1>3. /\ n \in Names /\ work[c].step = "opening" /\ work[c].booting = {}
      /\ UNCHANGED <<instances, allocatedPorts>>
  BY <1>1 DEF OpenNext, Work
<1>4. /\ work'[c].step = "opening" /\ work'[c].booting = {n}
      /\ work'[c].kind = work[c].kind /\ work'[c].names = work[c].names
      /\ work'[c].opened = work[c].opened
      /\ work'[c].port = work[c].port /\ work'[c].refused = work[c].refused
  BY <1>1, <1>2, <1>3 DEF Work
<1>5. ServesMeanwhile(c)
  BY DEF EInv, CallInv
<1>6. work[c].kind = "start"
  BY <1>3, <1>5 DEF ServesMeanwhile
<1>7. instances[i] = Absent
  BY <1>3, <1>5 DEF ServesMeanwhile, Quiet
<1> QED
  BY <1>2, <1>3, <1>4, <1>6, <1>7, OpeningKeeps

LEMMA BeginOpenDatabaseKeeps ==
  ASSUME DInv, EInv, NEW c \in Callers, NEW i \in Instances, i = work[c].instance, Moves(c),
         BeginOpenDatabase(c)
  PROVE  EInv'
<1>1. work[c] \in Work /\ work \in [Callers -> Work]
  BY DEF DInv, TypeOK
<1>2. PICK n \in work[c].names : Manager!CallOpen(c, <<i, n>>)
  BY DEF BeginOpenDatabase
<1>3. /\ n \in Names /\ work[c].step = "queued" /\ work[c].kind = "openDatabase" /\ IsRunning(i)
      /\ UNCHANGED <<instances, allocatedPorts>>
  BY <1>1, <1>2 DEF BeginOpenDatabase, MayBegin, Work
<1>4. work[c].names = {n}
  BY <1>2, <1>3 DEF EInv, CallInv, ServesMeanwhile
<1>5. /\ work'[c].step = "opening" /\ work'[c].booting = {n}
      /\ work'[c].kind = work[c].kind /\ work'[c].names = work[c].names
      /\ work'[c].opened = work[c].opened
      /\ work'[c].port = work[c].port /\ work'[c].refused = work[c].refused
  BY <1>1, <1>4 DEF BeginOpenDatabase, Work
<1> QED
  BY <1>2, <1>3, <1>4, <1>5, OpeningKeeps

LEMMA DropInstanceKeeps ==
  ASSUME DInv, EInv, NEW c \in Callers, NEW i \in Instances, i = work[c].instance, Moves(c),
         StoppedDrop(c) \/ BeginDrop(c)
  PROVE  EInv'
<1> DEFINE w == work'[c]
<1>1. work[c] \in Work /\ work \in [Callers -> Work] /\ instances[i] \in Instance
  BY DEF DInv, TypeOK
<1>2. /\ work[c].step \in {"closing", "queued"} /\ work[c].kind = "dropInstance"
      /\ Manager!CallDropInstance(c, i) /\ instances' = instances
      /\ work' = [work EXCEPT ![c].step = "removing", ![c].port = NoPort]
  BY DEF StoppedDrop, BeginDrop, RemoveInstance, MayBegin
<1>3. /\ w.step = "removing" /\ w.port = NoPort /\ w.refused = work[c].refused
      /\ w.kind = "dropInstance" /\ w.instance = i
  BY <1>1, <1>2 DEF Work
<1>4. /\ op[c] = Manager!NoOp /\ op'[c].kind = "dropInstance"
      /\ op'[c].todo = (databases \cup opening) \cap KeysOf(i, Names)
      /\ op'[c].closing = {} /\ \A d \in Callers \ {c} : op'[d] = op[d]
      /\ UNCHANGED <<databases, opening, files, outcome>>
  <2>1. Manager!StartClosing(c, "dropInstance", i, Manager!Tracked \cap Manager!Scope(i))
    BY <1>2 DEF Manager!CallDropInstance
  <2> QED
    BY <2>1, ClosingIs DEF Manager!Tracked, Manager!Scope, KeysOf
<1>5. StaysHere(c)
  BY <1>2, <1>4 DEF StaysHere
<1>6. work[c].refused = {}
  BY <1>2 DEF EInv, CallInv, HoldsInTurn
<1>7. instances[i] = Absent
  <2>1. CASE work[c].step = "closing"
    BY <2>1 DEF EInv, CallInv, ServesMeanwhile, Quiet
  <2>2. CASE work[c].step = "queued"
    <3>1. instances[i].port = NoPort
      BY <2>2 DEF StoppedDrop, BeginDrop, IsRunning
    <3>2. instances[i].databases = {}
      BY <3>1 DEF EInv, AbsentServesNone, IsRunning
    <3> QED
      BY <1>1, <3>1, <3>2 DEF Absent, Instance
  <2> QED
    BY <1>2, <2>1, <2>2
<1>8. PortsInv'
  <2>1. Holding(c)' = {} /\ Serving(i)' = {} /\ Serving(i) = {}
    <3>1. Holding(c)' = {}
      BY <1>3, <1>6 DEF Holding
    <3>2. instances[i].port = NoPort /\ instances' = instances
      BY <1>2, <1>7 DEF Absent
    <3> QED
      BY <3>1, <3>2 DEF Serving
  <2>2. Holding(c) = {work[c].port} \ {NoPort} /\ NoPort \notin allocatedPorts
    BY <1>6, DataPlaneAssumption DEF Holding, DInv, TypeOK, Ports, NoPort
  <2>3. allocatedPorts' = allocatedPorts \ {work[c].port}
    <3>1. CASE StoppedDrop(c)
      BY <3>1 DEF StoppedDrop, ReleasePort
    <3>2. CASE BeginDrop(c)
      <4>1. work[c].port = NoPort /\ allocatedPorts' = allocatedPorts
        BY <3>2 DEF BeginDrop, MayBegin, EInv, CallInv, HoldsInTurn
      <4> QED
        BY <2>2, <4>1
    <3> QED
      BY <3>1, <3>2
  <2> QED
    BY <1>2, <2>1, <2>2, <2>3, PortsHere DEF EInv
<1>9. CallInv(c)'
  <2>1. HoldsInTurn(c)'
    BY <1>3, <1>6 DEF HoldsInTurn
  <2>2. WaitsForItsOwn(c)'
    BY <1>3, <1>4 DEF WaitsForItsOwn
  <2>3. ServesMeanwhile(c)'
    BY <1>2, <1>3, <1>7 DEF ServesMeanwhile
  <2>4. ClosesAlone(c)'
    BY <1>4 DEF ClosesAlone
  <2>5. KeepsOpen(c)'
    BY <1>3 DEF KeepsOpen
  <2> QED
    BY <2>1, <2>2, <2>3, <2>4, <2>5 DEF CallInv
<1>10. ASSUME NEW m \in Names, <<i, m>> \in databases' \cup opening'
       PROVE  m \in instances'[i].databases \/ m \in Pending(c)'
  <2>1. <<i, m>> \in op'[c].todo
    BY <1>4, <1>10 DEF KeysOf
  <2> QED
    BY <1>3, <2>1 DEF Pending
<1>11. instances'[i].databases = {} /\ KeysOf(i, {}) = {}
  BY <1>2, <1>7 DEF Absent, KeysOf
<1> QED
  BY <1>5, <1>8, <1>9, <1>10, <1>11, StepHere

LEMMA DropDatabaseKeeps ==
  ASSUME DInv, EInv, NEW c \in Callers, NEW i \in Instances, i = work[c].instance, Moves(c),
         BeginDropDatabase(c)
  PROVE  EInv'
<1> DEFINE w == work'[c]
<1>1. /\ work[c] \in Work /\ work \in [Callers -> Work]
      /\ instances \in [Instances -> Instance] /\ instances[i] \in Instance
  BY DEF DInv, TypeOK
<1>2. PICK n \in work[c].names : Manager!CallDrop(c, <<i, n>>)
  BY DEF BeginDropDatabase
<1>3. /\ n \in Names /\ work[c].step = "queued" /\ work[c].kind = "dropDatabase"
      /\ allocatedPorts' = allocatedPorts
  BY <1>1, <1>2 DEF BeginDropDatabase, MayBegin, Work
<1>4. work[c].names = {n}
  BY <1>2, <1>3 DEF EInv, CallInv, ServesMeanwhile
<1>5. /\ instances'[i].databases = instances[i].databases \ {n}
      /\ instances'[i].port = instances[i].port
      /\ \A j \in Instances \ {i} : instances'[j] = instances[j]
  BY <1>1, <1>4 DEF BeginDropDatabase, ForgetDatabase, Instance
<1>6. /\ w.step = "removing" /\ w.port = work[c].port /\ w.refused = work[c].refused
      /\ w.kind = "dropDatabase" /\ w.names = {n} /\ w.instance = i
  BY <1>1, <1>3, <1>4 DEF BeginDropDatabase, Goes, Work
<1>7. /\ op[c] = Manager!NoOp /\ op'[c].kind = "drop" /\ op'[c].todo = {<<i, n>>}
      /\ op'[c].closing = {} /\ \A d \in Callers \ {c} : op'[d] = op[d]
      /\ UNCHANGED <<databases, opening, files, outcome>>
  <2>1. Manager!StartClosing(c, "drop", <<i, n>>, {<<i, n>>})
    BY <1>2 DEF Manager!CallDrop
  <2> QED
    BY <2>1, ClosingIs
<1>8. StaysHere(c)
  BY <1>5, <1>7 DEF StaysHere
<1>9. PortsInv'
  BY <1>3, <1>5, <1>6, PortsKept DEF EInv, Moves
<1>10. CallInv(c)'
  <2>1. HoldsInTurn(c)'
    BY <1>3, <1>6 DEF HoldsInTurn, EInv, CallInv
  <2>2. WaitsForItsOwn(c)'
    BY <1>3, <1>6, <1>7 DEF WaitsForItsOwn, KeysOf
  <2>3. ServesMeanwhile(c)'
    BY <1>3, <1>5, <1>6, <1>7 DEF ServesMeanwhile, Quiet, KeysOf
  <2>4. ClosesAlone(c)'
    BY <1>7 DEF ClosesAlone
  <2>5. KeepsOpen(c)'
    BY <1>6 DEF KeepsOpen
  <2> QED
    BY <2>1, <2>2, <2>3, <2>4, <2>5 DEF CallInv
<1>11. ASSUME NEW m \in Names, <<i, m>> \in databases' \cup opening'
       PROVE  m \in instances'[i].databases \/ m \in Pending(c)'
  <2>1. m \in instances[i].databases \/ m \in Pending(c)
    BY <1>7, <1>11, AccountedAtWork DEF Moves
  <2>2. Pending(c) = {}
    BY <1>3, <1>7, ManagerNoOp DEF Pending
  <2>3. n \in Pending(c)'
    BY <1>3, <1>6, <1>7 DEF Pending
  <2> QED
    BY <1>5, <2>1, <2>2, <2>3
<1>12. instances'[i].port # NoPort \/ instances'[i].databases = {}
  BY <1>5 DEF EInv, AbsentServesNone, IsRunning
<1>13. stopping.step # "closed" => KeysOf(i, instances'[i].databases) \subseteq databases
  BY <1>5 DEF EInv, ServesWhatIsOpen, KeysOf
<1> QED
  BY <1>8, <1>9, <1>10, <1>11, <1>12, <1>13, StepHere

(* Every step of a call but its return.                                      *)
LEMMA GoesOnKeeps ==
  ASSUME DInv, EInv, NEW c \in Callers, GoesOn(c), ~Return(c)
  PROVE  EInv'
<1>1. Moves(c)
  BY GoesOnMoves DEF DInv
<1>2. work[c].instance \in Instances
  BY DEF DInv, TypeOK, Work
<1>3. CASE StopListener(c) \/ CloseNext(c) \/ StoppedStart(c) \/ StoppedDrop(c) \/ Stopped(c)
  BY <1>1, <1>2, <1>3, StopListenerKeeps, CloseNextKeeps, StoppedKeeps, DropInstanceKeeps
<1>4. CASE BeginStart(c) \/ BeginDrop(c) \/ NothingToDo(c)
  BY <1>1, <1>2, <1>4, BeginsKeep, DropInstanceKeeps
<1>5. CASE OpenNext(c) \/ Opened(c) \/ OpenFails(c) \/ Unwound(c) \/ AllOpen(c)
  BY <1>1, <1>2, <1>5, OpenNextKeeps, OpensKeep, EndsKeep
<1>6. CASE \/ ClaimPort(c) \/ PortIsTaken(c) \/ BindFails(c) \/ BindSucceeds(c)
           \/ NoPortIsLeft(c)
  BY <1>1, <1>2, <1>6, ClaimsKeep, BindKeeps
<1>7. CASE \/ BeginOpenDatabase(c) \/ OpenDatabaseReturns(c)
           \/ BeginDropDatabase(c) \/ RemovalReturns(c)
  BY <1>1, <1>2, <1>7, BeginOpenDatabaseKeeps, OpenDatabaseKeeps, DropDatabaseKeeps, EndsKeep
<1> QED
  BY <1>3, <1>4, <1>5, <1>6, <1>7 DEF GoesOn

-----------------------------------------------------------------------------
(* Steps of the manager by itself.                                           *)

(* A caller that has an engine to close, but by closeAll(), is at work.      *)
LEMMA ClosersWork ==
  ASSUME DInv, EInv, NEW d \in Callers, op[d].kind # "closeAll",
         op[d].todo # {} \/ op[d].closing # {}
  PROVE  IsActive(d) /\ work[d].step \in {"closing", "unwinding", "removing"}
<1>1. op[d] \in Manager!Operation
  BY ManagerTyped DEF DInv
<1>2. op[d].kind \notin {"none", "open"}
  BY DEF DInv, Proved!IInv, Proved!ClosesNothing
<1>3. op[d].kind = "close" \/ op[d].kind \in Manager!Drops
  BY <1>1, <1>2 DEF Manager!Operation, Manager!Closes, Manager!Drops
<1>4. op[d].kind = "close" => work[d].step \in {"closing", "unwinding"}
  BY DEF EInv, CallInv, WaitsForItsOwn
<1>5. op[d].kind \in Manager!Drops => work[d].step = "removing"
  BY DEF DInv, DropsHere
<1> QED
  BY <1>3, <1>4, <1>5 DEF IsActive

(* A step of the operation that c waits for closes engines and removes files *)
(* of no other call.                                                         *)
LEMMA ManagesHere ==
  ASSUME DInv, EInv, NEW c \in Callers, NEW i \in Instances, i = work[c].instance,
         ElsewhereUnchanged, opening' = opening, outcome' = outcome,
         \A d \in Callers \ {c} : op'[d] = op[d],
         databases' \subseteq databases,
         \/ op[c].kind = "closeAll" /\ files' = files
         \/ /\ IsActive(c)
            /\ databases \ databases' \subseteq KeysOf(i, Names)
            /\ files \ files' \subseteq KeysOf(i, Names),
         WaitsForItsOwn(c)', ServesMeanwhile(c)', ClosesAlone(c)', KeepsOpen(c)',
         IsActive(c) => \A n \in Names :
           <<i, n>> \in databases' \cup opening /\ n \in Pending(c) => n \in Pending(c)',
         stopping.step # "closed" => KeysOf(i, instances[i].databases) \subseteq databases'
  PROVE  EInv'
<1>1. UNCHANGED <<instances, allocatedPorts, work, stopping>>
  BY DEF ElsewhereUnchanged
<1>2. op[c].kind = "closeAll" => stopping.step = "closed" /\ ~IsActive(c)
  BY DEF EInv, CallInv, WaitsForItsOwn, IsActive
<1>3. ASSUME NEW d \in Callers PROVE CallInv(d)'
  <2>1. CallInv(d)
    BY DEF EInv
  <2>2. HoldsInTurn(d)'
    BY <1>1, <2>1 DEF CallInv, HoldsInTurn
  <2>3. CASE d = c
    BY <2>2, <2>3 DEF CallInv
  <2>4. CASE d # c
    <3>1. op'[d] = op[d]
      BY <2>4
    <3>2. IsActive(c) /\ IsActive(d) => work[d].instance # i
      BY <2>4, AloneAtWork DEF IsActive
    <3>3. WaitsForItsOwn(d)' /\ ServesMeanwhile(d)'
      BY <1>1, <2>1, <3>1 DEF CallInv, WaitsForItsOwn, ServesMeanwhile, Quiet, IsRunning
    <3>4. ClosesAlone(d)'
      <4> SUFFICES ASSUME op[d].kind # "closeAll"
                   PROVE  /\ op[d].closing \cap (databases' \cup opening) = {}
                          /\ op[d].closing \subseteq files'
        BY <3>1 DEF ClosesAlone
      <4>1. op[d].closing \cap (databases \cup opening) = {} /\ op[d].closing \subseteq files
        BY <2>1 DEF CallInv, ClosesAlone
      <4>2. CASE op[d].closing # {} /\ op[c].kind # "closeAll"
        <5>1. work[d].instance # i
          BY <3>2, <4>2, ClosersWork
        <5>2. op[d].closing \subseteq KeysOf(work[d].instance, Names)
          BY <2>1 DEF CallInv, WaitsForItsOwn
        <5>3. op[d].closing \cap KeysOf(i, Names) = {}
          BY <5>1, <5>2 DEF KeysOf
        <5> QED
          BY <4>1, <4>2, <5>3
      <4> QED
        BY <1>2, <4>1, <4>2
    <3>5. KeepsOpen(d)'
      <4> SUFFICES ASSUME stopping.step # "closed", IsActive(d)
                   PROVE  KeepsOpen(d)'
        BY <1>1 DEF KeepsOpen, IsActive
      <4>1. databases \ databases' \subseteq KeysOf(i, Names) /\ work[d].instance # i
        BY <1>2, <3>2
      <4>2. \A names : KeysOf(work[d].instance, names) \cap KeysOf(i, Names) = {}
        BY <4>1 DEF KeysOf
      <4> QED
        BY <1>1, <2>1, <3>1, <4>1, <4>2 DEF CallInv, KeepsOpen
    <3> QED
      BY <2>2, <3>3, <3>4, <3>5 DEF CallInv
  <2> QED
    BY <2>3, <2>4
<1>4. EnginesAccounted'
  <2> SUFFICES ASSUME NEW j \in Instances, NEW n \in Names, <<j, n>> \in databases' \cup opening,
                      n \notin instances[j].databases
               PROVE  \E d \in Callers : /\ IsActive(d)' /\ work'[d].instance = j
                                         /\ n \in Pending(d)'
    BY <1>1 DEF EnginesAccounted
  <2>1. PICK d \in Callers : IsActive(d) /\ work[d].instance = j /\ n \in Pending(d)
    BY DEF EInv, EnginesAccounted
  <2>2. d # c => Pending(d)' = Pending(d)
    BY <1>1 DEF Pending
  <2>3. n \in Pending(d)'
    BY <2>1, <2>2
  <2> QED
    BY <1>1, <2>1, <2>3 DEF IsActive
<1>5. ServesWhatIsOpen'
  <2> SUFFICES ASSUME stopping.step # "closed", NEW j \in Instances
               PROVE  KeysOf(j, instances[j].databases) \subseteq databases'
    BY <1>1 DEF ServesWhatIsOpen
  <2>1. KeysOf(j, instances[j].databases) \subseteq databases
    BY DEF EInv, ServesWhatIsOpen
  <2>2. databases \ databases' \subseteq KeysOf(i, Names)
    BY <1>2
  <2>3. j # i => KeysOf(j, instances[j].databases) \cap KeysOf(i, Names) = {}
    BY DEF KeysOf
  <2> QED
    BY <2>1, <2>2, <2>3
<1>6. AbsentServesNone' /\ ShutdownEnds'
  BY <1>1 DEF EInv, AbsentServesNone, ShutdownEnds, IsRunning
<1>7. PortsInv'
  BY <1>1, PortsKept DEF EInv
<1> QED
  BY <1>3, <1>4, <1>5, <1>6, <1>7 DEF EInv

LEMMA CloseNextManaged ==
  ASSUME DInv, EInv, NEW c \in Callers, NEW i \in Instances, i = work[c].instance,
         NEW k \in Manager!Keys, Manager!CloseNext(c, k), ElsewhereUnchanged
  PROVE  EInv'
<1>1. op \in [Callers -> Manager!Operation] /\ op[c] \in Manager!Operation
  BY ManagerTyped DEF DInv
<1>2. /\ op'[c].todo = op[c].todo \ {k} /\ op'[c].closing = op[c].closing \cup ({k} \cap databases)
      /\ op'[c].kind = op[c].kind /\ op'[c].id = op[c].id
      /\ \A d \in Callers \ {c} : op'[d] = op[d]
  BY <1>1 DEF Manager!CloseNext, Manager!Operation
<1>3. /\ k \in op[c].todo /\ k \notin opening /\ databases' = databases \ {k}
      /\ UNCHANGED <<opening, files, outcome>>
  BY DEF Manager!CloseNext
<1>4. UNCHANGED <<instances, allocatedPorts, work, stopping>>
  BY DEF ElsewhereUnchanged
<1>5. op[c].kind \notin {"none", "open"} /\ op[c] # Manager!NoOp
  BY <1>3, ManagerNoOp DEF DInv, Proved!IInv, Proved!ClosesNothing
<1>6. CallInv(c)
  BY DEF EInv
<1>7. op[c].kind # "closeAll" =>
        /\ IsActive(c) /\ work[c].step \in {"closing", "unwinding", "removing"}
        /\ k \in KeysOf(i, Names)
  <2>1. op[c].kind # "closeAll" => k \in KeysOf(i, Names)
    BY <1>3, <1>6 DEF CallInv, WaitsForItsOwn
  <2> QED
    BY <1>3, <2>1, ClosersWork
<1>8. op[c].kind = "closeAll" => stopping.step = "closed" /\ ~IsActive(c)
  BY <1>6 DEF CallInv, WaitsForItsOwn, IsActive
<1>9. WaitsForItsOwn(c)'
  BY <1>2, <1>4, <1>5, <1>6, <1>7 DEF CallInv, WaitsForItsOwn
<1>10. ServesMeanwhile(c)'
  BY <1>2, <1>4, <1>6 DEF CallInv, ServesMeanwhile, Quiet, IsRunning
<1>11. ClosesAlone(c)'
  <2>1. databases \subseteq files
    BY DEF DInv, Proved!IInv, Proved!FilesUnderEngines
  <2> QED
    BY <1>2, <1>3, <1>6, <2>1 DEF CallInv, ClosesAlone
<1>12. KeepsOpen(c)'
  BY <1>4, <1>7, <1>8 DEF KeepsOpen
<1>13. IsActive(c) => \A n \in Names :
         <<i, n>> \in databases' \cup opening /\ n \in Pending(c) => n \in Pending(c)'
  <2> SUFFICES ASSUME IsActive(c), NEW n \in Names, <<i, n>> \in databases' \cup opening,
                      n \in Pending(c)
               PROVE  n \in Pending(c)'
    OBVIOUS
  <2>1. <<i, n>> # k
    BY <1>3
  <2>2. work[c].step \in {"closing", "unwinding", "removing"}
    BY <1>7, <1>8
  <2> QED
    BY <1>2, <1>3, <1>4, <2>1, <2>2 DEF Pending
<1>14. stopping.step # "closed" => KeysOf(i, instances[i].databases) \subseteq databases'
  <2> SUFFICES ASSUME stopping.step # "closed"
               PROVE  KeysOf(i, instances[i].databases) \subseteq databases'
    OBVIOUS
  <2>1. KeysOf(i, instances[i].databases) \subseteq databases
    BY DEF EInv, ServesWhatIsOpen
  <2>2. k \notin KeysOf(i, instances[i].databases)
    <3>1. CASE Quiet(work[c])
      <4>1. instances[i].databases = {}
        BY <1>6, <3>1 DEF CallInv, ServesMeanwhile, Absent
      <4> QED
        BY <4>1 DEF KeysOf
    <3>2. CASE ~Quiet(work[c])
      <4>1. work[c].step = "removing" /\ work[c].kind = "dropDatabase"
        BY <1>7, <1>8, <3>2 DEF Quiet
      <4>2. /\ work[c].names \cap instances[i].databases = {}
            /\ k \in KeysOf(i, work[c].names)
        BY <1>3, <1>6, <4>1 DEF CallInv, ServesMeanwhile
      <4> QED
        BY <4>2 DEF KeysOf
    <3> QED
      BY <3>1, <3>2
  <2> QED
    BY <1>3, <2>1, <2>2
<1>15. \/ op[c].kind = "closeAll" /\ files' = files
       \/ /\ IsActive(c)
          /\ databases \ databases' \subseteq KeysOf(i, Names)
          /\ files \ files' \subseteq KeysOf(i, Names)
  BY <1>3, <1>7
<1> QED
  BY <1>2, <1>3, <1>9, <1>10, <1>11, <1>12, <1>13, <1>14, <1>15, ManagesHere

(* What is left of an operation: its engines close, it looks again, the      *)
(* files go, it returns.                                                     *)
LEMMA OperationKeeps ==
  ASSUME DInv, EInv, NEW c \in Callers, NEW i \in Instances, i = work[c].instance,
         ElsewhereUnchanged, UNCHANGED <<databases, opening, outcome>>,
         \A d \in Callers \ {c} : op'[d] = op[d],
         op'[c].closing \subseteq op[c].closing,
         op[c].kind \in Manager!Closes,
         \/ op'[c].kind = op[c].kind /\ op'[c].id = op[c].id
         \/ op'[c] = Manager!NoOp,
         op'[c].kind # "closeAll" =>
           /\ op'[c].todo \subseteq KeysOf(i, Names)
           /\ op'[c].todo \subseteq op[c].todo \/ op[c].kind = "dropInstance",
         op[c].todo \subseteq op'[c].todo,
         \/ files' = files
         \/ /\ op[c].kind \in Manager!Drops /\ op'[c] = Manager!NoOp
            /\ files \ files' \subseteq KeysOf(i, Names)
  PROVE  EInv'
<1>1. UNCHANGED <<instances, allocatedPorts, work, stopping>>
  BY DEF ElsewhereUnchanged
<1>2. CallInv(c)
  BY DEF EInv
<1>3. op[c].kind \notin {"none", "open"}
  BY DEF Manager!Closes, Manager!Drops
<1>4. op[c].kind = "closeAll" => stopping.step = "closed" /\ work[c].step = "idle"
  BY <1>2 DEF CallInv, WaitsForItsOwn
<1>5. op[c].kind # "closeAll" =>
        IsActive(c) /\ work[c].step \in {"closing", "unwinding", "removing"}
  <2>1. op[c].kind = "close" => work[c].step \in {"closing", "unwinding"}
    BY <1>2 DEF CallInv, WaitsForItsOwn
  <2>2. op[c].kind \in Manager!Drops => work[c].step = "removing"
    BY DEF DInv, DropsHere
  <2> QED
    BY <2>1, <2>2 DEF IsActive, Manager!Closes
<1>6. WaitsForItsOwn(c)'
  <2>1. CASE op'[c] = Manager!NoOp
    BY <2>1, ManagerNoOp DEF WaitsForItsOwn
  <2>2. CASE op'[c].kind = op[c].kind
    BY <1>1, <1>2, <1>3, <2>2 DEF CallInv, WaitsForItsOwn
  <2> QED
    BY <2>1, <2>2
<1>7. ServesMeanwhile(c)'
  <2>1. work[c].step = "removing" /\ work[c].kind = "dropDatabase" =>
          op'[c].kind # "dropInstance" /\ op'[c].todo \subseteq op[c].todo
    <3> SUFFICES ASSUME work[c].step = "removing", work[c].kind = "dropDatabase"
                 PROVE  op'[c].kind # "dropInstance" /\ op'[c].todo \subseteq op[c].todo
      OBVIOUS
    <3>1. op[c].kind # "dropInstance"
      BY <1>2 DEF CallInv, ServesMeanwhile
    <3>2. op[c].kind # "closeAll"
      BY <1>4
    <3> QED
      BY <3>1, <3>2, ManagerNoOp
  <2> QED
    BY <1>1, <1>2, <2>1 DEF CallInv, ServesMeanwhile, Quiet, IsRunning
<1>8. ClosesAlone(c)'
  <2>1. CASE op'[c] = Manager!NoOp
    BY <2>1, ManagerNoOp DEF ClosesAlone
  <2>2. CASE op'[c].kind = op[c].kind /\ op'[c] # Manager!NoOp
    BY <1>2, <2>2 DEF CallInv, ClosesAlone
  <2> QED
    BY <2>1, <2>2
<1>9. KeepsOpen(c)'
  BY <1>1, <1>4, <1>5 DEF KeepsOpen
<1>10. IsActive(c) => \A n \in Names :
         <<i, n>> \in databases' \cup opening /\ n \in Pending(c) => n \in Pending(c)'
  BY <1>1, <1>4, <1>5 DEF Pending, IsActive
<1>11. stopping.step # "closed" => KeysOf(i, instances[i].databases) \subseteq databases'
  BY DEF EInv, ServesWhatIsOpen
<1>12. \/ op[c].kind = "closeAll" /\ files' = files
       \/ /\ IsActive(c)
          /\ databases \ databases' \subseteq KeysOf(i, Names)
          /\ files \ files' \subseteq KeysOf(i, Names)
  BY <1>5 DEF Manager!Drops
<1> QED
  BY <1>6, <1>7, <1>8, <1>9, <1>10, <1>11, <1>12, ManagesHere

LEMMA ManagesKeeps ==
  ASSUME DInv, EInv, NEW c \in Callers, Manages(c)
  PROVE  EInv'
<1> DEFINE i == work[c].instance
<1>1. op \in [Callers -> Manager!Operation] /\ op[c] \in Manager!Operation /\ i \in Instances
  BY ManagerTyped DEF DInv, TypeOK, Work
<1>2. ElsewhereUnchanged
  BY DEF Manages
<1>3. CallInv(c)
  BY DEF EInv
<1>4. op[c].kind # "closeAll" => op[c].todo \cup op[c].closing \subseteq KeysOf(i, Names)
  BY <1>3 DEF CallInv, WaitsForItsOwn
<1>5. op[c].kind \in {"none", "open"} => op[c].todo = {} /\ op[c].closing = {}
  BY DEF DInv, Proved!IInv, Proved!ClosesNothing
<1>6. op[c].kind \in {"none", "open"} \cup Manager!Closes
  BY <1>1 DEF Manager!Operation
<1>7. op[c].kind \in Manager!Drops => Manager!Scope(op[c].id) \subseteq KeysOf(i, Names)
  BY DEF DInv, DropsHere, KeysOf
<1> HIDE DEF i
<1>8. ASSUME NEW k \in Manager!Keys, Manager!CloseNext(c, k) PROVE EInv'
  BY <1>1, <1>2, <1>8, CloseNextManaged DEF i
<1>9. ASSUME NEW k \in Manager!Keys, Manager!EngineCloses(c, k) PROVE EInv'
  <2>1. /\ k \in op[c].closing /\ UNCHANGED <<databases, opening, files, outcome>>
        /\ op'[c].closing = op[c].closing \ {k} /\ op'[c].todo = op[c].todo
        /\ op'[c].kind = op[c].kind /\ op'[c].id = op[c].id
        /\ \A d \in Callers \ {c} : op'[d] = op[d]
    BY <1>1, <1>9 DEF Manager!EngineCloses, Manager!Operation
  <2>2. op[c].kind \in Manager!Closes
    BY <1>5, <1>6, <2>1
  <2> QED
    BY <1>1, <1>2, <1>4, <2>1, <2>2, OperationKeeps DEF i
<1>10. CASE Manager!CloseReturns(c)
  <2>1. /\ op[c].kind \in Manager!Closes /\ op[c].todo = {}
        /\ UNCHANGED <<databases, opening, files, outcome>>
        /\ op'[c] = Manager!NoOp /\ \A d \in Callers \ {c} : op'[d] = op[d]
    BY <1>1, <1>10 DEF Manager!CloseReturns, Manager!AllClosed, Manager!Closes
  <2> QED
    BY <1>1, <1>2, <2>1, ManagerNoOp, OperationKeeps DEF i
<1>11. CASE Manager!DropGoesOn(c)
  <2> DEFINE remaining == IF op[c].kind = "drop" THEN {}
                          ELSE Manager!Tracked \cap Manager!Scope(op[c].id)
  <2>1. /\ op[c].kind \in Manager!Drops /\ op[c].todo = {} /\ op[c].closing = {}
        /\ op' = [op EXCEPT ![c].todo = remaining, ![c].removing = (remaining = {})]
        /\ UNCHANGED <<databases, opening, files, outcome>>
    BY <1>11 DEF Manager!DropGoesOn, Manager!AllClosed
  <2>2. /\ remaining \subseteq KeysOf(i, Names)
        /\ remaining = {} \/ op[c].kind = "dropInstance"
    BY <1>7, <2>1 DEF Manager!Drops
  <2> HIDE DEF remaining
  <2>3. /\ op'[c].todo = remaining /\ op'[c].closing = op[c].closing
        /\ op'[c].kind = op[c].kind /\ op'[c].id = op[c].id
        /\ \A d \in Callers \ {c} : op'[d] = op[d]
    BY <1>1, <2>1 DEF Manager!Operation
  <2>4. op[c].kind \in Manager!Closes
    BY <2>1 DEF Manager!Closes
  <2> QED
    BY <1>1, <1>2, <2>1, <2>2, <2>3, <2>4, OperationKeeps DEF i
<1>12. CASE Manager!Removed(c)
  <2>1. /\ op[c].removing /\ UNCHANGED <<databases, opening, outcome>>
        /\ op'[c] = Manager!NoOp /\ \A d \in Callers \ {c} : op'[d] = op[d]
        /\ files' = files \ Manager!Scope(op[c].id)
    BY <1>1, <1>12 DEF Manager!Removed
  <2>2. op[c].kind \in Proved!Drops /\ op[c].todo = {}
    BY <2>1 DEF DInv, Proved!IInv, Proved!RemovesClosed
  <2>3. op[c].kind \in Manager!Drops
    BY <2>2 DEF Proved!Drops, Manager!Drops
  <2>4. op[c].kind \in Manager!Closes
    BY <2>3 DEF Manager!Closes
  <2> QED
    BY <1>1, <1>2, <1>7, <2>1, <2>2, <2>3, <2>4, ManagerNoOp, OperationKeeps DEF i
<1> QED
  BY <1>8, <1>9, <1>10, <1>11, <1>12 DEF Manages, Manager!GoesOn

(* A boot that settles wakes all that await it.                              *)
LEMMA SettleIs ==
  ASSUME DInv, NEW k, NEW how, Manager!Settle(k, how), NEW d \in Callers
  PROVE  \/ op[d].kind = "open" /\ op[d].id = k /\ op'[d] = Manager!NoOp /\ outcome'[d] = how
         \/ ~(op[d].kind = "open" /\ op[d].id = k) /\ op'[d] = op[d] /\ outcome'[d] = outcome[d]
  BY DEF Manager!Settle

LEMMA BootsKeep ==
  ASSUME DInv, EInv, NEW k \in Manager!Keys, Boots(k)
  PROVE  EInv'
<1>1. UNCHANGED <<instances, allocatedPorts, work, stopping>>
  BY DEF Boots, ElsewhereUnchanged
<1>2. CASE Manager!BootIsLate(k)
  <2>1. UNCHANGED <<databases, opening, files, op, outcome>>
    BY <1>2 DEF Manager!BootIsLate
  <2>2. PortsInv'
    BY <1>1, PortsKept DEF EInv
  <2> QED
    BY <1>1, <2>1, <2>2 DEF EInv, CallInv, HoldsInTurn, WaitsForItsOwn, ServesMeanwhile, Quiet,
       IsRunning, ClosesAlone, KeepsOpen, EnginesAccounted, IsActive, Pending, ServesWhatIsOpen,
       AbsentServesNone, ShutdownEnds
<1>3. CASE Manager!BootSucceeds(k) \/ Manager!Discarded(k) \/ Manager!BootFails(k)
  <2>1. PICK how \in {"ok", "failed"} :
          /\ Manager!Settle(k, how) /\ files' = files
          /\ k \in opening /\ opening' = opening \ {k}
          /\ databases' = IF how = "ok" THEN databases \cup {k} ELSE databases
    <3>1. Manager!BootSucceeds(k) =>
            /\ Manager!Settle(k, "ok") /\ files' = files
            /\ k \in opening /\ opening' = opening \ {k} /\ databases' = databases \cup {k}
      BY DEF Manager!BootSucceeds
    <3>2. discarding \subseteq opening
      BY DEF DInv, Proved!IInv, Proved!TypeOK
    <3>3. Manager!Discarded(k) \/ Manager!BootFails(k) =>
            /\ Manager!Settle(k, "failed") /\ files' = files
            /\ k \in opening /\ opening' = opening \ {k} /\ databases' = databases
      BY <3>2 DEF Manager!Discarded, Manager!BootFails
    <3> QED
      BY <1>3, <3>1, <3>3
  <2>2. databases' \cup opening' \subseteq databases \cup opening /\ databases \subseteq databases'
    BY <2>1
  <2>3. ASSUME NEW d \in Callers
        PROVE  \/ /\ op[d].kind = "open" /\ op[d].id = k /\ op'[d] = Manager!NoOp
                  /\ outcome'[d] = how
               \/ ~(op[d].kind = "open" /\ op[d].id = k) /\ op'[d] = op[d] /\ outcome'[d] = outcome[d]
    BY <2>1, SettleIs
  <2>4. ASSUME NEW d \in Callers, op[d].kind = "open", op[d].id = k
        PROVE  /\ op[d].todo = {} /\ op[d].closing = {} /\ work[d].step = "opening"
               /\ \E n \in Names : k = <<work[d].instance, n>> /\ work[d].booting = {n}
    BY <2>4 DEF DInv, Proved!IInv, Proved!ClosesNothing, EInv, CallInv, WaitsForItsOwn
  <2>5. ASSUME NEW d \in Callers PROVE CallInv(d)'
    <3>1. CallInv(d)
      BY DEF EInv
    <3>2. HoldsInTurn(d)'
      BY <1>1, <3>1 DEF CallInv, HoldsInTurn
    <3>3. WaitsForItsOwn(d)'
      BY <1>1, <2>3, <3>1, ManagerNoOp DEF CallInv, WaitsForItsOwn
    <3>4. ServesMeanwhile(d)'
      BY <1>1, <2>3, <3>1, ManagerNoOp DEF CallInv, ServesMeanwhile, Quiet, IsRunning
    <3>5. ClosesAlone(d)'
      BY <2>1, <2>2, <2>3, <3>1, ManagerNoOp DEF CallInv, ClosesAlone
    <3>6. KeepsOpen(d)'
      <4>1. CASE op[d].kind = "open" /\ op[d].id = k
        <5>1. op'[d] = Manager!NoOp /\ outcome'[d] = how
          BY <2>3, <4>1
        <5>2. how = "ok" => KeysOf(work[d].instance, work[d].booting) \subseteq databases'
          BY <2>1, <2>4, <4>1 DEF KeysOf
        <5> QED
          BY <1>1, <2>2, <3>1, <5>1, <5>2 DEF CallInv, KeepsOpen
      <4>2. CASE ~(op[d].kind = "open" /\ op[d].id = k)
        BY <1>1, <2>2, <2>3, <3>1, <4>2 DEF CallInv, KeepsOpen
      <4> QED
        BY <4>1, <4>2
    <3> QED
      BY <3>2, <3>3, <3>4, <3>5, <3>6 DEF CallInv
  <2>6. EnginesAccounted'
    <3> SUFFICES ASSUME NEW j \in Instances, NEW n \in Names, <<j, n>> \in databases' \cup opening',
                        n \notin instances[j].databases
                 PROVE  \E d \in Callers : /\ IsActive(d)' /\ work'[d].instance = j
                                           /\ n \in Pending(d)'
      BY <1>1 DEF EnginesAccounted
    <3>1. PICK d \in Callers : IsActive(d) /\ work[d].instance = j /\ n \in Pending(d)
      BY <2>2 DEF EInv, EnginesAccounted
    <3>2. n \in Pending(d)'
      <4>1. CASE op[d].kind = "open" /\ op[d].id = k
        <5>1. op'[d] = Manager!NoOp /\ outcome'[d] = how
          BY <2>3, <4>1
        <5>2. op[d].todo = {} /\ work[d].step = "opening" /\ n \in work[d].opened \cup work[d].booting
          BY <2>4, <3>1, <4>1 DEF Pending
        <5>3. CASE how = "ok" \/ n \in work[d].opened
          BY <1>1, <5>1, <5>2, <5>3 DEF Pending
        <5>4. CASE how = "failed" /\ n \notin work[d].opened
          <6>1. k = <<j, n>>
            BY <2>4, <3>1, <4>1, <5>2, <5>4
          <6>2. <<j, n>> \notin databases
            BY <2>1, <6>1 DEF DInv, Proved!IInv, Proved!TypeOK
          <6> QED
            BY <2>1, <5>4, <6>1, <6>2
        <5> QED
          BY <2>1, <5>3, <5>4
      <4>2. CASE ~(op[d].kind = "open" /\ op[d].id = k)
        BY <1>1, <2>3, <3>1, <4>2 DEF Pending
      <4> QED
        BY <4>1, <4>2
    <3> QED
      BY <1>1, <3>1, <3>2 DEF IsActive
  <2>7. ServesWhatIsOpen'
    BY <1>1, <2>2 DEF EInv, ServesWhatIsOpen
  <2>8. AbsentServesNone' /\ ShutdownEnds'
    BY <1>1 DEF EInv, AbsentServesNone, ShutdownEnds, IsRunning
  <2>9. PortsInv'
    BY <1>1, PortsKept DEF EInv
  <2> QED
    BY <2>5, <2>6, <2>7, <2>8, <2>9 DEF EInv
<1> QED
  BY <1>2, <1>3 DEF Boots, Manager!BootEnds

-----------------------------------------------------------------------------
(* Calls come and go; stopAll() ends with closeAll().                        *)

LEMMA ComesOrGoes ==
  ASSUME DInv, EInv, NEW c \in Callers, NEW w \in Work,
         work' = [work EXCEPT ![c] = w],
         UNCHANGED <<managerVars, instances, allocatedPorts>>, stopping'.step = stopping.step,
         work[c].step \in {"idle", "returning"}, op[c] = Manager!NoOp,
         w.step \in {"idle", "queued"}, w.port = NoPort, w.refused = {},
         w.opened = {}, w.booting = {},
         w.kind \in {"openDatabase", "dropDatabase"} => \E n \in Names : w.names = {n},
         c = Shutdown /\ stopping.step = "closed" => w.step = "idle"
  PROVE  EInv'
<1>1. work'[c] = w /\ \A d \in Callers \ {c} : work'[d] = work[d]
  BY DEF DInv, TypeOK
<1>2. UNCHANGED <<databases, opening, files, op, outcome, instances, allocatedPorts>>
  BY DEF managerVars
<1>3. ASSUME NEW d \in Callers PROVE CallInv(d)'
  <2>1. CASE d = c
    <3>1. HoldsInTurn(c)' /\ ServesMeanwhile(c)' /\ KeepsOpen(c)'
      BY <1>1 DEF HoldsInTurn, ServesMeanwhile, KeepsOpen, Quiet
    <3>2. WaitsForItsOwn(c)' /\ ClosesAlone(c)'
      BY <1>2, ManagerNoOp DEF WaitsForItsOwn, ClosesAlone
    <3> QED
      BY <2>1, <3>1, <3>2 DEF CallInv
  <2>2. CASE d # c
    <3>1. work'[d] = work[d]
      BY <1>1, <2>2
    <3> QED
      BY <1>2, <3>1 DEF EInv, CallInv, HoldsInTurn, WaitsForItsOwn, ServesMeanwhile, Quiet,
         IsRunning, ClosesAlone, KeepsOpen
  <2> QED
    BY <2>1, <2>2
<1>4. EnginesAccounted'
  <2> SUFFICES ASSUME NEW j \in Instances, NEW n \in Names, <<j, n>> \in databases \cup opening,
                      n \notin instances[j].databases
               PROVE  \E d \in Callers : /\ IsActive(d)' /\ work'[d].instance = j
                                         /\ n \in Pending(d)'
    BY <1>2 DEF EnginesAccounted
  <2>1. PICK d \in Callers : IsActive(d) /\ work[d].instance = j /\ n \in Pending(d)
    BY DEF EInv, EnginesAccounted
  <2>2. IsActive(c) => Pending(c) = {}
    BY ManagerNoOp DEF IsActive, Pending
  <2>3. work'[d] = work[d]
    BY <1>1, <2>1, <2>2
  <2> QED
    BY <1>2, <2>1, <2>3 DEF IsActive, Pending
<1>5. ServesWhatIsOpen' /\ AbsentServesNone'
  BY <1>2 DEF EInv, ServesWhatIsOpen, AbsentServesNone, IsRunning
<1>6. ShutdownEnds'
  BY <1>1 DEF EInv, ShutdownEnds, Callers
<1>7. PortsInv'
  <2>1. work[c].port = NoPort /\ work[c].refused = {}
    BY DEF EInv, CallInv, HoldsInTurn
  <2> QED
    BY <1>1, <1>2, <2>1, PortsKept DEF EInv
<1> QED
  BY <1>3, <1>4, <1>5, <1>6, <1>7 DEF EInv

LEMMA QueueKeeps ==
  ASSUME DInv, EInv, NEW c \in Callers, NEW kind \in Kinds, NEW i \in Instances,
         NEW names \in SUBSET Names,
         Queue(c, [kind |-> kind, instance |-> i, names |-> names]),
         kind \in {"openDatabase", "dropDatabase"} => \E n \in Names : names = {n},
         c = Shutdown => stopping.step # "closed", stopping'.step = stopping.step
  PROVE  EInv'
<1> DEFINE w == Start([kind |-> kind, instance |-> i, names |-> names], "queued")
<1>1. w \in Work
  BY StartType DEF Steps
<1>2. /\ w.step = "queued" /\ w.port = NoPort /\ w.refused = {} /\ w.opened = {}
      /\ w.booting = {} /\ w.kind = kind /\ w.names = names
  BY DEF Start
<1>3. /\ work' = [work EXCEPT ![c] = w] /\ work[c].step = "idle"
      /\ UNCHANGED <<managerVars, instances, allocatedPorts>>
  BY DEF Queue
<1> HIDE DEF w
<1>4. op[c] = Manager!NoOp
  <2>1. op[c] \in Manager!Operation
    BY ManagerTyped DEF DInv
  <2>2. op[c].kind \notin Manager!Drops
    BY <1>3 DEF DInv, DropsHere
  <2>3. op[c].kind \notin {"open", "close", "closeAll"}
    BY <1>3 DEF EInv, CallInv, WaitsForItsOwn
  <2>4. op[c].kind = "none"
    BY <2>1, <2>2, <2>3 DEF Manager!Operation, Manager!Closes, Manager!Drops
  <2> QED
    BY <2>4 DEF EInv, CallInv, WaitsForItsOwn
<1> QED
  BY <1>1, <1>2, <1>3, <1>4, ComesOrGoes

LEMMA ReturnKeeps ==
  ASSUME DInv, EInv, NEW c \in Callers, Return(c)
  PROVE  EInv'
<1>1. Idle \in Work
  BY IdleType
<1>2. /\ Idle.step = "idle" /\ Idle.port = NoPort /\ Idle.refused = {} /\ Idle.opened = {}
      /\ Idle.booting = {} /\ Idle.kind = "stop"
  BY DEF Idle, Start
<1>3. /\ work' = [work EXCEPT ![c] = Idle] /\ work[c].step = "returning"
      /\ UNCHANGED <<managerVars, instances, allocatedPorts, stopping>>
  BY DEF Return
<1>4. op[c] = Manager!NoOp
  BY <1>3, NoOpThen
<1> QED
  BY <1>1, <1>2, <1>3, <1>4, ComesOrGoes

LEMMA CloseAllKeeps ==
  ASSUME DInv, EInv, CloseAll
  PROVE  EInv'
<1>1. Shutdown \in Callers /\ work[Shutdown].step = "idle"
  BY DEF Callers, CloseAll
<1>2. Manager!StartClosing(Shutdown, "closeAll", NoId, Manager!Tracked)
  BY DEF CloseAll, Manager!CallCloseAll
<1>3. /\ op[Shutdown] = Manager!NoOp /\ op'[Shutdown].kind = "closeAll"
      /\ \A d \in Callers \ {Shutdown} : op'[d] = op[d]
      /\ UNCHANGED <<databases, opening, files, outcome>>
  BY <1>1, <1>2, ClosingIs
<1>4. UNCHANGED <<instances, allocatedPorts, work>> /\ stopping'.step = "closed"
  BY DEF CloseAll, DInv, TypeOK
<1>5. ASSUME NEW d \in Callers PROVE CallInv(d)'
  <2>1. HoldsInTurn(d)' /\ KeepsOpen(d)'
    BY <1>4 DEF EInv, CallInv, HoldsInTurn, KeepsOpen
  <2>2. WaitsForItsOwn(d)' /\ ServesMeanwhile(d)' /\ ClosesAlone(d)'
    <3>1. CASE d = Shutdown
      BY <1>1, <1>3, <1>4, <3>1 DEF EInv, CallInv, WaitsForItsOwn, ServesMeanwhile, Quiet,
         ClosesAlone
    <3>2. CASE d # Shutdown
      BY <1>3, <1>4, <3>2 DEF EInv, CallInv, WaitsForItsOwn, ServesMeanwhile, Quiet, IsRunning,
         ClosesAlone
    <3> QED
      BY <3>1, <3>2
  <2> QED
    BY <2>1, <2>2 DEF CallInv
<1>6. EnginesAccounted'
  <2> SUFFICES ASSUME NEW j \in Instances, NEW n \in Names, <<j, n>> \in databases \cup opening,
                      n \notin instances[j].databases
               PROVE  \E d \in Callers : /\ IsActive(d)' /\ work'[d].instance = j
                                         /\ n \in Pending(d)'
    BY <1>3, <1>4 DEF EnginesAccounted
  <2>1. PICK d \in Callers : IsActive(d) /\ work[d].instance = j /\ n \in Pending(d)
    BY DEF EInv, EnginesAccounted
  <2>2. op'[d] = op[d]
    BY <1>1, <1>3, <2>1 DEF IsActive
  <2> QED
    BY <1>3, <1>4, <2>1, <2>2 DEF IsActive, Pending
<1>7. ServesWhatIsOpen' /\ AbsentServesNone' /\ ShutdownEnds'
  BY <1>1, <1>4 DEF EInv, ServesWhatIsOpen, AbsentServesNone, ShutdownEnds, IsRunning
<1>8. PortsInv'
  BY <1>4, PortsKept DEF EInv
<1> QED
  BY <1>5, <1>6, <1>7, <1>8 DEF EInv

LEMMA NextKeeps == DInv /\ EInv /\ [Next]_vars => EInv'
<1> SUFFICES ASSUME DInv, EInv, [Next]_vars PROVE EInv'
  OBVIOUS
<1>1. ASSUME NEW c \in Requesters, Request(c) PROVE EInv'
  <2>1. PICK request \in Requests : Queue(c, request)
    BY <1>1 DEF Request
  <2>2. /\ request \in [kind : Kinds, instance : Instances, names : SUBSET Names]
        /\ request.kind \in {"openDatabase", "dropDatabase"} => \E n \in Names : request.names = {n}
    BY DataPlaneAssumption
  <2>3. PICK kind \in Kinds, i \in Instances, names \in SUBSET Names :
          request = [kind |-> kind, instance |-> i, names |-> names]
    BY <2>2
  <2>4. Queue(c, [kind |-> kind, instance |-> i, names |-> names])
    BY <2>1, <2>3
  <2>5. kind \in {"openDatabase", "dropDatabase"} => \E n \in Names : names = {n}
    BY <2>2, <2>3
  <2>6. c \in Callers /\ c # Shutdown /\ stopping' = stopping
    BY <1>1, DataPlaneAssumption DEF Request, Callers
  <2> QED
    BY <2>4, <2>5, <2>6, QueueKeeps
<1>2. ASSUME NEW c \in Callers, GoesOn(c) PROVE EInv'
  BY <1>2, GoesOnKeeps, ReturnKeeps
<1>3. CASE \E c \in Callers : Manages(c)
  BY <1>3, ManagesKeeps
<1>4. CASE \E k \in Manager!Keys : Boots(k)
  BY <1>4, BootsKeep
<1>5. CASE StopAll \/ UNCHANGED vars
  <2>1. /\ UNCHANGED <<databases, opening, files, op, outcome, instances, allocatedPorts, work>>
        /\ stopping'.step = "closed" <=> stopping.step = "closed"
    BY <1>5 DEF StopAll, vars, managerVars
  <2>2. PortsInv'
    BY <2>1, PortsKept DEF EInv
  <2> QED
    BY <2>1, <2>2 DEF EInv, CallInv, HoldsInTurn, WaitsForItsOwn, ServesMeanwhile, Quiet,
       IsRunning, ClosesAlone, KeepsOpen, EnginesAccounted, IsActive, Pending, ServesWhatIsOpen,
       AbsentServesNone, ShutdownEnds
<1>6. CASE StopNext
  <2>1. PICK i \in stopping.todo :
          /\ Queue(Shutdown, [kind |-> "stop", instance |-> i, names |-> {}])
          /\ stopping' = [stopping EXCEPT !.todo = @ \ {i}]
    BY <1>6 DEF StopNext
  <2>2. i \in Instances /\ Shutdown \in Callers /\ "stop" \in Kinds /\ {} \in SUBSET Names
    BY DEF DInv, TypeOK, Callers, Kinds
  <2>3. stopping.step = "stopping" /\ stopping'.step = stopping.step
    BY <1>6, <2>1 DEF StopNext, DInv, TypeOK
  <2> QED
    BY <2>1, <2>2, <2>3, QueueKeeps
<1>7. CASE CloseAll
  BY <1>7, CloseAllKeeps
<1> QED
  BY <1>1, <1>2, <1>3, <1>4, <1>5, <1>6, <1>7 DEF Next

LEMMA InitKeeps == Init => EInv
<1> SUFFICES ASSUME Init PROVE EInv
  OBVIOUS
<1>1. /\ Idle.step = "idle" /\ Idle.port = NoPort /\ Idle.refused = {} /\ Idle.opened = {}
      /\ Idle.booting = {} /\ Idle.kind = "stop" /\ Shutdown \in Callers
  BY DEF Idle, Start, Callers
<1>2. /\ \A d \in Callers : work[d] = Idle /\ op[d] = Manager!NoOp
      /\ \A j \in Instances : instances[j] = Absent
      /\ databases = {} /\ opening = {} /\ allocatedPorts = {} /\ stopping.step = "no"
  BY DEF Init, Manager!Init
<1>3. ASSUME NEW d \in Callers PROVE CallInv(d)
  BY <1>1, <1>2, ManagerNoOp DEF CallInv, HoldsInTurn, WaitsForItsOwn, ServesMeanwhile, Quiet,
     ClosesAlone, KeepsOpen
<1>4. EnginesAccounted /\ ServesWhatIsOpen /\ AbsentServesNone /\ ShutdownEnds
  BY <1>2 DEF EnginesAccounted, ServesWhatIsOpen, AbsentServesNone, ShutdownEnds, Absent, KeysOf
<1>5. PortsInv
  BY <1>1, <1>2 DEF PortsInv, Holding, Serving, Absent
<1> QED
  BY <1>3, <1>4, <1>5 DEF EInv

LEMMA EnginesInvariance == Spec => [](DInv /\ EInv)
<1>1. Init => DInv /\ EInv
  BY InitInv, InitKeeps
<1>2. DInv /\ EInv /\ [Next]_vars => (DInv /\ EInv)'
  BY NextInv, NextKeeps
<1> QED
  BY <1>1, <1>2, PTL DEF Spec

LEMMA OnePerDirectory ==
  ASSUME DInv, EInv
  PROVE  OneEnginePerDirectory
<1> SUFFICES ASSUME stopping.step = "no", NEW k \in Manager!Keys
             PROVE  Cardinality(Engines(k)) <= 1 /\ (Engines(k) # {} => k \in files)
  BY DEF OneEnginePerDirectory
<1>1. ASSUME NEW c \in Callers, k \in op[c].closing
      PROVE  /\ IsActive(c) /\ k \in KeysOf(work[c].instance, Names)
             /\ k \notin databases /\ k \notin opening /\ k \in files
  <2>1. op[c].kind # "closeAll" /\ CallInv(c)
    BY DEF EInv, CallInv, WaitsForItsOwn
  <2>2. IsActive(c)
    BY <1>1, <2>1, ClosersWork
  <2> QED
    BY <1>1, <2>1, <2>2 DEF CallInv, WaitsForItsOwn, ClosesAlone
<1>2. ASSUME NEW c \in Callers, NEW d \in Callers, k \in op[c].closing, k \in op[d].closing
      PROVE  c = d
  <2>1. work[c].instance = work[d].instance
    BY <1>1, <1>2 DEF KeysOf
  <2> QED
    BY <1>1, <1>2, <2>1, AloneAtWork DEF IsActive
<1>3. databases \cap opening = {} /\ databases \cup opening \subseteq files
  BY DEF DInv, Proved!IInv, Proved!TypeOK, Proved!FilesUnderEngines
<1>4. Engines(k) = {} \/ \E x : Engines(k) = {x}
  <2>1. CASE \E c \in Callers : k \in op[c].closing
    <3>1. PICK c \in Callers : k \in op[c].closing
      BY <2>1
    <3>2. \A d \in Callers : k \in op[d].closing <=> d = c
      BY <1>2, <3>1
    <3>3. {d \in Callers : k \in op[d].closing} = {c}
      BY <3>2
    <3>4. {<<"closing", d>> : d \in {d \in Callers : k \in op[d].closing}} = {<<"closing", c>>}
      BY <3>3
    <3>5. k \notin databases /\ k \notin opening
      BY <1>1, <3>1
    <3>6. {k} \cap databases = {} /\ {k} \cap opening = {}
      BY <3>5
    <3>7. Engines(k) = {<<"closing", c>>}
      BY <3>4, <3>6 DEF Engines
    <3> QED
      BY <3>7
  <2>2. CASE ~\E c \in Callers : k \in op[c].closing
    <3>1. {d \in Callers : k \in op[d].closing} = {}
      BY <2>2
    <3>2. {<<"closing", d>> : d \in {d \in Callers : k \in op[d].closing}} = {}
      BY <3>1
    <3>3. CASE k \in databases
      <4>1. {k} \cap databases = {k} /\ {k} \cap opening = {}
        BY <1>3, <3>3
      <4> QED
        BY <3>2, <4>1 DEF Engines
    <3>4. CASE k \notin databases /\ k \in opening
      <4>1. {k} \cap databases = {} /\ {k} \cap opening = {k}
        BY <3>4
      <4> QED
        BY <3>2, <4>1 DEF Engines
    <3>5. CASE k \notin databases /\ k \notin opening
      <4>1. {k} \cap databases = {} /\ {k} \cap opening = {}
        BY <3>5
      <4> QED
        BY <3>2, <4>1 DEF Engines
    <3> QED
      BY <3>3, <3>4, <3>5
  <2> QED
    BY <2>1, <2>2
<1>5. Cardinality(Engines(k)) <= 1
  <2>1. CASE Engines(k) = {}
    BY <2>1, FS_EmptySet
  <2>2. CASE \E x : Engines(k) = {x}
    <3>1. PICK x : Engines(k) = {x}
      BY <2>2
    <3>2. Cardinality({x}) = 1
      BY FS_Singleton, Zenon
    <3> QED
      BY <3>1, <3>2
  <2> QED
    BY <1>4, <2>1, <2>2
<1>6. Engines(k) # {} => k \in files
  <2>1. CASE \E c \in Callers : k \in op[c].closing
    BY <1>1, <2>1
  <2>2. CASE k \in databases \cup opening
    BY <1>3, <2>2
  <2>3. CASE (\A c \in Callers : k \notin op[c].closing) /\ k \notin databases \cup opening
    <3>1. {d \in Callers : k \in op[d].closing} = {} /\ {k} \cap databases = {} /\ {k} \cap opening = {}
      BY <2>3
    <3>2. Engines(k) = {}
      BY <3>1 DEF Engines
    <3> QED
      BY <3>2
  <2> QED
    BY <2>1, <2>2, <2>3
<1> QED
  BY <1>5, <1>6

(* PortAllocator: a port is claimed by one holder and given back when that   *)
(* is gone, whatever binds and starts fail.                                  *)
THEOREM PortsAreAccounted == Spec => []PortsAccounted
<1>1. DInv /\ EInv => PortsAccounted
  BY PortsImply DEF EInv
<1> QED
  BY <1>1, EnginesInvariance, PTL

(* Until stopAll(), no two engines have a data directory open, one that is   *)
(* closing included, and none runs without its files.                        *)
THEOREM DirectoriesAreExclusive == Spec => []OneEnginePerDirectory
<1>1. DInv /\ EInv => OneEnginePerDirectory
  BY OnePerDirectory
<1> QED
  BY <1>1, EnginesInvariance, PTL

(* What is served is open until stopAll(), and an engine that runs is        *)
(* served or a call at work is about to close or to publish it.              *)
THEOREM EnginesAreMatched == Spec => []EnginesMatchListeners
<1>1. DInv /\ EInv => EnginesMatchListeners
  <2> SUFFICES ASSUME DInv, EInv PROVE EnginesMatchListeners
    OBVIOUS
  <2>1. ServedIsOpen
    BY DEF EInv, ServesWhatIsOpen, ServedIsOpen, KeysOf
  <2>2. NoEngineWithoutListener
    BY DEF EInv, EnginesAccounted, NoEngineWithoutListener
  <2> QED
    BY <2>1, <2>2 DEF EnginesMatchListeners
<1> QED
  BY <1>1, EnginesInvariance, PTL

-----------------------------------------------------------------------------
(* A drop of an instance leaves nothing.                                     *)

(* Until a drop of an instance returns, it is in the manager's hands or has  *)
(* removed every file of the instance.                                       *)
HasRemoved(c) ==
  work[c].step = "removing" /\ work[c].kind = "dropInstance" =>
    \/ op[c].kind = "dropInstance" /\ op[c].id = work[c].instance
    \/ op[c] = Manager!NoOp /\ KeysOf(work[c].instance, Names) \cap files = {}

DropInv == \A c \in Callers : HasRemoved(c)

LEMMA FacadeEffect ==
  ASSUME DInv, NEW c \in Callers, GoesOn(c), ~Return(c)
  PROVE  /\ files' \subseteq files \cup KeysOf(work[c].instance, Names)
         /\ \A d \in Callers \ {c} : op'[d] = op[d]
         /\ work'[c].step = "removing" /\ work'[c].kind = "dropInstance" =>
              op'[c].kind = "dropInstance" /\ op'[c].id = work[c].instance
<1> DEFINE i == work[c].instance
<1>1. work[c] \in Work /\ work \in [Callers -> Work]
  BY DEF DInv, TypeOK
<1>2. CASE CloseNext(c)
  <2>1. PICK n \in work[c].todo : /\ Manager!StartClosing(c, "close", <<i, n>>, {<<i, n>>})
                                  /\ work' = [work EXCEPT ![c].todo = @ \ {n}]
    BY <1>2 DEF CloseNext, Manager!CallClose
  <2>2. work'[c].step # "removing"
    BY <1>1, <1>2, <2>1 DEF CloseNext, Work
  <2> QED
    BY <2>1, <2>2, ClosingIs
<1>3. CASE StoppedDrop(c) \/ BeginDrop(c)
  <2>1. Manager!StartClosing(c, "dropInstance", i, Manager!Tracked \cap Manager!Scope(i))
    BY <1>3 DEF StoppedDrop, BeginDrop, RemoveInstance, Manager!CallDropInstance
  <2> QED
    BY <2>1, ClosingIs
<1>4. CASE OpenNext(c) \/ BeginOpenDatabase(c)
  <2>1. PICK n \in Names : Manager!CallOpen(c, <<i, n>>)
    BY <1>1, <1>4 DEF OpenNext, BeginOpenDatabase, Work
  <2>2. files' \subseteq files \cup KeysOf(i, Names)
    BY <2>1 DEF Manager!CallOpen, Manager!RefuseOpen, Manager!ReturnExisting, Manager!AwaitBoot,
       KeysOf
  <2>3. work'[c].step = "opening"
    BY <1>1, <1>4, ZenonT(60) DEF OpenNext, BeginOpenDatabase, Work
  <2> QED
    BY <2>1, <2>2, <2>3, OpenIs
<1>5. CASE BeginDropDatabase(c)
  <2>1. PICK n \in work[c].names : Manager!StartClosing(c, "drop", <<i, n>>, {<<i, n>>})
    BY <1>5 DEF BeginDropDatabase, Manager!CallDrop
  <2>2. work'[c].kind = "dropDatabase"
    BY <1>1, <1>5 DEF BeginDropDatabase, Goes, Work
  <2> QED
    BY <2>1, <2>2, ClosingIs
<1>6. CASE \/ StopListener(c) \/ StoppedStart(c) \/ Stopped(c) \/ BeginStart(c) \/ NothingToDo(c)
           \/ Opened(c) \/ OpenFails(c) \/ Unwound(c) \/ AllOpen(c)
  <2>1. UNCHANGED managerVars /\ work'[c].step # "removing"
    BY <1>1, <1>6 DEF StopListener, Closing, StoppedStart, Stopped, OpenAll, BeginStart,
       NothingToDo, Goes, Opened, OpenFails, Unwind, Unwound, AllOpen, Work
  <2> QED
    BY <2>1 DEF managerVars
<1>7. CASE \/ ClaimPort(c) \/ PortIsTaken(c) \/ BindFails(c) \/ BindSucceeds(c)
           \/ NoPortIsLeft(c) \/ OpenDatabaseReturns(c) \/ RemovalReturns(c)
  <2>1. UNCHANGED managerVars /\ work'[c].step # "removing"
    BY <1>1, <1>7 DEF ClaimPort, PortIsTaken, BindFails, BindSucceeds, NoPortIsLeft, Unwind,
       OpenDatabaseReturns, RemovalReturns, Goes, Work
  <2> QED
    BY <2>1 DEF managerVars
<1> QED
  BY <1>2, <1>3, <1>4, <1>5, <1>6, <1>7 DEF GoesOn

LEMMA DropNext == DInv /\ EInv /\ DropInv /\ [Next]_vars => DropInv'
<1> SUFFICES ASSUME DInv, EInv, DropInv, [Next]_vars, NEW c \in Callers
             PROVE  HasRemoved(c)'
  BY DEF DropInv
<1>0. HasRemoved(c) /\ op \in [Callers -> Manager!Operation] /\ op[c] \in Manager!Operation
  BY ManagerTyped DEF DropInv, DInv
<1> DEFINE Same == work'[c] = work[c] /\ op'[c] = op[c] /\ files' \subseteq files
<1>s. Same => HasRemoved(c)'
  BY <1>0 DEF HasRemoved
<1>1. ASSUME NEW d \in Callers, NEW request, Queue(d, request) PROVE HasRemoved(c)'
  <2>1. /\ work' = [work EXCEPT ![d] = Start(request, "queued")] /\ UNCHANGED managerVars
        /\ Start(request, "queued").step = "queued"
    BY <1>1 DEF Queue, Start
  <2>2. CASE d = c
    BY <2>1, <2>2 DEF HasRemoved, DInv, TypeOK
  <2>3. CASE d # c
    BY <1>s, <2>1, <2>3 DEF DInv, TypeOK, managerVars
  <2> QED
    BY <2>2, <2>3
<1>2. ASSUME NEW d \in Callers, Return(d) PROVE HasRemoved(c)'
  <2>1. work' = [work EXCEPT ![d] = Idle] /\ UNCHANGED managerVars /\ Idle.step = "idle"
    BY <1>2, IdleType DEF Return
  <2>2. CASE d = c
    BY <2>1, <2>2 DEF HasRemoved, DInv, TypeOK
  <2>3. CASE d # c
    BY <1>s, <2>1, <2>3 DEF DInv, TypeOK, managerVars
  <2> QED
    BY <2>2, <2>3
<1>3. ASSUME NEW d \in Callers, GoesOn(d), ~Return(d) PROVE HasRemoved(c)'
  <2>1. Moves(d)
    BY <1>3, GoesOnMoves DEF DInv
  <2>2. /\ files' \subseteq files \cup KeysOf(work[d].instance, Names)
        /\ \A e \in Callers \ {d} : op'[e] = op[e]
        /\ work'[d].step = "removing" /\ work'[d].kind = "dropInstance" =>
             op'[d].kind = "dropInstance" /\ op'[d].id = work[d].instance
    BY <1>3, FacadeEffect
  <2>3. CASE d = c
    BY <2>1, <2>2, <2>3 DEF HasRemoved, Moves
  <2>4. CASE d # c
    <3>1. work'[c] = work[c] /\ op'[c] = op[c]
      BY <2>1, <2>2, <2>4 DEF Moves
    <3>2. IsActive(c) => work[c].instance # work[d].instance
      BY <2>1, <2>4, AloneAtWork DEF Moves
    <3>3. work[c].step = "removing" =>
            KeysOf(work[c].instance, Names) \cap KeysOf(work[d].instance, Names) = {}
      BY <3>2 DEF KeysOf, IsActive
    <3> QED
      BY <1>0, <2>2, <3>1, <3>3 DEF HasRemoved
  <2> QED
    BY <2>3, <2>4
<1>4. ASSUME NEW d \in Callers, Manages(d) PROVE HasRemoved(c)'
  <2>1. work' = work
    BY <1>4 DEF Manages, ElsewhereUnchanged
  <2>2. CASE d # c
    <3>1. op'[c] = op[c] /\ files' \subseteq files
      BY <1>0, <1>4, <2>2 DEF Manages, Manager!GoesOn, Manager!CloseNext, Manager!EngineCloses,
         Manager!CloseReturns, Manager!DropGoesOn, Manager!Removed
    <3> QED
      BY <1>s, <2>1, <3>1
  <2>3. CASE d = c
    <3> SUFFICES ASSUME work[c].step = "removing", work[c].kind = "dropInstance"
                 PROVE  HasRemoved(c)'
      BY <2>1 DEF HasRemoved
    <3>1. ASSUME NEW k \in Manager!Keys, Manager!CloseNext(c, k) \/ Manager!EngineCloses(c, k)
          PROVE  HasRemoved(c)'
      <4>1. op'[c].kind = op[c].kind /\ op'[c].id = op[c].id
        BY <1>0, <3>1 DEF Manager!CloseNext, Manager!EngineCloses, Manager!Operation
      <4>2. op[c] # Manager!NoOp
        BY <3>1, ManagerNoOp DEF Manager!CloseNext, Manager!EngineCloses
      <4> QED
        BY <1>0, <2>1, <4>1, <4>2 DEF HasRemoved
    <3>2. CASE Manager!CloseReturns(c)
      BY <1>0, <3>2, ManagerNoOp DEF Manager!CloseReturns, HasRemoved
    <3>3. CASE Manager!DropGoesOn(c)
      <4>1. PICK remaining : op' = [op EXCEPT ![c].todo = remaining,
                                              ![c].removing = (remaining = {})]
        BY <3>3 DEF Manager!DropGoesOn
      <4>2. op'[c].kind = op[c].kind /\ op'[c].id = op[c].id
        BY <1>0, <4>1 DEF Manager!Operation
      <4>3. op[c] # Manager!NoOp
        BY <3>3, ManagerNoOp DEF Manager!DropGoesOn, Manager!Drops
      <4> QED
        BY <1>0, <2>1, <4>2, <4>3 DEF HasRemoved
    <3>4. CASE Manager!Removed(c)
      <4>1. op'[c] = Manager!NoOp /\ files' = files \ Manager!Scope(op[c].id)
        BY <1>0, <3>4 DEF Manager!Removed
      <4>2. op[c] # Manager!NoOp
        BY <3>4 DEF Manager!Removed, Manager!NoOp, Manager!Waiting
      <4>3. op[c].id = work[c].instance /\ work[c].instance \in Instances
        BY <1>0, <4>2 DEF HasRemoved, DInv, TypeOK, Work
      <4> QED
        BY <2>1, <4>1, <4>3 DEF HasRemoved, Manager!Scope, KeysOf
    <3> QED
      BY <1>4, <2>3, <3>1, <3>2, <3>3, <3>4 DEF Manages, Manager!GoesOn
  <2> QED
    BY <2>2, <2>3
<1>5. ASSUME NEW k \in Manager!Keys, Boots(k) PROVE HasRemoved(c)'
  <2>1. work' = work /\ files' = files
    BY <1>5 DEF Boots, ElsewhereUnchanged, Manager!BootEnds, Manager!BootSucceeds,
       Manager!BootIsLate, Manager!Discarded, Manager!BootFails
  <2>2. op'[c] = op[c] \/ op[c].kind = "open"
    BY <1>5 DEF Boots, Manager!BootEnds, Manager!BootSucceeds, Manager!BootIsLate,
       Manager!Discarded, Manager!BootFails, Manager!Settle
  <2> QED
    BY <1>0, <1>s, <2>1, <2>2, ManagerNoOp DEF HasRemoved
<1>6. CASE StopAll \/ UNCHANGED vars
  BY <1>6, <1>s DEF StopAll, vars, managerVars
<1>7. CASE CloseAll
  <2>1. Shutdown \in Callers /\ work[Shutdown].step = "idle" /\ work' = work
    BY <1>7 DEF CloseAll, Callers
  <2>2. Manager!StartClosing(Shutdown, "closeAll", NoId, Manager!Tracked)
    BY <1>7 DEF CloseAll, Manager!CallCloseAll
  <2>3. files' = files /\ (c # Shutdown => op'[c] = op[c])
    BY <2>1, <2>2, ClosingIs
  <2> QED
    BY <1>s, <2>1, <2>3 DEF HasRemoved
<1> QED
  BY <1>1, <1>2, <1>3, <1>4, <1>5, <1>6, <1>7 DEF Next, Request, StopNext, Callers

LEMMA DropStep ==
  ASSUME DInv, EInv, DropInv, [Next]_vars, NEW c \in Callers,
         work[c].kind = "dropInstance", work[c].step = "removing", work'[c].step = "returning"
  PROVE  /\ ~IsRunning(work[c].instance)'
         /\ \A n \in Names :
              <<work[c].instance, n>> \notin databases' \cup opening' \cup files'
<1>1. GoesOn(c) /\ ~Return(c)
  <2>1. ASSUME NEW d \in Callers, GoesOn(d), d # c PROVE work'[c] = work[c]
    <3>1. CASE Return(d)
      BY <2>1, <3>1 DEF Return, DInv, TypeOK
    <3>2. CASE ~Return(d)
      BY <2>1, <3>2, GoesOnMoves DEF Moves, DInv
    <3> QED
      BY <3>1, <3>2
  <2>2. ASSUME NEW d \in Callers, NEW request, Queue(d, request) PROVE work'[c] = work[c]
    BY <2>2 DEF Queue, DInv, TypeOK
  <2>3. StopAll \/ CloseAll \/ UNCHANGED vars => work' = work
    BY DEF StopAll, CloseAll, vars
  <2>4. (\E d \in Callers : Manages(d)) \/ (\E k \in Manager!Keys : Boots(k)) => work' = work
    BY DEF Manages, Boots, ElsewhereUnchanged
  <2>5. work'[c] # work[c]
    OBVIOUS
  <2> QED
    BY <2>1, <2>2, <2>3, <2>4, <2>5 DEF Next, Request, StopNext, Callers, Return
<1>2. RemovalReturns(c)
  BY <1>1 DEF GoesOn, StopListener, MayBegin, CloseNext, StoppedStart, StoppedDrop, Stopped,
     BeginStart, BeginDrop, NothingToDo, OpenNext, Opened, OpenFails, Unwound, AllOpen, ClaimPort,
     PortIsTaken, BindFails, BindSucceeds, NoPortIsLeft, BeginOpenDatabase, OpenDatabaseReturns,
     BeginDropDatabase
<1>3. /\ op[c] = Manager!NoOp /\ UNCHANGED <<managerVars, instances>>
      /\ work'[c].instance = work[c].instance
  BY <1>1, <1>2, GoesOnMoves DEF RemovalReturns, Moves, DInv
<1>4. KeysOf(work[c].instance, Names) \cap files = {}
  BY <1>3, ManagerNoOp DEF DropInv, HasRemoved
<1>5. databases \cup opening \subseteq files
  BY DEF DInv, Proved!IInv, Proved!FilesUnderEngines
<1>6. instances[work[c].instance] = Absent
  BY DEF EInv, CallInv, ServesMeanwhile, Quiet
<1>7. ~IsRunning(work[c].instance)'
  BY <1>3, <1>6 DEF IsRunning, Absent
<1>8. \A n \in Names : <<work[c].instance, n>> \notin files
  BY <1>4 DEF KeysOf
<1> QED
  BY <1>3, <1>5, <1>7, <1>8 DEF managerVars

(* DataPlaneManager.dropInstance(): when it returns, the instance has no     *)
(* listener, no engine and no files, whatever overlapped it.                 *)
THEOREM DropsAreComplete == Spec => DropLeavesNothing
<1>1. Init => DropInv
  <2> SUFFICES ASSUME Init, NEW c \in Callers PROVE HasRemoved(c)
    BY DEF DropInv
  <2> QED
    BY IdleType DEF Init, HasRemoved
<1>2. Spec => []DropInv
  BY <1>1, DropNext, EnginesInvariance, PTL DEF Spec
<1>3. DInv /\ EInv /\ DropInv /\ [Next]_vars =>
        [\A c \in Callers :
           work[c].kind = "dropInstance" /\ work[c].step = "removing"
             /\ work'[c].step = "returning"
           => /\ ~IsRunning(work[c].instance)'
              /\ \A n \in Names :
                   <<work[c].instance, n>> \notin databases' \cup opening' \cup files']_vars
  BY DropStep
<1> QED
  BY <1>2, <1>3, EnginesInvariance, PTL DEF Spec, DropLeavesNothing
=============================================================================
