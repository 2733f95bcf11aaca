--------------------------- MODULE DatabaseManager ---------------------------
(***************************************************************************)
(* PGliteDatabaseManager (shared/postgres-data-plane/                        *)
(* pglite-database-manager.ts): opens, closes and deletes the embedded       *)
(* Postgres engines, one for each database of each instance.                 *)
(*                                                                           *)
(* Steps.  Booting an engine (mkdir and PGlite.create), closing one and      *)
(* removing files take real time and end a step.  An engine's identity is    *)
(* its key: it is booting (in `opening`), registered (in `databases`) or     *)
(* being closed (in the `closing` of the operation that waits for it).       *)
(* storageType is "sqlite": in memory there are no files to lose.  An        *)
(* engine that boots may fail to; one that is closed closes.                 *)
(***************************************************************************)
EXTENDS FiniteSets

CONSTANTS
  Instances, Names,  (* instances, and names of databases                    *)
  Callers,           (* whoever calls the manager, one operation at a time   *)
  NoId               (* id of a caller that waits for nothing                *)

Keys == Instances \X Names   (* DatabaseKey                                  *)
Ids == Keys \cup Instances   (* buildDatabaseKey() and buildInstanceId()     *)

ASSUME IdsAssumption == Keys \cap Instances = {} /\ NoId \notin Ids /\ Names # {}

VARIABLES
  databases,  (* databases: registered engines                               *)
  opening,    (* opening: engines whose boot is in flight                    *)
  discarding, (* those that booted and are closed as their data is deleted   *)
  dropping,   (* dropping: ids of what is being deleted                      *)
  files,      (* databases whose directory exists                            *)
  op,         (* the operation each caller waits for                         *)
  outcome,    (* how each caller's last open() ended                         *)
  owed        (* history: what each caller's close has still to dispose of   *)

vars == <<databases, opening, discarding, dropping, files, op, outcome, owed>>

Drops == {"drop", "dropInstance"}
Closes == {"close", "closeAll"} \cup Drops

(* todo: keys to close; closing: keys whose db.close() is awaited.           *)
Operation == [kind : {"none", "open"} \cup Closes, id : Ids \cup {NoId},
              todo : SUBSET Keys, closing : SUBSET Keys, removing : BOOLEAN]

Waiting(kind, id, todo) ==
  [kind |-> kind, id |-> id, todo |-> todo, closing |-> {}, removing |-> FALSE]
NoOp == Waiting("none", NoId, {})

Scope(id) == IF id \in Instances THEN {id} \X Names ELSE {id}

Init ==
  /\ databases = {} /\ opening = {} /\ discarding = {} /\ dropping = {}
  /\ files \in SUBSET Keys   \* what an earlier process left on disk
  /\ op = [c \in Callers |-> NoOp]
  /\ outcome = [c \in Callers |-> "none"]
  /\ owed = [c \in Callers |-> {}]

-----------------------------------------------------------------------------
(* open()                                                                    *)

(* trackedKeys()                                                             *)
Tracked == databases \cup opening

(* requireNotDropping() throws.                                              *)
Dropping(k) == k \in dropping \/ k[1] \in dropping

RefuseOpen(c, k) ==
  /\ Dropping(k)
  /\ outcome' = [outcome EXCEPT ![c] = "failed"]
  /\ UNCHANGED <<databases, opening, discarding, dropping, files, op, owed>>

ReturnExisting(c, k) ==
  /\ ~Dropping(k) /\ k \in databases
  /\ outcome' = [outcome EXCEPT ![c] = "ok"]
  /\ UNCHANGED <<databases, opening, discarding, dropping, files, op, owed>>

(* A boot in flight is shared; otherwise createDatabase() makes the          *)
(* directory and boots an engine.                                            *)
AwaitBoot(c, k) ==
  /\ ~Dropping(k) /\ k \notin databases
  /\ opening' = opening \cup {k}
  /\ files' = files \cup {k}
  /\ op' = [op EXCEPT ![c] = Waiting("open", k, {})]
  /\ UNCHANGED <<databases, discarding, dropping, outcome, owed>>

CallOpen(c, k) ==
  /\ op[c] = NoOp
  /\ RefuseOpen(c, k) \/ ReturnExisting(c, k) \/ AwaitBoot(c, k)

(* The promise in `opening` settles for all that await it.                   *)
Settle(k, how) ==
  LET openers == {c \in Callers : op[c].kind = "open" /\ op[c].id = k}
  IN /\ op' = [c \in Callers |-> IF c \in openers THEN NoOp ELSE op[c]]
     /\ outcome' = [c \in Callers |-> IF c \in openers THEN how ELSE outcome[c]]

(* The engine that closes were waiting for is gone.                          *)
Dispose(k) == owed' = [c \in Callers |-> owed[c] \ {k}]

BootUnchecked(k) ==  \* mutant: no second requireNotDropping()
  /\ k \in opening \ discarding
  /\ opening' = opening \ {k}
  /\ databases' = databases \cup {k}
  /\ Settle(k, "ok")
  /\ UNCHANGED <<discarding, dropping, files, owed>>

BootSucceeds(k) ==
  /\ k \in opening \ discarding
  /\ ~Dropping(k)
  /\ opening' = opening \ {k}
  /\ databases' = databases \cup {k}
  /\ Settle(k, "ok")
  /\ UNCHANGED <<discarding, dropping, files, owed>>

(* A drop began during the boot: the engine is closed, then open() throws.   *)
BootIsLate(k) ==
  /\ k \in opening \ discarding
  /\ Dropping(k)
  /\ discarding' = discarding \cup {k}
  /\ UNCHANGED <<databases, opening, dropping, files, op, outcome, owed>>

Discarded(k) ==
  /\ k \in discarding
  /\ discarding' = discarding \ {k}
  /\ opening' = opening \ {k}
  /\ Settle(k, "failed")
  /\ Dispose(k)
  /\ UNCHANGED <<databases, dropping, files>>

BootFails(k) ==
  /\ k \in opening \ discarding
  /\ opening' = opening \ {k}
  /\ Settle(k, "failed")
  /\ Dispose(k)
  /\ UNCHANGED <<databases, discarding, dropping, files>>

-----------------------------------------------------------------------------
(* close(), closeAll(), drop(), dropInstance()                               *)

StartClosing(c, kind, id, todo) ==
  /\ op[c] = NoOp
  /\ op' = [op EXCEPT ![c] = Waiting(kind, id, todo)]
  /\ owed' = [owed EXCEPT ![c] = todo \cap Tracked]
  /\ UNCHANGED <<databases, opening, discarding, files, outcome>>

CallClose(c, k) == StartClosing(c, "close", k, {k}) /\ UNCHANGED dropping

CallCloseAll(c) == StartClosing(c, "closeAll", NoId, Tracked) /\ UNCHANGED dropping

CallDrop(c, k) ==
  /\ StartClosing(c, "drop", k, {k})
  /\ dropping' = dropping \cup {k}

CallDropInstance(c, i) ==
  /\ StartClosing(c, "dropInstance", i, Tracked \cap Scope(i))
  /\ dropping' = dropping \cup {i}

(* close(), past its wait for a boot in flight: closes run one after the     *)
(* other but for closeAll().                                                 *)
CloseNext(c, k) ==
  /\ k \in op[c].todo
  /\ k \notin opening
  /\ op[c].kind = "closeAll" \/ op[c].closing = {}
  /\ op' = [op EXCEPT ![c].todo = @ \ {k}, ![c].closing = @ \cup ({k} \cap databases)]
  /\ databases' = databases \ {k}
  /\ IF k \in databases THEN Dispose(k) ELSE UNCHANGED owed
  /\ UNCHANGED <<opening, discarding, dropping, files, outcome>>

EngineCloses(c, k) ==
  /\ k \in op[c].closing
  /\ op' = [op EXCEPT ![c].closing = @ \ {k}]
  /\ UNCHANGED <<databases, opening, discarding, dropping, files, outcome, owed>>

AllClosed(c) == op[c].todo = {} /\ op[c].closing = {}

CloseReturns(c) ==
  /\ op[c].kind \in {"close", "closeAll"} /\ AllClosed(c)
  /\ op' = [op EXCEPT ![c] = NoOp]
  /\ UNCHANGED <<databases, opening, discarding, dropping, files, outcome, owed>>

(* dropInstance() looks again for engines before rm(): there are none, since *)
(* whatever was booting was tracked and `dropping` refuses all others.       *)
DropGoesOn(c) ==
  /\ op[c].kind \in Drops /\ AllClosed(c) /\ ~op[c].removing
  /\ LET remaining == IF op[c].kind = "drop" THEN {} ELSE Tracked \cap Scope(op[c].id)
     IN op' = [op EXCEPT ![c].todo = remaining, ![c].removing = (remaining = {})]
  /\ UNCHANGED <<databases, opening, discarding, dropping, files, outcome, owed>>

(* rm() and the finally block.                                               *)
Removed(c) ==
  /\ op[c].removing
  /\ files' = files \ Scope(op[c].id)
  /\ dropping' = dropping \ {op[c].id}
  /\ op' = [op EXCEPT ![c] = NoOp]
  /\ UNCHANGED <<databases, opening, discarding, outcome, owed>>

-----------------------------------------------------------------------------
(* Opens and closes may come from anyone at any time; what is deleted by one *)
(* caller is not being deleted by another (DataPlaneManager serialises the   *)
(* operations of an instance).                                               *)

DropsOverlap(id) ==
  \E c \in Callers : op[c].kind \in Drops /\ Scope(op[c].id) \cap Scope(id) # {}

Drop(c, k) == ~DropsOverlap(k) /\ CallDrop(c, k)
DropInstance(c, i) == ~DropsOverlap(i) /\ CallDropInstance(c, i)

BootEnds(k) ==
  BootSucceeds(k) \/ BootIsLate(k) \/ Discarded(k) \/ BootFails(k)

GoesOn(c) ==
  \/ \E k \in Keys : CloseNext(c, k) \/ EngineCloses(c, k)
  \/ CloseReturns(c)
  \/ DropGoesOn(c)
  \/ Removed(c)

Next ==
  \/ \E k \in Keys : BootEnds(k)
  \/ \E c \in Callers :
       \/ \E k \in Keys : CallOpen(c, k) \/ CallClose(c, k) \/ Drop(c, k)
       \/ \E i \in Instances : DropInstance(c, i)
       \/ CallCloseAll(c)
       \/ GoesOn(c)

(* Engines boot and close, files are removed, continuations run.             *)
Fairness ==
  /\ \A k \in Keys : WF_vars(BootEnds(k))
  /\ \A c \in Callers : WF_vars(GoesOn(c))

Spec == Init /\ [][Next]_vars
FairSpec == Spec /\ Fairness

-----------------------------------------------------------------------------

(* A boot in flight is of an engine that is not registered: two never run    *)
(* for one key, of which one would be lost (comment at line 93).             *)
TypeOK ==
  /\ databases \subseteq Keys
  /\ opening \subseteq Keys
  /\ databases \cap opening = {}
  /\ discarding \subseteq opening
  /\ dropping \subseteq Ids
  /\ files \subseteq Keys
  /\ op \in [Callers -> Operation]
  /\ outcome \in [Callers -> {"none", "ok", "failed"}]
  /\ owed \in [Callers -> SUBSET Keys]

(* An engine never runs over files that a drop removed, nor does a drop      *)
(* that is under way take the files of an engine opened since (comment at    *)
(* line 101), whatever opens overlap it.                                      *)
FilesUnderEngines == databases \cup opening \subseteq files

(* When close(), closeAll() or a drop returns, every engine that was         *)
(* registered or booting when it was called has been disposed of.            *)
CloseDisposes == \A c \in Callers : op[c] = NoOp => owed[c] = {}

(* open() never returns an engine that a drop already begun will close.      *)
OpenIsNotDoomed ==
  [][\A c \in Callers : \A k \in Keys :
       op[c].kind = "open" /\ op[c].id = k /\ op'[c] = NoOp /\ outcome'[c] = "ok"
         => \A d \in Callers : op[d].kind \in Drops => k \notin Scope(op[d].id)]_vars

(* Drops end, however often somebody tries to open what they delete.         *)
DropsFinish == \A c \in Callers : op[c].kind \in Drops ~> op[c].kind \notin Drops

(* The manager: files under every engine, closes that are complete, and no   *)
(* engine handed out that a drop is about to close.                          *)
ManagerInvariant == TypeOK /\ FilesUnderEngines /\ CloseDisposes
ManagerHolds == []ManagerInvariant /\ OpenIsNotDoomed
=============================================================================
