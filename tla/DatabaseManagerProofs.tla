------------------------ MODULE DatabaseManagerProofs ------------------------
(***************************************************************************)
(* Safety of PGliteDatabaseManager for any instances, databases and          *)
(* callers.  That no engine runs over removed files rests on `dropping`      *)
(* holding the id of every drop under way until its files are gone, hence    *)
(* on drops that do not overlap, and on what each drop has already closed.   *)
(***************************************************************************)
EXTENDS DatabaseManager, TLAPS

(* What is known of the operation a caller waits for.                        *)
IdMatches(c) ==
  /\ op[c].kind = "drop" => op[c].id \in Keys
  /\ op[c].kind = "dropInstance" => op[c].id \in Instances
ClosesNothing(c) ==
  op[c].kind \in {"none", "open"} => op[c].todo = {} /\ op[c].closing = {}
IsAnnounced(c) == op[c].kind \in Drops => op[c].id \in dropping
RemovesClosed(c) ==
  op[c].removing =>
    op[c].kind \in Drops /\ op[c].todo = {} /\ Scope(op[c].id) \cap Tracked = {}
DropClosesFirst(c) ==
  op[c].kind = "drop" => op[c].id \in op[c].todo \/ op[c].id \notin Tracked
OwesWhatIsToDo(c) == owed[c] \subseteq op[c].todo \cap Tracked

DropsExclude ==
  \A c, d \in Callers :
    c # d /\ op[c].kind \in Drops /\ op[d].kind \in Drops =>
      Scope(op[c].id) \cap Scope(op[d].id) = {}

IInv ==
  /\ TypeOK
  /\ \A c \in Callers : IdMatches(c)
  /\ \A c \in Callers : ClosesNothing(c)
  /\ \A c \in Callers : IsAnnounced(c)
  /\ \A c \in Callers : RemovesClosed(c)
  /\ \A c \in Callers : DropClosesFirst(c)
  /\ \A c \in Callers : OwesWhatIsToDo(c)
  /\ DropsExclude
  /\ FilesUnderEngines

-----------------------------------------------------------------------------

LEMMA NoOpFields ==
  /\ NoOp.kind = "none" /\ NoOp.id = NoId /\ NoOp.todo = {} /\ NoOp.closing = {}
  /\ NoOp.removing = FALSE
  BY DEF NoOp, Waiting

LEMMA NoOpType == NoOp \in Operation
  BY DEF NoOp, Waiting, Operation

(* A key in the scope of a drop that is announced is refused.                *)
LEMMA ScopeIsRefused ==
  ASSUME NEW id \in Ids, NEW k \in Keys, k \in Scope(id), id \in dropping
  PROVE  Dropping(k)
<1>1. CASE id \in Instances
  <2>1. k \in {id} \X Names
    BY <1>1 DEF Scope
  <2>2. k[1] = id
    BY <2>1
  <2> QED
    BY <2>2 DEF Dropping
<1>2. CASE id \notin Instances
  BY <1>2 DEF Scope, Dropping
<1> QED
  BY <1>1, <1>2

(* Scopes that are disjoint are of different ids.                            *)
LEMMA ScopeIsInhabited ==
  ASSUME NEW id \in Ids
  PROVE  Scope(id) # {}
<1>1. CASE id \in Instances
  <2>1. PICK n \in Names : TRUE
    BY IdsAssumption
  <2>2. <<id, n>> \in {id} \X Names
    BY <2>1
  <2> QED
    BY <1>1, <2>2 DEF Scope
<1>2. CASE id \notin Instances
  BY <1>2 DEF Scope
<1> QED
  BY <1>1, <1>2

LEMMA InitInv == Init => IInv
<1> SUFFICES ASSUME Init PROVE IInv
  OBVIOUS
<1>1. \A c \in Callers : op[c] = NoOp /\ owed[c] = {}
  BY DEF Init
<1>2. TypeOK
  BY NoOpType DEF Init, TypeOK
<1> QED
  BY <1>1, <1>2, NoOpFields DEF Init, IInv, IdMatches, ClosesNothing, IsAnnounced,
     RemovesClosed, DropClosesFirst, OwesWhatIsToDo, DropsExclude, FilesUnderEngines, Drops

-----------------------------------------------------------------------------
(* One lemma for each group of actions.                                      *)

LEMMA OpenInv ==
  ASSUME IInv, NEW c \in Callers, NEW k \in Keys, CallOpen(c, k)
  PROVE  IInv'
<1>1. CASE RefuseOpen(c, k) \/ ReturnExisting(c, k)
  <2>1. UNCHANGED <<databases, opening, discarding, dropping, files, op, owed>>
    BY <1>1 DEF RefuseOpen, ReturnExisting
  <2>2. TypeOK'
    BY <1>1, <2>1 DEF IInv, TypeOK, RefuseOpen, ReturnExisting
  <2> QED
    BY <2>1, <2>2 DEF IInv, IdMatches, ClosesNothing, IsAnnounced, RemovesClosed,
       DropClosesFirst, OwesWhatIsToDo, DropsExclude, FilesUnderEngines, Tracked
<1>2. CASE AwaitBoot(c, k)
  <2> DEFINE o == Waiting("open", k, {})
  <2>1. op[c] = NoOp /\ ~Dropping(k) /\ k \notin databases
    BY <1>2 DEF CallOpen, AwaitBoot
  <2>2. o \in Operation
    BY DEF Waiting, Operation, Ids, Keys
  <2>3. o.kind = "open" /\ o.todo = {} /\ o.closing = {} /\ o.removing = FALSE
    BY DEF Waiting
  <2>4. op' = [op EXCEPT ![c] = o] /\ Tracked' = Tracked \cup {k}
        /\ UNCHANGED <<dropping, owed>> /\ files' = files \cup {k}
    BY <1>2 DEF AwaitBoot, Tracked
  <2> HIDE DEF o
  <2>5. op'[c] = o /\ \A d \in Callers : d # c => op'[d] = op[d]
    BY <2>4 DEF IInv, TypeOK
  <2>6. TypeOK'
    BY <1>2, <2>1, <2>2, <2>4 DEF IInv, TypeOK, AwaitBoot
  <2>7. \A d \in Callers : op[d].kind \in Drops => k \notin Scope(op[d].id)
    <3> TAKE d \in Callers
    <3> HAVE op[d].kind \in Drops
    <3>1. op[d].id \in Ids /\ op[d].id \in dropping
      BY DEF IInv, IdMatches, IsAnnounced, Ids, Drops
    <3> QED
      BY <3>1, <2>1, ScopeIsRefused
  <2>8. \A d \in Callers : RemovesClosed(d)'
    BY <2>3, <2>4, <2>5, <2>7 DEF IInv, RemovesClosed
  <2>9. \A d \in Callers : DropClosesFirst(d)'
    <3> TAKE d \in Callers
    <3>1. CASE d = c
      BY <3>1, <2>3, <2>5 DEF DropClosesFirst
    <3>2. CASE d # c /\ op[d].kind = "drop"
      <4>1. op[d].id \in Keys /\ op[d].id \notin Instances
        BY <3>2, IdsAssumption DEF IInv, IdMatches
      <4>2. op[d].id # k
        BY <4>1, <3>2, <2>7 DEF Scope, Drops
      <4> QED
        BY <3>2, <4>2, <2>4, <2>5 DEF IInv, DropClosesFirst
    <3>3. CASE d # c /\ op[d].kind # "drop"
      BY <3>3, <2>5 DEF DropClosesFirst
    <3> QED
      BY <3>1, <3>2, <3>3
  <2>10. \A d \in Callers : OwesWhatIsToDo(d)'
    BY <2>1, <2>4, <2>5, NoOpFields DEF IInv, OwesWhatIsToDo
  <2>11. \A d \in Callers : IdMatches(d)' /\ ClosesNothing(d)' /\ IsAnnounced(d)'
    BY <2>3, <2>4, <2>5 DEF IInv, IdMatches, ClosesNothing, IsAnnounced, Drops
  <2>12. DropsExclude'
    BY <2>3, <2>5 DEF IInv, DropsExclude, Drops
  <2>13. FilesUnderEngines'
    BY <1>2 DEF IInv, FilesUnderEngines, AwaitBoot
  <2> QED
    BY <2>6, <2>8, <2>9, <2>10, <2>11, <2>12, <2>13 DEF IInv
<1> QED
  BY <1>1, <1>2 DEF CallOpen

(* Callers that awaited a boot have nothing to close and nothing to remove.  *)
LEMMA SettleSteps ==
  ASSUME IInv, NEW k \in Keys, NEW how \in {"ok", "failed"}, Settle(k, how)
  PROVE  /\ op' \in [Callers -> Operation]
         /\ outcome' \in [Callers -> {"none", "ok", "failed"}]
         /\ \A c \in Callers : op'[c] = op[c] \/ (op'[c] = NoOp /\ op[c].kind = "open")
  BY NoOpType DEF Settle, IInv, TypeOK

LEMMA BootInv ==
  ASSUME IInv, NEW k \in Keys, BootEnds(k)
  PROVE  IInv'
<1>1. CASE BootIsLate(k)
  <2>1. Tracked' = Tracked /\ UNCHANGED <<databases, opening, dropping, files, op, outcome, owed>>
    BY <1>1 DEF BootIsLate, Tracked
  <2>2. TypeOK'
    BY <1>1, <2>1 DEF IInv, TypeOK, BootIsLate
  <2> QED
    BY <2>1, <2>2 DEF IInv, IdMatches, ClosesNothing, IsAnnounced, RemovesClosed,
       DropClosesFirst, OwesWhatIsToDo, DropsExclude, FilesUnderEngines
<1>2. CASE BootSucceeds(k) \/ Discarded(k) \/ BootFails(k)
  <2>1. PICK how \in {"ok", "failed"} : Settle(k, how)
    BY <1>2 DEF BootSucceeds, Discarded, BootFails
  <2>2. k \in opening /\ k \in Tracked
    BY <1>2 DEF BootSucceeds, Discarded, BootFails, Tracked, IInv, TypeOK
  <2>3. UNCHANGED <<dropping, files>> /\ opening' = opening \ {k}
    BY <1>2 DEF BootSucceeds, Discarded, BootFails
  <2>4. \/ BootSucceeds(k) /\ Tracked' = Tracked /\ owed' = owed
        \/ /\ databases' = databases /\ Tracked' = Tracked \ {k}
           /\ owed' = [c \in Callers |-> owed[c] \ {k}]
    BY <1>2, <2>2 DEF BootSucceeds, Discarded, BootFails, Dispose, Tracked, IInv, TypeOK
  <2>5. discarding' \subseteq opening'
    BY <1>2 DEF BootSucceeds, Discarded, BootFails, IInv, TypeOK
  <2>6. databases' \cap opening' = {} /\ databases' \subseteq Keys
    BY <1>2 DEF BootSucceeds, Discarded, BootFails, IInv, TypeOK
  <2>7. TypeOK'
    BY <2>1, <2>3, <2>4, <2>5, <2>6, SettleSteps DEF IInv, TypeOK
  <2>8. \A c \in Callers : op'[c] = op[c] \/ (op'[c] = NoOp /\ op[c].kind = "open")
    BY <2>1, SettleSteps
  <2>9. Tracked' \subseteq Tracked
    BY <2>4
  <2>10. \A c \in Callers : IdMatches(c)' /\ ClosesNothing(c)' /\ IsAnnounced(c)'
    BY <2>3, <2>8, NoOpFields DEF IInv, IdMatches, ClosesNothing, IsAnnounced, Drops
  <2>11. \A c \in Callers : RemovesClosed(c)' /\ DropClosesFirst(c)'
    BY <2>8, <2>9, NoOpFields DEF IInv, RemovesClosed, DropClosesFirst, Drops
  <2>12. \A c \in Callers : OwesWhatIsToDo(c)'
    <3> TAKE c \in Callers
    <3>1. op'[c].todo = op[c].todo
      BY <2>8, NoOpFields DEF IInv, ClosesNothing
    <3>2. owed'[c] \subseteq owed[c] /\ owed'[c] \subseteq Tracked'
      BY <2>4 DEF IInv, OwesWhatIsToDo
    <3> QED
      BY <3>1, <3>2 DEF IInv, OwesWhatIsToDo
  <2>13. DropsExclude'
    BY <2>8, NoOpFields DEF IInv, DropsExclude, Drops
  <2>14. FilesUnderEngines'
    BY <2>3, <2>9 DEF IInv, FilesUnderEngines, Tracked
  <2> QED
    BY <2>7, <2>10, <2>11, <2>12, <2>13, <2>14 DEF IInv
<1> QED
  BY <1>1, <1>2 DEF BootEnds

(* A close, of one key or of all.                                            *)
LEMMA StartClosingInv ==
  ASSUME IInv, NEW c \in Callers, NEW kind \in Closes, NEW id \in Ids \cup {NoId},
         NEW todo \in SUBSET Keys, StartClosing(c, kind, id, todo),
         \/ /\ kind \notin Drops /\ dropping' = dropping
         \/ /\ kind \in Drops /\ dropping' = dropping \cup {id}
            /\ ~DropsOverlap(id)
            /\ kind = "drop" => id \in Keys /\ todo = {id}
            /\ kind = "dropInstance" => id \in Instances
  PROVE  IInv'
<1> DEFINE o == Waiting(kind, id, todo)
<1>1. o.kind = kind /\ o.id = id /\ o.todo = todo /\ o.closing = {} /\ o.removing = FALSE
  BY DEF Waiting
<1>2. o \in Operation
  BY DEF Waiting, Operation
<1>3. op' = [op EXCEPT ![c] = o] /\ owed' = [owed EXCEPT ![c] = todo \cap Tracked]
      /\ UNCHANGED <<databases, opening, discarding, files, outcome>> /\ op[c] = NoOp
  BY DEF StartClosing
<1> HIDE DEF o
<1>4. op'[c] = o /\ \A d \in Callers : d # c => op'[d] = op[d]
  BY <1>3 DEF IInv, TypeOK
<1>5. Tracked' = Tracked
  BY <1>3 DEF Tracked
<1>6. dropping' \subseteq Ids /\ dropping \subseteq dropping'
  BY DEF IInv, TypeOK, Ids, Drops
<1>7. TypeOK'
  BY <1>2, <1>3, <1>6 DEF IInv, TypeOK
<1>8. \A d \in Callers : IdMatches(d)'
  BY <1>1, <1>4 DEF IInv, IdMatches, Drops
<1>9. \A d \in Callers : ClosesNothing(d)'
  BY <1>1, <1>4 DEF IInv, ClosesNothing, Closes, Drops
<1>10. \A d \in Callers : IsAnnounced(d)'
  BY <1>1, <1>4, <1>6 DEF IInv, IsAnnounced
<1>11. \A d \in Callers : RemovesClosed(d)'
  BY <1>1, <1>4, <1>5 DEF IInv, RemovesClosed
<1>12. \A d \in Callers : DropClosesFirst(d)'
  BY <1>1, <1>4, <1>5 DEF IInv, DropClosesFirst, Drops
<1>13. \A d \in Callers : OwesWhatIsToDo(d)'
  BY <1>1, <1>3, <1>4, <1>5 DEF IInv, OwesWhatIsToDo, TypeOK
<1>14. DropsExclude'
  BY <1>1, <1>4 DEF IInv, DropsExclude, DropsOverlap
<1>15. FilesUnderEngines'
  BY <1>3 DEF IInv, FilesUnderEngines
<1> QED
  BY <1>7, <1>8, <1>9, <1>10, <1>11, <1>12, <1>13, <1>14, <1>15 DEF IInv

LEMMA CallInv ==
  ASSUME IInv, NEW c \in Callers, NEW k \in Keys, NEW i \in Instances,
         CallClose(c, k) \/ CallCloseAll(c) \/ Drop(c, k) \/ DropInstance(c, i)
  PROVE  IInv'
<1>1. Tracked \subseteq Keys
  BY DEF IInv, TypeOK, Tracked
<1>2. k \in Ids /\ i \in Ids
  BY DEF Ids
<1>3. CASE CallClose(c, k)
  BY <1>2, <1>3, StartClosingInv DEF CallClose, Closes, Drops
<1>4. CASE CallCloseAll(c)
  BY <1>1, <1>4, StartClosingInv DEF CallCloseAll, Closes, Drops
<1>5. CASE Drop(c, k)
  BY <1>2, <1>5, StartClosingInv DEF Drop, CallDrop, Closes, Drops
<1>6. CASE DropInstance(c, i)
  BY <1>1, <1>2, <1>6, StartClosingInv DEF DropInstance, CallDropInstance, Closes, Drops
<1> QED
  BY <1>3, <1>4, <1>5, <1>6

LEMMA CloseNextInv ==
  ASSUME IInv, NEW c \in Callers, NEW k \in Keys, CloseNext(c, k)
  PROVE  IInv'
<1>1. op' = [op EXCEPT ![c] = [op[c] EXCEPT !.todo = @ \ {k},
                                            !.closing = @ \cup ({k} \cap databases)]]
  BY DEF CloseNext, IInv, TypeOK, Operation
<1>2. /\ k \in op[c].todo /\ k \notin opening
      /\ databases' = databases \ {k} /\ Tracked' = Tracked \ {k}
      /\ UNCHANGED <<opening, discarding, dropping, files, outcome>>
  BY DEF CloseNext, Tracked
<1>3. owed' = IF k \in databases THEN [d \in Callers |-> owed[d] \ {k}] ELSE owed
  BY DEF CloseNext, Dispose
<1>4. op[c] \in Operation /\ op'[c] \in Operation
  BY <1>1 DEF IInv, TypeOK, Operation
<1>5. /\ op'[c].kind = op[c].kind /\ op'[c].id = op[c].id
      /\ op'[c].todo = op[c].todo \ {k} /\ op'[c].removing = op[c].removing
  BY <1>1, <1>4 DEF IInv, TypeOK, Operation
<1>6. \A d \in Callers : d # c => op'[d] = op[d]
  BY <1>1 DEF IInv, TypeOK
<1>7. TypeOK'
  BY <1>1, <1>2, <1>3, <1>4 DEF IInv, TypeOK
<1>8. \A d \in Callers : IdMatches(d)' /\ IsAnnounced(d)'
  BY <1>2, <1>5, <1>6 DEF IInv, IdMatches, IsAnnounced
<1>9. op[c].kind \notin {"none", "open"}
  BY <1>2 DEF IInv, ClosesNothing
<1>10. \A d \in Callers : ClosesNothing(d)'
  BY <1>5, <1>6, <1>9 DEF IInv, ClosesNothing
<1>11. \A d \in Callers : RemovesClosed(d)'
  BY <1>2, <1>5, <1>6 DEF IInv, RemovesClosed
<1>12. \A d \in Callers : DropClosesFirst(d)'
  BY <1>2, <1>5, <1>6 DEF IInv, DropClosesFirst
<1>13. \A d \in Callers : OwesWhatIsToDo(d)'
  <2> TAKE d \in Callers
  <2>1. owed'[d] = owed[d] \ {k}
    BY <1>2, <1>3 DEF IInv, OwesWhatIsToDo, TypeOK, Tracked
  <2> QED
    BY <2>1, <1>2, <1>5, <1>6 DEF IInv, OwesWhatIsToDo
<1>14. DropsExclude'
  BY <1>5, <1>6 DEF IInv, DropsExclude
<1>15. FilesUnderEngines'
  BY <1>2 DEF IInv, FilesUnderEngines
<1> QED
  BY <1>7, <1>8, <1>10, <1>11, <1>12, <1>13, <1>14, <1>15 DEF IInv

LEMMA EngineClosesInv ==
  ASSUME IInv, NEW c \in Callers, NEW k \in Keys, EngineCloses(c, k)
  PROVE  IInv'
<1>1. op' = [op EXCEPT ![c] = [op[c] EXCEPT !.closing = @ \ {k}]]
  BY DEF EngineCloses, IInv, TypeOK, Operation
<1>2. k \in op[c].closing
      /\ UNCHANGED <<databases, opening, discarding, dropping, files, outcome, owed>>
  BY DEF EngineCloses
<1>3. op[c] \in Operation /\ op'[c] \in Operation
  BY <1>1 DEF IInv, TypeOK, Operation
<1>4. /\ op'[c].kind = op[c].kind /\ op'[c].id = op[c].id
      /\ op'[c].todo = op[c].todo /\ op'[c].removing = op[c].removing
  BY <1>1, <1>3 DEF IInv, TypeOK, Operation
<1>5. \A d \in Callers : d # c => op'[d] = op[d]
  BY <1>1 DEF IInv, TypeOK
<1>6. TypeOK'
  BY <1>1, <1>2, <1>3 DEF IInv, TypeOK
<1>7. op[c].kind \notin {"none", "open"}
  BY <1>2 DEF IInv, ClosesNothing
<1>8. \A d \in Callers : ClosesNothing(d)'
  BY <1>4, <1>5, <1>7 DEF IInv, ClosesNothing
<1> QED
  BY <1>2, <1>4, <1>5, <1>6, <1>8 DEF IInv, IdMatches, IsAnnounced, RemovesClosed,
     DropClosesFirst, OwesWhatIsToDo, DropsExclude, FilesUnderEngines, Tracked

(* What a caller that has finished owed is disposed of.                      *)
LEMMA CloseReturnsInv ==
  ASSUME IInv, NEW c \in Callers, CloseReturns(c)
  PROVE  IInv'
<1>1. /\ op' = [op EXCEPT ![c] = NoOp] /\ op[c].todo = {} /\ op[c].kind \notin Drops
      /\ UNCHANGED <<databases, opening, discarding, dropping, files, outcome, owed>>
  BY DEF CloseReturns, AllClosed, Drops
<1>2. op'[c] = NoOp /\ \A d \in Callers : d # c => op'[d] = op[d]
  BY <1>1 DEF IInv, TypeOK
<1>3. TypeOK'
  BY <1>1, NoOpType DEF IInv, TypeOK
<1>4. \A d \in Callers : OwesWhatIsToDo(d)'
  BY <1>1, <1>2, NoOpFields DEF IInv, OwesWhatIsToDo, Tracked
<1> QED
  BY <1>1, <1>2, <1>3, <1>4, NoOpFields DEF IInv, IdMatches, ClosesNothing, IsAnnounced,
     RemovesClosed, DropClosesFirst, DropsExclude, FilesUnderEngines, Drops, Tracked

LEMMA DropGoesOnInv ==
  ASSUME IInv, NEW c \in Callers, DropGoesOn(c)
  PROVE  IInv'
<1> DEFINE remaining == IF op[c].kind = "drop" THEN {} ELSE Tracked \cap Scope(op[c].id)
<1>1. op' = [op EXCEPT ![c] = [op[c] EXCEPT !.todo = remaining,
                                            !.removing = (remaining = {})]]
  BY DEF DropGoesOn, IInv, TypeOK, Operation
<1>2. /\ op[c].kind \in Drops /\ op[c].todo = {}
      /\ UNCHANGED <<databases, opening, discarding, dropping, files, outcome, owed>>
  BY DEF DropGoesOn, AllClosed
<1>3. remaining \subseteq Keys
  BY DEF IInv, TypeOK, Tracked
<1>4. op[c].kind = "drop" => Scope(op[c].id) \cap Tracked = {}
  BY <1>2, IdsAssumption DEF IInv, IdMatches, DropClosesFirst, Scope
<1>5. op[c].kind # "drop" => remaining = Tracked \cap Scope(op[c].id)
  OBVIOUS
<1>6. op[c].kind = "drop" => remaining = {}
  OBVIOUS
<1> HIDE DEF remaining
<1>7. op[c] \in Operation /\ op'[c] \in Operation
  BY <1>1, <1>3, ZenonT(60) DEF IInv, TypeOK, Operation
<1>8. /\ op'[c].kind = op[c].kind /\ op'[c].id = op[c].id
      /\ op'[c].todo = remaining /\ op'[c].removing = (remaining = {})
  BY <1>1, <1>7 DEF IInv, TypeOK, Operation
<1>9. \A d \in Callers : d # c => op'[d] = op[d]
  BY <1>1 DEF IInv, TypeOK
<1>10. TypeOK' /\ Tracked' = Tracked
  BY <1>1, <1>2, <1>7 DEF IInv, TypeOK, Tracked
<1>11. \A d \in Callers : RemovesClosed(d)'
  BY <1>2, <1>4, <1>5, <1>8, <1>9, <1>10 DEF IInv, RemovesClosed
<1>12. \A d \in Callers : DropClosesFirst(d)'
  BY <1>2, <1>8, <1>9, <1>10 DEF IInv, DropClosesFirst
<1>13. \A d \in Callers : ClosesNothing(d)' /\ OwesWhatIsToDo(d)'
  BY <1>2, <1>8, <1>9, <1>10 DEF IInv, ClosesNothing, OwesWhatIsToDo, Drops
<1> QED
  BY <1>2, <1>8, <1>9, <1>10, <1>11, <1>12, <1>13 DEF IInv, IdMatches, IsAnnounced,
     DropsExclude, FilesUnderEngines

(* The files that go are under no engine, and the ids of other drops stay.   *)
LEMMA RemovedInv ==
  ASSUME IInv, NEW c \in Callers, Removed(c)
  PROVE  IInv'
<1>1. /\ op' = [op EXCEPT ![c] = NoOp] /\ op[c].removing
      /\ files' = files \ Scope(op[c].id) /\ dropping' = dropping \ {op[c].id}
      /\ UNCHANGED <<databases, opening, discarding, outcome, owed>>
  BY DEF Removed
<1>2. op'[c] = NoOp /\ \A d \in Callers : d # c => op'[d] = op[d]
  BY <1>1 DEF IInv, TypeOK
<1>3. op[c].kind \in Drops /\ Scope(op[c].id) \cap Tracked = {}
  BY <1>1 DEF IInv, RemovesClosed
<1>4. \A d \in Callers : op[d].kind \in Drops => op[d].id \in Ids
  BY DEF IInv, IdMatches, Ids, Drops
<1>5. \A d \in Callers : d # c /\ op[d].kind \in Drops => op[d].id # op[c].id
  BY <1>3, <1>4, ScopeIsInhabited DEF IInv, DropsExclude
<1>6. TypeOK' /\ Tracked' = Tracked
  BY <1>1, NoOpType DEF IInv, TypeOK, Tracked
<1>7. \A d \in Callers : IsAnnounced(d)'
  BY <1>1, <1>2, <1>5, NoOpFields DEF IInv, IsAnnounced, Drops
<1>8. owed[c] = {}
  BY <1>1 DEF IInv, OwesWhatIsToDo, RemovesClosed
<1>9. \A d \in Callers : OwesWhatIsToDo(d)'
  BY <1>1, <1>2, <1>6, <1>8 DEF IInv, OwesWhatIsToDo
<1>10. FilesUnderEngines'
  BY <1>1, <1>3 DEF IInv, FilesUnderEngines, Tracked
<1> QED
  BY <1>1, <1>2, <1>6, <1>7, <1>9, <1>10, NoOpFields, SMTT(40) DEF IInv, IdMatches, ClosesNothing,
     RemovesClosed, DropClosesFirst, DropsExclude, Drops

LEMMA NextInv == IInv /\ [Next]_vars => IInv'
<1> SUFFICES ASSUME IInv, [Next]_vars PROVE IInv'
  OBVIOUS
<1>1. CASE \E k \in Keys : BootEnds(k)
  BY <1>1, BootInv
<1>2. CASE \E c \in Callers, k \in Keys : CallOpen(c, k)
  BY <1>2, OpenInv
<1>3. CASE \E c \in Callers, k \in Keys : CallClose(c, k)
  <2>1. PICK c \in Callers, k \in Keys : CallClose(c, k)
    BY <1>3
  <2>2. k[1] \in Instances
    BY DEF Keys
  <2> QED
    BY <2>1, <2>2, CallInv
<1>4. CASE \E c \in Callers, k \in Keys : Drop(c, k)
  <2>1. PICK c \in Callers, k \in Keys : Drop(c, k)
    BY <1>4
  <2>2. k[1] \in Instances
    BY DEF Keys
  <2> QED
    BY <2>1, <2>2, CallInv
<1>5. CASE \E c \in Callers, i \in Instances : DropInstance(c, i)
  <2>1. PICK c \in Callers, i \in Instances : DropInstance(c, i)
    BY <1>5
  <2>2. PICK n \in Names : TRUE
    BY IdsAssumption
  <2>3. <<i, n>> \in Keys
    BY DEF Keys
  <2> QED
    BY <2>1, <2>3, CallInv
<1>6. CASE \E c \in Callers : CallCloseAll(c)
  <2>1. PICK c \in Callers : CallCloseAll(c)
    BY <1>6
  <2>2. Tracked \subseteq Keys
    BY DEF IInv, TypeOK, Tracked
  <2> QED
    BY <2>1, <2>2, StartClosingInv DEF CallCloseAll, Closes, Drops
<1>7. CASE \E c \in Callers : GoesOn(c)
  BY <1>7, CloseNextInv, EngineClosesInv, CloseReturnsInv, DropGoesOnInv, RemovedInv
     DEF GoesOn
<1>8. CASE UNCHANGED vars
  BY <1>8 DEF vars, IInv, TypeOK, IdMatches, ClosesNothing, IsAnnounced, RemovesClosed,
     DropClosesFirst, OwesWhatIsToDo, DropsExclude, FilesUnderEngines, Tracked
<1> QED
  BY <1>1, <1>2, <1>3, <1>4, <1>5, <1>6, <1>7, <1>8 DEF Next

LEMMA Invariance == Spec => []IInv
  BY InitInv, NextInv, PTL DEF Spec

-----------------------------------------------------------------------------

(* The manager's state is of its type; in particular an engine is never      *)
(* booted twice.                                                             *)
THEOREM TypeCorrect == Spec => []TypeOK
<1>1. IInv => TypeOK
  BY DEF IInv
<1> QED
  BY <1>1, Invariance, PTL

(* No engine runs over files a drop removed.                                 *)
THEOREM FilesStay == Spec => []FilesUnderEngines
<1>1. IInv => FilesUnderEngines
  BY DEF IInv
<1> QED
  BY <1>1, Invariance, PTL

(* A close or a drop that returned has disposed of what it found.            *)
THEOREM ClosesAreComplete == Spec => []CloseDisposes
<1>1. IInv => CloseDisposes
  BY NoOpFields DEF IInv, OwesWhatIsToDo, CloseDisposes
<1> QED
  BY <1>1, Invariance, PTL

(* Only a boot that ends well ends an open well.                             *)
LEMMA OpenEnds ==
  ASSUME IInv, [Next]_vars, NEW c \in Callers, NEW k \in Keys,
         op[c].kind = "open", op[c].id = k, op'[c] = NoOp, outcome'[c] = "ok"
  PROVE  ~Dropping(k)
<1>1. op[c] # NoOp /\ op[c].closing = {} /\ ~op[c].removing /\ op[c].kind \notin Closes
  BY NoOpFields DEF IInv, ClosesNothing, RemovesClosed, TypeOK, Operation, Closes, Drops
<1>2. ASSUME NEW j \in Keys, BootEnds(j) PROVE ~Dropping(k)
  <2>1. CASE BootSucceeds(j)
    <3>1. op'[c] = IF op[c].kind = "open" /\ op[c].id = j THEN NoOp ELSE op[c]
      BY <2>1 DEF BootSucceeds, Settle
    <3> QED
      BY <2>1, <3>1, <1>1 DEF BootSucceeds
  <2>2. CASE BootIsLate(j)
    BY <2>2, <1>1 DEF BootIsLate
  <2>3. CASE Discarded(j) \/ BootFails(j)
    <3>1. Settle(j, "failed")
      BY <2>3 DEF Discarded, BootFails
    <3>2. op'[c] = IF op[c].kind = "open" /\ op[c].id = j THEN NoOp ELSE op[c]
      BY <3>1 DEF Settle
    <3>3. outcome'[c] = IF op[c].kind = "open" /\ op[c].id = j THEN "failed" ELSE outcome[c]
      BY <3>1 DEF Settle
    <3> QED
      BY <3>2, <3>3, <1>1
  <2> QED
    BY <1>2, <2>1, <2>2, <2>3 DEF BootEnds
<1>3. ASSUME NEW d \in Callers, NEW j \in Keys, CallOpen(d, j) PROVE FALSE
  BY <1>1, <1>3 DEF CallOpen, RefuseOpen, ReturnExisting, AwaitBoot, IInv, TypeOK
<1>4. ASSUME NEW d \in Callers, NEW kind, NEW id, NEW todo, StartClosing(d, kind, id, todo)
      PROVE  FALSE
  BY <1>1, <1>4 DEF StartClosing, IInv, TypeOK
<1>5. ASSUME NEW d \in Callers, GoesOn(d) PROVE FALSE
  <2>1. d # c
    BY <1>1, <1>5 DEF GoesOn, CloseNext, EngineCloses, CloseReturns, DropGoesOn, Removed,
       Closes, Drops, IInv, ClosesNothing
  <2> QED
    BY <1>1, <1>5, <2>1 DEF GoesOn, CloseNext, EngineCloses, CloseReturns, DropGoesOn,
       Removed, IInv, TypeOK
<1>6. ~UNCHANGED vars
  BY <1>1 DEF vars
<1> QED
  BY <1>2, <1>3, <1>4, <1>5, <1>6 DEF Next, CallClose, CallCloseAll, Drop, CallDrop,
     DropInstance, CallDropInstance

(* open() never returns an engine that a drop under way will take.           *)
THEOREM OpensLast == Spec => OpenIsNotDoomed
<1>1. IInv /\ [Next]_vars =>
        [\A c \in Callers : \A k \in Keys :
           op[c].kind = "open" /\ op[c].id = k /\ op'[c] = NoOp /\ outcome'[c] = "ok"
             => \A d \in Callers : op[d].kind \in Drops => k \notin Scope(op[d].id)]_vars
  <2> SUFFICES ASSUME IInv, [Next]_vars, NEW c \in Callers, NEW k \in Keys,
                      op[c].kind = "open", op[c].id = k, op'[c] = NoOp, outcome'[c] = "ok",
                      NEW d \in Callers, op[d].kind \in Drops
               PROVE  k \notin Scope(op[d].id)
    OBVIOUS
  <2>1. ~Dropping(k)
    BY OpenEnds
  <2>2. op[d].id \in Ids /\ op[d].id \in dropping
    BY DEF IInv, IdMatches, IsAnnounced, Ids, Drops
  <2> QED
    BY <2>1, <2>2, ScopeIsRefused
<1> QED
  BY <1>1, Invariance, PTL DEF Spec, OpenIsNotDoomed

(* What DataPlaneManager relies on when it opens, closes and drops.          *)
THEOREM ManagerIsSound == Spec => ManagerHolds
<1>1. TypeOK /\ FilesUnderEngines /\ CloseDisposes => ManagerInvariant
  BY DEF ManagerInvariant
<1> QED
  BY <1>1, TypeCorrect, FilesStay, ClosesAreComplete, OpensLast, PTL DEF ManagerHolds
=============================================================================
