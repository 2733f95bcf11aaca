-------------------------- MODULE SessionQueueProofs --------------------------
(***************************************************************************)
(* Safety of PGliteSessionQueue for any set of connections and any number    *)
(* of messages.  The invariants of SessionQueue are not inductive: that a    *)
(* vanished owner has its ROLLBACK on the way rests on what is known while   *)
(* the message that opened the transaction still runs (GoneIsRemembered),    *)
(* and the order of a connection's messages on tickets being distinct.       *)
(***************************************************************************)
EXTENDS SessionQueue, TLAPS

(* The queue's idea of the owner is right.                                   *)
OwnerIsOpener ==
  /\ transactionOwnerId = opener
  /\ inTransaction <=> opener # NoConn

(* A message runs only under a live drain() loop.                            *)
RunsUnderDrain == running # NoMessage => isDraining

(* A connection that is gone while its own client message runs is remembered *)
(* as detached, or its ROLLBACK is queued already.                           *)
RollbackQueued(c) == \E m \in pending : m.conn = c /\ m.kind = "rollback"
GoneIsRemembered ==
  (/\ running # NoMessage
   /\ running.kind = "client"
   /\ running.conn \notin attached) =>
     running.conn \in detachedConnectionIds \/ RollbackQueued(running.conn)

(* Tickets are distinct, below the next one, and above what already ran.     *)
TicketOrder ==
  /\ \A m \in pending : lastRun[m.conn] < m.ticket /\ m.ticket < nextTicket
  /\ \A c \in Connections : lastRun[c] < nextTicket
  /\ \A m, n \in pending : m.ticket = n.ticket => m = n

OnlyRollbacksOfTheGone ==
  \A m \in pending : m.kind = "rollback" => m.conn \notin attached
RunningRollbackOfTheGone ==
  (running # NoMessage /\ running.kind = "rollback") => running.conn \notin attached

DetachedAreGone == detachedConnectionIds \cap attached = {}

IInv ==
  /\ TypeOK
  /\ DetachedAreGone
  /\ OwnerIsOpener
  /\ RunsUnderDrain
  /\ TransactionIsolation
  /\ NoOrphanTransaction
  /\ NoLostWakeup
  /\ NothingQueuedForTheGone
  /\ OnlyRollbacksOfTheGone
  /\ RunningRollbackOfTheGone
  /\ GoneIsRemembered
  /\ TicketOrder

-----------------------------------------------------------------------------

LEMMA InitInv == Init => IInv
<1> SUFFICES ASSUME Init PROVE IInv
  OBVIOUS
<1> USE DEF Init
<1>1. TypeOK /\ DetachedAreGone
  BY DEF TypeOK, DetachedAreGone
<1>2. /\ OwnerIsOpener /\ RunsUnderDrain /\ TransactionIsolation
      /\ NoOrphanTransaction /\ RunningRollbackOfTheGone /\ GoneIsRemembered
  BY DEF OwnerIsOpener, RunsUnderDrain, TransactionIsolation,
         NoOrphanTransaction, RunningRollbackOfTheGone, GoneIsRemembered
<1>3. NoLostWakeup /\ NothingQueuedForTheGone /\ OnlyRollbacksOfTheGone
  BY DEF NoLostWakeup, Admissible, NothingQueuedForTheGone,
         OnlyRollbacksOfTheGone
<1>4. TicketOrder
  BY DEF TicketOrder
<1> QED
  BY <1>1, <1>2, <1>3, <1>4 DEF IInv

(* One turn of drain()'s loop, from any array `queue` in good order, restores*)
(* the invariant: it starts the first admissible message or gives up.        *)
LEMMA DrainInv ==
  ASSUME NEW queue \in SUBSET Messages,
         IInv, running = NoMessage, Drain(queue),
         UNCHANGED <<transactionOwnerId, inTransaction, opener>>,
         attached' \in SUBSET Connections,
         detachedConnectionIds' \in SUBSET Connections,
         detachedConnectionIds' \cap attached' = {},
         nextTicket' \in Nat,
         \A m \in queue : m.kind = "client" => m.conn \in attached',
         \A m \in queue : m.kind = "rollback" => m.conn \notin attached',
         \A m \in queue : lastRun[m.conn] < m.ticket /\ m.ticket < nextTicket',
         \A c \in Connections : lastRun[c] < nextTicket',
         \A m, n \in queue : m.ticket = n.ticket => m = n,
         (inTransaction /\ opener \notin attached')
           => \E m \in queue : m.conn = opener
  PROVE  IInv'
<1> DEFINE runnable == Admissible(queue, transactionOwnerId)
<1> USE DEF IInv, TypeOK, Messages, Kinds
<1>1. CASE /\ runnable = {}
           /\ pending' = queue
           /\ isDraining' = FALSE
           /\ UNCHANGED <<running, lastRun>>
  <2>1. TypeOK' /\ DetachedAreGone'
    BY <1>1 DEF DetachedAreGone
  <2>2. OwnerIsOpener' /\ RunsUnderDrain' /\ TransactionIsolation'
    BY <1>1 DEF OwnerIsOpener, RunsUnderDrain, TransactionIsolation
  <2>3. NoOrphanTransaction'
    <3> SUFFICES ASSUME inTransaction, opener \notin attached'
                 PROVE  FALSE
      BY DEF NoOrphanTransaction
    <3>1. PICK m \in queue : m.conn = opener
      OBVIOUS
    <3>2. m \in runnable
      BY <3>1 DEF OwnerIsOpener, Admissible
    <3> QED
      BY <1>1, <3>2
  <2>4. NoLostWakeup'
    BY <1>1 DEF NoLostWakeup, Admissible
  <2>5. /\ NothingQueuedForTheGone'
        /\ OnlyRollbacksOfTheGone'
        /\ RunningRollbackOfTheGone'
        /\ GoneIsRemembered'
    BY <1>1 DEF NothingQueuedForTheGone, OnlyRollbacksOfTheGone,
                RunningRollbackOfTheGone, GoneIsRemembered
  <2>6. TicketOrder'
    BY <1>1 DEF TicketOrder
  <2> QED
    BY <2>1, <2>2, <2>3, <2>4, <2>5, <2>6
<1>2. ASSUME NEW m \in queue,
             IsFirst(m, runnable),
             pending' = queue \ {m},
             isDraining' = TRUE,
             running' = m,
             lastRun' = [lastRun EXCEPT ![m.conn] = m.ticket]
      PROVE  IInv'
  <2>1. TypeOK' /\ DetachedAreGone'
    BY <1>2 DEF DetachedAreGone
  <2>2. m \in runnable /\ m # NoMessage
    BY <1>2, NoMessageAssumption DEF IsFirst
  <2>3. OwnerIsOpener' /\ RunsUnderDrain' /\ NoLostWakeup'
    BY <1>2 DEF OwnerIsOpener, RunsUnderDrain, NoLostWakeup
  <2>4. TransactionIsolation'
    BY <1>2, <2>2, ConnectionsAssumption
       DEF TransactionIsolation, OwnerIsOpener, Admissible
  <2>5. NoOrphanTransaction'
    BY <1>2, <2>2, ConnectionsAssumption
       DEF NoOrphanTransaction, RollbackInFlight, OwnerIsOpener, Admissible
  <2>6. /\ NothingQueuedForTheGone'
        /\ OnlyRollbacksOfTheGone'
        /\ RunningRollbackOfTheGone'
        /\ GoneIsRemembered'
    BY <1>2 DEF NothingQueuedForTheGone, OnlyRollbacksOfTheGone,
                RunningRollbackOfTheGone, GoneIsRemembered
  <2>7. TicketOrder'
    <3>1. ASSUME NEW n \in queue \ {m}
          PROVE  lastRun'[n.conn] < n.ticket
      <4>1. CASE n.conn = m.conn
        <5>1. n \in runnable
          BY <2>2, <4>1 DEF Admissible
        <5>2. m.ticket <= n.ticket /\ m.ticket # n.ticket
          BY <1>2, <5>1 DEF IsFirst
        <5> QED
          BY <1>2, <4>1, <5>2
      <4>2. CASE n.conn # m.conn
        BY <1>2, <4>2
      <4> QED
        BY <4>1, <4>2
    <3>2. \A c \in Connections : lastRun'[c] < nextTicket'
      BY <1>2
    <3> QED
      BY <1>2, <3>1, <3>2 DEF TicketOrder
  <2> QED
    BY <2>1, <2>3, <2>4, <2>5, <2>6, <2>7
<1> QED
  BY <1>1, <1>2 DEF Drain

(* push() keeps the invariant, whatever the array it appends to: a drain that*)
(* is live finds the message later, otherwise a new one takes its first turn.*)
LEMMA PushInv ==
  ASSUME NEW queue \in SUBSET pending, NEW m \in Messages,
         IInv, m.ticket = nextTicket, Push(m, queue),
         UNCHANGED <<transactionOwnerId, inTransaction, opener>>,
         attached' \in SUBSET Connections,
         detachedConnectionIds' \in SUBSET Connections,
         detachedConnectionIds' \cap attached' = {},
         \A n \in queue \cup {m} : n.kind = "client" => n.conn \in attached',
         \A n \in queue \cup {m} : n.kind = "rollback" => n.conn \notin attached',
         running # NoMessage /\ running.kind = "rollback"
           => running.conn \notin attached',
         (/\ running # NoMessage
          /\ running.kind = "client"
          /\ running.conn \notin attached') =>
            running.conn \in detachedConnectionIds'
              \/ \E n \in queue \cup {m} : n.conn = running.conn /\ n.kind = "rollback",
         (inTransaction /\ opener \notin attached')
           => (\E n \in queue \cup {m} : n.conn = opener)
              \/ (running # NoMessage /\ running.conn = opener)
  PROVE  IInv'
<1> USE DEF IInv, TypeOK, Messages, Kinds
<1>1. queue \cup {m} \in SUBSET Messages /\ nextTicket' = nextTicket + 1
  BY DEF Push
<1>2. /\ \A n \in queue \cup {m} : lastRun[n.conn] < n.ticket /\ n.ticket < nextTicket'
      /\ \A c \in Connections : lastRun[c] < nextTicket'
      /\ \A n, k \in queue \cup {m} : n.ticket = k.ticket => n = k
  BY <1>1 DEF TicketOrder
<1>3. CASE isDraining
  <2>1. pending' = queue \cup {m} /\ UNCHANGED <<isDraining, running, lastRun>>
    BY <1>3 DEF Push
  <2>2. TypeOK' /\ DetachedAreGone'
    BY <1>1, <2>1 DEF DetachedAreGone
  <2>3. /\ OwnerIsOpener' /\ RunsUnderDrain' /\ TransactionIsolation'
        /\ RunningRollbackOfTheGone' /\ NoLostWakeup'
    BY <1>3, <2>1 DEF OwnerIsOpener, RunsUnderDrain, TransactionIsolation,
                      RunningRollbackOfTheGone, NoLostWakeup
  <2>4. /\ NothingQueuedForTheGone' /\ OnlyRollbacksOfTheGone' /\ GoneIsRemembered'
    BY <2>1 DEF NothingQueuedForTheGone, OnlyRollbacksOfTheGone,
                GoneIsRemembered, RollbackQueued
  <2>5. NoOrphanTransaction'
    BY <1>1, <2>1 DEF NoOrphanTransaction, RollbackInFlight
  <2>6. TicketOrder'
    BY <1>2, <2>1 DEF TicketOrder
  <2> QED
    BY <2>2, <2>3, <2>4, <2>5, <2>6
<1>4. CASE ~isDraining
  <2>1. running = NoMessage /\ Drain(queue \cup {m})
    BY <1>4 DEF Push, RunsUnderDrain
  <2> HIDE DEF IInv
  <2> QED
    BY <1>1, <1>2, <2>1, DrainInv
<1> QED
  BY <1>3, <1>4

LEMMA EnqueueInv ==
  ASSUME IInv, NEW c \in Connections, Enqueue(c)
  PROVE  IInv'
<1> DEFINE m == Message(c, "client")
<1> USE DEF IInv, TypeOK
<1>1. m \in Messages /\ m.ticket = nextTicket /\ m.kind = "client" /\ m.conn = c
  BY DEF Message, Messages, Kinds
<1>2. /\ Push(m, pending) /\ c \in attached
      /\ UNCHANGED <<transactionOwnerId, inTransaction, opener,
                     attached, detachedConnectionIds>>
  BY DEF Enqueue, CallEnqueue
<1>3. /\ \A n \in pending \cup {m} : n.kind = "client" => n.conn \in attached'
      /\ \A n \in pending \cup {m} : n.kind = "rollback" => n.conn \notin attached'
  BY <1>1, <1>2 DEF NothingQueuedForTheGone, OnlyRollbacksOfTheGone
<1>4. (running # NoMessage /\ running.kind = "rollback") => running.conn \notin attached'
  BY <1>2 DEF RunningRollbackOfTheGone
<1>5. (/\ running # NoMessage
       /\ running.kind = "client"
       /\ running.conn \notin attached') =>
         running.conn \in detachedConnectionIds'
           \/ \E n \in pending \cup {m} : n.conn = running.conn /\ n.kind = "rollback"
  BY <1>2 DEF GoneIsRemembered, RollbackQueued
<1>6. (inTransaction /\ opener \notin attached')
        => (\E n \in pending \cup {m} : n.conn = opener)
           \/ (running # NoMessage /\ running.conn = opener)
  BY <1>2 DEF NoOrphanTransaction, RollbackInFlight
<1>7. /\ attached' \in SUBSET Connections
      /\ detachedConnectionIds' \in SUBSET Connections
      /\ detachedConnectionIds' \cap attached' = {}
  BY <1>2 DEF DetachedAreGone
<1> HIDE DEF IInv, TypeOK, m
<1> QED
  BY <1>1, <1>2, <1>3, <1>4, <1>5, <1>6, <1>7, PushInv

LEMMA ResumeDrainInv ==
  ASSUME IInv, ResumeDrain
  PROVE  IInv'
<1>1. /\ pending \in SUBSET Messages
      /\ running = NoMessage
      /\ Drain(pending)
      /\ UNCHANGED <<transactionOwnerId, inTransaction, opener, attached,
                     detachedConnectionIds, nextTicket>>
      /\ attached' \in SUBSET Connections
      /\ detachedConnectionIds' \in SUBSET Connections
      /\ detachedConnectionIds' \cap attached' = {}
      /\ nextTicket' \in Nat
  BY DEF ResumeDrain, IInv, TypeOK, DetachedAreGone
<1>2. /\ \A m \in pending : m.kind = "client" => m.conn \in attached'
      /\ \A m \in pending : m.kind = "rollback" => m.conn \notin attached'
  BY <1>1 DEF IInv, NothingQueuedForTheGone, OnlyRollbacksOfTheGone
<1>3. /\ \A m \in pending : lastRun[m.conn] < m.ticket /\ m.ticket < nextTicket'
      /\ \A c \in Connections : lastRun[c] < nextTicket'
      /\ \A m, n \in pending : m.ticket = n.ticket => m = n
  BY <1>1 DEF IInv, TicketOrder
<1>4. (inTransaction /\ opener \notin attached')
        => \E m \in pending : m.conn = opener
  BY <1>1 DEF IInv, NoOrphanTransaction, RollbackInFlight
<1> QED
  BY <1>1, <1>2, <1>3, <1>4, DrainInv

LEMMA DetachInv ==
  ASSUME IInv, NEW c \in Connections, Detach(c)
  PROVE  IInv'
<1> DEFINE remaining == {n \in pending : n.conn # c}
           m == Message(c, "rollback")
<1> USE DEF IInv, TypeOK
<1>1. /\ c \in attached /\ attached' = attached \ {c}
      /\ UNCHANGED <<transactionOwnerId, inTransaction, opener>>
  BY DEF Detach, CallDetach
<1>2. /\ \A n \in remaining : n.kind = "client" => n.conn \in attached'
      /\ \A n \in remaining : n.kind = "rollback" => n.conn \notin attached'
      /\ (running # NoMessage /\ running.kind = "rollback") => running.conn \notin attached'
  BY <1>1 DEF NothingQueuedForTheGone, OnlyRollbacksOfTheGone,
              RunningRollbackOfTheGone, Messages
<1>3. CASE transactionOwnerId = c
  <2>1. /\ Push(m, remaining)
        /\ detachedConnectionIds' = detachedConnectionIds \ {c}
    BY <1>3 DEF Detach, CallDetach
  <2>2. /\ m \in Messages /\ m.ticket = nextTicket /\ m.kind = "rollback"
        /\ m.conn = c
    BY DEF Message, Messages, Kinds
  <2>3. (/\ running # NoMessage
         /\ running.kind = "client"
         /\ running.conn \notin attached') =>
           running.conn \in detachedConnectionIds'
             \/ \E n \in remaining \cup {m} : n.conn = running.conn /\ n.kind = "rollback"
    <3>1. CASE running.conn = c
      BY <2>2, <3>1
    <3>2. CASE running.conn # c
      BY <1>1, <2>1, <3>2 DEF GoneIsRemembered, RollbackQueued
    <3> QED
      BY <3>1, <3>2
  <2>4. (inTransaction /\ opener \notin attached')
          => (\E n \in remaining \cup {m} : n.conn = opener)
             \/ (running # NoMessage /\ running.conn = opener)
    BY <1>3, <2>2 DEF OwnerIsOpener
  <2>5. /\ remaining \in SUBSET pending
        /\ attached' \in SUBSET Connections
        /\ detachedConnectionIds' \in SUBSET Connections
        /\ detachedConnectionIds' \cap attached' = {}
        /\ \A n \in remaining \cup {m} : n.kind = "client" => n.conn \in attached'
        /\ \A n \in remaining \cup {m} : n.kind = "rollback" => n.conn \notin attached'
    BY <1>1, <1>2, <2>1, <2>2 DEF DetachedAreGone
  <2> HIDE DEF IInv, TypeOK, m, remaining
  <2> QED
    BY <1>1, <1>2, <2>1, <2>2, <2>3, <2>4, <2>5, PushInv
<1>4. CASE transactionOwnerId # c
  <2>1. /\ pending' = remaining
        /\ detachedConnectionIds' = detachedConnectionIds \cup {c}
        /\ UNCHANGED <<nextTicket, isDraining, running, lastRun>>
    BY <1>4 DEF Detach, CallDetach
  <2>2. TypeOK' /\ DetachedAreGone'
    BY <1>1, <2>1 DEF DetachedAreGone
  <2>3. /\ OwnerIsOpener' /\ RunsUnderDrain' /\ TransactionIsolation'
        /\ NothingQueuedForTheGone' /\ OnlyRollbacksOfTheGone'
        /\ RunningRollbackOfTheGone' /\ TicketOrder'
    BY <1>1, <1>2, <2>1
       DEF OwnerIsOpener, RunsUnderDrain, TransactionIsolation,
           NothingQueuedForTheGone, OnlyRollbacksOfTheGone,
           RunningRollbackOfTheGone, TicketOrder
  <2>4. NoOrphanTransaction'
    BY <1>1, <1>4, <2>1 DEF NoOrphanTransaction, RollbackInFlight, OwnerIsOpener
  <2>5. NoLostWakeup'
    BY <1>1, <2>1 DEF NoLostWakeup, Admissible
  <2>6. GoneIsRemembered'
    BY <1>1, <2>1 DEF GoneIsRemembered, RollbackQueued
  <2> QED
    BY <2>2, <2>3, <2>4, <2>5, <2>6
<1> QED
  BY <1>3, <1>4

LEMMA FinishRunInv ==
  ASSUME IInv, NEW after \in BOOLEAN, FinishRun(after)
  PROVE  IInv'
<1> DEFINE c == running.conn
           m == Message(c, "rollback")
           orphaned == after /\ c \in detachedConnectionIds
<1> USE DEF IInv, TypeOK
<1>1. /\ running \in Messages /\ running # NoMessage /\ c \in Connections
      /\ running.kind \in Kinds /\ isDraining
  BY DEF FinishRun, RunsUnderDrain, Messages
<1>2. /\ running' = NoMessage
      /\ inTransaction' = after
      /\ transactionOwnerId' = IF after THEN c ELSE NoConn
      /\ UNCHANGED <<isDraining, attached, lastRun>>
      /\ running.kind = "rollback" => ~after
  BY DEF FinishRun, Outcomes
<1>3. opener' = IF after THEN c ELSE NoConn
  BY <1>1 DEF FinishRun, TransactionIsolation
<1>4. IF orphaned
      THEN /\ pending' = pending \cup {m}
           /\ nextTicket' = nextTicket + 1
           /\ detachedConnectionIds' = detachedConnectionIds \ {c}
      ELSE UNCHANGED <<pending, nextTicket, detachedConnectionIds>>
  BY DEF FinishRun
<1>5. m \in Messages /\ m.conn = c /\ m.kind = "rollback" /\ m.ticket = nextTicket
  BY <1>1 DEF Message, Messages, Kinds
<1>6. TypeOK' /\ DetachedAreGone'
  BY <1>1, <1>2, <1>3, <1>4, <1>5 DEF DetachedAreGone
<1>7. /\ OwnerIsOpener' /\ RunsUnderDrain' /\ TransactionIsolation'
      /\ RunningRollbackOfTheGone' /\ GoneIsRemembered' /\ NoLostWakeup'
  BY <1>1, <1>2, <1>3, ConnectionsAssumption
     DEF OwnerIsOpener, RunsUnderDrain, TransactionIsolation,
         RunningRollbackOfTheGone, GoneIsRemembered, NoLostWakeup
<1>8. NothingQueuedForTheGone'
  BY <1>2, <1>4, <1>5 DEF NothingQueuedForTheGone
<1>9. after /\ c \notin attached => orphaned \/ RollbackQueued(c)
  BY <1>1, <1>2 DEF GoneIsRemembered, Kinds
<1>10. NoOrphanTransaction'
  <2>1. CASE orphaned
    BY <1>2, <1>3, <1>4, <1>5, <2>1 DEF NoOrphanTransaction, RollbackInFlight
  <2>2. CASE ~orphaned
    BY <1>2, <1>3, <1>4, <1>9, <2>2
       DEF NoOrphanTransaction, RollbackInFlight, RollbackQueued
  <2> QED
    BY <2>1, <2>2
<1>11. OnlyRollbacksOfTheGone'
  BY <1>2, <1>4, <1>5 DEF OnlyRollbacksOfTheGone, DetachedAreGone
<1>12. TicketOrder'
  BY <1>1, <1>2, <1>4, <1>5 DEF TicketOrder, Messages
<1> QED
  BY <1>6, <1>7, <1>8, <1>10, <1>11, <1>12

-----------------------------------------------------------------------------

LEMMA NextInv == IInv /\ [Next]_vars => IInv'
<1> SUFFICES ASSUME IInv, [Next]_vars
             PROVE  IInv'
  OBVIOUS
<1>1. CASE \E c \in Connections : Enqueue(c)
  BY <1>1, EnqueueInv
<1>2. CASE \E c \in Connections : Detach(c)
  BY <1>2, DetachInv
<1>3. CASE ResumeDrain
  BY <1>3, ResumeDrainInv
<1>4. CASE \E after \in BOOLEAN : FinishRun(after)
  BY <1>4, FinishRunInv
<1>5. CASE UNCHANGED vars
  BY <1>5 DEF vars, queueVars, IInv, TypeOK, DetachedAreGone, OwnerIsOpener,
              RunsUnderDrain, TransactionIsolation, NoOrphanTransaction,
              RollbackInFlight, NoLostWakeup, Admissible, NothingQueuedForTheGone,
              OnlyRollbacksOfTheGone, RunningRollbackOfTheGone, GoneIsRemembered,
              RollbackQueued, TicketOrder
<1> QED
  BY <1>1, <1>2, <1>3, <1>4, <1>5 DEF Next

(* IInv holds in every reachable state.                                      *)
LEMMA Invariance == Spec => []IInv
<1> QED
  BY InitInv, NextInv, PTL DEF Spec

(* Every variable of the queue keeps its type, for any number of connections *)
(* and messages.                                                             *)
THEOREM TypeCorrect == Spec => []TypeOK
<1>1. IInv => TypeOK
  BY DEF IInv
<1> QED
  BY <1>1, Invariance, PTL

(* No message, and no ROLLBACK for a vanished client, ever runs inside the   *)
(* transaction of another connection (header comment of the queue).          *)
THEOREM Isolation == Spec => []TransactionIsolation
<1>1. IInv => TransactionIsolation
  BY DEF IInv
<1> QED
  BY <1>1, Invariance, PTL

(* A transaction whose connection is gone always has its end on the way.     *)
THEOREM NoOrphan == Spec => []NoOrphanTransaction
<1>1. IInv => NoOrphanTransaction
  BY DEF IInv
<1> QED
  BY <1>1, Invariance, PTL

(* A queue without a live drain() loop holds nothing that could run, and     *)
(* nothing of a vanished client is queued but its ROLLBACK.                  *)
THEOREM QuiescentQueue == Spec => [](NoLostWakeup /\ NothingQueuedForTheGone)
<1>1. IInv => NoLostWakeup /\ NothingQueuedForTheGone
  BY DEF IInv
<1> QED
  BY <1>1, Invariance, PTL

(* Between its steps the queue owes nobody anything it could not still do.   *)
THEOREM QueueIsSound == Spec => []QueueInvariant
<1>1. IInv => QueueInvariant
  BY DEF IInv, QueueInvariant
<1> QED
  BY <1>1, Invariance, PTL

LEMMA DrainOrder ==
  ASSUME NEW queue \in SUBSET Messages, TypeOK, Drain(queue),
         \A m \in queue : lastRun[m.conn] < m.ticket
  PROVE  \A c \in Connections : lastRun'[c] >= lastRun[c]
<1>1. CASE UNCHANGED lastRun
  BY <1>1 DEF TypeOK
<1>2. CASE \E m \in queue : lastRun' = [lastRun EXCEPT ![m.conn] = m.ticket]
  BY <1>2 DEF TypeOK, Messages
<1> QED
  BY <1>1, <1>2 DEF Drain

(* A connection's messages run in the order in which it sent them.           *)
THEOREM Order == Spec => PerConnectionOrder
<1>1. ASSUME IInv, [Next]_vars
      PROVE  [\A c \in Connections : lastRun'[c] >= lastRun[c]]_vars
  <2>1. /\ TypeOK /\ pending \in SUBSET Messages /\ nextTicket \in Nat
        /\ lastRun \in [Connections -> Nat]
        /\ \A m \in pending : lastRun[m.conn] < m.ticket
        /\ \A c \in Connections : lastRun[c] < nextTicket
    BY <1>1 DEF IInv, TypeOK, TicketOrder
  <2>2. ASSUME NEW c \in Connections, NEW kind \in Kinds
        PROVE  /\ Message(c, kind) \in Messages
               /\ lastRun[Message(c, kind).conn] < Message(c, kind).ticket
    BY <2>1 DEF Message, Messages
  <2>3. ASSUME NEW c \in Connections, NEW kind \in Kinds,
               NEW queue \in SUBSET pending, Push(Message(c, kind), queue)
        PROVE  \A d \in Connections : lastRun'[d] >= lastRun[d]
    <3> DEFINE m == Message(c, kind)
    <3>1. CASE UNCHANGED lastRun
      BY <2>1, <3>1
    <3>2. CASE Drain(queue \cup {m})
      <4>1. /\ queue \cup {m} \in SUBSET Messages
            /\ \A n \in queue \cup {m} : lastRun[n.conn] < n.ticket
        BY <2>1, <2>2
      <4> HIDE DEF m
      <4> QED
        BY <2>1, <3>2, <4>1, DrainOrder
    <3> QED
      BY <2>3, <3>1, <3>2 DEF Push
  <2>4. CASE \E c \in Connections : Enqueue(c)
    BY <2>3, <2>4 DEF Enqueue, CallEnqueue, Kinds
  <2>5. CASE \E c \in Connections : Detach(c)
    <3>1. PICK c \in Connections : Detach(c)
      BY <2>5
    <3> DEFINE remaining == {n \in pending : n.conn # c}
    <3>2. \/ Push(Message(c, "rollback"), remaining)
          \/ UNCHANGED lastRun
      BY <3>1 DEF Detach, CallDetach
    <3>3. remaining \in SUBSET pending /\ "rollback" \in Kinds
      BY DEF Kinds
    <3> HIDE DEF remaining
    <3> QED
      BY <2>1, <2>3, <3>2, <3>3
  <2>6. CASE ResumeDrain
    BY <2>1, <2>6, DrainOrder DEF ResumeDrain
  <2>7. CASE \E after \in BOOLEAN : FinishRun(after)
    BY <2>1, <2>7 DEF FinishRun
  <2> QED
    BY <1>1, <2>4, <2>5, <2>6, <2>7 DEF Next
<1> QED
  BY <1>1, Invariance, PTL DEF Spec, PerConnectionOrder

-----------------------------------------------------------------------------

(* A turn of the drain loop that leaves the sessions alone is a Start step   *)
(* of ExclusiveSessions, or changes nothing there.                           *)
LEMMA DrainRefines ==
  ASSUME IInv, NEW queue \in SUBSET Messages, running = NoMessage, Drain(queue),
         UNCHANGED <<opener, attached>>,
         \A m \in queue : m.kind = "client" => m.conn \in attached,
         \A m \in queue : m.kind = "rollback" => m.conn \notin attached
  PROVE  [Abstract!Next]_Abstract!vars
<1>1. CASE UNCHANGED running
  BY <1>1 DEF Abstract!vars
<1>2. ASSUME NEW m \in queue,
             IsFirst(m, Admissible(queue, transactionOwnerId)),
             running' = m
      PROVE  [Abstract!Next]_Abstract!vars
  <2>1. /\ m \in Messages /\ m # NoMessage /\ m.conn \in Connections
        /\ m.kind \in {"client", "rollback"}
    BY <1>2, NoMessageAssumption DEF Messages, Kinds
  <2>2. opener \in {NoConn, m.conn}
    BY <1>2 DEF IsFirst, Admissible, IInv, OwnerIsOpener
  <2>3. (m.kind = "rollback") = (m.conn \notin attached)
    BY <2>1
  <2>4. Abstract!Start(m.conn, m.kind = "rollback")
    BY <1>2, <2>1, <2>2, <2>3 DEF Abstract!Start
  <2>5. (m.kind = "rollback") \in BOOLEAN
    OBVIOUS
  <2> QED
    BY <2>1, <2>4, <2>5 DEF Abstract!Next
<1> QED
  BY <1>1, <1>2 DEF Drain

LEMMA EnqueueRefines ==
  ASSUME IInv, NEW c \in Connections, Enqueue(c)
  PROVE  [Abstract!Next]_Abstract!vars
<1> DEFINE m == Message(c, "client")
<1>1. CASE isDraining
  BY <1>1 DEF Enqueue, CallEnqueue, Push, Abstract!vars
<1>2. CASE ~isDraining
  <2>1. /\ Drain(pending \cup {m}) /\ running = NoMessage
        /\ UNCHANGED <<opener, attached>> /\ c \in attached
    BY <1>2 DEF Enqueue, CallEnqueue, Push, IInv, RunsUnderDrain
  <2>2. m \in Messages /\ m.kind = "client" /\ m.conn = c
    BY DEF Message, Messages, Kinds, IInv, TypeOK
  <2>3. /\ pending \cup {m} \in SUBSET Messages
        /\ \A n \in pending \cup {m} : n.kind = "client" => n.conn \in attached
        /\ \A n \in pending \cup {m} : n.kind = "rollback" => n.conn \notin attached
    BY <2>1, <2>2
       DEF IInv, TypeOK, NothingQueuedForTheGone, OnlyRollbacksOfTheGone
  <2> HIDE DEF m
  <2> QED
    BY <2>1, <2>3, DrainRefines
<1> QED
  BY <1>1, <1>2

LEMMA DetachRefines ==
  ASSUME IInv, NEW c \in Connections, Detach(c)
  PROVE  [Abstract!Next]_Abstract!vars
<1> DEFINE m == Message(c, "rollback")
           remaining == {n \in pending : n.conn # c}
<1>1. c \in attached /\ attached' = attached \ {c} /\ opener' = opener
  BY DEF Detach, CallDetach
<1>2. CASE UNCHANGED running
  <2>1. Abstract!Vanish(c)
    BY <1>1, <1>2 DEF Abstract!Vanish
  <2> QED
    BY <2>1 DEF Abstract!Next
<1>3. CASE ~ UNCHANGED running
  <2>1. /\ transactionOwnerId = c /\ ~isDraining
        /\ Drain(remaining \cup {m})
    BY <1>3 DEF Detach, CallDetach, Push
  <2>2. running = NoMessage /\ Admissible(pending, transactionOwnerId) = {}
    BY <2>1 DEF IInv, NoLostWakeup
  <2>3. opener = c /\ c # NoConn
    BY <2>1, ConnectionsAssumption DEF IInv, OwnerIsOpener
  <2>4. Admissible(remaining \cup {m}, transactionOwnerId) \subseteq {m}
    BY <2>1, <2>2, <2>3 DEF Admissible
  <2>5. running' = m
    BY <1>3, <2>1, <2>4 DEF Drain, IsFirst
  <2>6. m \in Messages /\ m # NoMessage /\ m.conn = c /\ m.kind = "rollback"
    BY NoMessageAssumption DEF Message, Messages, Kinds, IInv, TypeOK
  <2>7. Abstract!VanishAndRollback(c)
    BY <1>1, <2>2, <2>3, <2>5, <2>6 DEF Abstract!VanishAndRollback
  <2> QED
    BY <2>7 DEF Abstract!Next
<1> QED
  BY <1>2, <1>3

(* PGliteSessionQueue implements exclusive sessions: seen from outside, the  *)
(* backend serves one connection at a time and a transaction is one          *)
(* connection's from its first to its last message.                          *)
THEOREM Refinement == Spec => ImplementsExclusiveSessions
<1>1. Init => Abstract!Init
  BY DEF Init, Abstract!Init
<1>2. ASSUME IInv, [Next]_vars
      PROVE  [Abstract!Next]_Abstract!vars
  <2>1. CASE \E c \in Connections : Enqueue(c)
    BY <1>2, <2>1, EnqueueRefines
  <2>2. CASE \E c \in Connections : Detach(c)
    BY <1>2, <2>2, DetachRefines
  <2>3. CASE ResumeDrain
    <3>1. /\ pending \in SUBSET Messages /\ running = NoMessage /\ Drain(pending)
          /\ UNCHANGED <<opener, attached>>
          /\ \A m \in pending : m.kind = "client" => m.conn \in attached
          /\ \A m \in pending : m.kind = "rollback" => m.conn \notin attached
      BY <1>2, <2>3 DEF ResumeDrain, IInv, TypeOK, NothingQueuedForTheGone,
                        OnlyRollbacksOfTheGone
    <3> QED
      BY <1>2, <3>1, DrainRefines
  <2>4. CASE \E after \in BOOLEAN : FinishRun(after)
    <3>1. PICK after \in BOOLEAN : FinishRun(after)
      BY <2>4
    <3>2. running.conn \in Connections /\ running # NoMessage /\ running.conn # NoConn
      BY <1>2, <3>1, ConnectionsAssumption DEF FinishRun, IInv, TypeOK, Messages
    <3>3. opener' = IF after THEN running.conn ELSE NoConn
      BY <1>2, <3>1, <3>2 DEF FinishRun, IInv, TransactionIsolation
    <3>4. Abstract!Finish(after)
      BY <3>1, <3>2, <3>3 DEF FinishRun, Outcomes, Abstract!Finish
    <3> QED
      BY <3>4 DEF Abstract!Next
  <2>5. CASE UNCHANGED vars
    BY <2>5 DEF vars, queueVars, Abstract!vars
  <2> QED
    BY <1>2, <2>1, <2>2, <2>3, <2>4, <2>5 DEF Next
<1> QED
  BY <1>1, <1>2, Invariance, PTL
     DEF Spec, ImplementsExclusiveSessions, Abstract!Spec
=============================================================================
