-------------------------- MODULE WireServerProofs --------------------------
(***************************************************************************)
(* Proofs about WireServer: it makes only the calls SessionQueue expects     *)
(* of its callers, so what is proved of the queue holds of the two of them   *)
(* together, for any clients, whatever they write.                           *)
(***************************************************************************)
EXTENDS WireServer, FiniteSetTheorems, TLAPS

(* The theorems of the queue, about the queue of this module.                *)
QueueProofs == INSTANCE SessionQueueProofs

-----------------------------------------------------------------------------

(* Only a closed connection was ever detached, and only one that is not      *)
(* closed holds on to the queue.                                             *)
UseInv ==
  /\ phase \in [Connections -> Phases]
  /\ connection \in [Connections -> BOOLEAN]
  /\ \A c \in Connections :
       /\ phase[c] # "closed" => c \in attached
       /\ connection[c] => phase[c] \in {"password", "streaming"}

LEMMA InitUse == Init => UseInv
  BY DEF Init, Queue!Init, UseInv, Phases

(* releaseConnection() is a detach, if it calls the queue at all.            *)
LEMMA ReleaseUse ==
  ASSUME UseInv, NEW c \in Connections, ReleaseConnection(c)
  PROVE  UseInv' /\ (Queue!Next \/ UNCHANGED queueVars)
<1>1. CASE connection[c]
  <2>1. Queue!CallDetach(c)
    BY <1>1 DEF ReleaseConnection
  <2>2. c \in attached
    BY <1>1 DEF UseInv
  <2>3. Queue!Next
    BY <2>1, <2>2 DEF Queue!Next, Queue!Detach
  <2>4. attached' = attached \ {c}
    BY <2>1 DEF Queue!CallDetach
  <2> QED
    BY <2>3, <2>4 DEF ReleaseConnection, UseInv, Phases
<1>2. CASE ~connection[c]
  BY <1>2 DEF ReleaseConnection, UseInv, Phases, queueVars
<1> QED
  BY <1>1, <1>2

LEMMA FailUse ==
  ASSUME UseInv, NEW c \in Connections, Fail(c)
  PROVE  UseInv' /\ (Queue!Next \/ UNCHANGED queueVars)
  BY ReleaseUse DEF Fail, UseInv, queueVars

(* A message is enqueued by a connection that is not closed.                 *)
LEMMA ForwardUse ==
  ASSUME UseInv, NEW c \in Connections, phase[c] # "closed", Forward(c)
  PROVE  Queue!Next /\ attached' = attached
  BY DEF Forward, UseInv, Queue!Next, Queue!Enqueue, Queue!CallEnqueue

LEMMA FrameUse ==
  ASSUME UseInv, NEW c \in Connections, NEW frame, phase[c] # "closed",
         HandleFrame(c, frame)
  PROVE  UseInv' /\ (Queue!Next \/ UNCHANGED queueVars)
<1>1. CASE RefuseEncryption(c, frame)
  BY <1>1 DEF RefuseEncryption, UseInv, queueVars
<1>2. CASE CancelRequest(c, frame)
  BY <1>2 DEF CancelRequest, UseInv, queueVars, Phases
<1>3. CASE Startup(c, frame)
  <2>1. CASE Fail(c)
    BY <2>1, FailUse
  <2>2. CASE /\ connection' = [connection EXCEPT ![c] = TRUE]
             /\ phase' = [phase EXCEPT ![c] = "password"]
             /\ UNCHANGED queueVars
    BY <2>2 DEF UseInv, queueVars, Phases
  <2>3. CASE /\ connection' = [connection EXCEPT ![c] = TRUE]
             /\ phase' = [phase EXCEPT ![c] = "streaming"]
             /\ Forward(c)
    <3>1. Queue!Next /\ attached' = attached
      BY <2>3, ForwardUse
    <3> QED
      BY <2>3, <3>1 DEF UseInv, Phases
  <2> QED
    BY <1>3, <2>1, <2>2, <2>3 DEF Startup
<1>4. CASE Password(c, frame)
  <2>1. Queue!Next /\ attached' = attached
    BY <1>4, ForwardUse DEF Password
  <2> QED
    BY <1>4, <2>1 DEF Password, UseInv, Phases
<1>5. CASE Terminate(c, frame)
  BY <1>5, ReleaseUse DEF Terminate
<1>6. CASE Batch(c, frame)
  BY <1>6 DEF Batch, UseInv, queueVars
<1>7. CASE EndSequence(c, frame)
  <2>1. Queue!Next /\ attached' = attached
    BY <1>7, ForwardUse DEF EndSequence
  <2> QED
    BY <1>7, <2>1 DEF EndSequence, UseInv
<1>8. CASE Violation(c, frame)
  BY <1>8, FailUse DEF Violation
<1> QED
  BY <1>1, <1>2, <1>3, <1>4, <1>5, <1>6, <1>7, <1>8 DEF HandleFrame

LEMMA StepUse ==
  ASSUME UseInv, [Next]_vars
  PROVE  UseInv' /\ (Queue!Next \/ UNCHANGED queueVars)
<1>1. CASE \E c \in Connections : Data(c)
  BY <1>1 DEF Data, UseInv, queueVars
<1>2. CASE \E c \in Connections : ProcessFrame(c)
  BY <1>2, FrameUse DEF ProcessFrame
<1>3. CASE \E c \in Connections : EndProcessing(c)
  BY <1>3 DEF EndProcessing, UseInv, queueVars
<1>4. CASE \E c \in Connections : ForwardSettles(c)
  BY <1>4, FailUse DEF ForwardSettles, UseInv, queueVars
<1>5. CASE \E c \in Connections : ReleaseSettles(c)
  BY <1>5 DEF ReleaseSettles, UseInv, queueVars
<1>6. CASE \E c \in Connections : SocketCloses(c)
  BY <1>6, ReleaseUse DEF SocketCloses
<1>7. CASE QueueStep
  <2>1. Queue!Next
    BY <1>7 DEF QueueStep, Queue!Next
  <2>2. attached' = attached
    BY <1>7 DEF QueueStep, Queue!ResumeDrain, Queue!FinishRun
  <2> QED
    BY <1>7, <2>1, <2>2 DEF QueueStep, UseInv
<1>8. CASE UNCHANGED vars
  BY <1>8 DEF vars, UseInv, queueVars
<1> QED
  BY <1>1, <1>2, <1>3, <1>4, <1>5, <1>6, <1>7, <1>8 DEF Next

(* The wire server uses the queue as the queue expects: one detach for each  *)
(* connection, on whichever path it ends, and no message after it.           *)
THEOREM UsesQueue == Spec => UsesSessionQueue
<1>1. Init => Queue!Init
  BY DEF Init
<1>2. UseInv /\ [Next]_vars => [Queue!Next]_Queue!vars
  BY StepUse DEF Queue!vars, Queue!queueVars, queueVars
<1> QED
  BY <1>1, <1>2, InitUse, StepUse, PTL DEF Spec, UsesSessionQueue, Queue!Spec

LEMMA SameQueue == Queue!Spec => QueueProofs!Spec
<1>1. Queue!Init => QueueProofs!Init
  BY DEF Queue!Init, QueueProofs!Init
<1>2. Queue!Next => QueueProofs!Next
  BY DEF Queue!Next, QueueProofs!Next, Queue!Enqueue, QueueProofs!Enqueue,
         Queue!CallEnqueue, QueueProofs!CallEnqueue, Queue!Detach, QueueProofs!Detach,
         Queue!CallDetach, QueueProofs!CallDetach, Queue!Push, QueueProofs!Push,
         Queue!Message, QueueProofs!Message, Queue!Drain, QueueProofs!Drain,
         Queue!Admissible, QueueProofs!Admissible, Queue!IsFirst, QueueProofs!IsFirst,
         Queue!ResumeDrain, QueueProofs!ResumeDrain, Queue!FinishRun,
         QueueProofs!FinishRun, Queue!Outcomes, QueueProofs!Outcomes
<1>3. [Queue!Next]_Queue!vars => [QueueProofs!Next]_QueueProofs!vars
  BY <1>2 DEF Queue!vars, QueueProofs!vars, Queue!queueVars, QueueProofs!queueVars
<1> QED
  BY <1>1, <1>3, PTL DEF Queue!Spec, QueueProofs!Spec

(* Transactions are isolated for the clients of the wire server: a message   *)
(* that runs inside a transaction is of the client that opened it.           *)
THEOREM ClientsAreIsolated == Spec => []Queue!TransactionIsolation
<1>1. QueueProofs!TransactionIsolation => Queue!TransactionIsolation
  BY DEF QueueProofs!TransactionIsolation, Queue!TransactionIsolation
<1>2. Spec => QueueProofs!Spec
  BY UsesQueue, SameQueue DEF UsesSessionQueue
<1>3. NoMessage \notin QueueProofs!Messages
  BY WireAssumption DEF Queue!Messages, QueueProofs!Messages, Queue!Kinds,
                        QueueProofs!Kinds
<1>4. NoConn \notin Connections /\ MaxTickets \in Nat
  BY WireAssumption
<1>5. QueueProofs!Spec => []QueueProofs!TransactionIsolation
  BY <1>3, <1>4, QueueProofs!Isolation
<1> QED
  BY <1>1, <1>2, <1>5, PTL
-----------------------------------------------------------------------------
(* WireInvariant.  What makes it inductive is what a connection may have at  *)
(* the backend: nothing before it is resolved, no client message between two *)
(* frames, and one while processBuffered() waits for its answer.             *)

Backend == pending \cup ({running} \ {NoMessage})
ClientMessages(c) == {m \in AtBackend(c) : m.kind = "client"}

BackendInv ==
  /\ DOMAIN lastRun = Connections
  /\ \A c \in Connections :
       /\ phase[c] \in {"password", "streaming"} => connection[c]
       /\ c \in attached /\ ~connection[c] => AtBackend(c) = {} /\ lastRun[c] = 0
       /\ awaiting[c] # "forward" => ClientMessages(c) = {}
       /\ \A m, n \in ClientMessages(c) : m = n

WireInv == TypeOK /\ UseInv /\ BackendInv /\ PausedIsProcessing

(* A step of the queue brings at most the message m.                         *)
Gains(m) ==
  /\ Backend' \subseteq Backend \cup {m}
  /\ DOMAIN lastRun' = Connections
  /\ \A d \in Connections : lastRun'[d] = lastRun[d] \/ d = m.conn \/ AtBackend(d) # {}

LEMMA DrainGains ==
  ASSUME DOMAIN lastRun = Connections, NEW m, NEW queue, queue \subseteq pending \cup {m},
         Queue!Drain(queue)
  PROVE  Gains(m)
<1>1. CASE pending' = queue /\ UNCHANGED <<running, lastRun>>
  BY <1>1 DEF Gains, Backend
<1>2. ASSUME NEW n \in queue, pending' = queue \ {n}, running' = n,
             lastRun' = [lastRun EXCEPT ![n.conn] = n.ticket]
      PROVE  Gains(m)
  <2>1. Backend' \subseteq Backend \cup {m}
    BY <1>2 DEF Backend
  <2>2. DOMAIN lastRun' = Connections
    BY <1>2
  <2>3. ASSUME NEW d \in Connections, lastRun'[d] # lastRun[d]
        PROVE  d = m.conn \/ AtBackend(d) # {}
    <3>1. d = n.conn
      BY <1>2, <2>3
    <3>2. n = m \/ n \in pending
      OBVIOUS
    <3> QED
      BY <3>1, <3>2 DEF AtBackend
  <2> QED
    BY <2>1, <2>2, <2>3 DEF Gains
<1> QED
  BY <1>1, <1>2 DEF Queue!Drain

LEMMA PushGains ==
  ASSUME DOMAIN lastRun = Connections, NEW m, NEW queue, queue \subseteq pending,
         Queue!Push(m, queue)
  PROVE  Gains(m)
<1>1. CASE isDraining
  BY <1>1 DEF Queue!Push, Gains, Backend
<1>2. CASE ~isDraining
  BY <1>2, DrainGains DEF Queue!Push
<1> QED
  BY <1>1, <1>2

LEMMA ForwardBackend ==
  ASSUME BackendInv, NEW c \in Connections, awaiting[c] = "nothing", Forward(c),
         awaiting \in [Connections -> Waits],
         connection'[c], \A d \in Connections \ {c} : connection'[d] = connection[d],
         \A d \in Connections \ {c} : phase'[d] = phase[d]
  PROVE  BackendInv'
<1> DEFINE m == Queue!Message(c, "client")
<1>1. Gains(m) /\ attached' = attached
  BY PushGains DEF Forward, Queue!CallEnqueue, BackendInv
<1>2. m.conn = c
  BY DEF Queue!Message
<1> HIDE DEF m
<1>3. ASSUME NEW d \in Connections \ {c}
      PROVE  /\ AtBackend(d)' \subseteq AtBackend(d) /\ awaiting'[d] = awaiting[d]
             /\ lastRun'[d] = lastRun[d] \/ AtBackend(d) # {}
  BY <1>1, <1>2 DEF Gains, Backend, AtBackend, Forward
<1>4. ASSUME NEW d \in Connections \ {c}
      PROVE  /\ phase'[d] \in {"password", "streaming"} => connection'[d]
             /\ d \in attached' /\ ~connection'[d] => AtBackend(d)' = {} /\ lastRun'[d] = 0
             /\ awaiting'[d] # "forward" => ClientMessages(d)' = {}
             /\ \A n1, n2 \in ClientMessages(d)' : n1 = n2
  BY <1>1, <1>3 DEF BackendInv, ClientMessages
<1>5. ClientMessages(c) = {}
  BY DEF BackendInv
<1>6. ClientMessages(c)' \subseteq {m}
  BY <1>1, <1>5 DEF Gains, Backend, ClientMessages, AtBackend
<1>7. awaiting'[c] = "forward"
  BY DEF Forward
<1> QED
  BY <1>1, <1>4, <1>6, <1>7 DEF BackendInv, Gains

LEMMA ReleaseBackend ==
  ASSUME BackendInv, UseInv, NEW c \in Connections, ReleaseConnection(c),
         \A d \in Connections :
           awaiting'[d] # "forward" => awaiting[d] # "forward" \/ ClientMessages(d) = {}
  PROVE  BackendInv'
<1>1. phase'[c] = "closed" /\ \A d \in Connections \ {c} : phase'[d] = phase[d]
  BY DEF ReleaseConnection, UseInv
<1>2. ~connection'[c] /\ \A d \in Connections \ {c} : connection'[d] = connection[d]
  BY DEF ReleaseConnection, UseInv
<1>3. CASE connection[c]
  <2> DEFINE m == Queue!Message(c, "rollback")
  <2>1. attached' = attached \ {c}
    BY <1>3 DEF ReleaseConnection, Queue!CallDetach
  <2>2. Gains(m)
    <3>1. CASE transactionOwnerId = c
      BY <1>3, <3>1, PushGains DEF ReleaseConnection, Queue!CallDetach, BackendInv
    <3>2. CASE transactionOwnerId # c
      <4>1. pending' \subseteq pending /\ UNCHANGED <<running, lastRun>>
        BY <1>3, <3>2 DEF ReleaseConnection, Queue!CallDetach
      <4> QED
        BY <4>1 DEF BackendInv, Gains, Backend
    <3> QED
      BY <3>1, <3>2
  <2>3. m.conn = c /\ m.kind = "rollback"
    BY DEF Queue!Message
  <2> HIDE DEF m
  <2>4. ASSUME NEW d \in Connections
        PROVE  ClientMessages(d)' \subseteq ClientMessages(d)
    BY <2>2, <2>3 DEF Gains, Backend, AtBackend, ClientMessages
  <2>5. ASSUME NEW d \in Connections \ {c}
        PROVE  /\ AtBackend(d)' \subseteq AtBackend(d)
               /\ lastRun'[d] = lastRun[d] \/ AtBackend(d) # {}
    BY <2>2, <2>3 DEF Gains, Backend, AtBackend
  <2>6. ASSUME NEW d \in Connections, d \in attached', ~connection'[d]
        PROVE  AtBackend(d)' = {} /\ lastRun'[d] = 0
    BY <1>2, <2>1, <2>5, <2>6 DEF BackendInv
  <2>7. ASSUME NEW d \in Connections
        PROVE  /\ phase'[d] \in {"password", "streaming"} => connection'[d]
               /\ awaiting'[d] # "forward" => ClientMessages(d)' = {}
               /\ \A n1, n2 \in ClientMessages(d)' : n1 = n2
    BY <1>1, <1>2, <2>4 DEF BackendInv
  <2> QED
    BY <2>2, <2>6, <2>7 DEF BackendInv, Gains
<1>4. CASE ~connection[c]
  <2>1. UNCHANGED queueVars
    BY <1>4 DEF ReleaseConnection
  <2>2. \A d \in Connections : AtBackend(d)' = AtBackend(d) /\ ClientMessages(d)' = ClientMessages(d)
    BY <2>1 DEF queueVars, AtBackend, ClientMessages
  <2>3. \A d \in Connections : connection'[d] <=> connection[d]
    BY <1>2, <1>4
  <2> QED
    BY <1>1, <2>1, <2>2, <2>3 DEF BackendInv, queueVars
<1> QED
  BY <1>3, <1>4

(* Steps that leave the queue alone.                                         *)
LEMMA QuietBackend ==
  ASSUME BackendInv, UNCHANGED queueVars,
         \A d \in Connections :
           /\ phase'[d] \in {"password", "streaming"} => connection'[d]
           /\ connection[d] => connection'[d]
           /\ awaiting'[d] # "forward" => awaiting[d] # "forward" \/ ClientMessages(d) = {}
  PROVE  BackendInv'
<1>1. \A d \in Connections : AtBackend(d)' = AtBackend(d) /\ ClientMessages(d)' = ClientMessages(d)
  BY DEF queueVars, AtBackend, ClientMessages
<1> QED
  BY <1>1 DEF BackendInv, queueVars

LEMMA FailBackend ==
  ASSUME BackendInv, UseInv, NEW c \in Connections, Fail(c),
         \A d \in Connections :
           awaiting'[d] # "forward" => awaiting[d] # "forward" \/ ClientMessages(d) = {}
  PROVE  BackendInv'
<1>1. CASE phase[c] = "closed"
  BY <1>1, QuietBackend DEF Fail, BackendInv
<1>2. CASE phase[c] # "closed"
  BY <1>2, ReleaseBackend DEF Fail
<1> QED
  BY <1>1, <1>2

LEMMA FrameBackend ==
  ASSUME TypeOK, UseInv, BackendInv, NEW c \in Connections, NEW frame,
         awaiting[c] = "nothing", phase[c] # "closed", HandleFrame(c, frame)
  PROVE  BackendInv'
<1>t. /\ awaiting \in [Connections -> Waits] /\ connection \in [Connections -> BOOLEAN]
      /\ phase \in [Connections -> Phases]
  BY DEF TypeOK
<1>k. KeepWaiting =>
        \A d \in Connections :
          awaiting'[d] # "forward" => awaiting[d] # "forward" \/ ClientMessages(d) = {}
  BY DEF KeepWaiting
<1>1. CASE RefuseEncryption(c, frame)
  BY <1>1, <1>k, QuietBackend DEF RefuseEncryption, BackendInv
<1>2. CASE CancelRequest(c, frame)
  <2>1. \A d \in Connections : phase'[d] \in {"password", "streaming"} => phase'[d] = phase[d]
    BY <1>t, <1>2 DEF CancelRequest
  <2>2. UNCHANGED <<queueVars, connection>> /\ KeepWaiting
    BY <1>2 DEF CancelRequest
  <2>3. \A d \in Connections :
          /\ phase'[d] \in {"password", "streaming"} => connection'[d]
          /\ connection[d] => connection'[d]
    BY <2>1, <2>2 DEF BackendInv
  <2> QED
    BY <1>k, <2>2, <2>3, QuietBackend
<1>3. CASE Startup(c, frame)
  <2>1. CASE Fail(c) /\ KeepWaiting
    BY <1>k, <2>1, FailBackend
  <2>2. CASE /\ connection' = [connection EXCEPT ![c] = TRUE]
             /\ phase' = [phase EXCEPT ![c] = "password"]
             /\ UNCHANGED queueVars /\ KeepWaiting
    <3>1. \A d \in Connections :
            /\ phase'[d] \in {"password", "streaming"} => connection'[d]
            /\ connection[d] => connection'[d]
      BY <1>t, <2>2 DEF BackendInv
    <3> QED
      BY <1>k, <2>2, <3>1, QuietBackend
  <2>3. CASE /\ connection' = [connection EXCEPT ![c] = TRUE]
             /\ phase' = [phase EXCEPT ![c] = "streaming"]
             /\ Forward(c)
    <3>1. /\ connection'[c] /\ \A d \in Connections \ {c} : connection'[d] = connection[d]
          /\ \A d \in Connections \ {c} : phase'[d] = phase[d]
      BY <1>t, <2>3
    <3> QED
      BY <1>t, <2>3, <3>1, ForwardBackend
  <2> QED
    BY <1>3, <2>1, <2>2, <2>3 DEF Startup
<1>4. CASE Password(c, frame)
  <2>1. Forward(c) /\ UNCHANGED connection /\ \A d \in Connections \ {c} : phase'[d] = phase[d]
    BY <1>t, <1>4 DEF Password
  <2>2. connection[c]
    BY <1>4 DEF Password, BackendInv
  <2> QED
    BY <1>t, <2>1, <2>2, ForwardBackend
<1>5. CASE Terminate(c, frame)
  <2>1. \A d \in Connections :
          awaiting'[d] # "forward" => awaiting[d] # "forward" \/ ClientMessages(d) = {}
    BY <1>t, <1>5 DEF Terminate
  <2> QED
    BY <1>5, <2>1, ReleaseBackend DEF Terminate
<1>6. CASE Batch(c, frame)
  BY <1>6, <1>k, QuietBackend DEF Batch, BackendInv
<1>7. CASE EndSequence(c, frame)
  <2>1. Forward(c) /\ UNCHANGED <<phase, connection>> /\ connection[c]
    BY <1>7 DEF EndSequence, BackendInv
  <2> QED
    BY <1>t, <2>1, ForwardBackend
<1>8. CASE Violation(c, frame)
  BY <1>8, <1>k, FailBackend DEF Violation
<1> QED
  BY <1>1, <1>2, <1>3, <1>4, <1>5, <1>6, <1>7, <1>8 DEF HandleFrame

(* The queue on its own: it takes a message, or settles one and may add the  *)
(* ROLLBACK of a connection that is gone.                                    *)
LEMMA QueueBackend ==
  ASSUME UseInv, BackendInv, QueueStep
  PROVE  BackendInv'
<1>1. UNCHANGED <<attached, connection, phase, awaiting>>
  BY DEF QueueStep, Queue!ResumeDrain, Queue!FinishRun
<1>2. DOMAIN lastRun' = Connections
      /\ \A d \in Connections :
           /\ ClientMessages(d)' \subseteq ClientMessages(d)
           /\ AtBackend(d) = {} => AtBackend(d)' = {} /\ lastRun'[d] = lastRun[d]
  <2>1. CASE Queue!ResumeDrain
    <3>1. CASE pending' = pending /\ UNCHANGED <<running, lastRun>>
      BY <3>1 DEF AtBackend, ClientMessages, BackendInv
    <3>2. CASE \E n \in pending :
                 /\ pending' = pending \ {n} /\ running' = n
                 /\ lastRun' = [lastRun EXCEPT ![n.conn] = n.ticket]
      <4>1. PICK n \in pending :
              /\ pending' = pending \ {n} /\ running' = n
              /\ lastRun' = [lastRun EXCEPT ![n.conn] = n.ticket]
        BY <3>2
      <4>2. \A d \in Connections : AtBackend(d)' \subseteq AtBackend(d)
        BY <4>1 DEF AtBackend
      <4>3. ASSUME NEW d \in Connections, AtBackend(d) = {}
            PROVE  lastRun'[d] = lastRun[d]
        <5>1. n.conn # d
          BY <4>1, <4>3 DEF AtBackend
        <5> QED
          BY <4>1, <5>1
      <4> QED
        BY <4>1, <4>2, <4>3 DEF ClientMessages, BackendInv
    <3> QED
      BY <2>1, <3>1, <3>2 DEF Queue!ResumeDrain, Queue!Drain
  <2>2. ASSUME NEW after \in BOOLEAN, Queue!FinishRun(after)
        PROVE  /\ DOMAIN lastRun' = Connections
               /\ \A d \in Connections :
                    /\ ClientMessages(d)' \subseteq ClientMessages(d)
                    /\ AtBackend(d) = {} => AtBackend(d)' = {} /\ lastRun'[d] = lastRun[d]
    <3> DEFINE m == Queue!Message(running.conn, "rollback")
    <3>1. running # NoMessage /\ running' = NoMessage /\ pending' \subseteq pending \cup {m}
          /\ UNCHANGED lastRun
      BY <2>2 DEF Queue!FinishRun
    <3>2. m.conn = running.conn /\ m.kind = "rollback"
      BY DEF Queue!Message
    <3> HIDE DEF m
    <3> QED
      BY <3>1, <3>2 DEF AtBackend, ClientMessages, BackendInv
  <2> QED
    BY <2>1, <2>2 DEF QueueStep
<1> QED
  BY <1>1, <1>2 DEF BackendInv

LEMMA StepBackend ==
  ASSUME TypeOK, UseInv, BackendInv, [Next]_vars
  PROVE  BackendInv'
<1>t. awaiting \in [Connections -> Waits]
  BY DEF TypeOK
<1>1. ASSUME NEW c \in Connections, Data(c) PROVE BackendInv'
  BY <1>1, QuietBackend DEF Data, BackendInv
<1>2. ASSUME NEW c \in Connections, ProcessFrame(c) PROVE BackendInv'
  BY <1>2, FrameBackend DEF ProcessFrame, LoopReady
<1>3. ASSUME NEW c \in Connections, EndProcessing(c) PROVE BackendInv'
  BY <1>3, QuietBackend DEF EndProcessing, BackendInv
<1>4. ASSUME NEW c \in Connections, ForwardSettles(c) PROVE BackendInv'
  <2>1. \A d \in Connections :
          awaiting'[d] # "forward" => awaiting[d] # "forward" \/ ClientMessages(d) = {}
    BY <1>t, <1>4 DEF ForwardSettles, ClientMessages
  <2>2. CASE Fail(c)
    BY <2>1, <2>2, FailBackend
  <2>3. CASE UNCHANGED <<queueVars, phase, pendingBatch, connection>>
    BY <2>1, <2>3, QuietBackend DEF BackendInv
  <2> QED
    BY <1>4, <2>2, <2>3 DEF ForwardSettles
<1>5. ASSUME NEW c \in Connections, ReleaseSettles(c) PROVE BackendInv'
  <2>1. \A d \in Connections : awaiting'[d] # "forward" => awaiting[d] # "forward"
    BY <1>t, <1>5 DEF ReleaseSettles
  <2> QED
    BY <1>5, <2>1, QuietBackend DEF ReleaseSettles, BackendInv
<1>6. ASSUME NEW c \in Connections, SocketCloses(c) PROVE BackendInv'
  BY <1>6, ReleaseBackend DEF SocketCloses
<1>7. CASE QueueStep
  BY <1>7, QueueBackend
<1>8. CASE UNCHANGED vars
  BY <1>8, QuietBackend DEF vars, BackendInv
<1> QED
  BY <1>1, <1>2, <1>3, <1>4, <1>5, <1>6, <1>7, <1>8 DEF Next

(* Types.  A release, a failure and a frame keep those they touch.           *)
LEMMA FailType ==
  ASSUME NEW c \in Connections, Fail(c),
         phase \in [Connections -> Phases], connection \in [Connections -> BOOLEAN],
         pendingBatch \in [Connections -> Nat]
  PROVE  /\ phase' \in [Connections -> Phases] /\ connection' \in [Connections -> BOOLEAN]
         /\ pendingBatch' \in [Connections -> Nat]
<1>1. CASE phase[c] = "closed"
  BY <1>1 DEF Fail
<1>2. CASE phase[c] # "closed"
  <2>1. /\ phase' = [phase EXCEPT ![c] = "closed"]
        /\ connection' = [connection EXCEPT ![c] = FALSE]
        /\ pendingBatch' = [pendingBatch EXCEPT ![c] = 0]
    BY <1>2 DEF Fail, ReleaseConnection
  <2>2. phase' \in [Connections -> Phases]
    BY <2>1 DEF Phases
  <2>3. connection' \in [Connections -> BOOLEAN]
    BY <2>1
  <2> QED
    BY <2>1, <2>2, <2>3
<1> QED
  BY <1>1, <1>2

LEMMA FrameType ==
  ASSUME TypeOK, NEW c \in Connections, NEW frame \in Frames, HandleFrame(c, frame)
  PROVE  /\ phase' \in [Connections -> Phases] /\ connection' \in [Connections -> BOOLEAN]
         /\ pendingBatch' \in [Connections -> Nat] /\ awaiting' \in [Connections -> Waits]
<1>t. /\ phase \in [Connections -> Phases] /\ connection \in [Connections -> BOOLEAN]
      /\ pendingBatch \in [Connections -> Nat] /\ awaiting \in [Connections -> Waits]
  BY DEF TypeOK
<1>1. CASE RefuseEncryption(c, frame)
  BY <1>t, <1>1 DEF RefuseEncryption, KeepWaiting
<1>2. CASE CancelRequest(c, frame)
  BY <1>t, <1>2 DEF CancelRequest, KeepWaiting, Phases
<1>3. CASE Startup(c, frame)
  <2>1. CASE Fail(c) /\ KeepWaiting
    BY <1>t, <2>1, FailType DEF KeepWaiting
  <2>2. CASE ~Fail(c)
    BY <1>t, <1>3, <2>2 DEF Startup, Forward, KeepWaiting, Phases, Waits
  <2> QED
    BY <1>t, <1>3, <2>1, <2>2, FailType DEF Startup, Forward, KeepWaiting, Phases, Waits
<1>4. CASE Password(c, frame)
  BY <1>t, <1>4 DEF Password, Forward, Phases, Waits
<1>5. CASE Terminate(c, frame)
  BY <1>t, <1>5 DEF Terminate, ReleaseConnection, Phases, Waits
<1>6. CASE Batch(c, frame)
  <2>1. pendingBatch[c] + Size(frame) \in Nat
    BY <1>t, WireAssumption DEF Size
  <2> QED
    BY <1>t, <1>6, <2>1 DEF Batch, KeepWaiting
<1>7. CASE EndSequence(c, frame)
  BY <1>t, <1>7 DEF EndSequence, Forward, Waits
<1>8. CASE Violation(c, frame)
  BY <1>t, <1>8, FailType DEF Violation, KeepWaiting
<1> QED
  BY <1>1, <1>2, <1>3, <1>4, <1>5, <1>6, <1>7, <1>8 DEF HandleFrame

LEMMA PauseType ==
  ASSUME TypeOK, NEW c \in Connections, NEW frames, NEW absent,
         ApplyReadBackpressure(c, frames, absent)
  PROVE  isReadPaused' \in [Connections -> BOOLEAN]
  BY DEF TypeOK, ApplyReadBackpressure, ShouldPause, HoldsCompleteFrame

LEMMA StepType ==
  ASSUME TypeOK, [Next]_vars
  PROVE  TypeOK'
<1> USE DEF TypeOK
<1>1. ASSUME NEW c \in Connections, Data(c) PROVE TypeOK'
  <2>1. input[c] \in Seq(Frames) /\ buffer[c] \in Seq(Frames) /\ missing[c] \in Nat
    OBVIOUS
  <2>2. CASE missing[c] > 0
    <3>1. missing[c] - 1 \in Nat
      BY <2>1, <2>2
    <3>2. /\ buffer' = [buffer EXCEPT ![c] = buffer[c]]
          /\ missing' = [missing EXCEPT ![c] = missing[c] - 1]
          /\ input' = [input EXCEPT ![c] = @]
      BY <1>1, <2>2 DEF Data
    <3>3. buffer' \in [Connections -> Seq(Frames)] /\ missing' \in [Connections -> Nat]
          /\ input' \in [Connections -> Seq(Frames)]
      BY <3>1, <3>2
    <3> QED
      BY <1>1, <3>3, PauseType DEF Data, HoldsCompleteFrame
  <2>3. CASE ~(missing[c] > 0)
    <3>1. Head(input[c]) \in Frames /\ Tail(input[c]) \in Seq(Frames)
      BY <1>1, <2>1, <2>3 DEF Data
    <3>2. Size(Head(input[c])) - 1 \in Nat
      BY WireAssumption DEF Size
    <3>3. /\ buffer' = [buffer EXCEPT ![c] = Append(buffer[c], Head(input[c]))]
          /\ missing' = [missing EXCEPT ![c] = Size(Head(input[c])) - 1]
          /\ input' = [input EXCEPT ![c] = Tail(@)]
      BY <1>1, <2>3 DEF Data
    <3>4. Append(buffer[c], Head(input[c])) \in Seq(Frames)
      BY <2>1, <3>1
    <3>5. buffer' \in [Connections -> Seq(Frames)] /\ missing' \in [Connections -> Nat]
          /\ input' \in [Connections -> Seq(Frames)]
      BY <3>1, <3>2, <3>3, <3>4
    <3> QED
      BY <1>1, <3>5, PauseType DEF Data, HoldsCompleteFrame
  <2> QED
    BY <2>2, <2>3
<1>2. ASSUME NEW c \in Connections, ProcessFrame(c) PROVE TypeOK'
  <2>1. buffer[c] \in Seq(Frames) /\ buffer[c] # <<>>
    BY <1>2 DEF ProcessFrame, HoldsCompleteFrame
  <2>2. Head(buffer[c]) \in Frames /\ Tail(buffer[c]) \in Seq(Frames)
    BY <2>1
  <2>3. HandleFrame(c, Head(buffer[c]))
    BY <1>2 DEF ProcessFrame
  <2>4. /\ phase' \in [Connections -> Phases] /\ connection' \in [Connections -> BOOLEAN]
        /\ pendingBatch' \in [Connections -> Nat] /\ awaiting' \in [Connections -> Waits]
    BY <2>2, <2>3, FrameType
  <2> QED
    BY <1>2, <2>2, <2>4 DEF ProcessFrame
<1>3. ASSUME NEW c \in Connections, EndProcessing(c) PROVE TypeOK'
  BY <1>3, PauseType DEF EndProcessing
<1>4. ASSUME NEW c \in Connections, ForwardSettles(c) PROVE TypeOK'
  <2>1. /\ phase' \in [Connections -> Phases] /\ connection' \in [Connections -> BOOLEAN]
        /\ pendingBatch' \in [Connections -> Nat]
    BY <1>4, FailType DEF ForwardSettles
  <2> QED
    BY <1>4, <2>1 DEF ForwardSettles, Waits
<1>5. ASSUME NEW c \in Connections, ReleaseSettles(c) PROVE TypeOK'
  BY <1>5 DEF ReleaseSettles, Waits
<1>6. ASSUME NEW c \in Connections, SocketCloses(c) PROVE TypeOK'
  BY <1>6 DEF SocketCloses, ReleaseConnection, Phases
<1>7. CASE QueueStep
  BY <1>7 DEF QueueStep
<1>8. CASE UNCHANGED vars
  BY <1>8 DEF vars
<1> QED
  BY <1>1, <1>2, <1>3, <1>4, <1>5, <1>6, <1>7, <1>8 DEF Next

(* A closed connection stays closed.                                         *)
LEMMA FailCloses ==
  ASSUME UseInv, NEW c \in Connections, Fail(c) \/ ReleaseConnection(c)
  PROVE  \A d \in Connections : phase[d] = "closed" => phase'[d] = "closed"
  BY DEF UseInv, Fail, ReleaseConnection

(* Reads are paused by the handler that will look at them again.             *)
LEMMA StepPaused ==
  ASSUME TypeOK, UseInv, PausedIsProcessing, [Next]_vars
  PROVE  PausedIsProcessing'
<1> USE DEF PausedIsProcessing
<1>t. /\ isReadPaused \in [Connections -> BOOLEAN] /\ isProcessing \in [Connections -> BOOLEAN]
      /\ phase \in [Connections -> Phases]
  BY DEF TypeOK
<1>1. ASSUME NEW c \in Connections, Data(c) PROVE PausedIsProcessing'
  BY <1>t, <1>1 DEF Data, ApplyReadBackpressure, ShouldPause
<1>2. ASSUME NEW c \in Connections, ProcessFrame(c) PROVE PausedIsProcessing'
  <2>1. isProcessing[c] /\ phase[c] # "closed" /\ UNCHANGED <<isProcessing, isReadPaused>>
    BY <1>2 DEF ProcessFrame, LoopReady
  <2>2. \A d \in Connections \ {c} : phase'[d] = phase[d]
    BY <1>t, <1>2 DEF ProcessFrame, HandleFrame, RefuseEncryption, CancelRequest, Startup,
                      Password, Terminate, Batch, EndSequence, Violation, Fail, ReleaseConnection
  <2> QED
    BY <2>1, <2>2
<1>3. ASSUME NEW c \in Connections, EndProcessing(c) PROVE PausedIsProcessing'
  BY <1>t, <1>3 DEF EndProcessing, ApplyReadBackpressure, ShouldPause
<1>4. ASSUME NEW c \in Connections, ForwardSettles(c) PROVE PausedIsProcessing'
  BY <1>4, FailCloses DEF ForwardSettles
<1>5. ASSUME NEW c \in Connections, ReleaseSettles(c) PROVE PausedIsProcessing'
  BY <1>5 DEF ReleaseSettles
<1>6. ASSUME NEW c \in Connections, SocketCloses(c) PROVE PausedIsProcessing'
  BY <1>6, FailCloses DEF SocketCloses
<1>7. CASE QueueStep
  BY <1>7 DEF QueueStep
<1>8. CASE UNCHANGED vars
  BY <1>8 DEF vars
<1> QED
  BY <1>1, <1>2, <1>3, <1>4, <1>5, <1>6, <1>7, <1>8 DEF Next

LEMMA InitWire == Init => WireInv
<1> SUFFICES ASSUME Init PROVE WireInv
  OBVIOUS
<1>1. input \in [Connections -> Seq(Frames)]
  BY WireAssumption DEF Init
<1>2. TypeOK
  BY <1>1 DEF Init, TypeOK, Phases, Waits
<1>3. \A c \in Connections : AtBackend(c) = {} /\ ClientMessages(c) = {}
  BY DEF Init, Queue!Init, AtBackend, ClientMessages
<1>4. BackendInv
  BY <1>3 DEF Init, Queue!Init, BackendInv
<1> QED
  BY <1>2, <1>4, InitUse DEF Init, WireInv, PausedIsProcessing

LEMMA WireInvImplies == WireInv => WireInvariant
<1> SUFFICES ASSUME WireInv PROVE WireInvariant
  OBVIOUS
<1>1. ASSUME NEW c \in Connections PROVE Cardinality(ClientMessages(c)) <= 1
  <2>1. CASE ClientMessages(c) = {}
    BY <2>1, FS_EmptySet
  <2>2. CASE ClientMessages(c) # {}
    <3>1. PICK m \in ClientMessages(c) : TRUE
      BY <2>2
    <3>2. ClientMessages(c) = {m}
      BY <3>1 DEF WireInv, BackendInv
    <3>3. Cardinality({m}) = 1
      BY FS_Singleton, Zenon
    <3> QED
      BY <3>2, <3>3
  <2> QED
    BY <2>1, <2>2
<1>2. OneMessageAtATime
  BY <1>1 DEF OneMessageAtATime, ClientMessages
<1>3. ClosedIsDetached
  <2>1. ASSUME NEW c \in Connections, connection[c]
        PROVE  phase[c] \in {"password", "streaming"} /\ c \in attached
    BY <2>1 DEF WireInv, UseInv
  <2>2. ASSUME NEW c \in Connections, phase[c] = "closed", lastRun[c] > 0
        PROVE  c \notin attached
    <3>1. ~connection[c]
      BY <2>1, <2>2
    <3> QED
      BY <2>2, <3>1 DEF WireInv, BackendInv
  <2> QED
    BY <2>1, <2>2 DEF ClosedIsDetached
<1> QED
  BY <1>2, <1>3 DEF WireInv, WireInvariant

(* For any clients and whatever they write: one message of a connection at a *)
(* time, none of a connection that closed, and reads that are paused will be *)
(* resumed.                                                                  *)
THEOREM WireIsSound == Spec => []WireInvariant
<1>1. WireInv /\ [Next]_vars => WireInv'
  BY StepType, StepUse, StepBackend, StepPaused DEF WireInv
<1> QED
  BY <1>1, InitWire, WireInvImplies, PTL DEF Spec
=============================================================================
