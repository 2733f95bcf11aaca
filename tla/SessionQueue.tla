---------------------------- MODULE SessionQueue ----------------------------
(***************************************************************************)
(* PGliteSessionQueue (shared/postgres-data-plane/pglite-session-queue.ts):  *)
(* the per-database serialiser that lets several client connections share    *)
(* one embedded Postgres backend.                                            *)
(*                                                                           *)
(* Abstractions.  A protocol message is [conn, kind, ticket]: its bytes      *)
(* are irrelevant, only whether it is a client's message or the queue's      *)
(* own ROLLBACK.  The array `pending` is a set ordered by `ticket`, the      *)
(* position at which push() appended the message, so that filter() is a      *)
(* set filter and findIndex() picks the least ticket.  Whatever a client's   *)
(* message does to the backend, the queue learns only whether the backend    *)
(* is in a transaction afterwards, so a client message (successful or not)   *)
(* may leave it in either state.                                             *)
(*                                                                           *)
(* The code between two awaits is one action: enqueue() up to its return,    *)
(* detach() up to `await rolledBack`, drain() from one `await this.run` to   *)
(* the next.                                                                 *)
(***************************************************************************)
EXTENDS Integers, FiniteSets

CONSTANTS
  Connections,  (* identities of client connections; conn-<n> is never reused *)
  NoConn,       (* transactionOwnerId = null                                  *)
  NoMessage,    (* drain() is not awaiting run()                              *)
  MaxTickets    (* bound: client messages are enqueued below this ticket      *)

ASSUME ConnectionsAssumption == NoConn \notin Connections
ASSUME MaxTicketsAssumption  == MaxTickets \in Nat

Kinds == {"client", "rollback"}

Messages == [conn : Connections, kind : Kinds, ticket : Nat]

ASSUME NoMessageAssumption == NoMessage \notin Messages

VARIABLES
  pending,               (* QueuedMessage[]: queued and not yet running       *)
  isDraining,            (* a drain() loop is live                            *)
  detachedConnectionIds, (* vanished connections that may still own a BEGIN   *)
  transactionOwnerId,    (* connection whose transaction is open, or NoConn   *)
  running,               (* the message run() is awaiting, or NoMessage       *)
  inTransaction,         (* backend.isInTransaction()                         *)
  nextTicket,            (* number of messages ever pushed                    *)
  attached,              (* connections on which detach() was not called yet  *)
  opener,                (* history: connection whose message moved the       *)
                         (* backend into its present transaction              *)
  lastRun                (* history: ticket last run for each connection      *)

queueVars == <<pending, isDraining, detachedConnectionIds, transactionOwnerId,
               running, inTransaction, nextTicket>>
vars == <<queueVars, attached, opener, lastRun>>

-----------------------------------------------------------------------------

Init ==
  /\ pending = {}
  /\ isDraining = FALSE
  /\ detachedConnectionIds = {}
  /\ transactionOwnerId = NoConn
  /\ running = NoMessage
  /\ inTransaction = FALSE
  /\ nextTicket = 1
  /\ attached = Connections
  /\ opener = NoConn
  /\ lastRun = [c \in Connections |-> 0]

Message(c, kind) == [conn |-> c, kind |-> kind, ticket |-> nextTicket]

(* Mutant: any connection's message is admitted during a transaction.        *)
AdmissibleIgnoringOwner(queue, owner) == queue

(* Messages takeNextRunnableMessage() considers: all of them outside a       *)
(* transaction, the owner's inside one.                                      *)
Admissible(queue, owner) ==
  IF owner = NoConn THEN queue ELSE {m \in queue : m.conn = owner}

(* Mutant: the array is consumed from its end.                               *)
IsLast(m, S) == m \in S /\ \A n \in S : m.ticket >= n.ticket

IsFirst(m, S) == m \in S /\ \A n \in S : m.ticket <= n.ticket

(* One turn of drain()'s loop over the array `queue`: hand the first        *)
(* admissible message to the backend, or find none and return, clearing the *)
(* flag in the finally block.                                               *)
Drain(queue) ==
  LET runnable == Admissible(queue, transactionOwnerId) IN
  \/ /\ runnable = {}
     /\ pending' = queue
     /\ isDraining' = FALSE
     /\ UNCHANGED <<running, lastRun>>
  \/ \E m \in queue :
       /\ IsFirst(m, runnable)
       /\ pending' = queue \ {m}
       /\ isDraining' = TRUE
       /\ running' = m
       /\ lastRun' = [lastRun EXCEPT ![m.conn] = m.ticket]

(* enqueue(): push, then `void this.drain()`, which returns at once when a   *)
(* loop is live and otherwise takes its first message synchronously.         *)
Push(m, queue) ==
  /\ nextTicket' = nextTicket + 1
  /\ IF isDraining
     THEN /\ pending' = queue \cup {m}
          /\ UNCHANGED <<isDraining, running, lastRun>>
     ELSE Drain(queue \cup {m})

CallEnqueue(c) ==
  /\ Push(Message(c, "client"), pending)
  /\ UNCHANGED <<detachedConnectionIds, transactionOwnerId, inTransaction,
                 attached, opener>>

(* drain() goes on after `await this.run(next)`.                             *)
ResumeDrain ==
  /\ isDraining
  /\ running = NoMessage
  /\ Drain(pending)
  /\ UNCHANGED <<detachedConnectionIds, transactionOwnerId, inTransaction,
                 nextTicket, attached, opener>>

(* detach(): drop what the connection queued, remember it as gone, and roll  *)
(* back at once when it owns the open transaction.                           *)
CallDetach(c) ==
  /\ attached' = attached \ {c}
  /\ LET remaining == {m \in pending : m.conn # c} IN
       IF transactionOwnerId = c
       THEN /\ Push(Message(c, "rollback"), remaining)
            /\ detachedConnectionIds' = detachedConnectionIds \ {c}
       ELSE /\ pending' = remaining
            /\ detachedConnectionIds' = detachedConnectionIds \cup {c}
            /\ UNCHANGED <<nextTicket, isDraining, running, lastRun>>
  /\ UNCHANGED <<transactionOwnerId, inTransaction, opener>>

(* execProtocolRawStream (external): a ROLLBACK always leaves the backend    *)
(* outside a transaction, a client message leaves it in either state.        *)
Outcomes(m) == IF m.kind = "rollback" THEN {FALSE} ELSE BOOLEAN

(* Mutant: the owner is only ever set, never cleared.                        *)
FinishRunKeepingOwner(after) ==
  /\ running # NoMessage
  /\ after \in Outcomes(running)
  /\ running' = NoMessage
  /\ inTransaction' = after
  /\ transactionOwnerId' = IF after THEN running.conn ELSE transactionOwnerId
  /\ opener' = IF ~after THEN NoConn
               ELSE IF inTransaction THEN opener ELSE running.conn
  /\ UNCHANGED <<pending, nextTicket, detachedConnectionIds, isDraining,
                 attached, lastRun>>

(* Mutant: a transaction opened for a vanished connection is left open.      *)
FinishRunForgettingTheGone(after) ==
  /\ running # NoMessage
  /\ after \in Outcomes(running)
  /\ running' = NoMessage
  /\ inTransaction' = after
  /\ transactionOwnerId' = IF after THEN running.conn ELSE NoConn
  /\ opener' = IF ~after THEN NoConn
               ELSE IF inTransaction THEN opener ELSE running.conn
  /\ UNCHANGED <<pending, nextTicket, detachedConnectionIds, isDraining,
                 attached, lastRun>>

(* run() after the backend settled: the finally block recomputes the owner,  *)
(* and a transaction opened for a vanished connection is rolled back.  The   *)
(* drain loop is live here, so that ROLLBACK is only pushed.                 *)
FinishRun(after) ==
  LET c == running.conn
      orphaned == after /\ c \in detachedConnectionIds
  IN
  /\ running # NoMessage
  /\ after \in Outcomes(running)
  /\ running' = NoMessage
  /\ inTransaction' = after
  /\ transactionOwnerId' = IF after THEN c ELSE NoConn
  /\ opener' = IF ~after THEN NoConn ELSE IF inTransaction THEN opener ELSE c
  /\ IF orphaned
     THEN /\ pending' = pending \cup {Message(c, "rollback")}
          /\ nextTicket' = nextTicket + 1
          /\ detachedConnectionIds' = detachedConnectionIds \ {c}
     ELSE UNCHANGED <<pending, nextTicket, detachedConnectionIds>>
  /\ UNCHANGED <<isDraining, attached, lastRun>>

(* What the queue expects of its callers: a connection is detached once and  *)
(* enqueues nothing afterwards.                                              *)
Enqueue(c) == c \in attached /\ nextTicket < MaxTickets /\ CallEnqueue(c)
Detach(c) == c \in attached /\ CallDetach(c)

Next ==
  \/ \E c \in Connections : Enqueue(c)
  \/ \E c \in Connections : Detach(c)
  \/ ResumeDrain
  \/ \E after \in BOOLEAN : FinishRun(after)

(* The event loop resumes drain() whenever it can go on, and the embedded    *)
(* backend answers every message; clients owe nothing.                       *)
Fairness ==
  /\ WF_vars(ResumeDrain)
  /\ WF_vars(\E after \in BOOLEAN : FinishRun(after))

Spec == Init /\ [][Next]_vars
FairSpec == Spec /\ Fairness

-----------------------------------------------------------------------------

TypeOK ==
  /\ pending \in SUBSET Messages
  /\ isDraining \in BOOLEAN
  /\ detachedConnectionIds \in SUBSET Connections
  /\ transactionOwnerId \in Connections \cup {NoConn}
  /\ running \in Messages \cup {NoMessage}
  /\ inTransaction \in BOOLEAN
  /\ nextTicket \in Nat
  /\ attached \in SUBSET Connections
  /\ opener \in Connections \cup {NoConn}
  /\ lastRun \in [Connections -> Nat]

(* Transaction isolation (header comment, lines 10-15): a message that runs  *)
(* while a transaction is open belongs to the connection that opened it, so  *)
(* no other connection's statement and no vanished connection's ROLLBACK is  *)
(* executed inside somebody else's transaction.                              *)
TransactionIsolation ==
  (running # NoMessage /\ inTransaction) => running.conn = opener

(* A transaction whose connection is gone is on its way out: the connection's*)
(* last message is still running, or its ROLLBACK is queued or running       *)
(* (detach lines 110-116, run lines 180-189).                                *)
RollbackInFlight(c) ==
  \/ \E m \in pending : m.conn = c /\ m.kind = "rollback"
  \/ running # NoMessage /\ running.conn = c
NoOrphanTransaction ==
  (inTransaction /\ opener \notin attached) => RollbackInFlight(opener)

(* No lost wakeup: when no drain() loop is live, no queued message could run.*)
NoLostWakeup ==
  ~isDraining => running = NoMessage /\ Admissible(pending, transactionOwnerId) = {}

(* What is left of a connection after detach() returned is at most its       *)
(* ROLLBACK: nothing a vanished client asked for is executed later on.       *)
NothingQueuedForTheGone ==
  \A m \in pending : m.kind = "client" => m.conn \in attached

(* A connection's messages run in the order it sent them (enqueue appends,   *)
(* takeNextRunnableMessage takes the first match, detach only removes).      *)
PerConnectionOrder ==
  [][\A c \in Connections : lastRun'[c] >= lastRun[c]]_vars

(* A queued message is eventually settled, as long as live transactions of   *)
(* other connections do not last for ever.                                   *)
HasPending(c) == \E m \in pending : m.conn = c
HeldBack(c) == transactionOwnerId \in attached \ {c}
PendingIsServed ==
  \A c \in Connections : []<>~HeldBack(c) => (HasPending(c) ~> ~HasPending(c))

-----------------------------------------------------------------------------
(* The queue implements ExclusiveSessions: the backend's messages come from  *)
(* one connection at a time and a transaction belongs to one connection from *)
(* its first to its last message.                                            *)
Abstract ==
  INSTANCE ExclusiveSessions
    WITH holder    <- opener,
         executing <- IF running = NoMessage THEN NoConn ELSE running.conn,
         cleaning  <- running # NoMessage /\ running.kind = "rollback",
         alive     <- attached

ImplementsExclusiveSessions == Abstract!Spec

(* With its fairness: "blocking every other connection to this database      *)
(* forever" (detach's comment) cannot be the work of a connection that is    *)
(* gone, because its transaction is always rolled back in the end.           *)
ImplementsReclaiming == Abstract!LiveSpec

(* The session queue between its steps: no transaction without an owner who  *)
(* ends it, no wakeup lost, nothing of a vanished client left to run.        *)
QueueInvariant ==
  TypeOK /\ NoOrphanTransaction /\ NoLostWakeup /\ NothingQueuedForTheGone

(* What is queued is served, and what is left open is rolled back.           *)
SessionsProgress == PendingIsServed /\ ImplementsReclaiming
=============================================================================
