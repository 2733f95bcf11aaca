----------------------------- MODULE WireServer -----------------------------
(***************************************************************************)
(* PostgresWireServer (shared/postgres-data-plane/postgres-wire-server.ts):  *)
(* the TCP front of one embedded database, composed with the session queue   *)
(* its connections share.                                                    *)
(*                                                                           *)
(* Bytes.  A client writes the frames of its script, each in Size(frame)     *)
(* chunks of at least a header.  Frames are what the server tells apart:     *)
(* "ssl", "cancel", "startup", "malformed" before authentication;            *)
(* "password" and "wrong" as passwords; "query" and "bulk" (a frame bigger   *)
(* than the read threshold) as messages that end a sequence, "parse" as an   *)
(* extended-query frame that does not; "terminate"; "badlength".             *)
(*                                                                           *)
(* Steps.  Waits end a step: enqueue() until the backend answered, detach()  *)
(* until the ROLLBACK ran.  resolveConnection() reads a map and storage,     *)
(* which complete in the microtask queue, so a startup frame is one step.    *)
(* Each turn of processBuffered()'s loop is a step.                          *)
(***************************************************************************)
EXTENDS Integers, Sequences, FiniteSets

CONSTANTS
  Connections, NoConn, NoMessage, MaxTickets,  (* as in SessionQueue         *)
  Scripts,            (* the sequences of frames each client may write       *)
  BulkSize,           (* chunks of a "bulk" frame                            *)
  ReadPauseThreshold, (* READ_PAUSE_THRESHOLD, in chunks                     *)
  MaxPendingBatch     (* MAX_PENDING_BATCH_LENGTH, in chunks                 *)

Frames == {"ssl", "cancel", "startup", "malformed", "password", "wrong", "query",
           "bulk", "parse", "terminate", "badlength"}

VARIABLES
  pending, isDraining, detachedConnectionIds, transactionOwnerId, running,
  inTransaction, nextTicket, attached, opener, lastRun,  (* the queue        *)
  input,        (* what each client has still to write                       *)
  phase,        (* ConnectionState.phase                                     *)
  buffer,       (* frames in ConnectionState.buffer, the last may be partial *)
  missing,      (* chunks of that last frame still to arrive                 *)
  pendingBatch, (* chunks in ConnectionState.pendingBatch                    *)
  isProcessing, (* ConnectionState.isProcessing                              *)
  isReadPaused, (* ConnectionState.isReadPaused                              *)
  connection,   (* ConnectionState.connection # null                         *)
  awaiting,     (* what processBuffered() awaits                             *)
  gone          (* the socket's close event was delivered                    *)

Queue == INSTANCE SessionQueue

ASSUME WireAssumption ==
  /\ NoConn \notin Connections /\ NoMessage \notin Queue!Messages /\ MaxTickets \in Nat
  /\ Scripts \in [Connections -> SUBSET Seq(Frames)]
  /\ BulkSize \in Nat \ {0} /\ ReadPauseThreshold \in Nat /\ MaxPendingBatch \in Nat

queueVars == <<pending, isDraining, detachedConnectionIds, transactionOwnerId, running,
               inTransaction, nextTicket, attached, opener, lastRun>>
vars == <<queueVars, input, phase, buffer, missing, pendingBatch, isProcessing,
          isReadPaused, connection, awaiting, gone>>

Phases == {"startup", "password", "streaming", "closed"}
Waits == {"nothing", "forward", "release"}

-----------------------------------------------------------------------------

Init ==
  /\ Queue!Init
  /\ input \in [Connections -> UNION {Scripts[c] : c \in Connections}]
  /\ \A c \in Connections : input[c] \in Scripts[c]
  /\ phase = [c \in Connections |-> "startup"]
  /\ buffer = [c \in Connections |-> <<>>]
  /\ missing = [c \in Connections |-> 0]
  /\ pendingBatch = [c \in Connections |-> 0]
  /\ isProcessing = [c \in Connections |-> FALSE]
  /\ isReadPaused = [c \in Connections |-> FALSE]
  /\ connection = [c \in Connections |-> FALSE]
  /\ awaiting = [c \in Connections |-> "nothing"]
  /\ gone = [c \in Connections |-> FALSE]

Size(frame) == IF frame = "bulk" THEN BulkSize ELSE 1

HoldsCompleteFrame(frames, absent) ==
  frames # <<>> /\ (Len(frames) > 1 \/ absent = 0)

(* Lengths of frames: enough to compare with the threshold.                  *)
Bulks(frames) == Cardinality({i \in DOMAIN frames : frames[i] = "bulk"})
BufferLength(frames, absent) ==
  Len(frames) + Bulks(frames) * (BulkSize - 1) - absent

ShouldPauseOnSize(frames, absent) ==  \* mutant: the size alone decides
  BufferLength(frames, absent) >= ReadPauseThreshold

ShouldPause(frames, absent) ==
  /\ BufferLength(frames, absent) >= ReadPauseThreshold
  /\ HoldsCompleteFrame(frames, absent)

(* applyReadBackpressure(): nothing on a closed connection.                  *)
ApplyReadBackpressure(c, frames, absent) ==
  isReadPaused' = [isReadPaused EXCEPT ![c] =
                     IF phase[c] = "closed" THEN @ ELSE ShouldPause(frames, absent)]

(* The data callback: append, apply back-pressure, enter processBuffered()   *)
(* unless it is at work already; with no complete frame it returns at once.  *)
Data(c) ==
  /\ ~gone[c] /\ ~isReadPaused[c]
  /\ missing[c] > 0 \/ input[c] # <<>>
  /\ LET frames == IF missing[c] > 0 THEN buffer[c] ELSE Append(buffer[c], Head(input[c]))
         absent == IF missing[c] > 0 THEN missing[c] - 1 ELSE Size(Head(input[c])) - 1
     IN /\ buffer' = [buffer EXCEPT ![c] = frames]
        /\ missing' = [missing EXCEPT ![c] = absent]
        /\ ApplyReadBackpressure(c, frames, absent)
        /\ isProcessing' = [isProcessing EXCEPT ![c] =
             @ \/ (phase[c] # "closed" /\ HoldsCompleteFrame(frames, absent))]
  /\ input' = [input EXCEPT ![c] = IF missing[c] > 0 THEN @ ELSE Tail(@)]
  /\ UNCHANGED <<queueVars, phase, pendingBatch, connection, awaiting, gone>>

ReleaseKeepingConnection(c) ==  \* mutant: state.connection is not cleared
  /\ phase' = [phase EXCEPT ![c] = "closed"]
  /\ UNCHANGED connection
  /\ IF connection[c] THEN Queue!CallDetach(c) ELSE UNCHANGED queueVars

(* releaseConnection(), up to its wait for the ROLLBACK.                     *)
ReleaseConnection(c) ==
  /\ phase' = [phase EXCEPT ![c] = "closed"]
  /\ connection' = [connection EXCEPT ![c] = FALSE]
  /\ IF connection[c] THEN Queue!CallDetach(c) ELSE UNCHANGED queueVars

Fail(c) ==
  IF phase[c] = "closed" THEN UNCHANGED <<queueVars, phase, pendingBatch, connection>>
  ELSE /\ pendingBatch' = [pendingBatch EXCEPT ![c] = 0]
       /\ ReleaseConnection(c)

(* forward(): the message goes to the queue and processBuffered() waits.     *)
Forward(c) ==
  /\ nextTicket < MaxTickets
  /\ Queue!CallEnqueue(c)
  /\ awaiting' = [awaiting EXCEPT ![c] = "forward"]

KeepWaiting == UNCHANGED awaiting

-----------------------------------------------------------------------------
(* handleFrame(), by phase and kind of frame.                                *)

(* TLS and GSS encryption are refused: the client goes on in plaintext.      *)
RefuseEncryption(c, frame) ==
  /\ phase[c] = "startup" /\ frame = "ssl"
  /\ KeepWaiting
  /\ UNCHANGED <<queueVars, phase, pendingBatch, connection>>

CancelRequest(c, frame) ==
  /\ phase[c] = "startup" /\ frame = "cancel"
  /\ phase' = [phase EXCEPT ![c] = "closed"]
  /\ KeepWaiting
  /\ UNCHANGED <<queueVars, pendingBatch, connection>>

(* resolveConnection() refuses, asks for a password, or lets in at once.     *)
Startup(c, frame) ==
  /\ phase[c] = "startup" /\ frame = "startup"
  /\ \/ Fail(c) /\ KeepWaiting
     \/ /\ connection' = [connection EXCEPT ![c] = TRUE]
        /\ phase' = [phase EXCEPT ![c] = "password"]
        /\ KeepWaiting
        /\ UNCHANGED <<queueVars, pendingBatch>>
     \/ /\ connection' = [connection EXCEPT ![c] = TRUE]
        /\ phase' = [phase EXCEPT ![c] = "streaming"]
        /\ Forward(c)
        /\ UNCHANGED pendingBatch

(* The client's own startup packet is forwarded once the password matches.   *)
Password(c, frame) ==
  /\ phase[c] = "password" /\ frame = "password"
  /\ phase' = [phase EXCEPT ![c] = "streaming"]
  /\ Forward(c)
  /\ UNCHANGED <<pendingBatch, connection>>

Terminate(c, frame) ==
  /\ phase[c] = "streaming" /\ frame = "terminate"
  /\ pendingBatch' = [pendingBatch EXCEPT ![c] = 0]
  /\ ReleaseConnection(c)
  /\ awaiting' = [awaiting EXCEPT ![c] = "release"]

Batch(c, frame) ==
  /\ phase[c] = "streaming" /\ frame = "parse"
  /\ pendingBatch[c] + Size(frame) <= MaxPendingBatch
  /\ pendingBatch' = [pendingBatch EXCEPT ![c] = @ + Size(frame)]
  /\ KeepWaiting
  /\ UNCHANGED <<queueVars, phase, connection>>

(* Any other frame ends the sequence: the batch and it go to the backend.    *)
EndSequence(c, frame) ==
  /\ phase[c] = "streaming" /\ frame \notin {"terminate", "parse", "badlength"}
  /\ pendingBatch[c] + Size(frame) <= MaxPendingBatch
  /\ pendingBatch' = [pendingBatch EXCEPT ![c] = 0]
  /\ Forward(c)
  /\ UNCHANGED <<phase, connection>>

(* Protocol violations: a bad length, a malformed startup packet, something  *)
(* else than the password or not the right one, a sequence that is too long. *)
Violation(c, frame) ==
  /\ \/ frame = "badlength"
     \/ phase[c] = "startup" /\ frame \notin {"ssl", "cancel", "startup"}
     \/ phase[c] = "password" /\ frame # "password"
     \/ /\ phase[c] = "streaming" /\ frame # "terminate"
        /\ pendingBatch[c] + Size(frame) > MaxPendingBatch
  /\ Fail(c)
  /\ KeepWaiting

HandleFrame(c, frame) ==
  \/ RefuseEncryption(c, frame)
  \/ CancelRequest(c, frame)
  \/ Startup(c, frame)
  \/ Password(c, frame)
  \/ Terminate(c, frame)
  \/ Batch(c, frame)
  \/ EndSequence(c, frame)
  \/ Violation(c, frame)

-----------------------------------------------------------------------------

LoopUnguarded(c) == ~gone[c]  \* mutant: processBuffered() without isProcessing

(* processBuffered() is between two frames.                                  *)
LoopReady(c) == isProcessing[c] /\ awaiting[c] = "nothing"

(* One turn of the loop.                                                     *)
ProcessFrame(c) ==
  /\ LoopReady(c)
  /\ phase[c] # "closed"
  /\ HoldsCompleteFrame(buffer[c], missing[c])
  /\ HandleFrame(c, Head(buffer[c]))
  /\ buffer' = [buffer EXCEPT ![c] = Tail(@)]
  /\ UNCHANGED <<input, missing, isProcessing, isReadPaused, gone>>

(* The end of the loop and its finally block.                                *)
EndProcessing(c) ==
  /\ LoopReady(c)
  /\ phase[c] = "closed" \/ ~HoldsCompleteFrame(buffer[c], missing[c])
  /\ isProcessing' = [isProcessing EXCEPT ![c] = FALSE]
  /\ ApplyReadBackpressure(c, buffer[c], missing[c])
  /\ UNCHANGED <<queueVars, input, phase, buffer, missing, pendingBatch, connection,
                 awaiting, gone>>

AtBackend(c) ==
  {m \in pending \cup ({running} \ {NoMessage}) : m.conn = c}

(* The awaited message was answered, or rejected by the backend or by        *)
(* detach(): forward() then fails the connection.                            *)
ForwardSettles(c) ==
  /\ awaiting[c] = "forward"
  /\ {m \in AtBackend(c) : m.kind = "client"} = {}
  /\ awaiting' = [awaiting EXCEPT ![c] = "nothing"]
  /\ Fail(c) \/ UNCHANGED <<queueVars, phase, pendingBatch, connection>>
  /\ UNCHANGED <<input, buffer, missing, isProcessing, isReadPaused, gone>>

ReleaseSettles(c) ==
  /\ awaiting[c] = "release"
  /\ AtBackend(c) = {}
  /\ awaiting' = [awaiting EXCEPT ![c] = "nothing"]
  /\ UNCHANGED <<queueVars, input, phase, buffer, missing, pendingBatch, isProcessing,
                 isReadPaused, connection, gone>>

(* The close or error callback; a client may vanish at any time.             *)
SocketCloses(c) ==
  /\ ~gone[c]
  /\ gone' = [gone EXCEPT ![c] = TRUE]
  /\ ReleaseConnection(c)
  /\ UNCHANGED <<input, buffer, missing, pendingBatch, isProcessing, isReadPaused,
                 awaiting>>

QueueStep ==
  /\ Queue!ResumeDrain \/ \E after \in BOOLEAN : Queue!FinishRun(after)
  /\ UNCHANGED <<input, phase, buffer, missing, pendingBatch, isProcessing,
                 isReadPaused, connection, awaiting, gone>>

Next ==
  \/ \E c \in Connections :
       \/ Data(c)
       \/ ProcessFrame(c)
       \/ EndProcessing(c)
       \/ ForwardSettles(c)
       \/ ReleaseSettles(c)
       \/ SocketCloses(c)
  \/ QueueStep

(* The event loop runs what is ready and the backend answers; clients may    *)
(* write or not, and hang up or not.                                         *)
Fairness ==
  /\ WF_vars(QueueStep)
  /\ \A c \in Connections :
       /\ WF_vars(ProcessFrame(c))
       /\ WF_vars(EndProcessing(c))
       /\ WF_vars(ForwardSettles(c))
       /\ WF_vars(ReleaseSettles(c))

Spec == Init /\ [][Next]_vars
FairSpec == Spec /\ Fairness

-----------------------------------------------------------------------------

TypeOK ==
  /\ input \in [Connections -> Seq(Frames)]
  /\ phase \in [Connections -> Phases]
  /\ buffer \in [Connections -> Seq(Frames)]
  /\ missing \in [Connections -> Nat]
  /\ pendingBatch \in [Connections -> Nat]
  /\ isProcessing \in [Connections -> BOOLEAN]
  /\ isReadPaused \in [Connections -> BOOLEAN]
  /\ connection \in [Connections -> BOOLEAN]
  /\ awaiting \in [Connections -> Waits]
  /\ gone \in [Connections -> BOOLEAN]

(* A connection has at most one message at the backend (processBuffered's    *)
(* comment, lines 289-296): pipelined frames wait in its buffer.             *)
OneMessageAtATime ==
  \A c \in Connections :
    Cardinality({m \in AtBackend(c) : m.kind = "client"}) <= 1

(* Whichever way a connection ends (terminate, violation, backend error,     *)
(* close event, and close events after each of them), the queue is told once:*)
(* one that is closed is detached if it ever reached the backend, and the    *)
(* queue is used only by connections that are attached.                      *)
ClosedIsDetached ==
  \A c \in Connections :
    /\ connection[c] => phase[c] \in {"password", "streaming"} /\ c \in attached
    /\ phase[c] = "closed" /\ lastRun[c] > 0 => c \notin attached

(* Reads are paused only while processBuffered() is at work, and so will be  *)
(* resumed (lines 326-333): in particular not while a frame larger than the  *)
(* threshold is still arriving.                                              *)
PausedIsProcessing ==
  \A c \in Connections :
    isReadPaused[c] /\ phase[c] # "closed" => isProcessing[c]

(* The server uses the queue as the queue expects: every step is a step of   *)
(* SessionQueue, whose callers detach once and enqueue nothing afterwards.   *)
UsesSessionQueue == Queue!Spec

(* Whatever a client that hung up was doing, its transaction is rolled back. *)
HangUpReleases ==
  \A c \in Connections : gone[c] ~> opener # c

(* Frames that arrived are handled and reads resume, unless another live     *)
(* client keeps its transaction open for ever.                               *)
Served(c) ==
  \/ phase[c] = "closed"
  \/ ~HoldsCompleteFrame(buffer[c], missing[c]) /\ ~isReadPaused[c]
FramesAreServed ==
  \A c \in Connections : []<>~Queue!HeldBack(c) => []<>Served(c)

(* A connection of the wire server between its callbacks: one message at a   *)
(* time, reads paused only by a handler that resumes them, and a connection  *)
(* that closed has left the session queue.                                   *)
WireInvariant ==
  TypeOK /\ OneMessageAtATime /\ ClosedIsDetached /\ PausedIsProcessing

(* Clients that stay are answered, and those that hang up are cleaned up.    *)
ClientsAreServed == FramesAreServed /\ HangUpReleases
=============================================================================
