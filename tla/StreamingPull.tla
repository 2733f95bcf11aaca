--------------------------- MODULE StreamingPull ----------------------------
(***************************************************************************)
(* StreamingPull calls of Pub/Sub (pubsub-grpc-handlers.ts) and the shut-    *)
(* down of the program around them: shutdown() in index.ts stops Pub/Sub,    *)
(* and with it the streams and the push engine, and then the gRPC server.    *)
(* A poll pulls, writes and schedules the next poll in one step: what it     *)
(* waits for completes in the microtask queue.                               *)
(***************************************************************************)
EXTENDS Absent, Naturals, FiniteSets

CONSTANT Streams   (* bound: calls clients make                              *)

(* The variables of one streamingPull() closure, and whether the call is over*)
StreamRecords == [named : BOOLEAN, cancelled : BOOLEAN, paused : BOOLEAN, polls : {0, 1},
                  over : BOOLEAN]

ASSUME StreamAssumption == NoRow \notin StreamRecords

VARIABLES
  streams,      (* the calls made so far                                     *)
  stoppers,     (* activeStreamStoppers                                      *)
  pushBusy,     (* a tick of the push engine is waiting for an endpoint      *)
  stage,        (* shutdown(): "serving", "stopping" the push engine,        *)
                (* "draining" in tryShutdown(), "stopped"                    *)
  forced        (* forceShutdown() was called                                *)

streamVars == <<streams, stoppers, pushBusy, stage, forced>>

StreamInit ==
  /\ streams = [s \in Streams |-> NoRow]
  /\ stoppers = {}
  /\ pushBusy \in BOOLEAN
  /\ stage = "serving" /\ forced = FALSE

IsOpen(s) == streams[s] # NoRow /\ ~streams[s].over
StageKept == UNCHANGED <<pushBusy, stage, forced>>

-----------------------------------------------------------------------------
OpenStream(s) ==
  /\ stage \in {"serving", "stopping"} /\ streams[s] = NoRow
  /\ streams' = [streams EXCEPT ![s] = [named |-> FALSE, cancelled |-> FALSE, paused |-> FALSE,
                                        polls |-> 0, over |-> FALSE]]
  /\ stoppers' = stoppers \cup {s}
  /\ StageKept

(* scheduleNextPoll()                                                        *)
Scheduled(call) ==
  IF call.cancelled \/ call.paused THEN call ELSE [call EXCEPT !.polls = @ + 1]

(* stopPolling(), and the end of the call.                                   *)
StoppedCall(call) == [call EXCEPT !.cancelled = TRUE, !.polls = 0, !.over = TRUE]

(* The stream fails (the "error" listener deletes the stopper), is cancelled *)
(* by the client, or half-closed by it.                                      *)
StreamEnds(s) ==
  /\ streams' = [streams EXCEPT ![s] = StoppedCall(@)]
  /\ stoppers' = stoppers \ {s}

(* The first request names the subscription, with a valid deadline; or not.  *)
FirstRequest(s) ==
  /\ IsOpen(s) /\ ~streams[s].named
  /\ \/ /\ streams' = [streams EXCEPT ![s] = Scheduled([@ EXCEPT !.named = TRUE])]
        /\ UNCHANGED stoppers
     \/ StreamEnds(s)
  /\ StageKept

(* A later request that names one; requests with ackIds change nothing here. *)
NamesAgain(s) == IsOpen(s) /\ streams[s].named /\ StreamEnds(s) /\ StageKept

ClientLeaves(s) == IsOpen(s) /\ StreamEnds(s) /\ StageKept

(* Its timer has fired; write() may find the buffer full.                    *)
Polled(call, full) == [call EXCEPT !.polls = @ - 1, !.paused = full]

(* pollMessages(): nothing pulled, or written; a full buffer pauses the loop;*)
(* a pull that throws ends the stream.                                       *)
PollMessages(s) ==
  /\ IsOpen(s) /\ streams[s].polls > 0
  /\ \/ \E full \in BOOLEAN :
          /\ streams' = [streams EXCEPT ![s] = Scheduled(Polled(@, full))]
          /\ UNCHANGED stoppers
     \/ StreamEnds(s)
  /\ StageKept

DrainForgets(s) ==  \* mutant: resumes, but nothing polls any more
  /\ IsOpen(s) /\ streams[s].paused
  /\ streams' = [streams EXCEPT ![s].paused = FALSE]
  /\ UNCHANGED stoppers
  /\ StageKept

(* "drain": the client reads again.                                          *)
Drain(s) ==
  /\ IsOpen(s) /\ streams[s].paused
  /\ streams' = [streams EXCEPT ![s] = Scheduled([@ EXCEPT !.paused = FALSE])]
  /\ UNCHANGED stoppers
  /\ StageKept

-----------------------------------------------------------------------------
PushGoesOn ==
  /\ stage = "serving" /\ pushBusy' = ~pushBusy
  /\ UNCHANGED <<streams, stoppers, stage, forced>>

(* stopActiveStreams()                                                       *)
StopActiveStreams ==
  /\ streams' = [s \in Streams |-> IF s \in stoppers THEN StoppedCall(streams[s]) ELSE streams[s]]
  /\ stoppers' = {}

(* shutdown() up to deliveryEngine.stop(), if that waits for a tick, or else *)
(* up to tryShutdown().                                                      *)
ShutdownBegins ==
  /\ stage = "serving" /\ stage' = IF pushBusy THEN "stopping" ELSE "draining"
  /\ StopActiveStreams
  /\ UNCHANGED <<pushBusy, forced>>

PushEngineStops ==
  /\ stage = "stopping" /\ stage' = "draining" /\ pushBusy' = FALSE
  /\ UNCHANGED <<streams, stoppers, forced>>

(* tryShutdown() calls back once every call is over.                         *)
Drained ==
  /\ stage = "draining" /\ \A s \in Streams : ~IsOpen(s)
  /\ stage' = "stopped"
  /\ UNCHANGED <<streams, stoppers, pushBusy, forced>>

(* After five seconds it is forced, which ends the calls as a cancellation.  *)
ForceShutdown ==
  /\ stage = "draining" /\ \E s \in Streams : IsOpen(s)
  /\ stage' = "stopped" /\ forced' = TRUE
  /\ streams' = [s \in Streams |-> IF IsOpen(s) THEN StoppedCall(streams[s]) ELSE streams[s]]
  /\ stoppers' = {}
  /\ UNCHANGED pushBusy

StreamSteps ==
  \E s \in Streams : \/ OpenStream(s) \/ FirstRequest(s) \/ NamesAgain(s) \/ ClientLeaves(s)
                     \/ PollMessages(s) \/ Drain(s)

StreamNext ==
  \/ StreamSteps
  \/ PushGoesOn
  \/ ShutdownBegins \/ PushEngineStops \/ Drained \/ ForceShutdown

StreamSpec == StreamInit /\ [][StreamNext]_streamVars

-----------------------------------------------------------------------------

StreamTypeOK ==
  /\ streams \in [Streams -> StreamRecords \cup {NoRow}]
  /\ stoppers \subseteq Streams
  /\ pushBusy \in BOOLEAN /\ forced \in BOOLEAN
  /\ stage \in {"serving", "stopping", "draining", "stopped"}

(* An open stream that named its subscription polls, and with one timer only,*)
(* unless it waits for its client to read; a closed one has no timer left.   *)
OnePollPerStream ==
  \A s \in Streams : streams[s] # NoRow =>
    streams[s].polls = IF IsOpen(s) /\ streams[s].named /\ ~streams[s].paused THEN 1 ELSE 0

(* shutdown() can stop every stream that is open, and no closed one is kept  *)
(* in activeStreamStoppers.                                                  *)
StoppersAreTheOpen == stoppers = {s \in Streams : IsOpen(s)}

(* A shutdown ends, whatever clients do to their streams meanwhile.          *)
ShutdownEnds == stage # "serving" ~> stage = "stopped"

(* "Stop Pub/Sub streaming calls before the gRPC server so that tryShutdown()*)
(* is not blocked by open StreamingPull RPCs" (index.ts lines 410-411).      *)
DrainIsNotBlocked == stage = "draining" => \A s \in Streams : ~IsOpen(s)

(* One poll per stream that is open, and a stopper for each.                 *)
StreamInvariant == StreamTypeOK /\ OnePollPerStream /\ StoppersAreTheOpen
=============================================================================
