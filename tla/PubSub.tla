------------------------------- MODULE PubSub -------------------------------
(***************************************************************************)
(* The Pub/Sub emulator (services/pubsub): topics, subscriptions, messages   *)
(* and per-subscription delivery rows in storage (message-repository.ts),    *)
(* and the push DeliveryEngine a timer drives.                               *)
(*                                                                           *)
(* Steps.  Storage calls complete in the microtask queue, so a request is    *)
(* one step.  A tick of the engine waits for nothing but its HTTP pushes;    *)
(* what it does between two of them is several steps here, during which      *)
(* `phase` is "working" and nothing else may run.                            *)
(*                                                                           *)
(* Time.  ackDeadline is compared with now only: a row is leased or not.     *)
(* Messages are numbered in the order they are published, so a publishTime   *)
(* and a seek target are numbers of messages.                                *)
(***************************************************************************)
EXTENDS Absent, Integers, FiniteSets

CONSTANTS
  Topics, Subs, Snapshots,   (* names                                        *)
  SubConfigs,      (* what createSubscription may be given for each name     *)
  BatchSize,       (* DEFAULT_BATCH_SIZE, and the limit of a pull            *)
  CleanupTicks,    (* cleanupIntervalTicks                                   *)
  PubSubOperations, (* the optional calls and faults exercised               *)
  Touched,         (* the topics and subscriptions clients delete or change  *)
  MaxPublishes,    (* bound: messages clients publish                        *)
  MaxMessages,     (* bound: messages with the dead letters                  *)
  MaxDeliveries    (* bound: rows with this many attempts are not pulled, nor*)
                   (* pushed without a policy to end it                      *)

PubSubAllOperations ==
  {"deleteTopic", "deleteSubscription", "updateSubscription", "detach", "pull",
   "modifyAckDeadline", "seek", "stop", "crash"}

NoPolicy == [topic |-> NoRow, max |-> 0]
MsgIds == 1..MaxMessages
Copies == Subs \X MsgIds

(* pushConfig with an endpoint, deadLetterPolicy; a policy may name no topic.*)
Policies == [topic : Topics \cup {NoRow}, max : Nat \ {0}] \cup {NoPolicy}
SubOptions == [topic : Topics, push : BOOLEAN, policy : Policies]
SubRecords == [topic : Topics, push : BOOLEAN, policy : Policies, detached : BOOLEAN]

(* A row of pubsub_delivered_messages; its ackId is the copy it is about.    *)
DeliveryRows == [acked : BOOLEAN, leased : BOOLEAN, attempt : Nat]

ASSUME PubSubAssumption ==
  /\ NoRow \notin Topics \cup SubRecords \cup DeliveryRows \cup Nat
  /\ SubConfigs \in [Subs -> SUBSET SubOptions]
  /\ BatchSize \in Nat \ {0} /\ CleanupTicks \in Nat \ {0}
  /\ MaxPublishes \in Nat /\ MaxMessages \in Nat /\ MaxDeliveries \in [Subs -> Nat]
  /\ PubSubOperations \subseteq PubSubAllOperations
  /\ IsFiniteSet(Subs)

VARIABLES
  topics,      (* pubsub_topics: the names                                   *)
  subs,        (* pubsub_subscriptions                                       *)
  messages,    (* pubsub_messages: the topic each message is stored under    *)
  deliveries,  (* pubsub_delivered_messages                                  *)
  snapshots,   (* pubsub_snapshots: createdAt                                *)
  published,   (* messages published so far: the clock of publishTime        *)
  phase,       (* "idle": DeliveryEngine.running is false; "pushing": it     *)
               (* awaits the endpoint                                        *)
  pushTimer,   (* DeliveryEngine.timerId # null                              *)
  pushCleanups, (* DeliveryEngine.cleanupCounter                             *)
  agenda,      (* tick(): push subscriptions still to visit, as read         *)
  visit,       (* the one being visited                                      *)
  batch,       (* its deliverable messages still to handle, as read          *)
  pushing,     (* the message whose push is awaited                          *)
  fate         (* history: how each copy was made and handed over            *)

pubsubTables == <<topics, subs, messages, deliveries, snapshots, published>>
pushEngine == <<phase, pushTimer, pushCleanups, agenda, visit, batch, pushing>>
pubsubVars == <<pubsubTables, pushEngine, fate>>

Visits == [sub : Subs, policy : Policies]
Entries == [msg : MsgIds, attempt : Nat]

PubSubInit ==
  /\ topics = {}
  /\ subs = [s \in Subs |-> NoRow]
  /\ messages = [m \in MsgIds |-> NoRow]
  /\ deliveries = [c \in Copies |-> NoRow]
  /\ snapshots = [n \in Snapshots |-> NoRow]
  /\ published = 0
  /\ phase = "idle" /\ pushTimer = TRUE /\ pushCleanups = 0
  /\ agenda = {} /\ visit = NoRow /\ batch = {} /\ pushing = NoRow
  /\ fate = [c \in Copies |-> {}]

-----------------------------------------------------------------------------
(* Tables.                                                                   *)

(* No microtasks of a tick are pending: a request or a timer may run.        *)
Quiet == phase # "working"

ActiveSubs(t) == {s \in Subs : subs[s] # NoRow /\ subs[s].topic = t /\ ~subs[s].detached}

Owed(c) == deliveries[c] # NoRow /\ ~deliveries[c].acked

(* Rows a pull or a push finds: PENDING and past their ackDeadline.          *)
DueIn(s) == {m \in MsgIds : Owed(<<s, m>>) /\ ~deliveries[<<s, m>>].leased}

Bounded(s) == {m \in DueIn(s) : deliveries[<<s, m>>].attempt < MaxDeliveries[s]}

(* The first rows of a find with a limit; their order is not modelled.       *)
Limited(found) ==
  {P \in SUBSET found : Cardinality(P) = IF Cardinality(found) <= BatchSize
                                         THEN Cardinality(found) ELSE BatchSize}

NewRow == [acked |-> FALSE, leased |-> FALSE, attempt |-> 0]

(* publishMessages(): the message and a row for each subscription.           *)
Stored(t) == [messages EXCEPT ![published + 1] = t]
MadeFor(t) == {c \in Copies : c[1] \in ActiveSubs(t) /\ c[2] = published + 1}
FannedOut(t) == [c \in Copies |-> IF c \in MadeFor(t) THEN NewRow ELSE deliveries[c]]
Fated(S, how) == [c \in Copies |-> IF c \in S THEN fate[c] \cup {how} ELSE fate[c]]

(* acknowledgeMessages(): whatever the lease and whoever holds it.           *)
Acked(table, c) == IF table[c] = NoRow THEN table ELSE [table EXCEPT ![c].acked = TRUE]

IncrementedBlindly(c) ==  \* mutant: writes the row it captured, gone or not
  [deliveries EXCEPT ![c] = [acked |-> FALSE, leased |-> TRUE, attempt |-> 1]]

IncrementedStale(c) ==  \* mutant: counts from the attempt captured before the push
  IF deliveries[c] = NoRow THEN deliveries
  ELSE [deliveries EXCEPT ![c].attempt = 1, ![c].leased = TRUE]

(* incrementDeliveryAttempt(): reads the row again and writes what it finds. *)
Incremented(c) ==
  IF deliveries[c] = NoRow THEN deliveries
  ELSE [deliveries EXCEPT ![c].attempt = @ + 1, ![c].leased = TRUE]

(* pullMessages(): the rows picked get a lease and count an attempt.         *)
Pulled(s, P) ==
  [c \in Copies |-> IF c[1] = s /\ c[2] \in P
                    THEN [deliveries[c] EXCEPT !.leased = TRUE, !.attempt = @ + 1]
                    ELSE deliveries[c]]

-----------------------------------------------------------------------------
(* Topics and subscriptions.                                                 *)

CreateTopic(t) ==
  /\ Quiet /\ t \notin topics
  /\ topics' = topics \cup {t}
  /\ UNCHANGED <<subs, messages, deliveries, snapshots, published, pushEngine, fate>>

(* The row, then deleteMessagesByTopic(): the delivery rows of its messages, *)
(* then the messages.  Subscriptions keep the name of the topic.             *)
DeleteTopic(t) ==
  /\ "deleteTopic" \in PubSubOperations
  /\ Quiet /\ t \in topics \cap Touched
  /\ topics' = topics \ {t}
  /\ deliveries' = [c \in Copies |-> IF messages[c[2]] = t THEN NoRow ELSE deliveries[c]]
  /\ messages' = [m \in MsgIds |-> IF messages[m] = t THEN NoRow ELSE messages[m]]
  /\ UNCHANGED <<subs, snapshots, published, pushEngine, fate>>

CreateSubscription(s, config) ==
  /\ Quiet /\ subs[s] = NoRow /\ config.topic \in topics
  /\ subs' = [subs EXCEPT ![s] = [topic |-> config.topic, push |-> config.push,
                                  policy |-> config.policy, detached |-> FALSE]]
  /\ UNCHANGED <<topics, messages, deliveries, snapshots, published, pushEngine, fate>>

(* updateSubscription() and modifyPushConfig(): the topic never changes.     *)
UpdateSubscription(s, config) ==
  /\ "updateSubscription" \in PubSubOperations
  /\ Quiet /\ subs[s] # NoRow /\ s \in Touched
  /\ subs' = [subs EXCEPT ![s].push = config.push, ![s].policy = config.policy]
  /\ UNCHANGED <<topics, messages, deliveries, snapshots, published, pushEngine, fate>>

DetachSubscription(s) ==
  /\ "detach" \in PubSubOperations
  /\ Quiet /\ subs[s] # NoRow /\ s \in Touched
  /\ subs' = [subs EXCEPT ![s].detached = TRUE]
  /\ UNCHANGED <<topics, messages, deliveries, snapshots, published, pushEngine, fate>>

DeleteSubscription(s) ==
  /\ "deleteSubscription" \in PubSubOperations
  /\ Quiet /\ subs[s] # NoRow /\ s \in Touched
  /\ subs' = [subs EXCEPT ![s] = NoRow]
  /\ deliveries' = [c \in Copies |-> IF c[1] = s THEN NoRow ELSE deliveries[c]]
  /\ UNCHANGED <<topics, messages, snapshots, published, pushEngine, fate>>

Publish(t) ==
  /\ Quiet /\ t \in topics
  /\ published < MaxPublishes /\ published < MaxMessages
  /\ messages' = Stored(t) /\ deliveries' = FannedOut(t)
  /\ fate' = Fated(MadeFor(t), "made")
  /\ published' = published + 1
  /\ UNCHANGED <<topics, subs, snapshots, pushEngine>>

-----------------------------------------------------------------------------
(* Subscribers.                                                              *)

(* A pull request, or the poll of a streaming pull.                          *)
Pull(s) ==
  /\ "pull" \in PubSubOperations
  /\ Quiet /\ subs[s] # NoRow /\ ~subs[s].detached
  /\ \E P \in Limited(Bounded(s)) :
       deliveries' = Pulled(s, P) /\ fate' = Fated({s} \X P, "pull")
  /\ UNCHANGED <<topics, subs, messages, snapshots, published, pushEngine>>

(* Acknowledge, as a call or on a stream: of a copy some pull returned, at   *)
(* any time after it.                                                        *)
Acknowledge(c) ==
  /\ Quiet /\ subs[c[1]] # NoRow /\ "pull" \in fate[c] /\ deliveries[c] # NoRow
  /\ deliveries' = Acked(deliveries, c)
  /\ UNCHANGED <<topics, subs, messages, snapshots, published, pushEngine, fate>>

(* ackDeadlineSeconds 0 gives the lease up, anything else takes or extends it*)
ModifyAckDeadline(c) ==
  /\ "modifyAckDeadline" \in PubSubOperations
  /\ Quiet /\ subs[c[1]] # NoRow /\ "pull" \in fate[c] /\ deliveries[c] # NoRow
  /\ \E leased \in BOOLEAN : deliveries' = [deliveries EXCEPT ![c].leased = leased]
  /\ UNCHANGED <<topics, subs, messages, snapshots, published, pushEngine, fate>>

(* resetDeliveredMessagesByTime(): leases of unacknowledged older messages.  *)
ResetByTime(s, time) ==
  /\ deliveries' = [c \in Copies |->
                      IF c[1] = s /\ c[2] <= time /\ Owed(c)
                      THEN [deliveries[c] EXCEPT !.leased = FALSE] ELSE deliveries[c]]
  /\ UNCHANGED <<topics, subs, messages, snapshots, published, pushEngine, fate>>

SeekToTime(s, time) ==
  "seek" \in PubSubOperations /\ Quiet /\ subs[s] # NoRow /\ ResetByTime(s, time)

SeekToSnapshot(s, n) ==
  Quiet /\ subs[s] # NoRow /\ snapshots[n] # NoRow /\ ResetByTime(s, snapshots[n])

CreateSnapshot(n, s) ==
  /\ Quiet /\ subs[s] # NoRow /\ snapshots[n] = NoRow
  /\ snapshots' = [snapshots EXCEPT ![n] = published]
  /\ UNCHANGED <<topics, subs, messages, deliveries, published, pushEngine, fate>>

DeleteSnapshot(n) ==
  /\ Quiet /\ snapshots[n] # NoRow
  /\ snapshots' = [snapshots EXCEPT ![n] = NoRow]
  /\ UNCHANGED <<topics, subs, messages, deliveries, published, pushEngine, fate>>

LeaseExpires(c) ==
  /\ Quiet /\ deliveries[c] # NoRow /\ deliveries[c].leased
  /\ deliveries' = [deliveries EXCEPT ![c].leased = FALSE]
  /\ UNCHANGED <<topics, subs, messages, snapshots, published, pushEngine, fate>>

-----------------------------------------------------------------------------
(* The delivery engine.                                                      *)

(* findPushSubscriptions()                                                   *)
PushSubs == {s \in Subs : subs[s] # NoRow /\ subs[s].push /\ ~subs[s].detached}

PushTick ==
  /\ pushTimer /\ phase = "idle"
  /\ phase' = "working"
  /\ agenda' = {[sub |-> s, policy |-> subs[s].policy] : s \in PushSubs}
  /\ UNCHANGED <<pubsubTables, pushTimer, pushCleanups, visit, batch, pushing, fate>>

(* findPushDeliverableMessages(): read once, and not leased.                 *)
VisitSubscription ==
  /\ phase = "working" /\ batch = {}
  /\ \E v \in agenda :
     \E P \in Limited(IF v.policy = NoPolicy THEN Bounded(v.sub) ELSE DueIn(v.sub)) :
       /\ agenda' = agenda \ {v}
       /\ visit' = v
       /\ batch' = {[msg |-> m, attempt |-> deliveries[<<v.sub, m>>].attempt] : m \in P}
  /\ UNCHANGED <<pubsubTables, phase, pushTimer, pushCleanups, pushing, fate>>

ExhaustedEarly(e) ==  \* mutant: counts the attempt that is to be made
  visit.policy # NoPolicy /\ e.attempt + 1 >= visit.policy.max

Exhausted(e) == visit.policy # NoPolicy /\ e.attempt >= visit.policy.max

(* routeToDeadLetter(): publishFn() asks nobody whether the topic exists;    *)
(* without a topic the message is only acknowledged.                         *)
RouteToDeadLetter(e) ==
  LET topic == visit.policy.topic
      copy  == <<visit.sub, e.msg>>
  IN
  /\ phase = "working" /\ e \in batch /\ Exhausted(e)
  /\ batch' = batch \ {e}
  /\ \/ /\ topic = NoRow
        /\ deliveries' = Acked(deliveries, copy)
        /\ UNCHANGED <<messages, published, fate>>
     \/ /\ topic # NoRow /\ published < MaxMessages
        /\ messages' = Stored(topic)
        /\ deliveries' = Acked(FannedOut(topic), copy)
        /\ fate' = Fated(MadeFor(topic), "made")
        /\ published' = published + 1
  /\ UNCHANGED <<topics, subs, snapshots, phase, pushTimer, pushCleanups, agenda, visit,
                 pushing>>

(* pushMessage() up to its HTTP request; nothing looks at the row again, so  *)
(* it may be acknowledged, leased or gone by now.                            *)
PushMessage(e) ==
  /\ phase = "working" /\ e \in batch /\ ~Exhausted(e)
  /\ phase' = "pushing"
  /\ batch' = batch \ {e}
  /\ pushing' = e.msg
  /\ fate' = Fated({<<visit.sub, e.msg>>}, "push")
  /\ UNCHANGED <<pubsubTables, pushTimer, pushCleanups, agenda, visit>>

(* The endpoint answers, or does not: the row is acknowledged, or pushed back*)
(* by handlePushFailure() for a backoff.                                     *)
PushAnswered(ok) ==
  LET copy == <<visit.sub, pushing>> IN
  /\ phase = "pushing"
  /\ phase' = "working" /\ pushing' = NoRow
  /\ deliveries' = IF ok THEN Acked(deliveries, copy) ELSE Incremented(copy)
  /\ UNCHANGED <<topics, subs, messages, snapshots, published, pushTimer, pushCleanups,
                 agenda, visit, batch, fate>>

(* The end of tick(); every CleanupTicks-th one drops the acknowledged rows. *)
PushTickEnds ==
  /\ phase = "working" /\ agenda = {} /\ batch = {}
  /\ phase' = "idle" /\ visit' = NoRow
  /\ IF pushCleanups + 1 >= CleanupTicks
     THEN /\ pushCleanups' = 0
          /\ deliveries' = [c \in Copies |-> IF Owed(c) THEN deliveries[c] ELSE NoRow]
     ELSE pushCleanups' = pushCleanups + 1 /\ UNCHANGED deliveries
  /\ UNCHANGED <<topics, subs, messages, snapshots, published, pushTimer, agenda, batch,
                 pushing, fate>>

StopPushEngine ==
  /\ "stop" \in PubSubOperations
  /\ Quiet /\ pushTimer
  /\ pushTimer' = FALSE
  /\ UNCHANGED <<pubsubTables, phase, pushCleanups, agenda, visit, batch, pushing, fate>>

PubSubNewProcess ==
  /\ phase' = "idle" /\ pushTimer' = TRUE /\ pushCleanups' = 0
  /\ agenda' = {} /\ visit' = NoRow /\ batch' = {} /\ pushing' = NoRow
  /\ UNCHANGED <<pubsubTables, fate>>

(* stop() resolves when the tick in progress is over.                        *)
PubSubRestart == ~pushTimer /\ phase = "idle" /\ PubSubNewProcess

(* The tables are kept where storage is persistent.                          *)
PubSubCrash == "crash" \in PubSubOperations /\ PubSubNewProcess

EngineWorks ==
  \/ VisitSubscription
  \/ \E e \in batch : RouteToDeadLetter(e) \/ PushMessage(e)
  \/ PushTickEnds

PubSubNext ==
  \/ \E t \in Topics : CreateTopic(t) \/ DeleteTopic(t) \/ Publish(t)
  \/ \E s \in Subs :
       \/ \E config \in SubConfigs[s] : CreateSubscription(s, config)
                                        \/ UpdateSubscription(s, config)
       \/ DetachSubscription(s)
       \/ DeleteSubscription(s)
       \/ Pull(s)
       \/ \E time \in 0..published : SeekToTime(s, time)
       \/ \E n \in Snapshots : CreateSnapshot(n, s) \/ SeekToSnapshot(s, n)
  \/ \E c \in Copies : Acknowledge(c) \/ ModifyAckDeadline(c) \/ LeaseExpires(c)
  \/ \E n \in Snapshots : DeleteSnapshot(n)
  \/ PushTick
  \/ EngineWorks
  \/ \E ok \in BOOLEAN : PushAnswered(ok)
  \/ StopPushEngine
  \/ PubSubRestart
  \/ PubSubCrash

(* The interval fires, microtasks run, a push ends (fetch gives up on an     *)
(* endpoint that never answers), time passes.  Clients owe nothing.          *)
PubSubFairness ==
  /\ WF_pubsubVars(PushTick) /\ WF_pubsubVars(EngineWorks)
  /\ WF_pubsubVars(\E ok \in BOOLEAN : PushAnswered(ok))
  /\ \A c \in Copies : WF_pubsubVars(LeaseExpires(c))

PubSubSpec == PubSubInit /\ [][PubSubNext]_pubsubVars
PubSubFairSpec == PubSubSpec /\ PubSubFairness

-----------------------------------------------------------------------------

PubSubTypeOK ==
  /\ topics \subseteq Topics
  /\ subs \in [Subs -> SubRecords \cup {NoRow}]
  /\ messages \in [MsgIds -> Topics \cup {NoRow}]
  /\ deliveries \in [Copies -> DeliveryRows \cup {NoRow}]
  /\ snapshots \in [Snapshots -> Nat \cup {NoRow}]
  /\ published \in 0..MaxMessages
  /\ phase \in {"idle", "working", "pushing"}
  /\ pushTimer \in BOOLEAN /\ pushCleanups \in Nat
  /\ agenda \in SUBSET Visits /\ visit \in Visits \cup {NoRow}
  /\ batch \in SUBSET Entries /\ pushing \in MsgIds \cup {NoRow}
  /\ fate \in [Copies -> SUBSET {"made", "pull", "push"}]

(* The two tables of ADR-005 agree: a delivery row always has its message    *)
(* and its subscription, through deletions during a push, dead letters and   *)
(* names that are created again (a pull skips a row without a message, so it *)
(* would stay for ever).                                                     *)
RowsRefer ==
  \A c \in Copies : deliveries[c] # NoRow => messages[c[2]] # NoRow /\ subs[c[1]] # NoRow

(* An acknowledged row never becomes deliverable again: no seek, late push   *)
(* failure or lease change revives it (lines 160-331 of message-repository). *)
AckedIsFinal ==
  [][\A c \in Copies : deliveries[c] # NoRow /\ deliveries[c].acked =>
       deliveries'[c] = NoRow \/ deliveries'[c].acked]_pubsubVars

(* deliveryAttempt, which decides on dead letters, loses no attempt when a   *)
(* pull of the same row overtakes a push that fails later (lines 241-270).   *)
AttemptsNeverFall ==
  [][\A c \in Copies : deliveries[c] # NoRow /\ deliveries'[c] # NoRow =>
       deliveries'[c].attempt - deliveries[c].attempt \in {0, 1}]_pubsubVars

(* At least once: no copy is lost before it was handed over, and none is owed*)
(* twice, through retries, dead letters, restarts and crashes.               *)
Promise == INSTANCE AtLeastOnce WITH
  Subscribers <- Subs, Messages <- MsgIds,
  owed <- {c \in Copies : Owed(c)},
  made <- {c \in Copies : "made" \in fate[c]},
  handed <- {c \in Copies : fate[c] \cap {"pull", "push"} # {}}
ImplementsAtLeastOnce == Promise!Spec

(* A due message of a push subscription is never left lying: it is pushed or *)
(* dead-lettered in the end, however slow or broken the endpoint, whatever   *)
(* becomes of the other subscriptions of a tick (lines 81-144).  A process   *)
(* that crashes over and over again promises nothing of the kind: runs of    *)
(* this property leave "crash" out.                                          *)
PushServed(s) == pushTimer /\ s \in PushSubs /\ subs[s].policy # NoPolicy
DuePushesAreTried ==
  \A c \in Copies : <>[]PushServed(c[1]) => []<>~(Owed(c) /\ ~deliveries[c].leased)

(* Rows of deliveries refer to rows that are there, whatever is deleted,     *)
(* seeked, expired and routed to dead letters in between.                    *)
PubSubInvariant == PubSubTypeOK /\ RowsRefer

(* What a delivery row never does: forget its acknowledgement or an attempt.*)
DeliveriesHold == AckedIsFinal /\ AttemptsNeverFall
=============================================================================
