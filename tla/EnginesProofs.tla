---------------------------- MODULE EnginesProofs ---------------------------
(***************************************************************************)
(* What is proved about the engines that work on timers and queues, for any*)
(* value of their constants.  In turn: the rows and the engine of Pub/Sub  *)
(* (PubSub), its pull streams (StreamingPull), the versions of KMS keys    *)
(* (KeyManagement), the health checks of the registry (ServiceRegistry),   *)
(* the jobs of Cloud Scheduler (Scheduler) and the interpreter of          *)
(* workflows (WorkflowEngine).                                             *)
(***************************************************************************)
EXTENDS PubSub, StreamingPull, KeyManagement, ServiceRegistry, Scheduler,
        WorkflowEngine, SequenceTheorems, FiniteSetTheorems, WellFoundedInduction, TLAPS

(* A set of naturals has a least element, and a bounded one a greatest.    *)
LEMMA LeastNatural ==
  ASSUME NEW S \in SUBSET Nat, S # {}
  PROVE  \E m \in S : \A n \in S : m <= n
<1>1. PICK m \in S : \A n \in S : <<n, m>> \notin OpToRel(<, Nat)
  BY NatLessThanWellFounded, WFMin
<1>2. ASSUME NEW n \in S PROVE m <= n
  <2>1. m \in Nat /\ n \in Nat
    OBVIOUS
  <2>2. n < m => <<n, m>> \in OpToRel(<, Nat)
    BY <2>1 DEF OpToRel
  <2>3. ~(n < m)
    BY <1>1, <2>2, Zenon
  <2> QED
    BY <2>1, <2>3
<1> QED
  BY <1>2
LEMMA GreatestNatural ==
  ASSUME NEW S \in SUBSET Nat, S # {}, NEW bound \in Nat, \A n \in S : n <= bound
  PROVE  \E m \in S : \A n \in S : n <= m
<1> DEFINE T == {bound - n : n \in S}
<1>1. T \in SUBSET Nat /\ T # {}
  <2>1. ASSUME NEW n \in S PROVE bound - n \in Nat
    <3>1. n \in Nat /\ n <= bound
      OBVIOUS
    <3> QED
      BY <3>1
  <2> QED
    BY <2>1
<1> HIDE DEF T
<1>2. PICK m \in T : \A n \in T : m <= n
  BY <1>1, LeastNatural
<1>3. PICK k \in S : m = bound - k
  BY DEF T
<1>4. ASSUME NEW n \in S PROVE n <= k
  <2>1. n \in Nat /\ k \in Nat /\ bound - n \in T
    BY DEF T
  <2> QED
    BY <1>2, <1>3, <2>1
<1> QED
  BY <1>4

USE PubSubAssumption DEF MsgIds

-----------------------------------------------------------------------------
(* What makes the rows true.  A message number not published yet occurs      *)
(* nowhere; a row was made by a publish, and has attempts only if it was     *)
(* handed over; and what the engine remembers of the rows it read, while it  *)
(* awaits endpoints, is about copies that were made, and handed over if they *)
(* are to be settled.                                                        *)
Handed(c) == fate[c] \cap {"pull", "push"} # {}

Unpublished ==
  \A c \in Copies : c[2] > published =>
    messages[c[2]] = NoRow /\ deliveries[c] = NoRow /\ fate[c] = {}

RowsAreMade ==
  \A c \in Copies :
    /\ Handed(c) => "made" \in fate[c]
    /\ deliveries[c] # NoRow =>
         "made" \in fate[c] /\ (deliveries[c].attempt > 0 => Handed(c))

EngineKnows ==
  /\ batch # {} \/ phase = "pushing" => visit \in Visits
  /\ \A e \in batch : LET copy == <<visit.sub, e.msg>> IN
       "made" \in fate[copy] /\ (e.attempt > 0 => Handed(copy))
  /\ phase = "pushing" => pushing \in MsgIds /\ "push" \in fate[<<visit.sub, pushing>>]

PInv == PubSubTypeOK /\ RowsRefer /\ Unpublished /\ RowsAreMade /\ EngineKnows

-----------------------------------------------------------------------------
(* The table operators.                                                      *)

LEMMA CopyParts == \A c \in Copies : c[1] \in Subs /\ c[2] \in MsgIds /\ c = <<c[1], c[2]>>
BY DEF Copies

LEMMA RowUpdates ==
  ASSUME NEW r \in DeliveryRows
  PROVE  /\ \A b \in BOOLEAN :
              LET s == [r EXCEPT !.leased = b] IN
              s \in DeliveryRows /\ s.acked = r.acked /\ s.attempt = r.attempt
         /\ LET s == [r EXCEPT !.acked = TRUE] IN
            s \in DeliveryRows /\ s.acked /\ s.attempt = r.attempt
         /\ LET s == [r EXCEPT !.attempt = @ + 1, !.leased = TRUE] IN
            s \in DeliveryRows /\ s.acked = r.acked /\ s.attempt = r.attempt + 1
         /\ LET s == [r EXCEPT !.leased = TRUE, !.attempt = @ + 1] IN
            s \in DeliveryRows /\ s.acked = r.acked /\ s.attempt = r.attempt + 1
<1>1. \A q \in DeliveryRows : \A b \in BOOLEAN :
        LET s == [q EXCEPT !.leased = b] IN
        s \in DeliveryRows /\ s.acked = q.acked /\ s.attempt = q.attempt
  BY DEF DeliveryRows
<1>2. LET s == [r EXCEPT !.acked = TRUE] IN
      s \in DeliveryRows /\ s.acked /\ s.attempt = r.attempt
  BY DEF DeliveryRows
<1>3. \A q \in DeliveryRows :
        LET s == [q EXCEPT !.attempt = @ + 1] IN
        s \in DeliveryRows /\ s.acked = q.acked /\ s.attempt = q.attempt + 1
  BY DEF DeliveryRows
<1> DEFINE counted == [r EXCEPT !.attempt = @ + 1]
           leased == [r EXCEPT !.leased = TRUE]
<1>4. /\ counted \in DeliveryRows /\ counted.acked = r.acked
      /\ counted.attempt = r.attempt + 1
  BY <1>3
<1>5. leased \in DeliveryRows /\ leased.acked = r.acked /\ leased.attempt = r.attempt
  BY <1>1
<1> HIDE DEF counted, leased
<1>6. LET s == [counted EXCEPT !.leased = TRUE] IN
      s \in DeliveryRows /\ s.acked = r.acked /\ s.attempt = r.attempt + 1
  BY <1>1, <1>4
<1>7. LET s == [leased EXCEPT !.attempt = @ + 1] IN
      s \in DeliveryRows /\ s.acked = r.acked /\ s.attempt = r.attempt + 1
  BY <1>3, <1>5
<1> QED
  BY <1>1, <1>2, <1>6, <1>7 DEF counted, leased

(* How a step that publishes nothing may treat a row: keep it, with its      *)
(* acknowledgement, count one attempt, or drop it.                           *)
Treats(r, s) ==
  \/ s = NoRow
  \/ /\ r # NoRow /\ s \in DeliveryRows
     /\ r.acked => s.acked
     /\ s.attempt - r.attempt \in {0, 1}

LEMMA TreatsRows ==
  /\ \A r \in DeliveryRows \cup {NoRow} : Treats(r, r)
  /\ \A r, s \in DeliveryRows :
       s.acked = r.acked /\ s.attempt = r.attempt + 1 => Treats(r, s)
<1>1. \A r \in DeliveryRows : r # NoRow /\ r.attempt \in Nat
  BY DEF DeliveryRows
<1> QED
  BY <1>1 DEF Treats

LEMMA AckedTreats ==
  ASSUME NEW table \in [Copies -> DeliveryRows \cup {NoRow}], NEW c \in Copies
  PROVE  /\ Acked(table, c) \in [Copies -> DeliveryRows \cup {NoRow}]
         /\ \A d \in Copies : d # c => Acked(table, c)[d] = table[d]
         /\ table[c] = NoRow => Acked(table, c)[c] = NoRow
         /\ table[c] # NoRow =>
              /\ Acked(table, c)[c] \in DeliveryRows /\ Acked(table, c)[c].acked
              /\ Acked(table, c)[c].attempt = table[c].attempt
<1>1. CASE table[c] = NoRow
  BY <1>1 DEF Acked
<1>2. CASE table[c] # NoRow
  <2> DEFINE s == [table[c] EXCEPT !.acked = TRUE]
  <2>1. table[c] \in DeliveryRows
    BY <1>2
  <2>2. s \in DeliveryRows /\ s.acked /\ s.attempt = table[c].attempt
    BY <2>1, RowUpdates
  <2>3. Acked(table, c) = [table EXCEPT ![c] = s]
    BY <1>2 DEF Acked
  <2> HIDE DEF s
  <2> QED
    BY <1>2, <2>2, <2>3
<1> QED
  BY <1>1, <1>2

LEMMA IncrementedTreats ==
  ASSUME PubSubTypeOK, NEW c \in Copies
  PROVE  /\ Incremented(c) \in [Copies -> DeliveryRows \cup {NoRow}]
         /\ \A d \in Copies : d # c => Incremented(c)[d] = deliveries[d]
         /\ deliveries[c] = NoRow => Incremented(c)[c] = NoRow
         /\ deliveries[c] # NoRow =>
              /\ Incremented(c)[c] \in DeliveryRows
              /\ Incremented(c)[c].acked = deliveries[c].acked
              /\ Incremented(c)[c].attempt = deliveries[c].attempt + 1
<1>1. CASE deliveries[c] = NoRow
  BY <1>1 DEF Incremented, PubSubTypeOK
<1>2. CASE deliveries[c] # NoRow
  <2> DEFINE s == [deliveries[c] EXCEPT !.attempt = @ + 1, !.leased = TRUE]
  <2>1. deliveries[c] \in DeliveryRows
    BY <1>2 DEF PubSubTypeOK
  <2>2. /\ s \in DeliveryRows /\ s.acked = deliveries[c].acked
        /\ s.attempt = deliveries[c].attempt + 1
    BY <2>1, RowUpdates
  <2>3. Incremented(c) = [deliveries EXCEPT ![c] = s]
    BY <1>2 DEF Incremented
  <2> HIDE DEF s
  <2> QED
    BY <1>2, <2>2, <2>3 DEF PubSubTypeOK
<1> QED
  BY <1>1, <1>2

(* A publish makes rows nobody had, of a message nobody had.                 *)
LEMMA PublishMakes ==
  ASSUME PInv, NEW t \in Topics, published < MaxMessages
  PROVE  /\ published + 1 \in MsgIds
         /\ Stored(t) \in [MsgIds -> Topics \cup {NoRow}]
         /\ Stored(t)[published + 1] = t
         /\ \A m \in MsgIds : m # published + 1 => Stored(t)[m] = messages[m]
         /\ FannedOut(t) \in [Copies -> DeliveryRows \cup {NoRow}]
         /\ \A c \in MadeFor(t) :
              /\ c \in Copies /\ c[2] = published + 1 /\ subs[c[1]] # NoRow
              /\ deliveries[c] = NoRow /\ fate[c] = {}
              /\ FannedOut(t)[c] = NewRow
         /\ \A c \in Copies \ MadeFor(t) : FannedOut(t)[c] = deliveries[c]
         /\ NewRow \in DeliveryRows /\ ~NewRow.acked /\ NewRow.attempt = 0
<1>1. published \in Nat /\ MaxMessages \in Nat /\ published + 1 \in MsgIds
  BY DEF PInv, PubSubTypeOK
<1>2. NewRow \in DeliveryRows /\ ~NewRow.acked /\ NewRow.attempt = 0
  BY DEF NewRow, DeliveryRows
<1>3. \A c \in MadeFor(t) : /\ c \in Copies /\ c[2] = published + 1 /\ subs[c[1]] # NoRow
                            /\ deliveries[c] = NoRow /\ fate[c] = {}
  BY <1>1 DEF MadeFor, ActiveSubs, PInv, Unpublished
<1>4. MadeFor(t) \subseteq Copies
  BY DEF MadeFor
<1> QED
  BY <1>1, <1>2, <1>3, <1>4 DEF Stored, FannedOut, PInv, PubSubTypeOK

LEMMA FatedKeeps ==
  ASSUME PubSubTypeOK, NEW S \in SUBSET Copies, NEW how \in {"made", "pull", "push"}
  PROVE  /\ Fated(S, how) \in [Copies -> SUBSET {"made", "pull", "push"}]
         /\ \A c \in S : Fated(S, how)[c] = fate[c] \cup {how}
         /\ \A c \in Copies \ S : Fated(S, how)[c] = fate[c]
BY DEF Fated, PubSubTypeOK

-----------------------------------------------------------------------------
(* The steps that publish nothing.                                           *)
Calm ==
  /\ published' = published
  /\ \A m \in MsgIds : messages'[m] \in {messages[m], NoRow}
  /\ \A c \in Copies :
       /\ Treats(deliveries[c], deliveries'[c])
       /\ deliveries'[c] # NoRow => messages'[c[2]] # NoRow /\ subs'[c[1]] # NoRow
       /\ fate[c] \subseteq fate'[c] /\ (fate'[c] # fate[c] => "made" \in fate[c])
       /\ deliveries'[c] # NoRow /\ deliveries'[c].attempt # deliveries[c].attempt
            => Handed(c)'

LEMMA CalmKeeps ==
  ASSUME PInv, Calm PROVE RowsRefer' /\ Unpublished' /\ RowsAreMade'
<1>1. RowsRefer'
  BY DEF Calm, RowsRefer
<1>2. Unpublished'
  <2> SUFFICES ASSUME NEW c \in Copies, c[2] > published
               PROVE  messages'[c[2]] = NoRow /\ deliveries'[c] = NoRow /\ fate'[c] = {}
    BY DEF Unpublished, Calm
  <2>1. messages[c[2]] = NoRow /\ deliveries[c] = NoRow /\ fate[c] = {}
    BY DEF PInv, Unpublished
  <2> QED
    BY <2>1, CopyParts DEF Calm, Treats
<1>3. RowsAreMade'
  <2> SUFFICES ASSUME NEW c \in Copies
               PROVE  /\ Handed(c)' => "made" \in fate'[c]
                      /\ deliveries'[c] # NoRow =>
                           "made" \in fate'[c] /\ (deliveries'[c].attempt > 0 => Handed(c)')
    BY DEF RowsAreMade
  <2>1. Handed(c) => "made" \in fate[c] /\ Handed(c)'
    BY DEF PInv, RowsAreMade, Calm, Handed
  <2>2. Handed(c)' => "made" \in fate'[c]
    BY <2>1 DEF Calm, Handed
  <2>3. ASSUME deliveries'[c] # NoRow
        PROVE  "made" \in fate'[c] /\ (deliveries'[c].attempt > 0 => Handed(c)')
    <3>1. deliveries[c] # NoRow
      BY <2>3 DEF Calm, Treats
    <3>2. "made" \in fate[c] /\ (deliveries[c].attempt > 0 => Handed(c))
      BY <3>1 DEF PInv, RowsAreMade
    <3> QED
      BY <2>1, <2>3, <3>2 DEF Calm
  <2> QED
    BY <2>2, <2>3
<1> QED
  BY <1>1, <1>2, <1>3

(* A publish, of a client or of a dead letter.                               *)
Fans(t) ==
  /\ published < MaxMessages /\ published' = published + 1
  /\ messages' = Stored(t) /\ fate' = Fated(MadeFor(t), "made") /\ subs' = subs
  /\ \A c \in MadeFor(t) : deliveries'[c] = NewRow
  /\ \A c \in Copies \ MadeFor(t) :
       \/ deliveries'[c] = NoRow /\ deliveries[c] = NoRow
       \/ /\ deliveries[c] # NoRow /\ deliveries'[c] \in DeliveryRows
          /\ deliveries[c].acked => deliveries'[c].acked
          /\ deliveries'[c].attempt = deliveries[c].attempt

LEMMA FansKeeps ==
  ASSUME PInv, NEW t \in Topics, Fans(t)
  PROVE  /\ RowsRefer' /\ Unpublished' /\ RowsAreMade'
         /\ \A c \in Copies : fate[c] \subseteq fate'[c]
         /\ \A c \in Copies : deliveries[c] # NoRow => Treats(deliveries[c], deliveries'[c])
<1>1. published \in Nat /\ published < MaxMessages /\ NoRow # t
  BY DEF PInv, PubSubTypeOK, Fans
<1>2. /\ published + 1 \in MsgIds
      /\ messages'[published + 1] = t
      /\ \A m \in MsgIds : m # published + 1 => messages'[m] = messages[m]
      /\ \A c \in MadeFor(t) :
           /\ c \in Copies /\ c[2] = published + 1 /\ subs[c[1]] # NoRow
           /\ deliveries[c] = NoRow /\ fate[c] = {}
      /\ NewRow \in DeliveryRows /\ ~NewRow.acked /\ NewRow.attempt = 0
  <2>1. messages' = Stored(t)
    BY DEF Fans
  <2> QED
    BY <1>1, <2>1, PublishMakes
<1>3. MadeFor(t) \in SUBSET Copies /\ PubSubTypeOK
  BY DEF MadeFor, PInv
<1>4. /\ \A c \in MadeFor(t) : fate'[c] = {"made"}
      /\ \A c \in Copies \ MadeFor(t) : fate'[c] = fate[c]
  BY <1>2, <1>3, FatedKeeps DEF Fans
<1>5. RowsRefer'
  BY <1>1, <1>2, CopyParts DEF Fans, RowsRefer, PInv
<1>6. Unpublished'
  <2> SUFFICES ASSUME NEW c \in Copies, c[2] > published + 1
               PROVE  messages'[c[2]] = NoRow /\ deliveries'[c] = NoRow /\ fate'[c] = {}
    BY DEF Unpublished, Fans
  <2>1. c[2] > published /\ c \notin MadeFor(t) /\ c[2] \in MsgIds /\ c[2] # published + 1
    BY <1>1, <1>2, CopyParts
  <2>2. messages[c[2]] = NoRow /\ deliveries[c] = NoRow /\ fate[c] = {}
    BY <2>1 DEF PInv, Unpublished
  <2> QED
    BY <1>2, <1>4, <2>1, <2>2 DEF Fans
<1>7. RowsAreMade'
  BY <1>2, <1>4 DEF Fans, RowsAreMade, Handed, PInv
<1>8. \A c \in Copies : fate[c] \subseteq fate'[c]
  BY <1>2, <1>4
<1>9. \A c \in Copies : deliveries[c] # NoRow => Treats(deliveries[c], deliveries'[c])
  <2>1. \A c \in Copies : deliveries[c] # NoRow => deliveries[c] \in DeliveryRows
    BY DEF PInv, PubSubTypeOK
  <2> QED
    BY <1>2, <2>1 DEF Fans, Treats, DeliveryRows
<1> QED
  BY <1>5, <1>6, <1>7, <1>8, <1>9

-----------------------------------------------------------------------------
(* What the abstract specification sees.                                     *)
OwedNow == {c \in Copies : Owed(c)}
MadeNow == {c \in Copies : "made" \in fate[c]}
HandedNow == {c \in Copies : fate[c] \cap {"pull", "push"} # {}}
Seen == <<OwedNow, MadeNow, HandedNow>>

AStep == Promise!Next \/ UNCHANGED Seen

LEMMA PromiseSteps ==
  /\ HandedNow \subseteq HandedNow' /\ HandedNow' \subseteq MadeNow /\ OwedNow' = OwedNow
       /\ MadeNow' = MadeNow => AStep
  /\ \A c \in Copies :
       c \in HandedNow /\ OwedNow' = OwedNow \ {c} /\ MadeNow' = MadeNow
         /\ HandedNow' = HandedNow => AStep
  /\ \A s \in Subs :
       OwedNow' = {c \in OwedNow : c[1] # s} /\ MadeNow' = MadeNow
         /\ HandedNow' = HandedNow => AStep
  /\ \A dropped \in SUBSET MsgIds :
       OwedNow' = {c \in OwedNow : c[2] \notin dropped} /\ MadeNow' = MadeNow
         /\ HandedNow' = HandedNow => AStep
  /\ \A settled : (settled = {} \/ \E c \in Copies : settled = {c})
       /\ MadeNow \subseteq MadeNow' /\ MadeNow' \subseteq Copies /\ settled \subseteq HandedNow
       /\ OwedNow' = (OwedNow \ settled) \cup (MadeNow' \ MadeNow)
       /\ HandedNow' = HandedNow => AStep
BY DEF AStep, Promise!Next, Promise!HandOver, Promise!Settle, Promise!Publish,
       Promise!DropSubscriber, Promise!DropMessages, Promise!Copies, Copies,
       OwedNow, MadeNow, HandedNow

(* The engine's memory stays true while others act: what was made was made.  *)
LEMMA MemoryKept ==
  ASSUME PInv, \A c \in Copies : fate[c] \subseteq fate'[c],
         phase' = phase, visit' = visit, pushing' = pushing, batch' \subseteq batch
  PROVE  EngineKnows'
<1>1. batch # {} \/ phase = "pushing" => visit \in Visits
  BY DEF PInv, EngineKnows
<1>2. \A e \in batch : <<visit.sub, e.msg>> \in Copies
  BY <1>1 DEF PInv, PubSubTypeOK, Visits, Entries, Copies
<1>3. phase = "pushing" => pushing \in MsgIds /\ <<visit.sub, pushing>> \in Copies
  BY <1>1 DEF PInv, EngineKnows, Visits, Copies
<1>4. \A e \in batch' : LET copy == <<visit.sub, e.msg>> IN
        "made" \in fate'[copy] /\ (e.attempt > 0 => Handed(copy)')
  BY <1>2 DEF PInv, EngineKnows, Handed
<1>5. phase = "pushing" => "push" \in fate'[<<visit.sub, pushing>>]
  BY <1>3 DEF PInv, EngineKnows
<1> QED
  BY <1>1, <1>3, <1>4, <1>5 DEF EngineKnows

(* Every step: types, rows, memory, abstract step, and what becomes of rows. *)
Good ==
  /\ PubSubTypeOK' /\ RowsRefer' /\ Unpublished' /\ RowsAreMade' /\ EngineKnows'
  /\ \A c \in Copies : deliveries[c] # NoRow => Treats(deliveries[c], deliveries'[c])
  /\ AStep

LEMMA CalmIsGood ==
  ASSUME PInv, Calm, PubSubTypeOK', EngineKnows', AStep PROVE Good
BY CalmKeeps DEF Good, Calm

(* Steps that leave rows, messages and fates alone.                          *)
LEMMA RowsAlone ==
  ASSUME PInv, UNCHANGED <<messages, deliveries, published, fate>>,
         \A s \in Subs : subs[s] # NoRow => subs'[s] # NoRow,
         PubSubTypeOK', EngineKnows'
  PROVE  Good
<1>1. \A c \in Copies : deliveries[c] # NoRow => deliveries[c] \in DeliveryRows
  BY DEF PInv, PubSubTypeOK
<1>2. \A c \in Copies : Treats(deliveries[c], deliveries[c])
  BY <1>1 DEF Treats, DeliveryRows
<1>3. Calm
  BY <1>2, CopyParts DEF Calm, PInv, RowsRefer
<1>4. UNCHANGED Seen
  BY DEF Seen, OwedNow, Owed, MadeNow, HandedNow
<1> QED
  BY <1>3, <1>4, CalmIsGood DEF AStep

LEMMA NamesGood ==
  ASSUME PInv,
         \/ \E t \in Topics : CreateTopic(t)
         \/ \E s \in Subs : \/ \E config \in SubConfigs[s] :
                                 CreateSubscription(s, config) \/ UpdateSubscription(s, config)
                            \/ DetachSubscription(s)
                            \/ \E n \in Snapshots : CreateSnapshot(n, s)
         \/ \E n \in Snapshots : DeleteSnapshot(n)
  PROVE  Good
<1>1. UNCHANGED <<messages, deliveries, published, fate, pushEngine>>
  BY DEF CreateTopic, CreateSubscription, UpdateSubscription, DetachSubscription,
         CreateSnapshot, DeleteSnapshot
<1>2. EngineKnows'
  BY <1>1, MemoryKept DEF pushEngine
<1>3. topics' \subseteq Topics
  BY DEF CreateTopic, CreateSubscription, UpdateSubscription, DetachSubscription,
         CreateSnapshot, DeleteSnapshot, PInv, PubSubTypeOK
<1>4. snapshots' \in [Snapshots -> Nat \cup {NoRow}]
  <2>1. \/ snapshots' = snapshots
        \/ \E n \in Snapshots, v \in {published, NoRow} : snapshots' = [snapshots EXCEPT ![n] = v]
    BY DEF CreateTopic, CreateSubscription, UpdateSubscription, DetachSubscription,
           CreateSnapshot, DeleteSnapshot
  <2>2. published \in Nat /\ snapshots \in [Snapshots -> Nat \cup {NoRow}]
    BY DEF PInv, PubSubTypeOK
  <2> QED
    BY <2>1, <2>2
<1>5. /\ subs' \in [Subs -> SubRecords \cup {NoRow}]
      /\ \A s \in Subs : subs[s] # NoRow => subs'[s] # NoRow
  <2>1. ASSUME NEW s \in Subs, NEW config \in SubConfigs[s], CreateSubscription(s, config)
        PROVE  <1>5!1 /\ <1>5!2
    <3>1. config \in SubOptions
      OBVIOUS
    <3>2. [topic |-> config.topic, push |-> config.push, policy |-> config.policy,
           detached |-> FALSE] \in SubRecords
      BY <3>1 DEF SubOptions, SubRecords
    <3> QED
      BY <2>1, <3>2 DEF CreateSubscription, PInv, PubSubTypeOK
  <2>2. ASSUME NEW s \in Subs, NEW config \in SubConfigs[s], UpdateSubscription(s, config)
        PROVE  <1>5!1 /\ <1>5!2
    <3> DEFINE r == [subs[s] EXCEPT !.push = config.push]
    <3>1. config \in SubOptions /\ subs[s] \in SubRecords
      BY <2>2 DEF UpdateSubscription, PInv, PubSubTypeOK
    <3>2. r \in SubRecords
      BY <3>1 DEF SubOptions, SubRecords
    <3>3. subs' = [subs EXCEPT ![s] = [r EXCEPT !.policy = config.policy]]
      BY <2>2 DEF UpdateSubscription
    <3> HIDE DEF r
    <3>4. [r EXCEPT !.policy = config.policy] \in SubRecords
      BY <3>1, <3>2 DEF SubOptions, SubRecords
    <3> QED
      BY <3>3, <3>4 DEF PInv, PubSubTypeOK
  <2>3. ASSUME NEW s \in Subs, DetachSubscription(s) PROVE <1>5!1 /\ <1>5!2
    <3>1. subs[s] \in SubRecords
      BY <2>3 DEF DetachSubscription, PInv, PubSubTypeOK
    <3>2. [subs[s] EXCEPT !.detached = TRUE] \in SubRecords
      BY <3>1 DEF SubRecords
    <3> QED
      BY <2>3, <3>2 DEF DetachSubscription, PInv, PubSubTypeOK
  <2>4. ASSUME subs' = subs PROVE <1>5!1 /\ <1>5!2
    BY <2>4 DEF PInv, PubSubTypeOK
  <2> QED
    BY <2>1, <2>2, <2>3, <2>4 DEF CreateTopic, CreateSnapshot, DeleteSnapshot
<1>6. PubSubTypeOK'
  BY <1>1, <1>3, <1>4, <1>5 DEF PInv, PubSubTypeOK, pushEngine
<1> QED
  BY <1>1, <1>2, <1>5, <1>6, RowsAlone

-----------------------------------------------------------------------------
(* Deletions: the rows go with what they refer to.                           *)

LEMMA DropsGood ==
  ASSUME PInv, PubSubTypeOK', UNCHANGED <<published, fate, pushEngine>>, AStep,
         \A m \in MsgIds : messages'[m] \in {messages[m], NoRow},
         \A c \in Copies : \/ deliveries'[c] = NoRow
                           \/ /\ deliveries'[c] = deliveries[c]
                              /\ messages'[c[2]] = messages[c[2]]
                              /\ subs'[c[1]] = subs[c[1]]
  PROVE  Good
<1>1. EngineKnows'
  BY MemoryKept DEF pushEngine
<1>2. \A c \in Copies : deliveries[c] # NoRow => deliveries[c] \in DeliveryRows
  BY DEF PInv, PubSubTypeOK
<1>3. \A c \in Copies : Treats(deliveries[c], deliveries'[c])
  BY <1>2 DEF Treats, DeliveryRows
<1>4. Calm
  BY <1>3 DEF Calm, PInv, RowsRefer
<1> QED
  BY <1>1, <1>4, CalmIsGood

LEMMA DeleteTopicGood == ASSUME PInv, NEW t \in Topics, DeleteTopic(t) PROVE Good
<1> DEFINE dropped == {m \in MsgIds : messages[m] = t}
<1>1. /\ UNCHANGED <<subs, snapshots, published, pushEngine, fate>> /\ topics' = topics \ {t}
      /\ deliveries' = [c \in Copies |-> IF messages[c[2]] = t THEN NoRow ELSE deliveries[c]]
      /\ messages' = [m \in MsgIds |-> IF messages[m] = t THEN NoRow ELSE messages[m]]
  BY DEF DeleteTopic
<1>2. PubSubTypeOK'
  BY <1>1 DEF PInv, PubSubTypeOK, pushEngine
<1>3. OwedNow' = {c \in OwedNow : c[2] \notin dropped}
  BY <1>1, CopyParts DEF OwedNow, Owed
<1>4. MadeNow' = MadeNow /\ HandedNow' = HandedNow
  BY <1>1 DEF MadeNow, HandedNow
<1>5. AStep
  <2>1. dropped \in SUBSET MsgIds
    OBVIOUS
  <2> HIDE DEF dropped
  <2> QED
    BY <1>3, <1>4, <2>1, PromiseSteps
<1> QED
  BY <1>1, <1>2, <1>5, CopyParts, DropsGood

LEMMA DeleteSubscriptionGood ==
  ASSUME PInv, NEW s \in Subs, DeleteSubscription(s) PROVE Good
<1>1. /\ UNCHANGED <<topics, messages, snapshots, published, pushEngine, fate>>
      /\ subs' = [subs EXCEPT ![s] = NoRow]
      /\ deliveries' = [c \in Copies |-> IF c[1] = s THEN NoRow ELSE deliveries[c]]
  BY DEF DeleteSubscription
<1>2. PubSubTypeOK'
  BY <1>1 DEF PInv, PubSubTypeOK, pushEngine
<1>3. OwedNow' = {c \in OwedNow : c[1] # s}
  BY <1>1 DEF OwedNow, Owed
<1>4. MadeNow' = MadeNow /\ HandedNow' = HandedNow
  BY <1>1 DEF MadeNow, HandedNow
<1>5. AStep
  BY <1>3, <1>4, PromiseSteps
<1>6. \A c \in Copies : c[1] # s => subs'[c[1]] = subs[c[1]]
  BY <1>1, CopyParts DEF PInv, PubSubTypeOK
<1> QED
  BY <1>1, <1>2, <1>5, <1>6, DropsGood

-----------------------------------------------------------------------------
(* Steps that change rows and nothing they refer to.                         *)

LEMMA RowsGood ==
  ASSUME PInv, UNCHANGED <<topics, subs, messages, snapshots, published>>,
         deliveries' \in [Copies -> DeliveryRows \cup {NoRow}],
         fate' \in [Copies -> SUBSET {"made", "pull", "push"}],
         phase' \in {"idle", "working", "pushing"}, pushTimer' = pushTimer,
         pushCleanups' \in Nat, agenda' = agenda, visit' \in {visit, NoRow},
         batch' \subseteq batch, pushing' \in MsgIds \cup {NoRow},
         EngineKnows', AStep,
         \A c \in Copies :
           /\ Treats(deliveries[c], deliveries'[c])
           /\ fate[c] \subseteq fate'[c] /\ (fate'[c] # fate[c] => "made" \in fate[c])
           /\ deliveries'[c] # NoRow /\ deliveries'[c].attempt # deliveries[c].attempt
                => Handed(c)'
  PROVE  Good
<1>1. PubSubTypeOK'
  BY DEF PInv, PubSubTypeOK
<1>2. \A c \in Copies : deliveries'[c] # NoRow => deliveries[c] # NoRow
  BY DEF Treats
<1>3. Calm
  BY <1>2, CopyParts DEF Calm, PInv, RowsRefer, PubSubTypeOK
<1> QED
  BY <1>1, <1>3, CalmIsGood

(* Requests that change leases or acknowledgements.                          *)
LEMMA LeasesGood ==
  ASSUME PInv,
         UNCHANGED <<topics, subs, messages, snapshots, published, pushEngine, fate>>,
         deliveries' \in [Copies -> DeliveryRows \cup {NoRow}],
         \A c \in Copies :
           \/ deliveries'[c] = deliveries[c]
           \/ /\ deliveries[c] # NoRow /\ deliveries'[c] \in DeliveryRows
              /\ deliveries'[c].acked = deliveries[c].acked
              /\ deliveries'[c].attempt = deliveries[c].attempt
  PROVE  Good
<1>1. EngineKnows'
  BY MemoryKept DEF pushEngine
<1>2. \A c \in Copies : deliveries[c] # NoRow => deliveries[c] \in DeliveryRows
  BY DEF PInv, PubSubTypeOK
<1>3. \A c \in Copies : /\ Treats(deliveries[c], deliveries'[c])
                        /\ deliveries'[c] # NoRow => deliveries'[c].attempt = deliveries[c].attempt
  BY <1>2 DEF Treats, DeliveryRows
<1>4. UNCHANGED Seen
  <2>1. \A c \in Copies : Owed(c)' <=> Owed(c)
    BY <1>2 DEF Owed
  <2> QED
    BY <2>1 DEF Seen, OwedNow, MadeNow, HandedNow
<1> QED
  BY <1>1, <1>3, <1>4, RowsGood DEF AStep, pushEngine, PInv, PubSubTypeOK

LEMMA LeaseStepsGood ==
  ASSUME PInv,
         \/ \E c \in Copies : ModifyAckDeadline(c) \/ LeaseExpires(c)
         \/ \E s \in Subs : \/ \E time \in 0..published : SeekToTime(s, time)
                            \/ \E n \in Snapshots : SeekToSnapshot(s, n)
  PROVE  Good
<1>1. \A c \in Copies : deliveries[c] # NoRow => deliveries[c] \in DeliveryRows
  BY DEF PInv, PubSubTypeOK
<1>2. deliveries \in [Copies -> DeliveryRows \cup {NoRow}]
  BY DEF PInv, PubSubTypeOK
<1>3. ASSUME NEW c \in Copies, ModifyAckDeadline(c) \/ LeaseExpires(c) PROVE Good
  <2>1. PICK b \in BOOLEAN : deliveries' = [deliveries EXCEPT ![c].leased = b]
    BY <1>3 DEF ModifyAckDeadline, LeaseExpires
  <2>2. deliveries[c] # NoRow
    BY <1>3 DEF ModifyAckDeadline, LeaseExpires
  <2> DEFINE s == [deliveries[c] EXCEPT !.leased = b]
  <2>3. /\ s \in DeliveryRows /\ s.acked = deliveries[c].acked
        /\ s.attempt = deliveries[c].attempt
    BY <1>1, <2>2, RowUpdates
  <2>4. deliveries' = [deliveries EXCEPT ![c] = s]
    BY <2>1
  <2> HIDE DEF s
  <2>5. /\ deliveries' \in [Copies -> DeliveryRows \cup {NoRow}] /\ deliveries'[c] = s
        /\ \A d \in Copies : d # c => deliveries'[d] = deliveries[d]
    BY <1>2, <2>3, <2>4
  <2>6. UNCHANGED <<topics, subs, messages, snapshots, published, pushEngine, fate>>
    BY <1>3 DEF ModifyAckDeadline, LeaseExpires
  <2> QED
    BY <2>2, <2>3, <2>5, <2>6, LeasesGood
<1>4. ASSUME NEW s \in Subs, NEW time, ResetByTime(s, time) PROVE Good
  <2>1. \A c \in Copies :
          \/ deliveries'[c] = deliveries[c]
          \/ deliveries[c] # NoRow /\ deliveries'[c] = [deliveries[c] EXCEPT !.leased = FALSE]
    BY <1>4 DEF ResetByTime, Owed
  <2>2. \A c \in Copies : deliveries[c] # NoRow =>
          LET r == [deliveries[c] EXCEPT !.leased = FALSE] IN
          /\ r \in DeliveryRows /\ r.acked = deliveries[c].acked
          /\ r.attempt = deliveries[c].attempt
    BY <1>1, RowUpdates
  <2>3. deliveries' = [c \in Copies |-> deliveries'[c]]
    BY <1>4 DEF ResetByTime
  <2>4. deliveries' \in [Copies -> DeliveryRows \cup {NoRow}]
    BY <1>2, <2>1, <2>2, <2>3
  <2> QED
    BY <1>4, <2>1, <2>2, <2>4, LeasesGood DEF ResetByTime
<1> QED
  BY <1>3, <1>4 DEF SeekToTime, SeekToSnapshot

(* Pull: rows that were made are handed over.                                *)
LEMMA PullGood == ASSUME PInv, NEW s \in Subs, Pull(s) PROVE Good
<1>1. PICK P \in Limited(Bounded(s)) :
        deliveries' = Pulled(s, P) /\ fate' = Fated({s} \X P, "pull")
  BY DEF Pull
<1>2. UNCHANGED <<topics, subs, messages, snapshots, published, pushEngine>>
  BY DEF Pull
<1> DEFINE S == {s} \X P
<1>3. \A m \in P : m \in MsgIds /\ Owed(<<s, m>>)
  BY DEF Limited, Bounded, DueIn
<1>4. S \in SUBSET Copies /\ \A c \in Copies : c \in S <=> c[1] = s /\ c[2] \in P
  BY <1>3 DEF Copies
<1>5. \A c \in S : deliveries[c] \in DeliveryRows /\ Owed(c)
  BY <1>3, <1>4 DEF Owed, PInv, PubSubTypeOK
<1> HIDE DEF S
<1>6. \A c \in Copies : deliveries'[c] = IF c \in S
                        THEN [deliveries[c] EXCEPT !.leased = TRUE, !.attempt = @ + 1]
                        ELSE deliveries[c]
  BY <1>1, <1>4 DEF Pulled
<1>7. \A c \in S : /\ deliveries'[c] \in DeliveryRows
                   /\ deliveries'[c].acked = deliveries[c].acked
                   /\ deliveries'[c].attempt = deliveries[c].attempt + 1
  <2> SUFFICES ASSUME NEW c \in S
               PROVE  /\ deliveries'[c] \in DeliveryRows
                      /\ deliveries'[c].acked = deliveries[c].acked
                      /\ deliveries'[c].attempt = deliveries[c].attempt + 1
    OBVIOUS
  <2>1. deliveries[c] \in DeliveryRows /\ c \in Copies
    BY <1>4, <1>5
  <2> QED
    BY <1>6, <2>1, RowUpdates
<1>8. /\ fate' \in [Copies -> SUBSET {"made", "pull", "push"}]
      /\ \A c \in S : fate'[c] = fate[c] \cup {"pull"}
      /\ \A c \in Copies \ S : fate'[c] = fate[c]
  BY <1>1, <1>4, FatedKeeps DEF S, PInv
<1>9. deliveries' \in [Copies -> DeliveryRows \cup {NoRow}]
  <2>1. deliveries' = [c \in Copies |-> deliveries'[c]]
    BY <1>1 DEF Pulled
  <2> QED
    BY <1>6, <1>7, <2>1 DEF PInv, PubSubTypeOK
<1>10. \A c \in S : "made" \in fate[c] /\ deliveries[c] # NoRow
  BY <1>4, <1>5 DEF PInv, RowsAreMade, Owed
<1>11. \A c \in Copies : deliveries[c] # NoRow => deliveries[c] \in DeliveryRows
  BY DEF PInv, PubSubTypeOK
<1>12. \A c \in Copies :
         /\ Treats(deliveries[c], deliveries'[c])
         /\ fate[c] \subseteq fate'[c] /\ (fate'[c] # fate[c] => "made" \in fate[c])
         /\ deliveries'[c] # NoRow /\ deliveries'[c].attempt # deliveries[c].attempt
              => Handed(c)'
  <2>1. ASSUME NEW c \in S
        PROVE  /\ Treats(deliveries[c], deliveries'[c]) /\ Handed(c)'
               /\ fate[c] \subseteq fate'[c] /\ "made" \in fate[c]
    <3>1. c \in Copies /\ deliveries[c] \in DeliveryRows
      BY <1>4, <1>5
    <3>2. Treats(deliveries[c], deliveries'[c])
      BY <1>7, <3>1, TreatsRows
    <3> QED
      BY <1>8, <1>10, <3>1, <3>2 DEF Handed
  <2>2. ASSUME NEW c \in Copies \ S
        PROVE  /\ Treats(deliveries[c], deliveries'[c])
               /\ deliveries'[c] = deliveries[c] /\ fate'[c] = fate[c]
    BY <1>6, <1>8, <1>11, TreatsRows
  <2> QED
    BY <2>1, <2>2
<1>13. EngineKnows'
  BY <1>2, <1>12, MemoryKept DEF pushEngine
<1>14. AStep
  <2>1. \A c \in Copies : Owed(c)' <=> Owed(c)
    BY <1>6, <1>7, <1>10 DEF Owed, DeliveryRows
  <2>2. \A c \in Copies : ("made" \in fate'[c] <=> "made" \in fate[c])
                          /\ (c \in HandedNow => c \in HandedNow')
    BY <1>8 DEF HandedNow
  <2>3. HandedNow' \subseteq MadeNow
    BY <1>8, <1>10 DEF HandedNow, MadeNow, PInv, RowsAreMade, Handed
  <2>4. OwedNow' = OwedNow /\ MadeNow' = MadeNow /\ HandedNow \subseteq HandedNow'
    BY <2>1, <2>2 DEF OwedNow, MadeNow, HandedNow
  <2> QED
    BY <2>3, <2>4, PromiseSteps
<1> QED
  BY <1>2, <1>8, <1>9, <1>12, <1>13, <1>14, RowsGood DEF pushEngine, PInv, PubSubTypeOK

-----------------------------------------------------------------------------
(* Steps that settle a copy that was handed over.                            *)

LEMMA SettlesGood ==
  ASSUME PInv, NEW c \in HandedNow, deliveries' = Acked(deliveries, c),
         UNCHANGED <<topics, subs, messages, snapshots, published, fate, pushTimer,
                     pushCleanups, agenda, visit>>,
         phase' \in {"idle", "working", "pushing"}, batch' \subseteq batch,
         pushing' \in MsgIds \cup {NoRow}, EngineKnows'
  PROVE  Good
<1>1. c \in Copies
  BY DEF HandedNow
<1>2. deliveries \in [Copies -> DeliveryRows \cup {NoRow}]
  BY DEF PInv, PubSubTypeOK
<1>3. /\ deliveries' \in [Copies -> DeliveryRows \cup {NoRow}]
      /\ \A d \in Copies : d # c => deliveries'[d] = deliveries[d]
      /\ deliveries[c] = NoRow => deliveries'[c] = NoRow
      /\ deliveries[c] # NoRow =>
           /\ deliveries'[c] \in DeliveryRows /\ deliveries'[c].acked
           /\ deliveries'[c].attempt = deliveries[c].attempt
  BY <1>1, <1>2, AckedTreats
<1>4. \A d \in Copies : deliveries[d] # NoRow => deliveries[d] \in DeliveryRows
  BY <1>2
<1>5. \A d \in Copies :
        /\ Treats(deliveries[d], deliveries'[d])
        /\ deliveries'[d] # NoRow => deliveries'[d].attempt = deliveries[d].attempt
  <2>1. Treats(deliveries[c], deliveries'[c])
        /\ (deliveries'[c] # NoRow => deliveries'[c].attempt = deliveries[c].attempt)
    BY <1>1, <1>3, <1>4 DEF Treats, DeliveryRows
  <2>2. \A d \in Copies : Treats(deliveries[d], deliveries[d])
    BY <1>4 DEF Treats, DeliveryRows
  <2> QED
    BY <1>3, <2>1, <2>2
<1>6. AStep
  <2>1. OwedNow' = OwedNow \ {c}
    <3>1. ~Owed(c)'
      BY <1>3 DEF Owed
    <3>2. \A d \in Copies : d # c => (Owed(d)' <=> Owed(d))
      BY <1>3 DEF Owed
    <3> QED
      BY <3>1, <3>2 DEF OwedNow
  <2>2. MadeNow' = MadeNow /\ HandedNow' = HandedNow
    BY DEF MadeNow, HandedNow
  <2> QED
    BY <1>1, <2>1, <2>2, PromiseSteps
<1> QED
  BY <1>3, <1>5, <1>6, RowsGood DEF PInv, PubSubTypeOK

LEMMA AcknowledgeGood == ASSUME PInv, NEW c \in Copies, Acknowledge(c) PROVE Good
<1>1. /\ deliveries' = Acked(deliveries, c) /\ "pull" \in fate[c]
      /\ UNCHANGED <<topics, subs, messages, snapshots, published, pushEngine, fate>>
  BY DEF Acknowledge
<1>2. EngineKnows'
  BY <1>1, MemoryKept DEF pushEngine
<1>3. c \in HandedNow
  BY <1>1 DEF HandedNow
<1> QED
  BY <1>1, <1>2, <1>3, SettlesGood DEF pushEngine, PInv, PubSubTypeOK

(* The copy a batch entry is about; a policy's max is at least 1.            *)
LEMMA BatchCopies ==
  ASSUME PInv, NEW e \in batch
  PROVE  /\ visit \in Visits /\ e \in Entries
         /\ <<visit.sub, e.msg>> \in Copies /\ "made" \in fate[<<visit.sub, e.msg>>]
         /\ Exhausted(e) => <<visit.sub, e.msg>> \in HandedNow
         /\ visit.policy.topic \in Topics \cup {NoRow}
<1>1. visit \in Visits /\ e \in Entries
  BY DEF PInv, EngineKnows, PubSubTypeOK
<1>2. <<visit.sub, e.msg>> \in Copies /\ visit.policy \in Policies /\ e.attempt \in Nat
  BY <1>1 DEF Visits, Entries, Copies
<1>3. visit.policy.topic \in Topics \cup {NoRow}
      /\ (visit.policy # NoPolicy => visit.policy.max \in Nat \ {0})
  BY <1>2 DEF Policies, NoPolicy
<1>4. Exhausted(e) => e.attempt > 0
  BY <1>2, <1>3 DEF Exhausted
<1> QED
  BY <1>1, <1>2, <1>3, <1>4 DEF PInv, EngineKnows, HandedNow, Handed

(* routeToDeadLetter() without a topic, and an endpoint that accepts.        *)
LEMMA DiscardGood ==
  ASSUME PInv, NEW e \in batch, RouteToDeadLetter(e), visit.policy.topic = NoRow
  PROVE  Good
<1>1. /\ batch' = batch \ {e} /\ Exhausted(e)
      /\ deliveries' = Acked(deliveries, <<visit.sub, e.msg>>)
      /\ UNCHANGED <<topics, subs, messages, snapshots, published, fate, pushTimer,
                     pushCleanups, agenda, visit, phase, pushing>>
  BY DEF RouteToDeadLetter
<1>2. EngineKnows'
  BY <1>1, MemoryKept
<1> QED
  BY <1>1, <1>2, BatchCopies, SettlesGood DEF PInv, PubSubTypeOK

LEMMA PushAnsweredGood == ASSUME PInv, NEW ok \in BOOLEAN, PushAnswered(ok) PROVE Good
<1> DEFINE c == <<visit.sub, pushing>>
<1>1. /\ phase = "pushing" /\ phase' = "working" /\ pushing' = NoRow
      /\ deliveries' = (IF ok THEN Acked(deliveries, c) ELSE Incremented(c))
      /\ UNCHANGED <<topics, subs, messages, snapshots, published, pushTimer, pushCleanups,
                     agenda, visit, batch, fate>>
  BY DEF PushAnswered
<1>2. visit \in Visits /\ pushing \in MsgIds /\ "push" \in fate[c] /\ c \in Copies
  BY <1>1 DEF PInv, EngineKnows, Visits, Copies
<1>3. EngineKnows'
  BY <1>1, <1>2 DEF PInv, EngineKnows, Handed
<1>4. c \in HandedNow
  BY <1>2 DEF HandedNow
<1>5. CASE ok
  BY <1>1, <1>3, <1>4, <1>5, SettlesGood
<1>6. CASE ~ok
  <2>1. /\ deliveries' \in [Copies -> DeliveryRows \cup {NoRow}]
        /\ \A d \in Copies : d # c => deliveries'[d] = deliveries[d]
        /\ deliveries[c] = NoRow => deliveries'[c] = NoRow
        /\ deliveries[c] # NoRow =>
             /\ deliveries'[c] \in DeliveryRows
             /\ deliveries'[c].acked = deliveries[c].acked
             /\ deliveries'[c].attempt = deliveries[c].attempt + 1
    BY <1>1, <1>2, <1>6, IncrementedTreats DEF PInv
  <2>2. \A d \in Copies : deliveries[d] # NoRow => deliveries[d] \in DeliveryRows
    BY DEF PInv, PubSubTypeOK
  <2> HIDE DEF c
  <2>3. /\ Treats(deliveries[c], deliveries'[c])
        /\ \A d \in Copies : Treats(deliveries[d], deliveries[d])
    <3>1. \A d \in Copies : Treats(deliveries[d], deliveries[d])
      BY <2>2, TreatsRows
    <3>2. CASE deliveries[c] = NoRow
      BY <1>2, <2>1, <3>1, <3>2
    <3>3. CASE deliveries[c] # NoRow
      BY <1>2, <2>1, <2>2, <3>3, TreatsRows
    <3> QED
      BY <3>1, <3>2, <3>3
  <2>4. fate' = fate /\ fate'[c] \cap {"pull", "push"} # {}
    BY <1>1, <1>2
  <2>5. AStep
    <3>1. \A d \in Copies : Owed(d)' <=> Owed(d)
      BY <1>2, <2>1, <2>2 DEF Owed, DeliveryRows
    <3>2. UNCHANGED Seen
      BY <2>4, <3>1 DEF Seen, OwedNow, MadeNow, HandedNow
    <3> QED
      BY <3>2 DEF AStep
  <2>6. \A d \in Copies :
          /\ Treats(deliveries[d], deliveries'[d])
          /\ deliveries'[d] # NoRow /\ deliveries'[d].attempt # deliveries[d].attempt
               => Handed(d)'
    <3>1. \A d \in Copies : d # c => deliveries'[d].attempt = deliveries[d].attempt
      BY <2>1
    <3> QED
      BY <2>1, <2>3, <2>4, <3>1 DEF Handed
  <2> QED
    BY <1>1, <1>3, <2>1, <2>4, <2>5, <2>6, RowsGood DEF PInv, PubSubTypeOK
<1> QED
  BY <1>5, <1>6

-----------------------------------------------------------------------------
(* The engine.                                                               *)

LEMMA PushMessageGood == ASSUME PInv, NEW e \in batch, PushMessage(e) PROVE Good
<1> DEFINE c == <<visit.sub, e.msg>>
<1>1. /\ phase' = "pushing" /\ batch' = batch \ {e} /\ pushing' = e.msg
      /\ fate' = Fated({c}, "push")
      /\ UNCHANGED <<pubsubTables, pushTimer, pushCleanups, agenda, visit>>
  BY DEF PushMessage
<1>2. /\ visit \in Visits /\ e.msg \in MsgIds /\ c \in Copies /\ "made" \in fate[c]
      /\ visit' = visit
  BY <1>1, BatchCopies DEF Entries
<1>3. /\ fate' \in [Copies -> SUBSET {"made", "pull", "push"}]
      /\ fate'[c] = fate[c] \cup {"push"}
      /\ \A d \in Copies : d # c => fate'[d] = fate[d]
  BY <1>1, <1>2, FatedKeeps DEF PInv
<1>4. EngineKnows'
  <2>1. \A f \in batch : LET d == <<visit.sub, f.msg>> IN
          /\ d \in Copies /\ "made" \in fate[d]
          /\ f.attempt > 0 => fate[d] \cap {"pull", "push"} # {}
    BY BatchCopies DEF PInv, EngineKnows, Handed
  <2>2. \A d \in Copies : fate[d] \subseteq fate'[d]
    BY <1>3
  <2>3. \A f \in batch' : LET d == <<visit'.sub, f.msg>> IN
          "made" \in fate'[d] /\ (f.attempt > 0 => fate'[d] \cap {"pull", "push"} # {})
    BY <1>1, <1>2, <2>1, <2>2
  <2>4. "push" \in fate'[<<visit'.sub, pushing'>>] /\ pushing' \in MsgIds /\ visit' \in Visits
    BY <1>1, <1>2, <1>3
  <2> QED
    BY <2>3, <2>4 DEF EngineKnows, Handed
<1> HIDE DEF c
<1>5. \A d \in Copies : Treats(deliveries[d], deliveries[d])
  BY TreatsRows DEF PInv, PubSubTypeOK
<1>6. deliveries' = deliveries
  BY <1>1 DEF pubsubTables
<1>7. AStep
  <2>1. OwedNow' = OwedNow
    BY <1>6 DEF OwedNow, Owed
  <2>2. MadeNow' = MadeNow /\ HandedNow \subseteq HandedNow'
    BY <1>3 DEF MadeNow, HandedNow
  <2>3. HandedNow' \subseteq MadeNow
    BY <1>2, <1>3 DEF MadeNow, HandedNow, PInv, RowsAreMade, Handed
  <2> QED
    BY <2>1, <2>2, <2>3, PromiseSteps
<1> QED
  BY <1>1, <1>2, <1>3, <1>4, <1>5, <1>6, <1>7, RowsGood DEF pubsubTables, PInv, PubSubTypeOK

LEMMA PushTickEndsGood == ASSUME PInv, PushTickEnds PROVE Good
<1>1. /\ phase = "working" /\ batch = {} /\ phase' = "idle" /\ visit' = NoRow
      /\ UNCHANGED <<topics, subs, messages, snapshots, published, pushTimer, agenda, batch,
                     pushing, fate>>
  BY DEF PushTickEnds
<1>2. pushCleanups' \in Nat
  BY DEF PushTickEnds, PInv, PubSubTypeOK
<1>3. /\ deliveries' \in [Copies -> DeliveryRows \cup {NoRow}]
      /\ \A c \in Copies : deliveries'[c] = deliveries[c] \/ (~Owed(c) /\ deliveries'[c] = NoRow)
  <2>1. \/ deliveries' = deliveries
        \/ deliveries' = [c \in Copies |-> IF Owed(c) THEN deliveries[c] ELSE NoRow]
    BY DEF PushTickEnds
  <2> QED
    BY <2>1 DEF PInv, PubSubTypeOK
<1>4. EngineKnows'
  BY <1>1 DEF EngineKnows
<1>5. \A c \in Copies : Treats(deliveries[c], deliveries'[c])
  <2>1. \A c \in Copies : Treats(deliveries[c], deliveries[c])
    BY TreatsRows DEF PInv, PubSubTypeOK
  <2> QED
    BY <1>3, <2>1 DEF Treats
<1>6. AStep
  <2>1. \A c \in Copies : Owed(c)' <=> Owed(c)
    BY <1>3 DEF Owed
  <2>2. UNCHANGED Seen
    BY <1>1, <2>1 DEF Seen, OwedNow, MadeNow, HandedNow
  <2> QED
    BY <2>2 DEF AStep
<1>7. \A c \in Copies : deliveries'[c] # NoRow => deliveries'[c] = deliveries[c]
  BY <1>3
<1> QED
  BY <1>1, <1>2, <1>3, <1>4, <1>5, <1>6, <1>7, RowsGood DEF PInv, PubSubTypeOK

LEMMA EngineRestsGood ==
  ASSUME PInv,
         \/ PushTick \/ VisitSubscription \/ StopPushEngine \/ PubSubRestart \/ PubSubCrash
         \/ UNCHANGED pubsubVars
  PROVE  Good
<1>1. UNCHANGED <<pubsubTables, fate>>
  BY DEF PushTick, VisitSubscription, StopPushEngine, PubSubRestart, PubSubCrash,
         PubSubNewProcess, pubsubVars
<1>2. ASSUME PubSubTypeOK', EngineKnows' PROVE Good
  BY <1>1, <1>2, RowsAlone DEF pubsubTables
<1>3. ASSUME phase' \in {"idle", "working", "pushing"}, pushTimer' \in BOOLEAN,
             pushCleanups' \in Nat, agenda' \in SUBSET Visits, visit' \in Visits \cup {NoRow},
             batch' \in SUBSET Entries, pushing' \in MsgIds \cup {NoRow}
      PROVE  PubSubTypeOK'
  BY <1>1, <1>3 DEF PInv, PubSubTypeOK, pubsubTables
<1>4. \A c \in Copies : fate'[c] = fate[c]
  BY <1>1
<1>5. CASE PushTick
  <2>1. \A s \in Subs : subs[s] # NoRow => subs[s].policy \in Policies
    BY DEF PInv, PubSubTypeOK, SubRecords
  <2>2. agenda' \in SUBSET Visits
    BY <1>5, <2>1 DEF PushTick, PushSubs, Visits
  <2>3. /\ UNCHANGED <<pushTimer, pushCleanups, visit, batch, pushing>>
        /\ phase = "idle" /\ phase' = "working"
    BY <1>5 DEF PushTick
  <2>4. EngineKnows'
    BY <1>1, <2>3 DEF PInv, EngineKnows, Handed
  <2>5. PubSubTypeOK'
    BY <1>3, <2>2, <2>3 DEF PInv, PubSubTypeOK
  <2> QED
    BY <1>2, <2>4, <2>5
<1>6. CASE VisitSubscription
  <2>1. PICK v \in agenda :
        \E P \in Limited(IF v.policy = NoPolicy THEN Bounded(v.sub) ELSE DueIn(v.sub)) :
          /\ agenda' = agenda \ {v} /\ visit' = v
          /\ batch' = {[msg |-> m, attempt |-> deliveries[<<v.sub, m>>].attempt] : m \in P}
    BY <1>6 DEF VisitSubscription
  <2>2. PICK P \in SUBSET DueIn(v.sub) :
          batch' = {[msg |-> m, attempt |-> deliveries[<<v.sub, m>>].attempt] : m \in P}
    BY <2>1 DEF Limited, Bounded
  <2>3. v \in Visits /\ v.sub \in Subs
    BY DEF PInv, PubSubTypeOK, Visits
  <2>4. ASSUME NEW m \in P
        PROVE  LET c == <<v.sub, m>> IN
               /\ c \in Copies /\ m \in MsgIds /\ deliveries[c] # NoRow
               /\ deliveries[c] \in DeliveryRows
    BY <2>3 DEF DueIn, Owed, Copies, PInv, PubSubTypeOK
  <2>5. \A f \in batch' : \E m \in P : f.msg = m /\ f.attempt = deliveries[<<v.sub, m>>].attempt
                                       /\ f \in Entries
    <3> DEFINE A(m) == deliveries[<<v.sub, m>>].attempt
    <3>1. \A m \in P : A(m) \in Nat /\ m \in MsgIds
      BY <2>4 DEF DeliveryRows
    <3>2. \A f \in batch' : \E m \in P : f = [msg |-> m, attempt |-> A(m)]
      BY <2>2
    <3> HIDE DEF A
    <3>3. \A m \in P : [msg |-> m, attempt |-> A(m)] \in Entries
      BY <3>1 DEF Entries
    <3>4. \A f \in batch' : \E m \in P : f.msg = m /\ f.attempt = A(m) /\ f \in Entries
      BY <3>2, <3>3
    <3> QED
      BY <3>4 DEF A
  <2>6. UNCHANGED <<phase, pushTimer, pushCleanups, pushing>> /\ phase = "working"
    BY <1>6 DEF VisitSubscription
  <2>7. PubSubTypeOK'
    BY <1>3, <2>1, <2>3, <2>5, <2>6 DEF PInv, PubSubTypeOK
  <2>8. EngineKnows'
    <3>1. \A f \in batch' : LET c == <<visit'.sub, f.msg>> IN
            "made" \in fate'[c] /\ (f.attempt > 0 => fate'[c] \cap {"pull", "push"} # {})
      BY <1>1, <2>1, <2>4, <2>5 DEF PInv, RowsAreMade, Handed
    <3> QED
      BY <2>1, <2>3, <2>6, <3>1 DEF EngineKnows, Handed
  <2> QED
    BY <1>2, <2>7, <2>8
<1>7. CASE PubSubRestart \/ PubSubCrash
  <2>1. /\ phase' = "idle" /\ pushTimer' = TRUE /\ pushCleanups' = 0
        /\ agenda' = {} /\ visit' = NoRow /\ batch' = {} /\ pushing' = NoRow
    BY <1>7 DEF PubSubRestart, PubSubCrash, PubSubNewProcess
  <2>2. EngineKnows'
    BY <2>1 DEF EngineKnows
  <2>3. PubSubTypeOK'
    BY <1>3, <2>1
  <2> QED
    BY <1>2, <2>2, <2>3
<1>8. CASE StopPushEngine \/ UNCHANGED pubsubVars
  <2>1. /\ UNCHANGED <<phase, pushCleanups, agenda, visit, batch, pushing>>
        /\ pushTimer' \in BOOLEAN
    BY <1>8 DEF StopPushEngine, pubsubVars, pushEngine, PInv, PubSubTypeOK
  <2>2. EngineKnows'
    BY <1>1, <2>1 DEF PInv, EngineKnows, Handed
  <2>3. PubSubTypeOK'
    BY <1>3, <2>1 DEF PInv, PubSubTypeOK
  <2> QED
    BY <1>2, <2>2, <2>3
<1> QED
  BY <1>5, <1>6, <1>7, <1>8

-----------------------------------------------------------------------------
(* Publishes.                                                                *)

LEMMA FansGood ==
  ASSUME PInv, NEW t \in Topics, Fans(t), NEW settled \in SUBSET HandedNow,
         settled = {} \/ \E c \in Copies : settled = {c},
         \A c \in settled : deliveries'[c] = NoRow \/ deliveries'[c].acked,
         \A c \in Copies : c \notin MadeFor(t) \cup settled => deliveries'[c] = deliveries[c],
         deliveries' \in [Copies -> DeliveryRows \cup {NoRow}],
         UNCHANGED <<topics, snapshots, phase, pushTimer, pushCleanups, agenda, visit,
                     pushing>>,
         batch' \subseteq batch
  PROVE  Good
<1>1. /\ RowsRefer' /\ Unpublished' /\ RowsAreMade'
      /\ \A c \in Copies : fate[c] \subseteq fate'[c]
      /\ \A c \in Copies : deliveries[c] # NoRow => Treats(deliveries[c], deliveries'[c])
  BY FansKeeps
<1>2. EngineKnows'
  BY <1>1, MemoryKept
<1>3. published < MaxMessages
  BY DEF Fans
<1>4. /\ published + 1 \in MsgIds
      /\ messages' \in [MsgIds -> Topics \cup {NoRow}]
      /\ \A c \in MadeFor(t) : c \in Copies /\ deliveries[c] = NoRow /\ fate[c] = {}
      /\ NewRow \in DeliveryRows /\ ~NewRow.acked
  BY <1>3, PublishMakes DEF Fans
<1>5. MadeFor(t) \in SUBSET Copies
  BY DEF MadeFor
<1>6. /\ fate' \in [Copies -> SUBSET {"made", "pull", "push"}]
      /\ \A c \in MadeFor(t) : fate'[c] = fate[c] \cup {"made"}
      /\ \A c \in Copies \ MadeFor(t) : fate'[c] = fate[c]
  BY <1>5, FatedKeeps DEF Fans, PInv
<1>7. PubSubTypeOK'
  <2>1. published' \in 0..MaxMessages
    BY <1>3 DEF Fans, PInv, PubSubTypeOK
  <2> QED
    BY <1>4, <1>6, <2>1 DEF PInv, PubSubTypeOK, Fans
<1>8. AStep
  <2>1. MadeNow' = MadeNow \cup MadeFor(t) /\ MadeNow \cap MadeFor(t) = {}
    BY <1>4, <1>5, <1>6 DEF MadeNow
  <2>2. HandedNow' = HandedNow
    BY <1>5, <1>6 DEF HandedNow
  <2>3. \A c \in settled : c \notin MadeFor(t)
    BY <1>4 DEF HandedNow
  <2>4. \A c \in MadeFor(t) : Owed(c)'
    BY <1>4 DEF Fans, Owed
  <2>5. \A c \in settled : ~Owed(c)'
    BY DEF Owed
  <2>6. \A c \in Copies : c \notin MadeFor(t) \cup settled => (Owed(c)' <=> Owed(c))
    BY DEF Owed
  <2>7. OwedNow' = (OwedNow \ settled) \cup MadeFor(t)
    BY <1>5, <2>3, <2>4, <2>5, <2>6 DEF OwedNow
  <2>8. MadeNow' \ MadeNow = MadeFor(t) /\ MadeNow \subseteq MadeNow' /\ MadeNow' \subseteq Copies
    BY <1>5, <2>1 DEF MadeNow
  <2> QED
    BY <2>2, <2>7, <2>8, PromiseSteps
<1> QED
  BY <1>1, <1>2, <1>7, <1>8 DEF Good

LEMMA PublishGood == ASSUME PInv, NEW t \in Topics, Publish(t) PROVE Good
<1>1. /\ published < MaxMessages /\ messages' = Stored(t) /\ deliveries' = FannedOut(t)
      /\ fate' = Fated(MadeFor(t), "made") /\ published' = published + 1
      /\ UNCHANGED <<topics, subs, snapshots, pushEngine>>
  BY DEF Publish
<1>2. /\ deliveries' \in [Copies -> DeliveryRows \cup {NoRow}]
      /\ \A c \in MadeFor(t) : deliveries'[c] = NewRow
      /\ \A c \in Copies \ MadeFor(t) : deliveries'[c] = deliveries[c]
  BY <1>1, PublishMakes
<1>3. \A c \in Copies : deliveries[c] # NoRow => deliveries[c] \in DeliveryRows
  BY DEF PInv, PubSubTypeOK
<1>4. Fans(t)
  BY <1>1, <1>2, <1>3 DEF Fans
<1>5. ASSUME NEW settled, settled = {} PROVE Good
  <2>1. settled \in SUBSET HandedNow /\ \A c \in Copies : c \notin settled
    BY <1>5
  <2> QED
    BY <1>1, <1>2, <1>4, <1>5, <2>1, FansGood DEF pushEngine
<1> QED
  BY <1>5

LEMMA DeadLetterGood ==
  ASSUME PInv, NEW e \in batch, RouteToDeadLetter(e), visit.policy.topic # NoRow
  PROVE  Good
<1> DEFINE t == visit.policy.topic
           c == <<visit.sub, e.msg>>
<1>1. t \in Topics /\ c \in HandedNow /\ c \in Copies /\ "made" \in fate[c]
  BY BatchCopies DEF RouteToDeadLetter
<1>2. /\ published < MaxMessages /\ messages' = Stored(t)
      /\ deliveries' = Acked(FannedOut(t), c)
      /\ fate' = Fated(MadeFor(t), "made") /\ published' = published + 1
      /\ UNCHANGED <<topics, subs, snapshots, phase, pushTimer, pushCleanups, agenda, visit,
                     pushing>>
      /\ batch' = batch \ {e}
  BY DEF RouteToDeadLetter
<1> HIDE DEF t, c
<1>3. /\ FannedOut(t) \in [Copies -> DeliveryRows \cup {NoRow}]
      /\ \A d \in MadeFor(t) : d \in Copies /\ fate[d] = {} /\ FannedOut(t)[d] = NewRow
      /\ \A d \in Copies \ MadeFor(t) : FannedOut(t)[d] = deliveries[d]
  BY <1>1, <1>2, PublishMakes
<1>4. c \notin MadeFor(t)
  BY <1>1, <1>3
<1>5. /\ deliveries' \in [Copies -> DeliveryRows \cup {NoRow}]
      /\ \A d \in Copies : d # c => deliveries'[d] = FannedOut(t)[d]
      /\ deliveries[c] = NoRow => deliveries'[c] = NoRow
      /\ deliveries[c] # NoRow =>
           /\ deliveries'[c] \in DeliveryRows /\ deliveries'[c].acked
           /\ deliveries'[c].attempt = deliveries[c].attempt
  BY <1>1, <1>2, <1>3, <1>4, AckedTreats
<1>6. \A d \in Copies : deliveries[d] # NoRow => deliveries[d] \in DeliveryRows
  BY DEF PInv, PubSubTypeOK
<1>7. Fans(t)
  BY <1>1, <1>2, <1>3, <1>4, <1>5, <1>6 DEF Fans
<1>8. {c} \in SUBSET HandedNow
  BY <1>1
<1>9. \A d \in {c} : deliveries'[d] = NoRow \/ deliveries'[d].acked
  BY <1>5
<1>10. \A d \in Copies : d \notin MadeFor(t) \cup {c} => deliveries'[d] = deliveries[d]
  BY <1>3, <1>5
<1>11. batch' \subseteq batch /\ \E d \in Copies : {c} = {d}
  BY <1>1, <1>2
<1> QED
  BY <1>1, <1>2, <1>5, <1>7, <1>8, <1>9, <1>10, <1>11, FansGood

-----------------------------------------------------------------------------

LEMMA EveryStepIsGood == PInv /\ [PubSubNext]_pubsubVars => Good
<1> SUFFICES ASSUME PInv, [PubSubNext]_pubsubVars PROVE Good
  OBVIOUS
<1>1. ASSUME NEW e \in batch, RouteToDeadLetter(e) PROVE Good
  BY <1>1, DiscardGood, DeadLetterGood
<1> QED
  BY <1>1, NamesGood, DeleteTopicGood, DeleteSubscriptionGood, LeaseStepsGood, PullGood,
     AcknowledgeGood, PushAnsweredGood, PushMessageGood, PushTickEndsGood, EngineRestsGood,
     PublishGood DEF PubSubNext, EngineWorks

LEMMA FirstState == PubSubInit => PInv /\ Promise!Init
<1> SUFFICES ASSUME PubSubInit PROVE PInv /\ Promise!Init
  OBVIOUS
<1>1. /\ subs \in [Subs -> SubRecords \cup {NoRow}]
      /\ messages \in [MsgIds -> Topics \cup {NoRow}]
      /\ deliveries \in [Copies -> DeliveryRows \cup {NoRow}]
      /\ snapshots \in [Snapshots -> Nat \cup {NoRow}]
      /\ fate \in [Copies -> SUBSET {"made", "pull", "push"}]
  BY DEF PubSubInit
<1>2. PubSubTypeOK
  BY <1>1 DEF PubSubInit, PubSubTypeOK
<1>3. /\ \A c \in Copies : deliveries[c] = NoRow /\ fate[c] = {}
      /\ \A c \in Copies : messages[c[2]] = NoRow
  BY CopyParts DEF PubSubInit
<1>4. RowsRefer /\ Unpublished /\ RowsAreMade /\ EngineKnows
  BY <1>3 DEF PubSubInit, RowsRefer, Unpublished, RowsAreMade, EngineKnows, Handed
<1>5. Promise!Init
  BY <1>3 DEF Promise!Init, Owed
<1> QED
  BY <1>2, <1>4, <1>5 DEF PInv

LEMMA PInvAlways == PubSubSpec => []PInv
<1>1. PInv /\ [PubSubNext]_pubsubVars => PInv'
  BY EveryStepIsGood DEF Good, PInv
<1> QED
  BY <1>1, FirstState, PTL DEF PubSubSpec

(* Delivery rows always refer to a message and a subscription that are there *)
(* (message-repository.ts), through deletions while a push is awaited, dead  *)
(* letters, names that are created again, stops and crashes.                 *)
THEOREM RowsAreSound == PubSubSpec => []PubSubInvariant
<1>1. PInv => PubSubInvariant
  BY DEF PInv, PubSubInvariant
<1> QED
  BY <1>1, PInvAlways, PTL

(* What the two action properties say of a step.                             *)
AckedKept ==
  \A c \in Copies : deliveries[c] # NoRow /\ deliveries[c].acked =>
    deliveries'[c] = NoRow \/ deliveries'[c].acked
AttemptsKept ==
  \A c \in Copies : deliveries[c] # NoRow /\ deliveries'[c] # NoRow =>
    deliveries'[c].attempt - deliveries[c].attempt \in {0, 1}

(* No step revives an acknowledged row, and none loses an attempt or counts  *)
(* two (lines 160-331 of message-repository.ts).                             *)
THEOREM RowsKeepTheirHistory == PubSubSpec => DeliveriesHold
<1>1. Good => AckedKept /\ AttemptsKept
  BY DEF Good, AckedKept, AttemptsKept, Treats
<1>2. PInv /\ [PubSubNext]_pubsubVars => [AckedKept]_pubsubVars /\ [AttemptsKept]_pubsubVars
  BY <1>1, EveryStepIsGood
<1>3. DeliveriesHold <=> [][AckedKept]_pubsubVars /\ [][AttemptsKept]_pubsubVars
  BY DEF DeliveriesHold, AckedIsFinal, AttemptsNeverFall, AckedKept, AttemptsKept
<1> QED
  BY <1>2, <1>3, PInvAlways, PTL DEF PubSubSpec

(* Pub/Sub implements at-least-once delivery: no copy stops being owed before*)
(* it was handed over, other than by a deletion that drops it for everybody. *)
THEOREM DeliversAtLeastOnce == PubSubSpec => ImplementsAtLeastOnce
<1>1. Good => [Promise!Next]_(Promise!promise)
  BY DEF Good, AStep, Promise!promise, Seen, OwedNow, MadeNow, HandedNow
<1>2. PInv /\ [PubSubNext]_pubsubVars => [Promise!Next]_(Promise!promise)
  BY <1>1, EveryStepIsGood
<1> QED
  BY <1>2, FirstState, PInvAlways, PTL DEF PubSubSpec, ImplementsAtLeastOnce, Promise!Spec

-----------------------------------------------------------------------------
(* A call that stopped polling is over: scheduleNextPoll() refuses no other; *)
(* and only one that polled waits for its client to read.                    *)
StoppedAreOver ==
  \A s \in Streams : streams[s] # NoRow =>
    /\ streams[s].cancelled = streams[s].over
    /\ streams[s].paused => streams[s].named

StreamInv == StreamInvariant /\ StoppedAreOver

(* What the steps of one call make of its record.                            *)
LEMMA CallSteps ==
  ASSUME NEW call \in StreamRecords
  PROVE  /\ StoppedCall(call) \in StreamRecords
         /\ StoppedCall(call).over /\ StoppedCall(call).cancelled /\ StoppedCall(call).polls = 0
         /\ StoppedCall(call).paused = call.paused /\ StoppedCall(call).named = call.named
BY DEF StreamRecords, StoppedCall

(* scheduleNextPoll() of a call that is not cancelled and has no timer.      *)
LEMMA ScheduledOnce ==
  ASSUME NEW call \in StreamRecords, ~call.cancelled, call.polls = 0
  PROVE  /\ Scheduled(call) \in StreamRecords
         /\ Scheduled(call).over = call.over /\ ~Scheduled(call).cancelled
         /\ Scheduled(call).named = call.named /\ Scheduled(call).paused = call.paused
         /\ Scheduled(call).polls = IF call.paused THEN 0 ELSE 1
<1>1. CASE call.paused
  BY <1>1 DEF Scheduled
<1>2. CASE ~call.paused
  <2>1. Scheduled(call) = [call EXCEPT !.polls = 1]
    BY <1>2 DEF Scheduled
  <2> QED
    BY <1>2, <2>1 DEF StreamRecords
<1> QED
  BY <1>1, <1>2 DEF StreamRecords

(* A call's own step: the other calls stay, and the stopper goes exactly if  *)
(* the call is over.                                                         *)
LEMMA OwnStep ==
  ASSUME StreamInv, NEW s \in Streams, NEW call \in StreamRecords,
         streams' = [streams EXCEPT ![s] = call],
         call.cancelled = call.over, call.paused => call.named,
         call.polls = IF ~call.over /\ call.named /\ ~call.paused THEN 1 ELSE 0,
         stoppers' = IF call.over THEN stoppers \ {s} ELSE stoppers \cup {s},
         StageKept
  PROVE  StreamInv'
<1> USE DEF StreamInv, StreamInvariant, StreamTypeOK
<1>1. /\ streams' \in [Streams -> StreamRecords \cup {NoRow}] /\ streams'[s] = call
      /\ \A t \in Streams \ {s} : streams'[t] = streams[t]
  OBVIOUS
<1>2. call # NoRow
  BY StreamAssumption
<1>3. StreamTypeOK'
  BY <1>1 DEF StageKept
<1>4. OnePollPerStream'
  BY <1>1, <1>2 DEF OnePollPerStream, IsOpen
<1>5. StoppersAreTheOpen'
  BY <1>1, <1>2 DEF StoppersAreTheOpen, IsOpen
<1>6. StoppedAreOver'
  BY <1>1 DEF StoppedAreOver
<1> QED
  BY <1>3, <1>4, <1>5, <1>6

LEMMA CallStays ==
  ASSUME StreamInv, NEW s \in Streams, NEW call \in StreamRecords,
         streams' = [streams EXCEPT ![s] = call], stoppers' = stoppers \cup {s}, StageKept,
         ~call.cancelled, ~call.over, call.paused => call.named,
         call.polls = IF call.named /\ ~call.paused THEN 1 ELSE 0
  PROVE  StreamInv'
<1>1. call.cancelled = call.over
  BY DEF StreamRecords
<1>2. call.polls = IF ~call.over /\ call.named /\ ~call.paused THEN 1 ELSE 0
  OBVIOUS
<1>3. stoppers' = IF call.over THEN stoppers \ {s} ELSE stoppers \cup {s}
  OBVIOUS
<1> QED
  BY <1>1, <1>2, <1>3, OwnStep

LEMMA CallEnds ==
  ASSUME StreamInv, NEW s \in Streams, IsOpen(s), StreamEnds(s), StageKept
  PROVE  StreamInv'
<1> DEFINE call == StoppedCall(streams[s])
<1>1. streams[s] \in StreamRecords
  BY DEF StreamInv, StreamInvariant, StreamTypeOK, IsOpen
<1>2. /\ call \in StreamRecords /\ call.over /\ call.cancelled /\ call.polls = 0
      /\ call.paused => call.named
  BY <1>1, CallSteps DEF StreamInv, StoppedAreOver, IsOpen
<1>3. streams' = [streams EXCEPT ![s] = call] /\ stoppers' = stoppers \ {s}
  BY DEF StreamEnds
<1> HIDE DEF call
<1>4. call.cancelled = call.over
  BY <1>2 DEF StreamRecords
<1>5. call.polls = IF ~call.over /\ call.named /\ ~call.paused THEN 1 ELSE 0
  BY <1>2
<1>6. stoppers' = IF call.over THEN stoppers \ {s} ELSE stoppers \cup {s}
  BY <1>2, <1>3
<1> QED
  BY <1>2, <1>3, <1>4, <1>5, <1>6, OwnStep

LEMMA PolledCall ==
  ASSUME NEW call \in StreamRecords, call.polls = 1, NEW full \in BOOLEAN
  PROVE  /\ Polled(call, full) \in StreamRecords /\ Polled(call, full).polls = 0
         /\ Polled(call, full).over = call.over
         /\ Polled(call, full).cancelled = call.cancelled
         /\ Polled(call, full).named = call.named
<1> DEFINE polled == [call EXCEPT !.polls = 0]
<1>1. /\ polled \in StreamRecords /\ polled.polls = 0 /\ polled.over = call.over
      /\ polled.cancelled = call.cancelled /\ polled.named = call.named
  BY DEF StreamRecords
<1>2. Polled(call, full) = [polled EXCEPT !.paused = full]
  BY DEF StreamRecords, Polled
<1> HIDE DEF polled
<1> QED
  BY <1>1, <1>2 DEF StreamRecords

LEMMA CallGoesOn ==
  ASSUME StreamInv, NEW s \in Streams,
         OpenStream(s) \/ FirstRequest(s) \/ NamesAgain(s) \/ ClientLeaves(s)
           \/ PollMessages(s) \/ Drain(s)
  PROVE  StreamInv'
<1>0. /\ streams \in [Streams -> StreamRecords \cup {NoRow}]
      /\ IsOpen(s) => /\ streams[s] \in StreamRecords /\ s \in stoppers
                      /\ ~streams[s].over /\ ~streams[s].cancelled
                      /\ streams[s].paused => streams[s].named
                      /\ streams[s].polls = IF streams[s].named /\ ~streams[s].paused THEN 1 ELSE 0
  BY DEF StreamInv, StreamInvariant, StreamTypeOK, IsOpen, StoppersAreTheOpen, StoppedAreOver,
         OnePollPerStream, StreamRecords
<1>1. CASE OpenStream(s)
  <2> DEFINE call == [named |-> FALSE, cancelled |-> FALSE, paused |-> FALSE, polls |-> 0,
                      over |-> FALSE]
  <2>1. call \in StreamRecords
    BY DEF StreamRecords
  <2> QED
    BY <1>1, <2>1, OwnStep DEF OpenStream
<1>2. CASE FirstRequest(s)
  <2> DEFINE before == [streams[s] EXCEPT !.named = TRUE]
             call == Scheduled(before)
  <2>1. IsOpen(s) /\ ~streams[s].named /\ StageKept
    BY <1>2 DEF FirstRequest
  <2>2. /\ before \in StreamRecords /\ ~before.over /\ ~before.cancelled /\ before.named
        /\ before.polls = 0 /\ before.paused = streams[s].paused
    BY <1>0, <2>1 DEF StreamRecords
  <2>3. ASSUME streams' = [streams EXCEPT ![s] = call], stoppers' = stoppers
        PROVE  StreamInv'
    <3> HIDE DEF before
    <3>1. /\ call \in StreamRecords /\ ~call.over /\ ~call.cancelled
          /\ call.paused => call.named
          /\ call.polls = IF call.named /\ ~call.paused THEN 1 ELSE 0
      BY <2>2, ScheduledOnce
    <3> HIDE DEF call
    <3>2. stoppers' = stoppers \cup {s}
      BY <1>0, <2>1, <2>3
    <3> QED
      BY <2>1, <2>3, <3>1, <3>2, CallStays
  <2> QED
    BY <1>2, <2>1, <2>3, CallEnds DEF FirstRequest
<1>3. CASE NamesAgain(s) \/ ClientLeaves(s)
  BY <1>3, CallEnds DEF NamesAgain, ClientLeaves
<1>4. CASE PollMessages(s)
  <2>0. IsOpen(s) /\ StageKept /\ streams[s].polls > 0
    BY <1>4 DEF PollMessages
  <2>1. streams[s].polls = 1 /\ streams[s].named
    BY <1>0, <2>0
  <2>2. ASSUME NEW full \in BOOLEAN,
               streams' = [streams EXCEPT ![s] = Scheduled(Polled(@, full))],
               stoppers' = stoppers
        PROVE  StreamInv'
    <3> DEFINE before == Polled(streams[s], full)
               call == Scheduled(before)
    <3>1. /\ before \in StreamRecords /\ ~before.over /\ ~before.cancelled /\ before.named
          /\ before.polls = 0
      <4>1. streams[s] \in StreamRecords /\ streams[s].polls = 1 /\ full \in BOOLEAN
        BY <1>0, <2>0, <2>1
      <4>2. /\ before \in StreamRecords /\ before.polls = 0 /\ before.over = streams[s].over
            /\ before.cancelled = streams[s].cancelled /\ before.named = streams[s].named
        BY <4>1, PolledCall, Zenon
      <4> HIDE DEF before
      <4> QED
        BY <1>0, <2>0, <2>1, <4>2
    <3>2. streams' = [streams EXCEPT ![s] = call]
      BY <2>2
    <3> HIDE DEF before
    <3>3. /\ call \in StreamRecords /\ ~call.over /\ ~call.cancelled
          /\ call.paused => call.named
          /\ call.polls = IF call.named /\ ~call.paused THEN 1 ELSE 0
      BY <3>1, ScheduledOnce
    <3> HIDE DEF call
    <3>4. stoppers' = stoppers \cup {s}
      BY <1>0, <2>0, <2>2
    <3> QED
      BY <2>0, <3>2, <3>3, <3>4, CallStays
  <2> QED
    BY <1>4, <2>0, <2>2, CallEnds DEF PollMessages
<1>5. CASE Drain(s)
  <2> DEFINE before == [streams[s] EXCEPT !.paused = FALSE]
             call == Scheduled(before)
  <2>1. IsOpen(s) /\ streams[s].paused /\ StageKept /\ stoppers' = stoppers
        /\ streams' = [streams EXCEPT ![s] = call]
    BY <1>5 DEF Drain
  <2>2. /\ before \in StreamRecords /\ ~before.over /\ ~before.cancelled /\ ~before.paused
        /\ before.polls = 0 /\ before.named = streams[s].named
    BY <1>0, <2>1 DEF StreamRecords
  <2> HIDE DEF before
  <2>3. /\ call \in StreamRecords /\ ~call.over /\ ~call.cancelled
        /\ call.polls = 1 /\ call.named = streams[s].named /\ ~call.paused
    BY <2>2, ScheduledOnce
  <2> HIDE DEF call
  <2>4. stoppers' = stoppers \cup {s}
    BY <1>0, <2>1
  <2> QED
    BY <1>0, <2>1, <2>3, <2>4, CallStays
<1> QED
  BY <1>1, <1>2, <1>3, <1>4, <1>5

(* shutdown() finds every open stream in activeStreamStoppers.               *)
LEMMA AllCallsEnd ==
  ASSUME StreamInv,
         streams' = [s \in Streams |-> IF s \in stoppers THEN StoppedCall(streams[s]) ELSE streams[s]],
         stoppers' = {}, pushBusy' \in BOOLEAN, forced' \in BOOLEAN,
         stage' \in {"serving", "stopping", "draining", "stopped"}
  PROVE  StreamInv'
<1>1. ASSUME NEW s \in Streams, streams[s] # NoRow
      PROVE  streams[s] \in StreamRecords
  BY <1>1 DEF StreamInv, StreamInvariant, StreamTypeOK
<1>2. \A s \in stoppers : s \in Streams /\ streams[s] # NoRow /\ ~streams[s].over
  BY DEF StreamInv, StreamInvariant, StoppersAreTheOpen, IsOpen
<1>3. \A s \in Streams :
        \/ /\ s \in stoppers /\ streams'[s] \in StreamRecords /\ streams'[s].over
           /\ streams'[s].cancelled /\ streams'[s].polls = 0
           /\ streams'[s].paused = streams[s].paused /\ streams'[s].named = streams[s].named
        \/ s \notin stoppers /\ streams'[s] = streams[s]
  BY <1>1, <1>2, CallSteps
<1>4. \A s \in Streams : ~IsOpen(s)'
  BY <1>3 DEF StreamInv, StreamInvariant, StoppersAreTheOpen, IsOpen
<1>5. StreamTypeOK'
  BY <1>3 DEF StreamInv, StreamInvariant, StreamTypeOK
<1>6. OnePollPerStream'
  BY <1>3, <1>4 DEF StreamInv, StreamInvariant, OnePollPerStream, StoppersAreTheOpen, IsOpen
<1>7. StoppersAreTheOpen'
  BY <1>4 DEF StoppersAreTheOpen
<1>8. ASSUME NEW s \in Streams, streams'[s] # NoRow
      PROVE  streams'[s].cancelled = streams'[s].over /\ (streams'[s].paused => streams'[s].named)
  <2>1. CASE s \in stoppers
    BY <1>2, <1>3, <2>1 DEF StreamInv, StoppedAreOver, StreamRecords
  <2>2. CASE s \notin stoppers
    BY <1>3, <1>8, <2>2 DEF StreamInv, StoppedAreOver
  <2> QED
    BY <2>1, <2>2
<1>9. StoppedAreOver'
  BY <1>8 DEF StoppedAreOver
<1> QED
  BY <1>5, <1>6, <1>7, <1>9 DEF StreamInv, StreamInvariant

LEMMA StreamStep == StreamInv /\ [StreamNext]_streamVars => StreamInv'
<1> SUFFICES ASSUME StreamInv, [StreamNext]_streamVars PROVE StreamInv'
  OBVIOUS
<1>1. CASE StreamSteps
  BY <1>1, CallGoesOn DEF StreamSteps
<1>2. CASE PushGoesOn \/ PushEngineStops \/ Drained \/ UNCHANGED streamVars
  <2>1. /\ streams' = streams /\ stoppers' = stoppers /\ pushBusy' \in BOOLEAN /\ forced' \in BOOLEAN
        /\ stage' \in {"serving", "stopping", "draining", "stopped"}
    BY <1>2 DEF PushGoesOn, PushEngineStops, Drained, streamVars, StreamInv, StreamInvariant,
                StreamTypeOK
  <2> QED
    BY <2>1 DEF StreamInv, StreamInvariant, StreamTypeOK, OnePollPerStream, StoppersAreTheOpen,
                StoppedAreOver, IsOpen
<1>3. CASE ShutdownBegins
  BY <1>3, AllCallsEnd DEF ShutdownBegins, StopActiveStreams, StreamInv, StreamInvariant,
                           StreamTypeOK
<1>4. CASE ForceShutdown
  <2>1. \A s \in Streams : IsOpen(s) <=> s \in stoppers
    BY DEF StreamInv, StreamInvariant, StoppersAreTheOpen
  <2>2. streams' = [s \in Streams |-> IF s \in stoppers THEN StoppedCall(streams[s]) ELSE streams[s]]
    BY <1>4, <2>1 DEF ForceShutdown
  <2> QED
    BY <1>4, <2>2, AllCallsEnd DEF ForceShutdown, StreamInv, StreamInvariant, StreamTypeOK
<1> QED
  BY <1>1, <1>2, <1>3, <1>4 DEF StreamNext

(* Streaming pull, for any number of streams: one poll is scheduled for each *)
(* stream that is open and whose client reads, and shutdown() finds a stopper*)
(* of each open stream.                                                      *)
THEOREM StreamsAreStoppable == StreamSpec => []StreamInvariant
<1>1. StreamInit => StreamInv
  BY DEF StreamInit, StreamInv, StreamInvariant, StreamTypeOK, OnePollPerStream,
         StoppersAreTheOpen, StoppedAreOver, IsOpen
<1>2. StreamInv => StreamInvariant
  BY DEF StreamInv
<1> QED
  BY <1>1, <1>2, StreamStep, PTL DEF StreamSpec

HIDE PubSubAssumption DEF MsgIds

---------------------------------------------------------------------------
(* KMS: the versions of a key and its primary.                             *)

(* A request of Cloud KMS, by what it does next: a rotation queues for a   *)
(* number, inserts its version and may make it the primary; the others go  *)
(* on from what they read of one version.                                  *)
QueueSteps == {"queued", "allocating", "primary"}
VersionSteps == {"primary", "choosePrimary", "restore", "encrypt"}
KmsCallRecords ==
  {NoKmsCall}
  \cup [step : {"queued"}, key : CryptoKeys]
  \cup [step : {"allocating"}, key : CryptoKeys, number : Nat, read : CryptoKeyRecords]
  \cup [step : VersionSteps, key : CryptoKeys, number : Nat]
  \cup [step : {"setState"}, key : CryptoKeys, number : Nat, target : VersionStates]

KmsTables ==
  /\ rings \subseteq KeyRings /\ secrets \in 0..KmsVersions /\ minted \subseteq Outputs
  /\ cryptoKeys \in [CryptoKeys -> CryptoKeyRecords \cup {NoRow}]
  /\ keyVersions \in [CryptoKeys -> Seq(VersionRecords)]
  /\ allocations \in [CryptoKeys -> Seq(KmsCallers)]
  /\ kmsCalls \in [KmsCallers -> KmsCallRecords]

(* The queue of a key: who stands in it waits for this key, stands there   *)
(* once, and only the first has gone on.                                   *)
QueueOf(k) ==
  \A i \in 1..Len(allocations[k]) :
    LET c == allocations[k][i] IN
    /\ kmsCalls[c].step \in QueueSteps /\ kmsCalls[c].key = k
    /\ i > 1 => kmsCalls[c].step = "queued"
    /\ \A j \in 1..Len(allocations[k]) : allocations[k][j] = c => i = j

(* What a request knows still holds when it goes on.  The number a rotation*)
(* was given is the next one, and the key has a primary if it had one, or  *)
(* has no version yet.                                                     *)
CallKnows(c) ==
  LET call == kmsCalls[c]  k == call.key IN
  /\ call.step \in QueueSteps =>
       IsCryptoKey(k) /\ \E i \in 1..Len(allocations[k]) : allocations[k][i] = c
  /\ call.step \in VersionSteps \cup {"setState"} => IsVersion(k, call.number)
  /\ call.step \in {"primary", "choosePrimary"} => IsCryptoKey(k) /\ UsesPrimary(k)
  /\ call.step = "allocating" =>
       /\ call.number = Len(keyVersions[k]) + 1
       /\ call.read.primary # NoRow => cryptoKeys[k].primary # NoRow
       /\ call.read.primary = NoRow /\ UsesPrimary(k) => keyVersions[k] = <<>>

(* A key that encrypts and has versions has a primary, or a rotation that  *)
(* makes one.                                                              *)
KeyHolds(k) ==
  /\ ~IsCryptoKey(k) => keyVersions[k] = <<>>
  /\ IsCryptoKey(k) =>
       /\ cryptoKeys[k].primary # NoRow => UsesPrimary(k) /\ IsVersion(k, cryptoKeys[k].primary)
       /\ UsesPrimary(k) /\ cryptoKeys[k].primary = NoRow =>
            \/ keyVersions[k] = <<>>
            \/ \E c \in KmsCallers : kmsCalls[c].step = "primary" /\ kmsCalls[c].key = k

(* An output names the secret its version has.                             *)
OutputHolds(o) == IsVersion(o.key, o.number) /\ keyVersions[o.key][o.number].secret = o.secret

KmsInv ==
  /\ KmsTables
  /\ \A k \in CryptoKeys : QueueOf(k) /\ KeyHolds(k)
  /\ \A c \in KmsCallers : CallKnows(c)
  /\ \A o \in minted : OutputHolds(o)

USE KmsAssumption DEF IsCryptoKey, IsVersion, UsesPrimary

LEMMA HighestIsLength ==
  ASSUME KmsTables, NEW k \in CryptoKeys
  PROVE  HighestVersionNumber(k) = Len(keyVersions[k])
<1> DEFINE s == keyVersions[k]
<1>1. s \in Seq(VersionRecords) /\ Len(s) \in Nat /\ DOMAIN s = 1..Len(s)
  BY DEF KmsTables
<1>2. CASE s = <<>>
  BY <1>1, <1>2 DEF HighestVersionNumber
<1>3. CASE s # <<>>
  <2>1. Len(s) \in 1..Len(s)
    BY <1>1, <1>3
  <2> DEFINE P(n) == n \in DOMAIN s /\ \A m \in DOMAIN s : m <= n
  <2>2. P(Len(s))
    BY <1>1, <2>1
  <2>3. \A n : P(n) => n = Len(s)
    BY <1>1, <2>1
  <2>4. HighestVersionNumber(k) = CHOOSE n : P(n)
    BY <1>3 DEF HighestVersionNumber
  <2> HIDE DEF P
  <2>5. P(CHOOSE n : P(n))
    BY <2>2
  <2> QED
    BY <2>3, <2>4, <2>5
<1> QED
  BY <1>2, <1>3

LEMMA KmsInvImplies == KmsInv => KmsInvariant
<1> SUFFICES ASSUME KmsInv PROVE KmsInvariant
  OBVIOUS
<1> USE DEF KmsInv
<1>1. KmsTypeOK
  <2>1. ASSUME NEW k \in CryptoKeys
        PROVE  /\ cryptoKeys[k] \in CryptoKeyRecords \cup {NoRow}
               /\ \A n \in DOMAIN keyVersions[k] : n \in Nat /\ keyVersions[k][n] \in VersionRecords
    BY DEF KmsTables
  <2>2. ASSUME NEW k \in CryptoKeys, NEW i \in DOMAIN allocations[k]
        PROVE  kmsCalls[allocations[k][i]].step \in {"queued", "allocating", "primary"}
    <3>1. i \in 1..Len(allocations[k])
      BY DEF KmsTables
    <3> QED
      BY <3>1 DEF QueueOf, QueueSteps
  <2> QED
    BY <2>1, <2>2 DEF KmsTypeOK, KmsTables
<1>2. RotationsSucceed
  <2>1. ASSUME NEW c \in KmsCallers PROVE kmsCalls[c].step # "failed"
    <3>1. kmsCalls[c] \in KmsCallRecords
      BY DEF KmsTables
    <3> QED
      BY <3>1 DEF KmsCallRecords, NoKmsCall, VersionSteps
  <2>2. ASSUME NEW k \in CryptoKeys PROVE DOMAIN keyVersions[k] = 1..HighestVersionNumber(k)
    BY HighestIsLength DEF KmsTables
  <2> QED
    BY <2>1, <2>2 DEF RotationsSucceed
<1>3. PrimaryExists
  <2> SUFFICES ASSUME NEW k \in CryptoKeys, IsCryptoKey(k), cryptoKeys[k].primary = NoRow,
                      UsesPrimary(k), allocations[k] = <<>>
               PROVE  keyVersions[k] = <<>>
    BY DEF PrimaryExists, KeyHolds
  <2>1. ASSUME NEW c \in KmsCallers, kmsCalls[c].step = "primary", kmsCalls[c].key = k PROVE FALSE
    <3>1. \E i \in 1..Len(allocations[k]) : allocations[k][i] = c
      BY <2>1 DEF CallKnows, QueueSteps
    <3> QED
      BY <3>1
  <2> QED
    BY <2>1 DEF KeyHolds
<1>4. OutputsStayGood
  BY DEF OutputsStayGood, OutputHolds, Answer
<1> QED
  BY <1>1, <1>2, <1>3, <1>4 DEF KmsInvariant

LEMMA KmsInitially == KmsInit => KmsInv
<1> SUFFICES ASSUME KmsInit PROVE KmsInv
  OBVIOUS
<1> USE DEF KmsInit
<1>1. KmsTables
  BY DEF KmsTables, KmsCallRecords
<1>2. ASSUME NEW k \in CryptoKeys PROVE QueueOf(k) /\ KeyHolds(k)
  BY DEF QueueOf, KeyHolds
<1>3. ASSUME NEW c \in KmsCallers PROVE CallKnows(c)
  BY DEF CallKnows, QueueSteps, VersionSteps, NoKmsCall
<1> QED
  BY <1>1, <1>2, <1>3 DEF KmsInv

(* A request begins, or goes on, at a step that is no rotation's.          *)
LEMMA CallBecomes ==
  ASSUME KmsInv, NEW c \in KmsCallers, NEW call \in KmsCallRecords, Becomes(c, call),
         kmsCalls[c].step \notin QueueSteps, call.step \notin QueueSteps,
         call.step \in VersionSteps \cup {"setState"} => IsVersion(call.key, call.number),
         call.step = "choosePrimary" => IsCryptoKey(call.key) /\ UsesPrimary(call.key),
         UNCHANGED <<rings, cryptoKeys, keyVersions, allocations, secrets, minted>>
  PROVE  KmsInv'
<1> USE DEF KmsInv, Becomes
<1>1. KmsTables'
  BY DEF KmsTables
<1>2. kmsCalls'[c] = call /\ \A d \in KmsCallers \ {c} : kmsCalls'[d] = kmsCalls[d]
  BY DEF KmsTables
<1>3. ASSUME NEW k \in CryptoKeys PROVE QueueOf(k)'
  <2>1. ASSUME NEW i \in 1..Len(allocations[k])
        PROVE  allocations[k][i] \in KmsCallers /\ allocations[k][i] # c
    BY DEF QueueOf, KmsTables
  <2> QED
    BY <2>1, <1>2 DEF QueueOf
<1>4. ASSUME NEW k \in CryptoKeys PROVE KeyHolds(k)'
  <2>1. "primary" \in QueueSteps
    BY DEF QueueSteps
  <2> QED
    BY <1>2, <2>1 DEF KeyHolds
<1>5. ASSUME NEW d \in KmsCallers PROVE CallKnows(d)'
  <2>1. CASE d # c
    BY <1>2, <2>1 DEF CallKnows
  <2>2. CASE d = c
    BY <1>2, <2>2 DEF CallKnows, QueueSteps
  <2> QED
    BY <2>1, <2>2
<1>6. (\A o \in minted : OutputHolds(o))'
  BY DEF OutputHolds
<1> QED
  BY <1>1, <1>3, <1>4, <1>5, <1>6

(* A rotation queues.                                                      *)
LEMMA RotationQueues ==
  ASSUME KmsInv, NEW c \in KmsCallers, NEW k \in CryptoKeys, AddVersion(c, k), IsIdle(c)
  PROVE  /\ allocations' \in [CryptoKeys -> Seq(KmsCallers)]
         /\ kmsCalls' \in [KmsCallers -> KmsCallRecords]
         /\ \A l \in CryptoKeys : QueueOf(l)'
         /\ \A d \in KmsCallers \ {c} : kmsCalls'[d] = kmsCalls[d] /\
              (kmsCalls[d].step \in QueueSteps =>
                 LET p == allocations'[kmsCalls[d].key] IN \E i \in 1..Len(p) : p[i] = d)
         /\ kmsCalls'[c].step = "queued" /\ kmsCalls'[c].key = k
         /\ \E i \in 1..Len(allocations'[k]) : allocations'[k][i] = c
<1> USE DEF KmsInv
<1> DEFINE q == allocations[k]
           call == [step |-> "queued", key |-> k]
<1>1. q \in Seq(KmsCallers) /\ Len(q) \in Nat
  BY DEF KmsTables
<1>2. allocations' = [allocations EXCEPT ![k] = Append(q, c)] /\ kmsCalls' = [kmsCalls EXCEPT ![c] = call]
  BY DEF AddVersion, Becomes
<1>3. Append(q, c) \in Seq(KmsCallers)
  BY <1>1
<1>4. call \in KmsCallRecords /\ call.step = "queued" /\ call.key = k
  BY DEF KmsCallRecords
<1> HIDE DEF call
<1>5. allocations' \in [CryptoKeys -> Seq(KmsCallers)] /\ kmsCalls' \in [KmsCallers -> KmsCallRecords]
  BY <1>2, <1>3, <1>4 DEF KmsTables
<1>6. kmsCalls'[c] = call /\ \A d \in KmsCallers \ {c} : kmsCalls'[d] = kmsCalls[d]
  BY <1>2 DEF KmsTables
<1>7. allocations'[k] = Append(q, c) /\ \A l \in CryptoKeys \ {k} : allocations'[l] = allocations[l]
  BY <1>2 DEF KmsTables
<1>8. kmsCalls[c].step = "idle"
  BY DEF IsIdle, NoKmsCall
<1>9. ASSUME NEW l \in CryptoKeys, NEW i \in 1..Len(allocations[l])
      PROVE  allocations[l][i] \in KmsCallers /\ allocations[l][i] # c
  <2>1. allocations[l] \in Seq(KmsCallers)
    BY DEF KmsTables
  <2>2. kmsCalls[allocations[l][i]].step \in QueueSteps
    BY DEF QueueOf
  <2> QED
    BY <1>8, <2>1, <2>2 DEF QueueSteps
<1>10. Len(Append(q, c)) = Len(q) + 1 /\ Append(q, c)[Len(q) + 1] = c
       /\ \A i \in 1..Len(q) : Append(q, c)[i] = q[i]
  BY <1>1
<1>11. ASSUME NEW l \in CryptoKeys PROVE QueueOf(l)'
  <2>1. CASE l # k
    BY <2>1, <1>6, <1>7, <1>9, SMTT(40) DEF QueueOf
  <2>2. CASE l = k
    <3> SUFFICES ASSUME NEW i \in 1..Len(q) + 1
                 PROVE  LET d == Append(q, c)[i] IN
                        /\ kmsCalls'[d].step \in QueueSteps /\ kmsCalls'[d].key = k
                        /\ i > 1 => kmsCalls'[d].step = "queued"
                        /\ \A j \in 1..Len(q) + 1 : Append(q, c)[j] = d => i = j
      BY <2>2, <1>7, <1>10 DEF QueueOf
    <3>1. CASE i = Len(q) + 1
      BY <3>1, <1>1, <1>4, <1>6, <1>9, <1>10 DEF QueueSteps
    <3>2. CASE i \in 1..Len(q)
      <4>1. q[i] \in KmsCallers \ {c}
        BY <3>2, <1>9
      <4>2. kmsCalls[q[i]].step \in QueueSteps /\ kmsCalls[q[i]].key = k
            /\ (i > 1 => kmsCalls[q[i]].step = "queued")
            /\ \A j \in 1..Len(q) : q[j] = q[i] => i = j
        BY <3>2 DEF QueueOf
      <4> QED
        BY <4>1, <4>2, <3>2, <1>1, <1>6, <1>10
    <3> QED
      BY <3>1, <3>2, <1>1
  <2> QED
    BY <2>1, <2>2
<1>12. ASSUME NEW d \in KmsCallers \ {c}, kmsCalls[d].step \in QueueSteps
       PROVE  LET p == allocations'[kmsCalls[d].key] IN \E i \in 1..Len(p) : p[i] = d
  <2>1. PICK i \in 1..Len(allocations[kmsCalls[d].key]) : allocations[kmsCalls[d].key][i] = d
    BY <1>12 DEF CallKnows
  <2>2. kmsCalls[d].key \in CryptoKeys
    <3>1. kmsCalls[d] \in KmsCallRecords
      BY DEF KmsTables
    <3> QED
      BY <3>1, <1>12 DEF KmsCallRecords, QueueSteps, NoKmsCall, VersionSteps
  <2>3. CASE kmsCalls[d].key = k
    BY <2>1, <2>3, <1>1, <1>7, <1>10
  <2>4. CASE kmsCalls[d].key # k
    BY <2>1, <2>2, <2>4, <1>7
  <2> QED
    BY <2>3, <2>4
<1>13. \E i \in 1..Len(allocations'[k]) : allocations'[k][i] = c
  BY <1>1, <1>7, <1>10
<1> QED
  BY <1>4, <1>5, <1>6, <1>11, <1>12, <1>13

(* The rotation at the head of a queue goes on and stays there.            *)
LEMMA HeadOfQueue ==
  ASSUME KmsInv, NEW c \in KmsCallers, kmsCalls[c].step \in QueueSteps
  PROVE  LET k == kmsCalls[c].key IN
         /\ k \in CryptoKeys /\ IsCryptoKey(k) /\ cryptoKeys[k] \in CryptoKeyRecords
         /\ allocations[k] \in Seq(KmsCallers) /\ allocations[k] # <<>>
         /\ kmsCalls[c].step # "queued" => allocations[k][1] = c
<1> DEFINE k == kmsCalls[c].key
<1>1. k \in CryptoKeys
  <2>1. kmsCalls[c] \in KmsCallRecords
    BY DEF KmsTables, KmsInv
  <2> QED
    BY <2>1 DEF KmsCallRecords, QueueSteps, NoKmsCall, VersionSteps
<1>2. IsCryptoKey(k) /\ \E i \in 1..Len(allocations[k]) : allocations[k][i] = c
  BY DEF CallKnows, KmsInv
<1>3. cryptoKeys[k] \in CryptoKeyRecords /\ allocations[k] \in Seq(KmsCallers)
  BY <1>1, <1>2 DEF KmsTables, KmsInv
<1>4. PICK i \in 1..Len(allocations[k]) : allocations[k][i] = c
  BY <1>2
<1>5. i > 1 => kmsCalls[c].step = "queued"
  BY <1>1, <1>4 DEF QueueOf, KmsInv
<1> QED
  BY <1>1, <1>2, <1>3, <1>4, <1>5

(* ... while it only reads its number, or has inserted its version.        *)
LEMMA HeadGoesOn ==
  ASSUME KmsInv, NEW c \in KmsCallers, NEW call \in KmsCallRecords, Becomes(c, call),
         NEW k \in CryptoKeys, kmsCalls[c].step \in QueueSteps, kmsCalls[c].key = k,
         call.step \in QueueSteps, call.key = k, allocations[k] # <<>>, allocations[k][1] = c,
         UNCHANGED allocations
  PROVE  \A l \in CryptoKeys : QueueOf(l)'
<1> USE DEF KmsInv, Becomes
<1>1. kmsCalls'[c] = call /\ \A d \in KmsCallers \ {c} : kmsCalls'[d] = kmsCalls[d]
  BY DEF KmsTables
<1> TAKE l \in CryptoKeys
<1>2. allocations[l] \in Seq(KmsCallers) /\ allocations[k] \in Seq(KmsCallers)
  BY DEF KmsTables
<1> SUFFICES ASSUME NEW i \in 1..Len(allocations[l])
             PROVE  LET d == allocations[l][i] IN
                    /\ kmsCalls'[d].step \in QueueSteps /\ kmsCalls'[d].key = l
                    /\ i > 1 => kmsCalls'[d].step = "queued"
                    /\ \A j \in 1..Len(allocations[l]) : allocations[l][j] = d => i = j
  BY DEF QueueOf
<1>3. allocations[l][i] \in KmsCallers
  BY <1>2
<1>4. LET d == allocations[l][i] IN
      /\ kmsCalls[d].step \in QueueSteps /\ kmsCalls[d].key = l
      /\ i > 1 => kmsCalls[d].step = "queued"
      /\ \A j \in 1..Len(allocations[l]) : allocations[l][j] = d => i = j
  BY DEF QueueOf
<1>5. CASE allocations[l][i] # c
  BY <1>1, <1>3, <1>4, <1>5
<1>6. CASE allocations[l][i] = c
  <2>1. l = k
    BY <1>4, <1>6
  <2>2. 1 \in 1..Len(allocations[k])
    BY <1>2
  <2>3. i = 1
    BY <1>4, <1>6, <2>1, <2>2
  <2> QED
    BY <1>1, <1>4, <1>6, <2>1, <2>3
<1> QED
  BY <1>5, <1>6

(* The rotation at the head of a queue is over.                            *)
LEMMA HeadLeaves ==
  ASSUME KmsInv, NEW c \in KmsCallers, Becomes(c, NoKmsCall), NEW k \in CryptoKeys,
         kmsCalls[c].step \in QueueSteps, kmsCalls[c].key = k, allocations[k] # <<>>,
         allocations[k][1] = c, LeavesQueue(k)
  PROVE  /\ allocations' \in [CryptoKeys -> Seq(KmsCallers)]
         /\ kmsCalls' \in [KmsCallers -> KmsCallRecords]
         /\ \A l \in CryptoKeys : QueueOf(l)'
         /\ \A d \in KmsCallers \ {c} : kmsCalls'[d] = kmsCalls[d] /\
              (kmsCalls[d].step \in QueueSteps =>
                 LET q == allocations'[kmsCalls[d].key] IN \E i \in 1..Len(q) : q[i] = d)
         /\ kmsCalls'[c] = NoKmsCall
<1> USE DEF KmsInv, Becomes
<1> DEFINE q == allocations[k]
<1>1. kmsCalls'[c] = NoKmsCall /\ \A d \in KmsCallers \ {c} : kmsCalls'[d] = kmsCalls[d]
  BY DEF KmsTables
<1>2. q \in Seq(KmsCallers) /\ q # <<>> /\ q[1] = c /\ Len(q) \in Nat
  BY DEF KmsTables
<1>3. Tail(q) \in Seq(KmsCallers) /\ Len(Tail(q)) = Len(q) - 1
      /\ \A i \in 1..Len(q) - 1 : Tail(q)[i] = q[i + 1]
  BY <1>2
<1>4. allocations'[k] = Tail(q) /\ \A l \in CryptoKeys \ {k} : allocations'[l] = allocations[l]
  BY DEF KmsTables, LeavesQueue
<1>5. allocations' \in [CryptoKeys -> Seq(KmsCallers)]
  BY <1>3 DEF KmsTables, LeavesQueue
<1>6. kmsCalls' \in [KmsCallers -> KmsCallRecords]
  BY DEF KmsTables, KmsCallRecords
<1>7. ASSUME NEW l \in CryptoKeys, NEW i \in 1..Len(allocations[l])
      PROVE  /\ allocations[l][i] \in KmsCallers
             /\ kmsCalls[allocations[l][i]].step \in QueueSteps
             /\ kmsCalls[allocations[l][i]].key = l
             /\ i > 1 => kmsCalls[allocations[l][i]].step = "queued"
             /\ \A j \in 1..Len(allocations[l]) : allocations[l][j] = allocations[l][i] => i = j
  <2>1. allocations[l] \in Seq(KmsCallers)
    BY DEF KmsTables
  <2> QED
    BY <2>1 DEF QueueOf
<1>8. ASSUME NEW l \in CryptoKeys PROVE QueueOf(l)'
  <2>1. CASE l # k
    BY <2>1, <1>1, <1>4, <1>7 DEF QueueOf
  <2>2. CASE l = k
    <3> SUFFICES ASSUME NEW i \in 1..Len(q) - 1
                 PROVE  /\ kmsCalls'[q[i + 1]].step \in QueueSteps /\ kmsCalls'[q[i + 1]].key = k
                        /\ i > 1 => kmsCalls'[q[i + 1]].step = "queued"
                        /\ \A j \in 1..Len(q) - 1 : q[j + 1] = q[i + 1] => i = j
      BY <2>2, <1>3, <1>4 DEF QueueOf
    <3>1. i + 1 \in 1..Len(q) /\ 1 \in 1..Len(q) /\ i + 1 > 1
      BY <1>2
    <3>2. q[i + 1] # c
      BY <3>1, <1>2, <1>7
    <3>3. ASSUME NEW j \in 1..Len(q) - 1, q[j + 1] = q[i + 1] PROVE i = j
      <4>1. j + 1 \in 1..Len(q)
        BY <1>2
      <4>2. i + 1 = j + 1
        BY <4>1, <3>1, <3>3, <1>7
      <4> QED
        BY <4>2
    <3> QED
      BY <3>1, <3>2, <3>3, <1>1, <1>7
  <2> QED
    BY <2>1, <2>2
<1>9. ASSUME NEW d \in KmsCallers \ {c}, kmsCalls[d].step \in QueueSteps
      PROVE  LET p == allocations'[kmsCalls[d].key] IN \E i \in 1..Len(p) : p[i] = d
  <2>1. kmsCalls[d].key \in CryptoKeys
    BY <1>9, HeadOfQueue
  <2>2. PICK i \in 1..Len(allocations[kmsCalls[d].key]) : allocations[kmsCalls[d].key][i] = d
    BY <1>9 DEF CallKnows
  <2>3. CASE kmsCalls[d].key # k
    BY <2>1, <2>2, <2>3, <1>4
  <2>4. CASE kmsCalls[d].key = k
    <3>1. i # 1
      BY <2>2, <2>4, <1>2
    <3>2. i - 1 \in 1..Len(q) - 1 /\ i = (i - 1) + 1
      BY <2>2, <2>4, <3>1, <1>2
    <3> QED
      BY <2>2, <2>4, <3>2, <1>3, <1>4
  <2> QED
    BY <2>3, <2>4
<1> QED
  BY <1>1, <1>5, <1>6, <1>8, <1>9

LEMMA RotationReads ==
  ASSUME KmsInv, NEW c \in KmsCallers, NEW k \in CryptoKeys, AllocationReads(c, k)
  PROVE  KmsInv'
<1> USE DEF KmsInv
<1> DEFINE n == HighestVersionNumber(k) + 1
           call == [step |-> "allocating", key |-> k, number |-> n, read |-> cryptoKeys[k]]
<1>1. kmsCalls[c].step = "queued" /\ kmsCalls[c].key = k /\ allocations[k] # <<>> /\ Head(allocations[k]) = c
      /\ Becomes(c, call) /\ UNCHANGED <<rings, cryptoKeys, keyVersions, allocations, secrets, minted>>
  BY DEF AllocationReads, Turn, KeysKept, VersionsKept
<1>2. n = Len(keyVersions[k]) + 1 /\ n \in Nat
  BY HighestIsLength DEF KmsTables
<1>3. IsCryptoKey(k) /\ cryptoKeys[k] \in CryptoKeyRecords /\ allocations[k][1] = c
  <2>1. kmsCalls[c].step \in QueueSteps
    BY <1>1 DEF QueueSteps
  <2>2. IsCryptoKey(k) /\ cryptoKeys[k] \in CryptoKeyRecords /\ allocations[k] \in Seq(KmsCallers)
    BY <2>1, <1>1, HeadOfQueue
  <2> QED
    BY <2>2, <1>1
<1>4. call \in KmsCallRecords
  <2>1. call \in [step : {"allocating"}, key : CryptoKeys, number : Nat, read : CryptoKeyRecords]
    BY <1>2, <1>3
  <2> QED
    BY <2>1 DEF KmsCallRecords
<1>5. call.step = "allocating" /\ call.key = k /\ call.number = n /\ call.read = cryptoKeys[k]
  OBVIOUS
<1>6. ASSUME UsesPrimary(k), cryptoKeys[k].primary = NoRow PROVE keyVersions[k] = <<>>
  <2>1. ASSUME NEW d \in KmsCallers, kmsCalls[d].step = "primary", kmsCalls[d].key = k PROVE FALSE
    <3>1. allocations[k][1] = d
      BY <2>1, HeadOfQueue DEF QueueSteps
    <3> QED
      BY <3>1, <2>1, <1>1, <1>3
  <2> QED
    BY <2>1, <1>3, <1>6 DEF KeyHolds
<1> HIDE DEF n, call
<1>7. kmsCalls'[c] = call /\ \A d \in KmsCallers \ {c} : kmsCalls'[d] = kmsCalls[d]
  BY <1>1 DEF Becomes, KmsTables
<1>8. KmsTables'
  BY <1>1, <1>4 DEF KmsTables, Becomes
<1>9. \A l \in CryptoKeys : QueueOf(l)'
  BY <1>1, <1>3, <1>4, <1>5, HeadGoesOn DEF QueueSteps
<1>10. ASSUME NEW l \in CryptoKeys PROVE KeyHolds(l)'
  BY <1>1, <1>7 DEF KeyHolds
<1>11. ASSUME NEW d \in KmsCallers PROVE CallKnows(d)'
  <2>1. CASE d # c
    BY <1>1, <1>7, <2>1 DEF CallKnows
  <2>2. CASE d = c
    <3>1. \E i \in 1..Len(allocations[k]) : allocations[k][i] = c
      BY <1>1 DEF CallKnows, QueueSteps
    <3> QED
      BY <1>1, <1>2, <1>3, <1>5, <1>6, <1>7, <2>2, <3>1 DEF CallKnows, VersionSteps
  <2> QED
    BY <2>1, <2>2
<1>12. (\A o \in minted : OutputHolds(o))'
  BY <1>1 DEF OutputHolds
<1> QED
  BY <1>8, <1>9, <1>10, <1>11, <1>12

(* The row of a key gets another algorithm or another primary.             *)
LEMMA KeyRowChanges ==
  ASSUME KmsInv, NEW k \in CryptoKeys, NEW row \in CryptoKeyRecords, IsCryptoKey(k),
         cryptoKeys' = [cryptoKeys EXCEPT ![k] = row],
         row.purpose = cryptoKeys[k].purpose,
         cryptoKeys[k].primary # NoRow => row.primary # NoRow,
         UNCHANGED keyVersions
  PROVE  /\ \A l \in CryptoKeys : (cryptoKeys[l] # NoRow <=> cryptoKeys'[l] # NoRow) /\
               (cryptoKeys[l] # NoRow =>
                  /\ cryptoKeys'[l].purpose = cryptoKeys[l].purpose
                  /\ cryptoKeys[l].primary # NoRow => cryptoKeys'[l].primary # NoRow)
         /\ cryptoKeys' \in [CryptoKeys -> CryptoKeyRecords \cup {NoRow}]
         /\ cryptoKeys'[k] = row /\ \A l \in CryptoKeys \ {k} : cryptoKeys'[l] = cryptoKeys[l]
BY DEF KmsTables, KmsInv

(* What calls know does not depend on anything else in the row.            *)
LEMMA CallsStillKnow ==
  ASSUME KmsInv,
         \A l \in CryptoKeys : (cryptoKeys[l] # NoRow <=> cryptoKeys'[l] # NoRow) /\
            (cryptoKeys[l] # NoRow =>
               /\ cryptoKeys'[l].purpose = cryptoKeys[l].purpose
               /\ cryptoKeys[l].primary # NoRow => cryptoKeys'[l].primary # NoRow),
         UNCHANGED keyVersions, NEW c \in KmsCallers, kmsCalls'[c] = kmsCalls[c],
         kmsCalls[c].step \in QueueSteps =>
           LET q == allocations'[kmsCalls[c].key] IN \E i \in 1..Len(q) : q[i] = c
  PROVE  CallKnows(c)'
<1> USE DEF KmsInv
<1> DEFINE k == kmsCalls[c].key
<1>1. kmsCalls[c].step \in QueueSteps \cup VersionSteps \cup {"setState"} => k \in CryptoKeys
  <2>1. kmsCalls[c] \in KmsCallRecords
    BY DEF KmsTables
  <2> QED
    BY <2>1 DEF KmsCallRecords, QueueSteps, VersionSteps, NoKmsCall
<1>2. kmsCalls[c].step \in QueueSteps => (IsCryptoKey(k) /\ (IsCryptoKey(k))')
  BY <1>1 DEF CallKnows
<1>3. kmsCalls[c].step \in VersionSteps \cup {"setState"} => (IsVersion(k, kmsCalls[c].number))'
  BY DEF CallKnows
<1>4. kmsCalls[c].step \in {"primary", "choosePrimary"} => (IsCryptoKey(k))' /\ (UsesPrimary(k))'
  BY <1>1 DEF CallKnows, VersionSteps
<1>5. kmsCalls[c].step = "allocating" =>
        /\ kmsCalls[c].number = Len(keyVersions[k]) + 1
        /\ kmsCalls[c].read.primary # NoRow => cryptoKeys'[k].primary # NoRow
        /\ kmsCalls[c].read.primary = NoRow /\ UsesPrimary(k)' => keyVersions[k] = <<>>
  BY <1>1, <1>2 DEF CallKnows, QueueSteps
<1> QED
  BY <1>2, <1>3, <1>4, <1>5 DEF CallKnows

LEMMA PrimaryIsSet ==
  ASSUME KmsInv, NEW c \in KmsCallers,
         AllocationSetsPrimary(c) \/ UpdatePrimaryVersion(c)
  PROVE  KmsInv'
<1> USE DEF KmsInv
<1> DEFINE call == kmsCalls[c]
           k == call.key
           row == [cryptoKeys[k] EXCEPT !.primary = call.number]
<1>1. call.step \in {"primary", "choosePrimary"}
  BY DEF AllocationSetsPrimary, UpdatePrimaryVersion
<1>2. call \in KmsCallRecords
  BY DEF KmsTables
<1>3. k \in CryptoKeys /\ call.number \in Nat
  BY <1>1, <1>2 DEF KmsCallRecords, VersionSteps, NoKmsCall
<1>4. IsCryptoKey(k) /\ UsesPrimary(k) /\ IsVersion(k, call.number) /\ cryptoKeys[k] \in CryptoKeyRecords
  BY <1>1, <1>3 DEF CallKnows, VersionSteps, KmsTables
<1>5. row \in CryptoKeyRecords /\ row.purpose = cryptoKeys[k].purpose /\ row.primary = call.number
  BY <1>3, <1>4 DEF CryptoKeyRecords
<1>6. cryptoKeys' = [cryptoKeys EXCEPT ![k] = row] /\ Becomes(c, NoKmsCall)
      /\ UNCHANGED <<rings, keyVersions, secrets, minted>>
  BY DEF AllocationSetsPrimary, UpdatePrimaryVersion, VersionsKept
<1>7. call.number # NoRow
  BY <1>3
<1> HIDE DEF row
<1>8. /\ \A l \in CryptoKeys : (cryptoKeys[l] # NoRow <=> cryptoKeys'[l] # NoRow) /\
            (cryptoKeys[l] # NoRow =>
               /\ cryptoKeys'[l].purpose = cryptoKeys[l].purpose
               /\ cryptoKeys[l].primary # NoRow => cryptoKeys'[l].primary # NoRow)
      /\ cryptoKeys' \in [CryptoKeys -> CryptoKeyRecords \cup {NoRow}]
      /\ cryptoKeys'[k] = row /\ \A l \in CryptoKeys \ {k} : cryptoKeys'[l] = cryptoKeys[l]
  BY <1>3, <1>4, <1>5, <1>6, <1>7, KeyRowChanges
<1>9. /\ allocations' \in [CryptoKeys -> Seq(KmsCallers)]
      /\ kmsCalls' \in [KmsCallers -> KmsCallRecords]
      /\ \A l \in CryptoKeys : QueueOf(l)'
      /\ \A d \in KmsCallers \ {c} : kmsCalls'[d] = kmsCalls[d] /\
           (kmsCalls[d].step \in QueueSteps =>
              LET q == allocations'[kmsCalls[d].key] IN \E i \in 1..Len(q) : q[i] = d)
      /\ kmsCalls'[c] = NoKmsCall
  <2>1. CASE AllocationSetsPrimary(c)
    <3>1. call.step = "primary" /\ LeavesQueue(k)
      BY <2>1 DEF AllocationSetsPrimary
    <3>2. allocations[k] # <<>> /\ allocations[k][1] = c /\ call.step \in QueueSteps
      BY <3>1, HeadOfQueue DEF QueueSteps
    <3> QED
      BY <3>1, <3>2, <1>3, <1>6, HeadLeaves
  <2>2. CASE UpdatePrimaryVersion(c)
    <3>1. call.step = "choosePrimary" /\ UNCHANGED allocations
      BY <2>2 DEF UpdatePrimaryVersion
    <3>2. kmsCalls' \in [KmsCallers -> KmsCallRecords]
      BY <1>6 DEF KmsTables, KmsCallRecords, Becomes
    <3>3. kmsCalls'[c] = NoKmsCall /\ \A d \in KmsCallers \ {c} : kmsCalls'[d] = kmsCalls[d]
      BY <1>6 DEF KmsTables, Becomes
    <3>4. ASSUME NEW l \in CryptoKeys PROVE QueueOf(l)'
      <4>1. ASSUME NEW i \in 1..Len(allocations[l])
            PROVE  allocations[l][i] \in KmsCallers \ {c}
        <5>1. allocations[l] \in Seq(KmsCallers)
          BY DEF KmsTables
        <5>2. kmsCalls[allocations[l][i]].step \in QueueSteps
          BY DEF QueueOf
        <5> QED
          BY <3>1, <5>1, <5>2 DEF QueueSteps
      <4> QED
        BY <3>1, <3>3, <4>1 DEF QueueOf
    <3>5. ASSUME NEW d \in KmsCallers \ {c}, kmsCalls[d].step \in QueueSteps
          PROVE  LET q == allocations'[kmsCalls[d].key] IN \E i \in 1..Len(q) : q[i] = d
      BY <3>1, <3>5 DEF CallKnows
    <3> QED
      BY <3>1, <3>2, <3>3, <3>4, <3>5 DEF KmsTables
  <2> QED
    BY <2>1, <2>2
<1>10. KmsTables'
  BY <1>6, <1>8, <1>9 DEF KmsTables
<1>11. ASSUME NEW l \in CryptoKeys PROVE KeyHolds(l)'
  <2>1. CASE l = k
    BY <2>1, <1>4, <1>5, <1>6, <1>7, <1>8 DEF KeyHolds
  <2>2. CASE l # k
    <3>1. ASSUME NEW d \in KmsCallers, kmsCalls[d].step = "primary", kmsCalls[d].key = l
          PROVE  kmsCalls'[d].step = "primary" /\ kmsCalls'[d].key = l
      BY <3>1, <2>2, <1>9
    <3> QED
      BY <2>2, <3>1, <1>6, <1>8 DEF KeyHolds
  <2> QED
    BY <2>1, <2>2
<1>12. ASSUME NEW d \in KmsCallers PROVE CallKnows(d)'
  <2>1. CASE d = c
    BY <2>1, <1>9 DEF CallKnows, NoKmsCall, QueueSteps, VersionSteps
  <2>2. CASE d # c
    BY <2>2, <1>6, <1>8, <1>9, CallsStillKnow
  <2> QED
    BY <2>1, <2>2
<1>13. (\A o \in minted : OutputHolds(o))'
  BY <1>6 DEF OutputHolds
<1> QED
  BY <1>9, <1>10, <1>11, <1>12, <1>13

LEMMA TemplateChanges ==
  ASSUME KmsInv, NEW k \in CryptoKeys, NEW algorithm \in KeyAlgorithms,
         UpdateCryptoKey(k, algorithm)
  PROVE  KmsInv'
<1> USE DEF KmsInv
<1> DEFINE row == [cryptoKeys[k] EXCEPT !.algorithm = algorithm]
<1>1. IsCryptoKey(k) /\ cryptoKeys[k] \in CryptoKeyRecords
  BY DEF KmsTables, UpdateCryptoKey
<1>2. row \in CryptoKeyRecords /\ row.purpose = cryptoKeys[k].purpose /\ row.primary = cryptoKeys[k].primary
  BY <1>1 DEF CryptoKeyRecords
<1>3. cryptoKeys' = [cryptoKeys EXCEPT ![k] = row]
      /\ UNCHANGED <<rings, allocations, kmsCalls, keyVersions, secrets, minted>>
  BY DEF UpdateCryptoKey, VersionsKept
<1> HIDE DEF row
<1>4. /\ \A l \in CryptoKeys : (cryptoKeys[l] # NoRow <=> cryptoKeys'[l] # NoRow) /\
            (cryptoKeys[l] # NoRow =>
               /\ cryptoKeys'[l].purpose = cryptoKeys[l].purpose
               /\ cryptoKeys[l].primary # NoRow => cryptoKeys'[l].primary # NoRow)
      /\ cryptoKeys' \in [CryptoKeys -> CryptoKeyRecords \cup {NoRow}]
      /\ cryptoKeys'[k] = row /\ \A l \in CryptoKeys \ {k} : cryptoKeys'[l] = cryptoKeys[l]
  BY <1>1, <1>2, <1>3, KeyRowChanges
<1>5. KmsTables'
  BY <1>3, <1>4 DEF KmsTables
<1>6. ASSUME NEW l \in CryptoKeys PROVE QueueOf(l)' /\ KeyHolds(l)'
  <2>1. QueueOf(l)'
    BY <1>3 DEF QueueOf
  <2>2. KeyHolds(l)'
    BY <1>1, <1>2, <1>3, <1>4 DEF KeyHolds
  <2> QED
    BY <2>1, <2>2
<1>7. ASSUME NEW c \in KmsCallers PROVE CallKnows(c)'
  <2>1. kmsCalls[c].step \in QueueSteps =>
          LET q == allocations'[kmsCalls[c].key] IN \E i \in 1..Len(q) : q[i] = c
    BY <1>3 DEF CallKnows
  <2> QED
    BY <2>1, <1>3, <1>4, CallsStillKnow
<1>8. (\A o \in minted : OutputHolds(o))'
  BY <1>3 DEF OutputHolds
<1> QED
  BY <1>5, <1>6, <1>7, <1>8

(* A key is made, with a rotation for its first version or without.        *)
LEMMA KeyIsMade ==
  ASSUME KmsInv, NEW c \in KmsCallers, NEW k \in CryptoKeys,
         NEW request \in KeyRequests, CreateCryptoKey(c, k, request)
  PROVE  KmsInv'
<1> USE DEF KmsInv
<1> DEFINE row == [purpose |-> request.purpose, algorithm |-> request.algorithm, primary |-> NoRow]
<1>1. IsIdle(c) /\ ~IsCryptoKey(k) /\ cryptoKeys' = [cryptoKeys EXCEPT ![k] = row]
      /\ UNCHANGED <<rings, keyVersions, secrets, minted>>
      /\ (UNCHANGED <<allocations, kmsCalls>> \/ AddVersion(c, k))
  BY DEF CreateCryptoKey, VersionsKept
<1>2. row \in CryptoKeyRecords /\ row.primary = NoRow
  BY DEF CryptoKeyRecords, KeyRequests
<1>3. row # NoRow
  BY <1>2
<1> HIDE DEF row
<1>4. /\ cryptoKeys' \in [CryptoKeys -> CryptoKeyRecords \cup {NoRow}]
      /\ cryptoKeys'[k] = row /\ \A l \in CryptoKeys \ {k} : cryptoKeys'[l] = cryptoKeys[l]
  BY <1>1, <1>2 DEF KmsTables
<1>5. keyVersions[k] = <<>>
  BY <1>1 DEF KeyHolds
<1>6. /\ allocations' \in [CryptoKeys -> Seq(KmsCallers)]
      /\ kmsCalls' \in [KmsCallers -> KmsCallRecords]
      /\ \A l \in CryptoKeys : QueueOf(l)'
      /\ \A d \in KmsCallers \ {c} : kmsCalls'[d] = kmsCalls[d] /\
           (kmsCalls[d].step \in QueueSteps =>
              LET p == allocations'[kmsCalls[d].key] IN \E i \in 1..Len(p) : p[i] = d)
      /\ \/ kmsCalls'[c] = NoKmsCall
         \/ /\ kmsCalls'[c].step = "queued" /\ kmsCalls'[c].key = k
            /\ \E i \in 1..Len(allocations'[k]) : allocations'[k][i] = c
  <2>1. CASE UNCHANGED <<allocations, kmsCalls>>
    <3>1. \A l \in CryptoKeys : QueueOf(l)'
      BY <2>1 DEF QueueOf
    <3>2. ASSUME NEW d \in KmsCallers, kmsCalls[d].step \in QueueSteps
          PROVE  LET p == allocations'[kmsCalls[d].key] IN \E i \in 1..Len(p) : p[i] = d
      BY <2>1, <3>2 DEF CallKnows
    <3> QED
      BY <2>1, <3>1, <3>2, <1>1 DEF KmsTables, IsIdle
  <2>2. CASE AddVersion(c, k)
    <3>1. /\ allocations' \in [CryptoKeys -> Seq(KmsCallers)]
          /\ kmsCalls' \in [KmsCallers -> KmsCallRecords]
          /\ \A l \in CryptoKeys : QueueOf(l)'
          /\ \A d \in KmsCallers \ {c} : kmsCalls'[d] = kmsCalls[d] /\
               (kmsCalls[d].step \in QueueSteps =>
                  LET p == allocations'[kmsCalls[d].key] IN \E i \in 1..Len(p) : p[i] = d)
          /\ kmsCalls'[c].step = "queued" /\ kmsCalls'[c].key = k
          /\ \E i \in 1..Len(allocations'[k]) : allocations'[k][i] = c
      BY <1>1, <2>2, RotationQueues, ZenonT(60)
    <3> QED
      BY <3>1
  <2> QED
    BY <1>1, <2>1, <2>2
<1>7. KmsTables'
  BY <1>1, <1>4, <1>6 DEF KmsTables
<1>8. ASSUME NEW l \in CryptoKeys PROVE KeyHolds(l)'
  <2>1. CASE l = k
    BY <2>1, <1>1, <1>2, <1>3, <1>4, <1>5 DEF KeyHolds
  <2>2. CASE l # k
    <3>1. kmsCalls[c].step = "idle"
      BY <1>1 DEF IsIdle, NoKmsCall
    <3>2. ASSUME NEW d \in KmsCallers, kmsCalls[d].step = "primary", kmsCalls[d].key = l
          PROVE  kmsCalls'[d].step = "primary" /\ kmsCalls'[d].key = l
      BY <3>1, <3>2, <1>6
    <3> QED
      BY <2>2, <3>2, <1>1, <1>4 DEF KeyHolds
  <2> QED
    BY <2>1, <2>2
<1>9. ASSUME NEW d \in KmsCallers \ {c} PROVE CallKnows(d)'
  <2> DEFINE l == kmsCalls[d].key
  <2>1. kmsCalls'[d] = kmsCalls[d] /\ CallKnows(d)
    BY <1>6
  <2>2. kmsCalls[d].step \in QueueSteps => l \in CryptoKeys \ {k} /\ cryptoKeys'[l] = cryptoKeys[l]
    BY <1>1, <1>4, HeadOfQueue
  <2>3. kmsCalls[d].step \in VersionSteps => l \in CryptoKeys
    <3>1. kmsCalls[d] \in KmsCallRecords
      BY DEF KmsTables
    <3> QED
      BY <3>1 DEF KmsCallRecords, VersionSteps, NoKmsCall
  <2>4. kmsCalls[d].step \in VersionSteps => l \in CryptoKeys \ {k} /\ cryptoKeys'[l] = cryptoKeys[l]
    BY <2>1, <2>3, <1>4, <1>5 DEF CallKnows
  <2>5. kmsCalls[d].step \in QueueSteps =>
          (IsCryptoKey(l))' /\ LET q == allocations'[l] IN \E i \in 1..Len(q) : q[i] = d
    BY <2>1, <2>2, <1>6 DEF CallKnows
  <2>6. kmsCalls[d].step \in VersionSteps \cup {"setState"} => (IsVersion(l, kmsCalls[d].number))'
    BY <2>1, <1>1 DEF CallKnows
  <2>7. kmsCalls[d].step \in {"primary", "choosePrimary"} => (IsCryptoKey(l))' /\ (UsesPrimary(l))'
    BY <2>1, <2>4 DEF CallKnows, VersionSteps
  <2>8. kmsCalls[d].step = "allocating" =>
          /\ kmsCalls[d].number = Len(keyVersions'[l]) + 1
          /\ kmsCalls[d].read.primary # NoRow => cryptoKeys'[l].primary # NoRow
          /\ kmsCalls[d].read.primary = NoRow /\ (UsesPrimary(l))' => keyVersions'[l] = <<>>
    BY <2>1, <2>2, <1>1 DEF CallKnows, QueueSteps
  <2> QED
    BY <2>1, <2>5, <2>6, <2>7, <2>8 DEF CallKnows
<1>10. CallKnows(c)'
  BY <1>3, <1>4, <1>6 DEF CallKnows, NoKmsCall, QueueSteps, VersionSteps
<1>11. (\A o \in minted : OutputHolds(o))'
  BY <1>1 DEF OutputHolds
<1> QED
  BY <1>6, <1>7, <1>8, <1>9, <1>10, <1>11

LEMMA RotationIsAsked ==
  ASSUME KmsInv, NEW c \in KmsCallers, NEW k \in CryptoKeys, CreateCryptoKeyVersion(c, k)
  PROVE  KmsInv'
<1> USE DEF KmsInv
<1>1. IsIdle(c) /\ IsCryptoKey(k) /\ AddVersion(c, k)
      /\ UNCHANGED <<rings, cryptoKeys, keyVersions, secrets, minted>>
  BY DEF CreateCryptoKeyVersion, KeysKept, VersionsKept
<1>2. /\ allocations' \in [CryptoKeys -> Seq(KmsCallers)]
      /\ kmsCalls' \in [KmsCallers -> KmsCallRecords]
      /\ \A l \in CryptoKeys : QueueOf(l)'
      /\ \A d \in KmsCallers \ {c} : kmsCalls'[d] = kmsCalls[d] /\
           (kmsCalls[d].step \in QueueSteps =>
              LET p == allocations'[kmsCalls[d].key] IN \E i \in 1..Len(p) : p[i] = d)
      /\ kmsCalls'[c].step = "queued" /\ kmsCalls'[c].key = k
      /\ \E i \in 1..Len(allocations'[k]) : allocations'[k][i] = c
  BY <1>1, RotationQueues
<1>3. KmsTables'
  BY <1>1, <1>2 DEF KmsTables
<1>4. ASSUME NEW l \in CryptoKeys PROVE KeyHolds(l)'
  <2>1. kmsCalls[c].step = "idle"
    BY <1>1 DEF IsIdle, NoKmsCall
  <2>2. ASSUME NEW d \in KmsCallers, kmsCalls[d].step = "primary", kmsCalls[d].key = l
        PROVE  kmsCalls'[d].step = "primary" /\ kmsCalls'[d].key = l
    BY <2>1, <2>2, <1>2
  <2> QED
    BY <2>2, <1>1 DEF KeyHolds
<1>5. ASSUME NEW d \in KmsCallers PROVE CallKnows(d)'
  <2>1. CASE d = c
    BY <2>1, <1>1, <1>2 DEF CallKnows, QueueSteps, VersionSteps
  <2>2. CASE d # c
    BY <2>2, <1>1, <1>2, CallsStillKnow
  <2> QED
    BY <2>1, <2>2
<1>6. (\A o \in minted : OutputHolds(o))'
  BY <1>1 DEF OutputHolds
<1> QED
  BY <1>2, <1>3, <1>4, <1>5, <1>6

(* A version is appended to those of its key.                              *)
LEMMA RotationInserts ==
  ASSUME KmsInv, NEW c \in KmsCallers, AllocationInserts(c)
  PROVE  /\ KmsInv'
         /\ \A k \in CryptoKeys : \A n \in DOMAIN keyVersions[k] : keyVersions'[k][n] = keyVersions[k][n]
<1> USE DEF KmsInv
<1> DEFINE call == kmsCalls[c]
           k == call.key
           s == keyVersions[k]
           version == [state |-> "ENABLED", algorithm |-> call.read.algorithm, secret |-> secrets + 1]
           sets == call.read.primary = NoRow /\ UsesPrimary(k)
           goes == [step |-> "primary", key |-> k, number |-> call.number]
           longer == [n \in DOMAIN s \cup {call.number} |-> IF n = call.number THEN version ELSE s[n]]
<1>1. call.step = "allocating" /\ secrets < KmsVersions /\ UNCHANGED <<rings, cryptoKeys, minted>>
  BY DEF AllocationInserts, KeysKept
<1>2. call.step \in QueueSteps
  BY <1>1 DEF QueueSteps
<1>3. k \in CryptoKeys /\ IsCryptoKey(k) /\ allocations[k] # <<>> /\ allocations[k][1] = c
  BY <1>1, <1>2, HeadOfQueue
<1>4. call.read \in CryptoKeyRecords
  <2>1. call \in KmsCallRecords
    BY DEF KmsTables
  <2> QED
    BY <1>1, <2>1 DEF KmsCallRecords, VersionSteps, NoKmsCall
<1>5. s \in Seq(VersionRecords) /\ Len(s) \in Nat /\ DOMAIN s = 1..Len(s)
  BY <1>3 DEF KmsTables
<1>6. call.number = Len(s) + 1 /\ (sets => s = <<>>)
      /\ (call.read.primary # NoRow => cryptoKeys[k].primary # NoRow)
  BY <1>1 DEF CallKnows
<1>7. ~IsVersion(k, call.number)
  BY <1>5, <1>6
<1>8. /\ secrets' = secrets + 1
      /\ keyVersions' = [keyVersions EXCEPT ![k] = longer]
      /\ IF sets THEN Becomes(c, goes) /\ UNCHANGED allocations
                 ELSE Becomes(c, NoKmsCall) /\ LeavesQueue(k)
  BY <1>7 DEF AllocationInserts
<1>9. version \in VersionRecords /\ secrets + 1 \in 0..KmsVersions
  BY <1>1, <1>4 DEF VersionRecords, VersionStates, CryptoKeyRecords, KmsTables
<1>10. longer \in Seq(VersionRecords) /\ Len(longer) = Len(s) + 1 /\ DOMAIN longer = 1..Len(s) + 1
       /\ \A n \in 1..Len(s) : longer[n] = s[n]
  <2>1. DOMAIN longer = 1..Len(s) + 1
    BY <1>5, <1>6, SMTT(40)
  <2>2. ASSUME NEW n \in 1..Len(s) + 1 PROVE longer[n] \in VersionRecords
    BY <1>5, <1>6, <1>9
  <2> HIDE DEF version
  <2>3. longer \in [1..Len(s) + 1 -> VersionRecords]
    BY <2>1, <2>2
  <2>4. \A n \in 1..Len(s) : longer[n] = s[n]
    BY <1>5, <1>6
  <2> HIDE DEF longer
  <2> QED
    BY <2>1, <2>3, <2>4, <1>5, SMTT(40)
<1> HIDE DEF longer, version
<1>11. keyVersions'[k] = longer /\ \A l \in CryptoKeys \ {k} : keyVersions'[l] = keyVersions[l]
  BY <1>3, <1>8 DEF KmsTables
<1>12. \A l \in CryptoKeys : \A n \in DOMAIN keyVersions[l] :
         n \in DOMAIN keyVersions'[l] /\ keyVersions'[l][n] = keyVersions[l][n]
  <2>1. \A n \in DOMAIN s : n \in DOMAIN longer /\ longer[n] = s[n]
    BY <1>5, <1>10
  <2> QED
    BY <2>1, <1>11
<1>13. goes \in KmsCallRecords /\ goes.step = "primary" /\ goes.key = k /\ goes.number = call.number
  <2>1. goes \in [step : VersionSteps, key : CryptoKeys, number : Nat]
    BY <1>3, <1>5, <1>6 DEF VersionSteps
  <2> QED
    BY <2>1 DEF KmsCallRecords
<1> HIDE DEF goes
<1>14. /\ allocations' \in [CryptoKeys -> Seq(KmsCallers)]
       /\ kmsCalls' \in [KmsCallers -> KmsCallRecords]
       /\ \A l \in CryptoKeys : QueueOf(l)'
       /\ \A d \in KmsCallers \ {c} : kmsCalls'[d] = kmsCalls[d] /\
            (kmsCalls[d].step \in QueueSteps =>
               LET q == allocations'[kmsCalls[d].key] IN \E i \in 1..Len(q) : q[i] = d)
       /\ IF sets THEN kmsCalls'[c] = goes /\ UNCHANGED allocations ELSE kmsCalls'[c] = NoKmsCall
  <2>1. CASE sets
    <3>1. Becomes(c, goes) /\ UNCHANGED allocations
      BY <1>8, <2>1
    <3>2. \A l \in CryptoKeys : QueueOf(l)'
      BY <3>1, <1>2, <1>3, <1>13, HeadGoesOn DEF QueueSteps
    <3>3. kmsCalls' \in [KmsCallers -> KmsCallRecords] /\ kmsCalls'[c] = goes
          /\ \A d \in KmsCallers \ {c} : kmsCalls'[d] = kmsCalls[d]
      BY <3>1, <1>13 DEF KmsTables, Becomes
    <3>4. ASSUME NEW d \in KmsCallers \ {c}, kmsCalls[d].step \in QueueSteps
          PROVE  LET q == allocations'[kmsCalls[d].key] IN \E i \in 1..Len(q) : q[i] = d
      BY <3>1, <3>4 DEF CallKnows
    <3> QED
      BY <2>1, <3>1, <3>2, <3>3, <3>4 DEF KmsTables
  <2>2. CASE ~sets
    <3>1. Becomes(c, NoKmsCall) /\ LeavesQueue(k)
      BY <1>8, <2>2
    <3>2. /\ allocations' \in [CryptoKeys -> Seq(KmsCallers)]
          /\ kmsCalls' \in [KmsCallers -> KmsCallRecords]
          /\ \A l \in CryptoKeys : QueueOf(l)'
          /\ \A d \in KmsCallers \ {c} : kmsCalls'[d] = kmsCalls[d] /\
               (kmsCalls[d].step \in QueueSteps =>
                  LET q == allocations'[kmsCalls[d].key] IN \E i \in 1..Len(q) : q[i] = d)
          /\ kmsCalls'[c] = NoKmsCall
      BY <3>1, <1>2, <1>3, HeadLeaves
    <3> QED
      BY <2>2, <3>2
  <2> QED
    BY <2>1, <2>2
<1>15. KmsTables'
  BY <1>1, <1>3, <1>8, <1>9, <1>10, <1>14 DEF KmsTables
<1>16. ASSUME NEW l \in CryptoKeys PROVE KeyHolds(l)'
  <2>1. ASSUME IsCryptoKey(l), cryptoKeys[l].primary # NoRow
        PROVE  UsesPrimary(l) /\ (IsVersion(l, cryptoKeys[l].primary))'
    <3>1. UsesPrimary(l) /\ IsVersion(l, cryptoKeys[l].primary)
      BY <2>1 DEF KeyHolds
    <3> QED
      BY <3>1, <1>1, <1>12
  <2>2. CASE l = k
    <3>1. ASSUME UsesPrimary(k), cryptoKeys[k].primary = NoRow
          PROVE  \E d \in KmsCallers : kmsCalls'[d].step = "primary" /\ kmsCalls'[d].key = k
      <4>1. sets
        BY <3>1, <1>6
      <4> QED
        BY <4>1, <1>13, <1>14
    <3> QED
      BY <2>1, <2>2, <3>1, <1>1, <1>3 DEF KeyHolds
  <2>3. CASE l # k
    <3>1. ASSUME NEW d \in KmsCallers, kmsCalls[d].step = "primary", kmsCalls[d].key = l
          PROVE  kmsCalls'[d].step = "primary" /\ kmsCalls'[d].key = l
      BY <3>1, <2>3, <1>14
    <3> QED
      BY <2>1, <2>3, <3>1, <1>1, <1>11 DEF KeyHolds
  <2> QED
    BY <2>2, <2>3
<1>17. ASSUME NEW d \in KmsCallers \ {c} PROVE CallKnows(d)'
  <2> DEFINE l == kmsCalls[d].key
  <2>1. kmsCalls'[d] = kmsCalls[d] /\ CallKnows(d)
    BY <1>14
  <2>2. kmsCalls[d].step \in QueueSteps =>
          (IsCryptoKey(l))' /\ LET q == allocations'[l] IN \E i \in 1..Len(q) : q[i] = d
    BY <2>1, <1>1, <1>14 DEF CallKnows
  <2>3. kmsCalls[d].step \in VersionSteps \cup {"setState"} => (IsVersion(l, kmsCalls[d].number))'
    <3>1. kmsCalls[d].step \in VersionSteps \cup {"setState"} => l \in CryptoKeys
      <4>1. kmsCalls[d] \in KmsCallRecords
        BY DEF KmsTables
      <4> QED
        BY <4>1 DEF KmsCallRecords, VersionSteps, NoKmsCall
    <3> QED
      BY <3>1, <2>1, <1>12 DEF CallKnows
  <2>4. kmsCalls[d].step \in {"primary", "choosePrimary"} => (IsCryptoKey(l))' /\ (UsesPrimary(l))'
    BY <2>1, <1>1 DEF CallKnows
  <2>5. kmsCalls[d].step = "allocating" => l \in CryptoKeys \ {k}
    <3>1. kmsCalls[d].step = "allocating" => l \in CryptoKeys /\ allocations[l][1] = d
      BY HeadOfQueue DEF QueueSteps
    <3> QED
      BY <3>1, <1>3
  <2>6. kmsCalls[d].step = "allocating" =>
          /\ kmsCalls[d].number = Len(keyVersions'[l]) + 1
          /\ kmsCalls[d].read.primary # NoRow => cryptoKeys'[l].primary # NoRow
          /\ kmsCalls[d].read.primary = NoRow /\ (UsesPrimary(l))' => keyVersions'[l] = <<>>
    BY <2>1, <2>5, <1>1, <1>11 DEF CallKnows
  <2> QED
    BY <2>1, <2>2, <2>3, <2>4, <2>6 DEF CallKnows
<1>18. CallKnows(c)'
  <2>1. CASE sets
    <3>1. kmsCalls'[c] = goes /\ UNCHANGED allocations
      BY <1>14, <2>1
    <3>2. \E i \in 1..Len(allocations[k]) : allocations[k][i] = c
      BY <1>2 DEF CallKnows
    <3>3. call.number \in DOMAIN keyVersions'[k]
      <4>1. Len(s) + 1 \in 1..Len(s) + 1
        BY <1>5
      <4> QED
        BY <4>1, <1>6, <1>10, <1>11
    <3> QED
      BY <2>1, <3>1, <3>2, <3>3, <1>1, <1>3, <1>13 DEF CallKnows
  <2>2. CASE ~sets
    BY <2>2, <1>14 DEF CallKnows, NoKmsCall, QueueSteps, VersionSteps
  <2> QED
    BY <2>1, <2>2
<1>19. (\A o \in minted : OutputHolds(o))'
  <2> SUFFICES ASSUME NEW o \in minted PROVE OutputHolds(o)'
    BY <1>1
  <2>1. o.key \in CryptoKeys
    BY DEF KmsTables, Outputs
  <2> QED
    BY <2>1, <1>12 DEF OutputHolds
<1> QED
  BY <1>12, <1>14, <1>15, <1>16, <1>17, <1>18, <1>19

(* The state of a version changes, its secret does not.  A version to be   *)
(* destroyed is enabled only by an update that read it before.             *)
LEMMA StateIsWritten ==
  ASSUME KmsInv, NEW c \in KmsCallers, WriteState(c)
  PROVE  /\ KmsInv'
         /\ \A k \in CryptoKeys : \A n \in DOMAIN keyVersions[k] :
              keyVersions[k][n].state = "DESTROY_SCHEDULED" /\ keyVersions'[k][n].state = "ENABLED"
              => kmsCalls[c] = [step |-> "setState", key |-> k, number |-> n, target |-> "ENABLED"]
<1> USE DEF KmsInv
<1> DEFINE call == kmsCalls[c]
           k == call.key
           m == call.number
           s == keyVersions[k]
           target == IF call.step = "restore" THEN RestoredState ELSE call.target
           version == [s[m] EXCEPT !.state = target]
           other == [s EXCEPT ![m] = version]
<1>1. call.step \in {"setState", "restore"} /\ Becomes(c, NoKmsCall)
      /\ keyVersions' = [keyVersions EXCEPT ![k][m].state = target]
      /\ UNCHANGED <<rings, cryptoKeys, allocations, secrets, minted>>
  BY DEF WriteState, KeysKept
<1>2. call \in KmsCallRecords
  BY DEF KmsTables
<1>3. k \in CryptoKeys /\ m \in Nat /\ target \in VersionStates
  BY <1>1, <1>2 DEF KmsCallRecords, VersionSteps, NoKmsCall, RestoredState, VersionStates
<1>4. s \in Seq(VersionRecords) /\ Len(s) \in Nat /\ DOMAIN s = 1..Len(s)
  BY <1>3 DEF KmsTables
<1>5. m \in 1..Len(s)
  BY <1>1, <1>4 DEF CallKnows, VersionSteps
<1>6. version \in VersionRecords /\ version.secret = s[m].secret /\ version.state = target
  <2>1. s[m] \in VersionRecords
    BY <1>4, <1>5
  <2> QED
    BY <2>1, <1>3 DEF VersionRecords
<1>7. keyVersions' = [keyVersions EXCEPT ![k] = other]
  BY <1>1
<1> HIDE DEF version, target
<1>8. other \in Seq(VersionRecords) /\ Len(other) = Len(s) /\ DOMAIN other = DOMAIN s
      /\ other[m] = version /\ \A n \in DOMAIN s \ {m} : other[n] = s[n]
  BY <1>4, <1>5, <1>6
<1> HIDE DEF other
<1>9. keyVersions'[k] = other /\ \A l \in CryptoKeys \ {k} : keyVersions'[l] = keyVersions[l]
  BY <1>3, <1>7 DEF KmsTables
<1>10. \A l \in CryptoKeys : DOMAIN keyVersions'[l] = DOMAIN keyVersions[l]
         /\ Len(keyVersions'[l]) = Len(keyVersions[l])
         /\ (keyVersions[l] = <<>> => keyVersions'[l] = <<>>)
         /\ \A n \in DOMAIN keyVersions[l] : keyVersions'[l][n].secret = keyVersions[l][n].secret
  <2>1. \A n \in DOMAIN s : other[n].secret = s[n].secret
    BY <1>6, <1>8
  <2>2. s # <<>>
    BY <1>4, <1>5
  <2> QED
    BY <2>1, <2>2, <1>8, <1>9
<1>11. kmsCalls'[c] = NoKmsCall /\ \A d \in KmsCallers \ {c} : kmsCalls'[d] = kmsCalls[d]
  BY <1>1 DEF KmsTables, Becomes
<1>12. KmsTables'
  <2>1. kmsCalls' \in [KmsCallers -> KmsCallRecords]
    BY <1>1 DEF KmsTables, KmsCallRecords, Becomes
  <2>2. keyVersions' \in [CryptoKeys -> Seq(VersionRecords)]
    BY <1>7, <1>8 DEF KmsTables
  <2> QED
    BY <2>1, <2>2, <1>1 DEF KmsTables
<1>13. call.step \notin QueueSteps
  BY <1>1 DEF QueueSteps
<1>14. ASSUME NEW l \in CryptoKeys PROVE QueueOf(l)'
  <2>1. ASSUME NEW i \in 1..Len(allocations[l]) PROVE allocations[l][i] \in KmsCallers \ {c}
    <3>1. allocations[l] \in Seq(KmsCallers)
      BY DEF KmsTables
    <3>2. kmsCalls[allocations[l][i]].step \in QueueSteps
      BY DEF QueueOf
    <3> QED
      BY <3>1, <3>2, <1>13
  <2> QED
    BY <2>1, <1>1, <1>11 DEF QueueOf
<1>15. ASSUME NEW l \in CryptoKeys PROVE KeyHolds(l)'
  <2>1. ASSUME NEW d \in KmsCallers, kmsCalls[d].step = "primary", kmsCalls[d].key = l
        PROVE  kmsCalls'[d].step = "primary" /\ kmsCalls'[d].key = l
    BY <2>1, <1>11, <1>13 DEF QueueSteps
  <2> QED
    BY <2>1, <1>1, <1>10 DEF KeyHolds
<1>16. ASSUME NEW d \in KmsCallers PROVE CallKnows(d)'
  <2>1. CASE d = c
    BY <2>1, <1>11 DEF CallKnows, NoKmsCall, QueueSteps, VersionSteps
  <2>2. CASE d # c
    <3> DEFINE l == kmsCalls[d].key
    <3>1. kmsCalls'[d] = kmsCalls[d] /\ CallKnows(d)
      BY <2>2, <1>11
    <3>2. kmsCalls[d].step \in QueueSteps \cup VersionSteps \cup {"setState"} => l \in CryptoKeys
      <4>1. kmsCalls[d] \in KmsCallRecords
        BY DEF KmsTables
      <4> QED
        BY <4>1 DEF KmsCallRecords, VersionSteps, QueueSteps, NoKmsCall
    <3>3. "allocating" \in QueueSteps
      BY DEF QueueSteps
    <3>4. kmsCalls[d].step \in QueueSteps =>
            (IsCryptoKey(l))' /\ LET q == allocations'[l] IN \E i \in 1..Len(q) : q[i] = d
      BY <3>1, <1>1 DEF CallKnows
    <3>5. kmsCalls[d].step \in VersionSteps \cup {"setState"} => (IsVersion(l, kmsCalls[d].number))'
      BY <3>1, <3>2, <1>10 DEF CallKnows
    <3>6. kmsCalls[d].step \in {"primary", "choosePrimary"} => (IsCryptoKey(l))' /\ (UsesPrimary(l))'
      BY <3>1, <1>1 DEF CallKnows
    <3>7. kmsCalls[d].step = "allocating" =>
            /\ kmsCalls[d].number = Len(keyVersions'[l]) + 1
            /\ kmsCalls[d].read.primary # NoRow => cryptoKeys'[l].primary # NoRow
            /\ kmsCalls[d].read.primary = NoRow /\ (UsesPrimary(l))' => keyVersions'[l] = <<>>
      BY <3>1, <3>2, <3>3, <1>1, <1>10 DEF CallKnows
    <3> QED
      BY <3>1, <3>4, <3>5, <3>6, <3>7 DEF CallKnows
  <2> QED
    BY <2>1, <2>2
<1>17. (\A o \in minted : OutputHolds(o))'
  <2> SUFFICES ASSUME NEW o \in minted PROVE OutputHolds(o)'
    BY <1>1
  <2>1. o.key \in CryptoKeys
    BY DEF KmsTables, Outputs
  <2> QED
    BY <2>1, <1>10 DEF OutputHolds
<1>18. ASSUME NEW l \in CryptoKeys, NEW n \in DOMAIN keyVersions[l],
              keyVersions[l][n].state = "DESTROY_SCHEDULED", keyVersions'[l][n].state = "ENABLED"
       PROVE  call = [step |-> "setState", key |-> l, number |-> n, target |-> "ENABLED"]
  <2>1. l = k /\ n = m
    BY <1>8, <1>9, <1>18
  <2>2. target = "ENABLED"
    BY <2>1, <1>6, <1>8, <1>9, <1>18
  <2>3. call.step = "setState" /\ call.target = "ENABLED"
    BY <2>2, <1>1 DEF target, RestoredState
  <2>4. call \in [step : {"setState"}, key : CryptoKeys, number : Nat, target : VersionStates]
    BY <2>3, <1>2 DEF KmsCallRecords, VersionSteps, NoKmsCall
  <2> QED
    BY <2>1, <2>3, <2>4
<1> QED
  BY <1>12, <1>14, <1>15, <1>16, <1>17, <1>18

(* An output is made with the secret its version has.                      *)
LEMMA OutputIsMade ==
  ASSUME KmsInv, NEW k \in CryptoKeys, NEW n, IsVersion(k, n),
         minted' = minted \cup {Envelope(k, n, keyVersions[k][n].secret)},
         UNCHANGED <<rings, cryptoKeys, keyVersions, secrets>>
  PROVE  minted' \subseteq Outputs /\ (\A o \in minted : OutputHolds(o))'
<1> USE DEF KmsInv
<1> DEFINE new == Envelope(k, n, keyVersions[k][n].secret)
<1>1. keyVersions[k] \in Seq(VersionRecords)
  BY DEF KmsTables
<1>2. n \in Nat /\ keyVersions[k][n] \in VersionRecords
  BY <1>1
<1>3. keyVersions[k][n].secret \in Nat
  BY <1>2 DEF VersionRecords
<1>4. new \in Outputs /\ new.key = k /\ new.number = n /\ new.secret = keyVersions[k][n].secret
  BY <1>2, <1>3 DEF Envelope, Outputs
<1> HIDE DEF new
<1>5. minted' = minted \cup {new}
  BY DEF new
<1>6. ASSUME NEW o \in minted' PROVE OutputHolds(o)'
  <2>1. CASE o \in minted
    BY <2>1 DEF OutputHolds
  <2>2. CASE o = new
    BY <2>2, <1>4 DEF OutputHolds
  <2> QED
    BY <2>1, <2>2, <1>5
<1> QED
  BY <1>4, <1>5, <1>6 DEF KmsTables

LEMMA EncryptKeeps ==
  ASSUME KmsInv, NEW c \in KmsCallers, Encrypt(c)
  PROVE  KmsInv'
<1> USE DEF KmsInv
<1> DEFINE call == kmsCalls[c]
           k == call.key
<1>1. call.step = "encrypt" /\ Becomes(c, NoKmsCall)
      /\ UNCHANGED <<rings, cryptoKeys, keyVersions, allocations, secrets>>
      /\ minted' = IF IsEnabled(k, call.number)
                   THEN minted \cup {Envelope(k, call.number, keyVersions[k][call.number].secret)}
                   ELSE minted
  BY DEF Encrypt, KeysKept
<1>2. k \in CryptoKeys
  <2>1. call \in KmsCallRecords
    BY DEF KmsTables
  <2> QED
    BY <1>1, <2>1 DEF KmsCallRecords, VersionSteps, NoKmsCall
<1>3. IsVersion(k, call.number)
  BY <1>1 DEF CallKnows, VersionSteps
<1>4. minted' \subseteq Outputs /\ (\A o \in minted : OutputHolds(o))'
  <2>1. CASE minted' = minted
    BY <2>1, <1>1 DEF OutputHolds, KmsTables
  <2>2. CASE minted' = minted \cup {Envelope(k, call.number, keyVersions[k][call.number].secret)}
    BY <2>2, <1>1, <1>2, <1>3, OutputIsMade
  <2> QED
    BY <2>1, <2>2, <1>1
<1>5. kmsCalls'[c] = NoKmsCall /\ \A d \in KmsCallers \ {c} : kmsCalls'[d] = kmsCalls[d]
  BY <1>1 DEF KmsTables, Becomes
<1>6. KmsTables'
  <2>1. kmsCalls' \in [KmsCallers -> KmsCallRecords]
    BY <1>1 DEF KmsTables, KmsCallRecords, Becomes
  <2> QED
    BY <2>1, <1>1, <1>4 DEF KmsTables
<1>7. ASSUME NEW l \in CryptoKeys PROVE QueueOf(l)'
  <2>1. ASSUME NEW i \in 1..Len(allocations[l]) PROVE allocations[l][i] \in KmsCallers \ {c}
    <3>1. allocations[l] \in Seq(KmsCallers)
      BY DEF KmsTables
    <3>2. kmsCalls[allocations[l][i]].step \in QueueSteps
      BY DEF QueueOf
    <3> QED
      BY <3>1, <3>2, <1>1 DEF QueueSteps
  <2> QED
    BY <2>1, <1>1, <1>5 DEF QueueOf
<1>8. ASSUME NEW l \in CryptoKeys PROVE KeyHolds(l)'
  <2>1. ASSUME NEW d \in KmsCallers, kmsCalls[d].step = "primary", kmsCalls[d].key = l
        PROVE  kmsCalls'[d].step = "primary" /\ kmsCalls'[d].key = l
    BY <2>1, <1>1, <1>5
  <2> QED
    BY <2>1, <1>1 DEF KeyHolds
<1>9. ASSUME NEW d \in KmsCallers PROVE CallKnows(d)'
  <2>1. CASE d = c
    BY <2>1, <1>5 DEF CallKnows, NoKmsCall, QueueSteps, VersionSteps
  <2>2. CASE d # c
    BY <2>2, <1>1, <1>5 DEF CallKnows
  <2> QED
    BY <2>1, <2>2
<1> QED
  BY <1>4, <1>6, <1>7, <1>8, <1>9

LEMMA SignKeeps ==
  ASSUME KmsInv, NEW k \in CryptoKeys, NEW n, SignWith(k, n)
  PROVE  KmsInv'
<1> USE DEF KmsInv
<1>1. IsVersion(k, n) /\ minted' = minted \cup {Envelope(k, n, keyVersions[k][n].secret)}
      /\ UNCHANGED <<rings, cryptoKeys, keyVersions, allocations, kmsCalls, secrets>>
  BY DEF SignWith, KeysKept, IsEnabled
<1>2. minted' \subseteq Outputs /\ (\A o \in minted : OutputHolds(o))'
  BY <1>1, OutputIsMade
<1>3. KmsTables'
  BY <1>1, <1>2 DEF KmsTables
<1>4. ASSUME NEW l \in CryptoKeys PROVE QueueOf(l)' /\ KeyHolds(l)'
  BY <1>1 DEF QueueOf, KeyHolds
<1>5. ASSUME NEW d \in KmsCallers PROVE CallKnows(d)'
  BY <1>1 DEF CallKnows
<1> QED
  BY <1>2, <1>3, <1>4, <1>5

LEMMA RequestReads ==
  ASSUME KmsInv, NEW c \in KmsCallers, NEW k \in CryptoKeys, NEW n,
         \/ AskEncrypt(c, k)
         \/ n \in DOMAIN keyVersions[k] /\ AsksAbout(c, k, n)
  PROVE  KmsInv'
<1> USE DEF KmsInv
<1>1. IsIdle(c) /\ UNCHANGED <<rings, cryptoKeys, keyVersions, allocations, secrets, minted>>
  BY DEF AskEncrypt, AsksAbout, AskPrimary, AskDestroy, AskRestore, AskUpdate, KeysKept, VersionsKept
<1>2. kmsCalls[c].step \notin QueueSteps
  BY <1>1 DEF IsIdle, NoKmsCall, QueueSteps
<1>3. \A m : IsVersion(k, m) => m \in Nat
  BY DEF KmsTables
<1>4. ASSUME NEW m, NEW step \in {"choosePrimary", "restore", "encrypt"}, IsVersion(k, m),
             step = "choosePrimary" => IsCryptoKey(k) /\ UsesPrimary(k),
             Becomes(c, [step |-> step, key |-> k, number |-> m])
      PROVE  KmsInv'
  <2> DEFINE call == [step |-> step, key |-> k, number |-> m]
  <2>1. call \in [step : VersionSteps, key : CryptoKeys, number : Nat]
    BY <1>3, <1>4 DEF VersionSteps
  <2>2. call \in KmsCallRecords /\ call.step = step /\ call.key = k /\ call.number = m /\ Becomes(c, call)
    BY <2>1, <1>4 DEF KmsCallRecords
  <2> HIDE DEF call
  <2>3. call.step \notin QueueSteps
    BY <2>2 DEF QueueSteps
  <2>4. call.step = "choosePrimary" => IsCryptoKey(call.key) /\ UsesPrimary(call.key)
    BY <2>2, <1>4
  <2>5. IsVersion(call.key, call.number)
    BY <2>2, <1>4
  <2> QED
    BY <2>2, <2>3, <2>4, <2>5, <1>1, <1>2, CallBecomes
<1>5. ASSUME NEW m, NEW target \in VersionStates, IsVersion(k, m),
             Becomes(c, [step |-> "setState", key |-> k, number |-> m, target |-> target])
      PROVE  KmsInv'
  <2> DEFINE call == [step |-> "setState", key |-> k, number |-> m, target |-> target]
  <2>1. call \in [step : {"setState"}, key : CryptoKeys, number : Nat, target : VersionStates]
    BY <1>3, <1>5
  <2>2. call \in KmsCallRecords /\ call.step = "setState" /\ call.key = k /\ call.number = m
        /\ Becomes(c, call)
    BY <2>1, <1>5 DEF KmsCallRecords
  <2> HIDE DEF call
  <2>3. call.step \notin QueueSteps
    BY <2>2 DEF QueueSteps
  <2>4. call.step = "choosePrimary" => IsCryptoKey(call.key) /\ UsesPrimary(call.key)
    BY <2>2
  <2>5. IsVersion(call.key, call.number)
    BY <2>2, <1>5
  <2> QED
    BY <2>2, <2>3, <2>4, <2>5, <1>1, <1>2, CallBecomes
<1>6. CASE AskEncrypt(c, k)
  <2>1. IsVersion(k, cryptoKeys[k].primary)
    BY <1>6 DEF AskEncrypt, KeyHolds
  <2> QED
    BY <2>1, <1>4, <1>6 DEF AskEncrypt
<1>7. CASE n \in DOMAIN keyVersions[k] /\ AskPrimary(c, k, n)
  BY <1>4, <1>7 DEF AskPrimary
<1>8. CASE n \in DOMAIN keyVersions[k] /\ AskRestore(c, k, n)
  BY <1>4, <1>8 DEF AskRestore
<1>9. CASE n \in DOMAIN keyVersions[k] /\ AskDestroy(c, k, n)
  BY <1>5, <1>9 DEF AskDestroy, VersionStates
<1>10. CASE n \in DOMAIN keyVersions[k] /\ \E target \in VersionStates : AskUpdate(c, k, n, target)
  BY <1>5, <1>10 DEF AskUpdate
<1> QED
  BY <1>6, <1>7, <1>8, <1>9, <1>10 DEF AsksAbout

DestroyedWatched ==
  \A k \in CryptoKeys : \A n \in DOMAIN keyVersions[k] :
    keyVersions[k][n].state = "DESTROY_SCHEDULED" /\ keyVersions'[k][n].state = "ENABLED"
    => \E c \in KmsCallers :
         kmsCalls[c] = [step |-> "setState", key |-> k, number |-> n, target |-> "ENABLED"]

LEMMA KmsSteps == KmsInv /\ [KmsNext]_kmsVars => KmsInv' /\ DestroyedWatched
<1> SUFFICES ASSUME KmsInv, [KmsNext]_kmsVars PROVE KmsInv' /\ DestroyedWatched
  OBVIOUS
<1>1. UNCHANGED keyVersions => DestroyedWatched
  BY DEF DestroyedWatched
<1>2. ASSUME NEW r \in KeyRings, CreateKeyRing(r) PROVE KmsInv' /\ DestroyedWatched
  <2> USE DEF KmsInv
  <2>1. rings' = rings \cup {r} /\ UNCHANGED <<cryptoKeys, allocations, kmsCalls, keyVersions, secrets, minted>>
    BY <1>2 DEF CreateKeyRing, VersionsKept
  <2>2. KmsTables'
    BY <2>1 DEF KmsTables
  <2>3. ASSUME NEW l \in CryptoKeys PROVE QueueOf(l)' /\ KeyHolds(l)'
    BY <2>1 DEF QueueOf, KeyHolds
  <2>4. ASSUME NEW d \in KmsCallers PROVE CallKnows(d)'
    BY <2>1 DEF CallKnows
  <2>5. (\A o \in minted : OutputHolds(o))'
    BY <2>1 DEF OutputHolds
  <2> QED
    BY <2>1, <2>2, <2>3, <2>4, <2>5, <1>1
<1>3. ASSUME NEW k \in CryptoKeys, NEW algorithm \in KeyAlgorithms, UpdateCryptoKey(k, algorithm)
      PROVE  KmsInv' /\ DestroyedWatched
  <2>1. UNCHANGED keyVersions
    BY <1>3 DEF UpdateCryptoKey, VersionsKept
  <2> QED
    BY <2>1, <1>1, <1>3, TemplateChanges
<1>4. ASSUME NEW k \in CryptoKeys, NEW n \in DOMAIN keyVersions[k], SignWith(k, n)
      PROVE  KmsInv' /\ DestroyedWatched
  <2>1. UNCHANGED keyVersions
    BY <1>4 DEF SignWith
  <2> QED
    BY <2>1, <1>1, <1>4, SignKeeps
<1>5. ASSUME NEW c \in KmsCallers, NEW k \in CryptoKeys, NEW request \in KeyRequests,
             CreateCryptoKey(c, k, request)
      PROVE  KmsInv' /\ DestroyedWatched
  <2>1. UNCHANGED keyVersions
    BY <1>5 DEF CreateCryptoKey, VersionsKept
  <2> QED
    BY <2>1, <1>1, <1>5, KeyIsMade
<1>6. ASSUME NEW c \in KmsCallers, NEW k \in CryptoKeys, CreateCryptoKeyVersion(c, k)
      PROVE  KmsInv' /\ DestroyedWatched
  <2>1. UNCHANGED keyVersions
    BY <1>6 DEF CreateCryptoKeyVersion, VersionsKept
  <2> QED
    BY <2>1, <1>1, <1>6, RotationIsAsked
<1>7. ASSUME NEW c \in KmsCallers, NEW k \in CryptoKeys,
             AskEncrypt(c, k) \/ \E n \in DOMAIN keyVersions[k] : AsksAbout(c, k, n)
      PROVE  KmsInv' /\ DestroyedWatched
  <2>1. UNCHANGED keyVersions
    BY <1>7 DEF AskEncrypt, AsksAbout, AskPrimary, AskDestroy, AskRestore, AskUpdate, VersionsKept
  <2> QED
    BY <2>1, <1>1, <1>7, RequestReads
<1>8. ASSUME NEW c \in KmsCallers, NEW k \in CryptoKeys, AllocationReads(c, k)
      PROVE  KmsInv' /\ DestroyedWatched
  <2>1. UNCHANGED keyVersions
    BY <1>8 DEF AllocationReads, VersionsKept
  <2> QED
    BY <2>1, <1>1, <1>8, RotationReads
<1>9. ASSUME NEW c \in KmsCallers, AllocationInserts(c) PROVE KmsInv' /\ DestroyedWatched
  <2>1. KmsInv' /\ \A k \in CryptoKeys : \A n \in DOMAIN keyVersions[k] :
          keyVersions'[k][n] = keyVersions[k][n]
    BY <1>9, RotationInserts
  <2> QED
    BY <2>1 DEF DestroyedWatched
<1>10. ASSUME NEW c \in KmsCallers, AllocationSetsPrimary(c) \/ UpdatePrimaryVersion(c)
       PROVE  KmsInv' /\ DestroyedWatched
  <2>1. UNCHANGED keyVersions
    BY <1>10 DEF AllocationSetsPrimary, UpdatePrimaryVersion, VersionsKept
  <2> QED
    BY <2>1, <1>1, <1>10, PrimaryIsSet
<1>11. ASSUME NEW c \in KmsCallers, WriteState(c) PROVE KmsInv' /\ DestroyedWatched
  <2>1. /\ KmsInv'
        /\ \A k \in CryptoKeys : \A n \in DOMAIN keyVersions[k] :
              keyVersions[k][n].state = "DESTROY_SCHEDULED" /\ keyVersions'[k][n].state = "ENABLED"
              => kmsCalls[c] = [step |-> "setState", key |-> k, number |-> n, target |-> "ENABLED"]
    BY <1>11, StateIsWritten
  <2> QED
    BY <2>1 DEF DestroyedWatched
<1>12. ASSUME NEW c \in KmsCallers, Encrypt(c) PROVE KmsInv' /\ DestroyedWatched
  <2>1. UNCHANGED keyVersions
    BY <1>12 DEF Encrypt
  <2> QED
    BY <2>1, <1>1, <1>12, EncryptKeeps
<1>13. CASE UNCHANGED kmsVars
  <2> USE DEF KmsInv
  <2>1. UNCHANGED <<rings, cryptoKeys, keyVersions, allocations, kmsCalls, secrets, minted>>
    BY <1>13 DEF kmsVars
  <2>2. KmsTables'
    BY <2>1 DEF KmsTables
  <2>3. ASSUME NEW l \in CryptoKeys PROVE QueueOf(l)' /\ KeyHolds(l)'
    BY <2>1 DEF QueueOf, KeyHolds
  <2>4. ASSUME NEW d \in KmsCallers PROVE CallKnows(d)'
    BY <2>1 DEF CallKnows
  <2>5. (\A o \in minted : OutputHolds(o))'
    BY <2>1 DEF OutputHolds
  <2> QED
    BY <2>1, <2>2, <2>3, <2>4, <2>5, <1>1
<1>14. CASE KmsNext
  <2>1. CASE \E r \in KeyRings : CreateKeyRing(r)
    BY <2>1, <1>2
  <2>2. CASE \E k \in CryptoKeys :
               \/ \E algorithm \in KeyAlgorithms : UpdateCryptoKey(k, algorithm)
               \/ \E n \in DOMAIN keyVersions[k] : SignWith(k, n)
    BY <2>2, <1>3, <1>4
  <2>3. CASE \E c \in KmsCallers, k \in CryptoKeys :
               \/ \E request \in KeyRequests : CreateCryptoKey(c, k, request)
               \/ CreateCryptoKeyVersion(c, k)
               \/ AskEncrypt(c, k)
               \/ \E n \in DOMAIN keyVersions[k] : AsksAbout(c, k, n)
    BY <2>3, <1>5, <1>6, <1>7
  <2>4. CASE \E c \in KmsCallers :
               Allocates(c) \/ UpdatePrimaryVersion(c) \/ WriteState(c) \/ Encrypt(c)
    BY <2>4, <1>8, <1>9, <1>10, <1>11, <1>12 DEF Allocates
  <2> QED
    BY <1>14, <2>1, <2>2, <2>3, <2>4 DEF KmsNext
<1> QED
  BY <1>13, <1>14

(* Numbers of versions are handed out without a gap however many rotations *)
(* run at once (addVersion(), key-management-service.ts), the primary of a *)
(* key exists, what was encrypted or signed stays good, and a version to be*)
(* destroyed is put back into use only by an update that read it before.   *)
THEOREM KeysAreKept == KmsSpec => KeysHold
<1>1. KmsInit => KmsInv
  BY KmsInitially
<1>2. KmsInv /\ [KmsNext]_kmsVars => KmsInv'
  BY KmsSteps
<1>3. KmsInv => KmsInvariant
  BY KmsInvImplies
<1>4. KmsInv /\ [KmsNext]_kmsVars => [DestroyedWatched]_kmsVars
  BY KmsSteps
<1> QED
  BY <1>1, <1>2, <1>3, <1>4, PTL DEF KmsSpec, KeysHold, DestroyedComesBackDisabled, DestroyedWatched

HIDE KmsAssumption DEF IsCryptoKey, IsVersion, UsesPrimary

---------------------------------------------------------------------------
(* The registry of the gateway: who is removed.                            *)

(* A health that counts as failing was written by an answer that failed:   *)
(* the counter starts from zero at a registration and at a healthy answer. *)
RegistryInv ==
  /\ RegistryTypeOK
  /\ \A s \in Registrable : KeepsFailing(s) => lastAnswer[s] = "failing"

RemovedFailing ==
  \A s \in Registrable :
    s \in registeredIds \ registeredIds' /\ s \in removals \ removals' => lastAnswer[s] = "failing"

USE RegistryAssumption

LEMMA CountedIsHealth ==
  ASSUME NEW read \in HealthRecords, NEW answer \in Statuses
  PROVE  /\ Checked(read, answer) \in HealthRecords
         /\ answer = "healthy" => Checked(read, answer).failures = 0
<1>1. read.failures \in 0..FailureCeiling
  BY DEF HealthRecords
<1>2. CountedCheck(read) \in 0..FailureCeiling
  BY <1>1 DEF CountedCheck
<1> QED
  BY <1>2 DEF Checked, HealthRecords

LEMMA RegistrySteps ==
  RegistryInv /\ [RegistryNext]_serviceRegistryVars => RegistryInv' /\ RemovedFailing
<1> SUFFICES ASSUME RegistryInv, [RegistryNext]_serviceRegistryVars
             PROVE  RegistryInv' /\ RemovedFailing
  OBVIOUS
<1> USE DEF RegistryInv, RegistryTypeOK, KeepsFailing
<1>1. Unknown \in HealthRecords /\ Unknown.failures = 0
  BY DEF Unknown, HealthRecords, Statuses
<1>2. ASSUME NEW c \in HealthChecks, NEW s \in Registrable, NEW health \in HealthRecords,
             checks[c] = NoRow, Checking(c, s, health)
      PROVE  checks' \in [HealthChecks -> CheckRecords \cup {NoRow}]
  BY <1>2 DEF Checking, CheckRecords
<1>3. ASSUME NEW s \in Registrable, NEW c \in HealthChecks, RegisterService(s, c)
      PROVE  RegistryInv' /\ RemovedFailing
  <2>1. checks' \in [HealthChecks -> CheckRecords \cup {NoRow}]
    BY <1>1, <1>2, <1>3 DEF RegisterService
  <2>2. /\ registeredIds' = registeredIds \cup {s} /\ UNCHANGED <<removals, registryOpen>>
        /\ serviceHealth' = [serviceHealth EXCEPT ![s] = Unknown]
        /\ lastAnswer' = [lastAnswer EXCEPT ![s] = "none"]
    BY <1>3 DEF RegisterService
  <2>3. RegistryTypeOK'
    BY <1>1, <2>1, <2>2
  <2>4. ASSUME NEW r \in Registrable, KeepsFailing(r)' PROVE lastAnswer'[r] = "failing"
    BY <1>1, <2>2, <2>4
  <2> QED
    BY <2>2, <2>3, <2>4 DEF RemovedFailing
<1>4. ASSUME NEW s \in Registrable, Forgotten(s), UNCHANGED <<checks, registryOpen, lastAnswer>>,
             removals' \subseteq removals
      PROVE  RegistryInv'
  BY <1>4 DEF Forgotten
<1>5. ASSUME NEW s \in Registrable, DeregisterService(s) PROVE RegistryInv' /\ RemovedFailing
  BY <1>4, <1>5 DEF DeregisterService, RemovedFailing
<1>6. ASSUME NEW s \in Registrable, AutoDeregister(s) PROVE RegistryInv' /\ RemovedFailing
  <2>1. removals' \subseteq removals /\ UNCHANGED <<checks, registryOpen, lastAnswer>>
    BY <1>6 DEF AutoDeregister
  <2>2. CASE KeepsFailing(s) /\ s \in registeredIds
    <3>1. Forgotten(s)
      BY <1>6, <2>2 DEF AutoDeregister
    <3>2. RegistryInv'
      BY <3>1, <2>1, <1>4
    <3>3. lastAnswer[s] = "failing"
      BY <2>2
    <3> QED
      BY <3>1, <3>2, <3>3 DEF RemovedFailing, Forgotten
  <2>3. CASE ~(KeepsFailing(s) /\ s \in registeredIds)
    <3>1. UNCHANGED <<registeredIds, serviceHealth>>
      BY <1>6, <2>3 DEF AutoDeregister
    <3> QED
      BY <3>1, <2>1 DEF RemovedFailing
  <2> QED
    BY <2>2, <2>3
<1>7. ASSUME NEW s \in Registrable, NEW c \in HealthChecks, CheckStarts(s, c)
      PROVE  RegistryInv' /\ RemovedFailing
  <2>1. serviceHealth[s] \in HealthRecords
    BY <1>7 DEF CheckStarts
  <2>2. checks' \in [HealthChecks -> CheckRecords \cup {NoRow}]
    BY <1>2, <1>7, <2>1 DEF CheckStarts
  <2> QED
    BY <1>7, <2>2 DEF CheckStarts, RemovedFailing
<1>8. ASSUME NEW c \in HealthChecks, NEW answer \in Statuses \ {"unknown"}, CheckAnswers(c, answer)
      PROVE  RegistryInv' /\ RemovedFailing
  <2> DEFINE s == checks[c].service
             health == Checked(checks[c].read, answer)
  <2>1. checks[c] \in CheckRecords
    BY <1>8 DEF CheckAnswers
  <2>2. s \in Registrable /\ checks[c].read \in HealthRecords
    BY <2>1 DEF CheckRecords
  <2>3. health \in HealthRecords /\ (answer = "healthy" => health.failures = 0)
    BY <2>2, CountedIsHealth
  <2>4. /\ serviceHealth' = [serviceHealth EXCEPT ![s] = health]
        /\ removals' \subseteq removals \cup {s} /\ removals \subseteq removals'
        /\ lastAnswer' = [lastAnswer EXCEPT ![s] = IF answer = "healthy" THEN "healthy" ELSE "failing"]
        /\ checks' = [checks EXCEPT ![c] = NoRow]
        /\ UNCHANGED <<registeredIds, registryOpen>>
    BY <1>8 DEF CheckAnswers
  <2> HIDE DEF s, health
  <2>5. RegistryTypeOK'
    BY <2>2, <2>3, <2>4
  <2>6. ASSUME NEW r \in Registrable, KeepsFailing(r)' PROVE lastAnswer'[r] = "failing"
    BY <2>2, <2>3, <2>4, <2>6
  <2> QED
    BY <2>4, <2>5, <2>6 DEF RemovedFailing
<1>9. CASE CloseRegistry \/ UNCHANGED serviceRegistryVars
  BY <1>9 DEF CloseRegistry, serviceRegistryVars, RemovedFailing
<1> QED
  BY <1>3, <1>5, <1>6, <1>7, <1>8, <1>9 DEF RegistryNext

(* A timer of autoDeregisterService() (service-registry.ts) removes a      *)
(* service only if its last answer failed, though timers are never cleared *)
(* and overlapping checks write what they counted from an older health.    *)
THEOREM FailingOnlyAreRemoved == RegistrySpec => RegistryFollowsChecks
<1>1. RegistryInit => RegistryInv
  BY DEF RegistryInit, RegistryInv, RegistryTypeOK, KeepsFailing
<1>2. RegistryInv /\ [RegistryNext]_serviceRegistryVars => RegistryInv'
  BY RegistrySteps
<1>3. RegistryInv => RegistryTypeOK
  BY DEF RegistryInv
<1>4. RegistryInv /\ [RegistryNext]_serviceRegistryVars => [RemovedFailing]_serviceRegistryVars
  BY RegistrySteps
<1> QED
  BY <1>1, <1>2, <1>3, <1>4, PTL
     DEF RegistrySpec, RegistryFollowsChecks, RemovedOnlyWhileFailing, RemovedFailing

HIDE RegistryAssumption

---------------------------------------------------------------------------
(* Cloud Scheduler: occurrences and executions.                            *)

(* A tick of this process has started an execution of j due at t.          *)
Done(j, t) == <<j, t>> \in DOMAIN handled /\ handled[<<j, t>>] = 1

(* What was started was due.  The row of a job still has the time of an    *)
(* execution that was started only while that execution goes on, since it  *)
(* ends by moving the row past the clock; and what a tick has still to do  *)
(* are other jobs, none of which was started for the time it was read with.*)
SchedulerInv ==
  /\ SchedulerTypeOK
  /\ handled \in [Jobs \X (1..SchedulerHorizon) -> {0, 1}]
  /\ \A j \in Jobs, t \in Nat : Done(j, t) => t <= clock
  /\ \A j \in Jobs :
       jobs[j] # NoRow /\ jobs[j].next # NoRow /\ Done(j, jobs[j].next) =>
         runs[Tick] # NoRow /\ runs[Tick].job = j
  /\ \A c \in dueJobs :
       /\ c.read.next \in Nat /\ c.read.next <= clock /\ ~Done(c.job, c.read.next)
       /\ runs[Tick] # NoRow => runs[Tick].job # c.job
       /\ \A d \in dueJobs : d.job = c.job => d = c

USE SchedulerAssumption DEF Runners, Times

(* The next run of a period is later than now, and one of its multiples.   *)
LEMMA NextRunIsLater ==
  ASSUME clock \in Nat, NEW period \in Periods
  PROVE  NextRun(period) \in Nat /\ NextRun(period) > clock /\ NextRun(period) % period = 0
<1>1. period \in Nat /\ period > 0
  OBVIOUS
<1>2. clock \div period \in Nat /\ clock < (clock \div period + 1) * period
  BY <1>1
<1> DEFINE q == clock \div period
<1> HIDE DEF q
<1>3. NextRun(period) = (q + 1) * period /\ q \in Nat /\ clock < (q + 1) * period
  BY <1>2 DEF NextRun, q
<1>4. (q + 1) * period \in Nat /\ ((q + 1) * period) % period = 0
  BY <1>1, <1>3
<1> QED
  BY <1>3, <1>4

(* Requests and the end of an execution give a row no time that was done.  *)
LEMMA LaterIsNotDone ==
  ASSUME SchedulerInv, NEW j \in Jobs, NEW period \in Periods
  PROVE  NextRun(period) \in Nat /\ ~Done(j, NextRun(period))
<1>1. clock \in Nat
  BY DEF SchedulerInv, SchedulerTypeOK
<1>2. NextRun(period) \in Nat /\ NextRun(period) > clock
  BY <1>1, NextRunIsLater
<1> QED
  BY <1>1, <1>2 DEF SchedulerInv

(* What the rows, the tick and its list have to do with each other, when   *)
(* only the rows change: a new time is none that was done.                 *)
LEMMA RowsChange ==
  ASSUME SchedulerInv, NEW j \in Jobs, NEW row \in JobRecords \cup {NoRow},
         jobs' = [jobs EXCEPT ![j] = row],
         row # NoRow /\ row.next # NoRow => ~Done(j, row.next),
         UNCHANGED <<clock, schedulerEngine>>
  PROVE  SchedulerInv'
<1> USE DEF SchedulerInv
<1>1. UNCHANGED <<clock, jobTimer, ticking, dueJobs, runs, handled>>
  BY DEF schedulerEngine
<1>2. jobs' \in [Jobs -> JobRecords \cup {NoRow}] /\ jobs'[j] = row
      /\ \A i \in Jobs \ {j} : jobs'[i] = jobs[i]
  BY DEF SchedulerTypeOK
<1>3. \A i, t : Done(i, t)' = Done(i, t)
  BY <1>1 DEF Done
<1>4. SchedulerTypeOK'
  BY <1>1, <1>2 DEF SchedulerTypeOK
<1>5. ASSUME NEW i \in Jobs, jobs'[i] # NoRow, jobs'[i].next # NoRow, Done(i, jobs'[i].next)
      PROVE  runs[Tick] # NoRow /\ runs[Tick].job = i
  BY <1>2, <1>5
<1> QED
  BY <1>1, <1>3, <1>4, <1>5

LEMMA RequestsKeep ==
  ASSUME SchedulerInv, SchedulerRequests, \A r \in ForcedRuns, j \in Jobs : ~RunJob(j, r)
  PROVE  SchedulerInv'
<1>1. ASSUME NEW j \in Jobs, NEW p \in Periods, CreateJob(j, p) PROVE SchedulerInv'
  <2> DEFINE row == [schedule |-> p, state |-> "ENABLED", next |-> NextRun(p)]
  <2>1. NextRun(p) \in Nat /\ ~Done(j, NextRun(p))
    BY LaterIsNotDone
  <2>2. row \in JobRecords /\ row.next = NextRun(p)
    BY <2>1 DEF JobRecords
  <2>3. jobs' = [jobs EXCEPT ![j] = row] /\ UNCHANGED <<clock, schedulerEngine>>
    BY <1>1 DEF CreateJob
  <2> HIDE DEF row
  <2> QED
    BY <2>1, <2>2, <2>3, RowsChange
<1>2. ASSUME NEW j \in Jobs, JobExists(j) PROVE jobs[j] \in JobRecords
  BY <1>2 DEF JobExists, SchedulerInv, SchedulerTypeOK
<1>3. ASSUME NEW j \in Jobs, NEW p \in Periods, UpdateJob(j, p) PROVE SchedulerInv'
  <2> DEFINE row == [jobs[j] EXCEPT !.schedule = p, !.next = NextRun(p)]
  <2>1. NextRun(p) \in Nat /\ ~Done(j, NextRun(p))
    BY LaterIsNotDone
  <2>2. jobs[j] \in JobRecords
    BY <1>2, <1>3 DEF UpdateJob
  <2>3. row \in JobRecords /\ row.next = NextRun(p)
    BY <2>1, <2>2 DEF JobRecords
  <2>4. jobs' = [jobs EXCEPT ![j] = row] /\ UNCHANGED <<clock, schedulerEngine>>
    BY <1>3 DEF UpdateJob
  <2> HIDE DEF row
  <2> QED
    BY <2>1, <2>3, <2>4, RowsChange
<1>4. ASSUME NEW j \in Jobs, DeleteJob(j) PROVE SchedulerInv'
  BY <1>4, RowsChange DEF DeleteJob
<1>5. ASSUME NEW j \in Jobs, PauseJob(j) PROVE SchedulerInv'
  <2> DEFINE row == [jobs[j] EXCEPT !.state = "PAUSED", !.next = NoRow]
  <2>1. jobs[j] \in JobRecords
    BY <1>2, <1>5 DEF PauseJob
  <2>2. row \in JobRecords /\ row.next = NoRow
    BY <2>1 DEF JobRecords
  <2>3. jobs' = [jobs EXCEPT ![j] = row] /\ UNCHANGED <<clock, schedulerEngine>>
    BY <1>5 DEF PauseJob
  <2> HIDE DEF row
  <2> QED
    BY <2>2, <2>3, RowsChange
<1>6. ASSUME NEW j \in Jobs, ResumeJob(j) PROVE SchedulerInv'
  <2> DEFINE later == NextRun(jobs[j].schedule)
             row == [jobs[j] EXCEPT !.state = "ENABLED", !.next = later]
  <2>1. jobs[j] \in JobRecords
    BY <1>2, <1>6 DEF ResumeJob
  <2>2. later \in Nat /\ ~Done(j, later)
    BY <2>1, LaterIsNotDone DEF JobRecords
  <2>3. row \in JobRecords /\ row.next = later
    BY <2>1, <2>2 DEF JobRecords
  <2>4. jobs' = [jobs EXCEPT ![j] = row] /\ UNCHANGED <<clock, schedulerEngine>>
    BY <1>6 DEF ResumeJob
  <2> HIDE DEF row, later
  <2> QED
    BY <2>2, <2>3, <2>4, RowsChange
<1> QED
  BY <1>1, <1>3, <1>4, <1>5, <1>6 DEF SchedulerRequests, JobChanges

(* A forced run begins, fails or waits for its backoff.                    *)
LEMMA RunsChange ==
  ASSUME SchedulerInv, NEW r \in Runners, NEW run \in RunRecords \cup {NoRow},
         runs' = [runs EXCEPT ![r] = run],
         r = Tick => run # NoRow /\ runs[Tick] # NoRow /\ run.job = runs[Tick].job,
         UNCHANGED <<jobs, clock, jobTimer, ticking, dueJobs, handled>>
  PROVE  SchedulerInv'
<1> USE DEF SchedulerInv
<1>1. runs' \in [Runners -> RunRecords \cup {NoRow}] /\ Tick \in Runners
  BY DEF SchedulerTypeOK
<1>2. (runs'[Tick] # NoRow <=> runs[Tick] # NoRow)
      /\ (runs[Tick] # NoRow => runs'[Tick].job = runs[Tick].job)
  BY DEF SchedulerTypeOK
<1>3. \A i, t : Done(i, t)' = Done(i, t)
  BY DEF Done
<1>4. SchedulerTypeOK'
  BY <1>1, <1>2 DEF SchedulerTypeOK
<1> QED
  BY <1>2, <1>3, <1>4

LEMMA AttemptsKeep ==
  ASSUME SchedulerInv, NEW r \in Runners,
         AttemptFails(r) \/ BackoffOver(r) \/ (r # Tick /\ \E j \in Jobs : RunJob(j, r))
  PROVE  SchedulerInv'
<1>1. ASSUME runs[r] # NoRow PROVE runs[r] \in RunRecords
  BY <1>1 DEF SchedulerInv, SchedulerTypeOK
<1>2. CASE AttemptFails(r)
  <2> DEFINE run == [runs[r] EXCEPT !.waits = "backoff"]
  <2>1. runs[r] # NoRow /\ runs[r] \in RunRecords
    BY <1>1, <1>2 DEF AttemptFails
  <2>2. run \in RunRecords /\ run.job = runs[r].job
    BY <2>1 DEF RunRecords
  <2>3. runs' = [runs EXCEPT ![r] = run] /\ UNCHANGED <<jobs, clock, jobTimer, ticking, dueJobs, handled>>
    BY <1>2 DEF AttemptFails
  <2> HIDE DEF run
  <2> QED
    BY <2>1, <2>2, <2>3, RunsChange
<1>3. CASE BackoffOver(r)
  <2> DEFINE run == [runs[r] EXCEPT !.waits = "call", !.attempt = @ + 1]
  <2>1. runs[r] # NoRow /\ runs[r] \in RunRecords
    BY <1>1, <1>3 DEF BackoffOver
  <2>2. run \in RunRecords /\ run.job = runs[r].job
    <3>1. runs[r].attempt + 1 \in Nat
      BY <2>1 DEF RunRecords
    <3> QED
      BY <2>1, <3>1 DEF RunRecords
  <2>3. runs' = [runs EXCEPT ![r] = run] /\ UNCHANGED <<jobs, clock, jobTimer, ticking, dueJobs, handled>>
    BY <1>3 DEF BackoffOver
  <2> HIDE DEF run
  <2> QED
    BY <2>1, <2>2, <2>3, RunsChange
<1>4. ASSUME NEW j \in Jobs, RunJob(j, r), r # Tick PROVE SchedulerInv'
  <2> DEFINE run == Started([job |-> j, read |-> jobs[j]])
  <2>1. jobs[j] \in JobRecords
    BY <1>4 DEF RunJob, JobExists, SchedulerInv, SchedulerTypeOK
  <2>2. run \in RunRecords
    BY <2>1 DEF RunRecords, Started
  <2>3. runs' = [runs EXCEPT ![r] = run] /\ UNCHANGED <<jobs, clock, jobTimer, ticking, dueJobs, handled>>
    BY <1>4 DEF RunJob
  <2> HIDE DEF run
  <2> QED
    BY <2>2, <2>3, <1>4, RunsChange
<1> QED
  BY <1>2, <1>3, <1>4

(* A tick goes on to the next job of its list, none of which was started   *)
(* for the time it was read with, or ends.                                 *)
LEMMA TickProceeds ==
  ASSUME SchedulerInv, NEW list \in SUBSET DueEntries, Proceed(list),
         jobs' \in [Jobs -> JobRecords \cup {NoRow}],
         UNCHANGED <<clock, jobTimer>>,
         \A c \in list :
           /\ c.read.next \in Nat /\ c.read.next <= clock /\ ~Done(c.job, c.read.next)
           /\ \A d \in list : d.job = c.job => d = c,
         \A j \in Jobs : jobs'[j] # NoRow /\ jobs'[j].next # NoRow => ~Done(j, jobs'[j].next)
  PROVE  SchedulerInv'
<1> USE DEF SchedulerInv
<1>1. Tick \in Runners /\ clock \in Nat
  BY DEF SchedulerTypeOK
<1>2. CASE list = {} /\ ticking' = FALSE /\ dueJobs' = {}
           /\ runs' = [runs EXCEPT ![Tick] = NoRow] /\ UNCHANGED handled
  <2>1. \A i, t : Done(i, t)' = Done(i, t)
    BY <1>2 DEF Done
  <2>2. SchedulerTypeOK'
    BY <1>1, <1>2 DEF SchedulerTypeOK
  <2> QED
    BY <1>2, <2>1, <2>2
<1>3. ASSUME NEW c \in list, ticking' = TRUE, dueJobs' = list \ {c},
             runs' = [runs EXCEPT ![Tick] = Started(c)], handled' = Counted(c)
      PROVE  SchedulerInv'
  <2> DEFINE o == <<c.job, c.read.next>>
             run == Started(c)
  <2>1. c \in DueEntries /\ c.job \in Jobs /\ c.read \in JobRecords
    BY DEF DueEntries
  <2>2. run \in RunRecords /\ run.job = c.job /\ run # NoRow
    BY <2>1 DEF RunRecords, Started
  <2>3. handled' = [handled EXCEPT ![o] = @ + 1] /\ DOMAIN handled' = DOMAIN handled
    BY <1>3 DEF Counted
  <2>4. o \in DOMAIN handled => handled[o] = 0
    <3>1. c.read.next \in Nat /\ ~Done(c.job, c.read.next)
      OBVIOUS
    <3> QED
      BY <3>1 DEF Done
  <2>5. handled' \in [Jobs \X (1..SchedulerHorizon) -> {0, 1}]
    <3>1. CASE o \in DOMAIN handled
      <4>1. handled[o] + 1 = 1
        BY <3>1, <2>4
      <4>2. handled' = [handled EXCEPT ![o] = handled[o] + 1]
        BY <2>3
      <4>3. handled' = [handled EXCEPT ![o] = 1]
        BY <4>1, <4>2, Zenon
      <4> QED
        BY <4>3
    <3>2. CASE o \notin DOMAIN handled
      BY <3>2, <2>3
    <3> QED
      BY <3>1, <3>2
  <2>6. \A j, t : Done(j, t)' => Done(j, t) \/ (j = c.job /\ t = c.read.next)
    BY <2>3 DEF Done
  <2> HIDE DEF run
  <2>7. runs' = [runs EXCEPT ![Tick] = run]
    BY <1>3 DEF run
  <2>8. runs' \in [Runners -> RunRecords \cup {NoRow}] /\ runs'[Tick] = run
    BY <1>1, <2>2, <2>7 DEF SchedulerTypeOK
  <2>9. SchedulerTypeOK'
    BY <1>3, <2>2, <2>8 DEF SchedulerTypeOK
  <2>10. \A j \in Jobs, t \in Nat : Done(j, t)' => t <= clock'
    BY <2>6
  <2>11. ASSUME NEW j \in Jobs, (jobs[j] # NoRow /\ jobs[j].next # NoRow /\ Done(j, jobs[j].next))'
         PROVE  runs'[Tick] # NoRow /\ runs'[Tick].job = j
    <3>1. Done(j, jobs'[j].next) \/ j = c.job
      BY <2>11, <2>6 DEF Done
    <3> QED
      BY <3>1, <2>2, <2>8, <2>11
  <2>12. ASSUME NEW d \in dueJobs'
         PROVE  /\ d.read.next \in Nat /\ d.read.next <= clock' /\ ~Done(d.job, d.read.next)'
                /\ runs'[Tick] # NoRow => runs'[Tick].job # d.job
                /\ \A e \in dueJobs' : e.job = d.job => e = d
    <3>1. d \in list /\ d # c /\ d.job # c.job
      BY <1>3
    <3> QED
      BY <3>1, <1>3, <2>2, <2>6, <2>8
  <2> QED
    BY <2>5, <2>9, <2>10, <2>11, <2>12
<1> QED
  BY <1>2, <1>3 DEF Proceed

LEMMA TickKeeps == ASSUME SchedulerInv, EngineTick PROVE SchedulerInv'
<1> USE DEF SchedulerInv
<1>1. ~ticking /\ runs[Tick] = NoRow /\ Proceed(DueNow) /\ UNCHANGED <<jobs, clock, jobTimer>>
  BY DEF EngineTick, SchedulerTypeOK
<1>2. \A j \in Jobs : Due(j) =>
        jobs[j] \in JobRecords /\ jobs[j].next \in Nat /\ jobs[j].next <= clock /\ ~Done(j, jobs[j].next)
  BY <1>1 DEF Due, JobExists, SchedulerTypeOK, JobRecords
<1>3. DueNow \subseteq DueEntries
  BY <1>2 DEF DueNow, DueEntries
<1>4. \A c \in DueNow :
        /\ c.read.next \in Nat /\ c.read.next <= clock /\ ~Done(c.job, c.read.next)
        /\ \A d \in DueNow : d.job = c.job => d = c
  BY <1>2 DEF DueNow
<1>5. \A j \in Jobs : jobs'[j] # NoRow /\ jobs'[j].next # NoRow => ~Done(j, jobs'[j].next)
  BY <1>1
<1>6. jobs' \in [Jobs -> JobRecords \cup {NoRow}]
  BY <1>1 DEF SchedulerTypeOK
<1> QED
  BY <1>1, <1>3, <1>4, <1>5, <1>6, TickProceeds

(* The end of an execution moves the row of its job, if there is one, past *)
(* the clock, and changes nothing else in it.                              *)
LEMMA EndReschedules ==
  ASSUME SchedulerInv, NEW r \in Runners, RunEnds(r)
  PROVE  LET run == runs[r]  later == NextRun(run.read.schedule) IN
         /\ run \in RunRecords /\ run.job \in Jobs /\ run.read.schedule \in Periods
         /\ later \in Nat /\ ~Done(run.job, later)
         /\ jobs' \in [Jobs -> JobRecords \cup {NoRow}]
         /\ \A j \in Jobs : jobs'[j] =
              IF j = run.job /\ jobs[j] # NoRow THEN [jobs[j] EXCEPT !.next = later] ELSE jobs[j]
         /\ jobs[run.job] # NoRow =>
              /\ jobs'[run.job] \in JobRecords /\ jobs'[run.job].next = later
              /\ jobs'[run.job].schedule = jobs[run.job].schedule
<1> USE DEF SchedulerInv
<1> DEFINE run == runs[r]
           later == NextRun(run.read.schedule)
           row == [jobs[run.job] EXCEPT !.next = later]
<1>1. run \in RunRecords
  BY DEF RunEnds, SchedulerTypeOK
<1>2. run.job \in Jobs /\ run.read \in JobRecords /\ run.read.schedule \in Periods
  BY <1>1 DEF RunRecords, JobRecords
<1>3. later \in Nat /\ ~Done(run.job, later)
  BY <1>2, LaterIsNotDone
<1> HIDE DEF later
<1>4. jobs' = IF jobs[run.job] # NoRow THEN [jobs EXCEPT ![run.job] = row] ELSE jobs
  BY DEF RunEnds, Rescheduled, JobExists, later
<1>5. jobs[run.job] # NoRow => row \in JobRecords /\ row.next = later /\ row.schedule = jobs[run.job].schedule
  <2> SUFFICES ASSUME jobs[run.job] # NoRow
               PROVE  row \in JobRecords /\ row.next = later /\ row.schedule = jobs[run.job].schedule
    OBVIOUS
  <2>1. jobs[run.job] \in JobRecords
    BY <1>2 DEF SchedulerTypeOK
  <2> QED
    BY <2>1, <1>3 DEF JobRecords
<1>6. ASSUME NEW j \in Jobs
      PROVE  jobs'[j] = IF j = run.job /\ jobs[j] # NoRow THEN [jobs[j] EXCEPT !.next = later] ELSE jobs[j]
  BY <1>4 DEF SchedulerTypeOK
<1> HIDE DEF row
<1>7. jobs' \in [Jobs -> JobRecords \cup {NoRow}]
      /\ (jobs[run.job] # NoRow => jobs'[run.job] = row)
  BY <1>2, <1>4, <1>5 DEF SchedulerTypeOK
<1> QED
  BY <1>1, <1>2, <1>3, <1>5, <1>6, <1>7 DEF later

LEMMA EndKeeps ==
  ASSUME SchedulerInv, NEW r \in Runners, RunEnds(r)
  PROVE  SchedulerInv'
<1> USE DEF SchedulerInv
<1> DEFINE run == runs[r]
           later == NextRun(run.read.schedule)
<1>1. /\ run \in RunRecords /\ run.job \in Jobs /\ run.read.schedule \in Periods
      /\ later \in Nat /\ ~Done(run.job, later)
      /\ jobs' \in [Jobs -> JobRecords \cup {NoRow}]
      /\ \A j \in Jobs : jobs'[j] =
           IF j = run.job /\ jobs[j] # NoRow THEN [jobs[j] EXCEPT !.next = later] ELSE jobs[j]
      /\ jobs[run.job] # NoRow =>
           /\ jobs'[run.job] \in JobRecords /\ jobs'[run.job].next = later
           /\ jobs'[run.job].schedule = jobs[run.job].schedule
  BY EndReschedules
<1> HIDE DEF later
<1>2. ASSUME NEW j \in Jobs, j # run.job PROVE jobs'[j] = jobs[j]
  BY <1>1, <1>2
<1>3. jobs'[run.job] # NoRow => jobs[run.job] # NoRow /\ jobs'[run.job].next = later
  BY <1>1
<1>4. runs[r] # NoRow /\ UNCHANGED <<clock, jobTimer>>
  BY DEF RunEnds
<1>5. CASE r = Tick /\ Proceed(dueJobs)
  <2>1. \A c \in dueJobs :
          /\ c.read.next \in Nat /\ c.read.next <= clock /\ ~Done(c.job, c.read.next)
          /\ \A d \in dueJobs : d.job = c.job => d = c
    OBVIOUS
  <2>2. \A j \in Jobs : jobs'[j] # NoRow /\ jobs'[j].next # NoRow => ~Done(j, jobs'[j].next)
    BY <1>1, <1>2, <1>3, <1>5
  <2>3. dueJobs \in SUBSET DueEntries
    BY DEF SchedulerTypeOK
  <2> QED
    BY <2>1, <2>2, <2>3, <1>1, <1>4, <1>5, TickProceeds
<1>6. CASE r # Tick /\ runs' = [runs EXCEPT ![r] = NoRow] /\ UNCHANGED <<ticking, dueJobs, handled>>
  <2>1. \A i, t : Done(i, t)' = Done(i, t)
    BY <1>6 DEF Done
  <2>2. runs'[Tick] = runs[Tick] /\ runs' \in [Runners -> RunRecords \cup {NoRow}]
    BY <1>6 DEF SchedulerTypeOK
  <2>3. SchedulerTypeOK'
    BY <1>1, <1>4, <1>6, <2>2 DEF SchedulerTypeOK
  <2>4. ASSUME NEW j \in Jobs, (jobs[j] # NoRow /\ jobs[j].next # NoRow /\ Done(j, jobs[j].next))'
        PROVE  runs'[Tick] # NoRow /\ runs'[Tick].job = j
    <3>1. Done(j, jobs'[j].next)
      BY <2>4, <1>6 DEF Done
    <3>2. j # run.job
      BY <3>1, <2>4, <1>1, <1>3
    <3> QED
      BY <3>1, <3>2, <2>2, <2>4, <1>2
  <2> QED
    BY <2>1, <2>2, <2>3, <2>4, <1>4, <1>6
<1> QED
  BY <1>5, <1>6 DEF RunEnds

LEMMA RestartKeeps ==
  ASSUME SchedulerInv, StopJobs \/ RestartJobs \/ TimePasses \/ UNCHANGED schedulerVars
  PROVE  SchedulerInv'
<1> USE DEF SchedulerInv
<1>1. CASE RestartJobs
  <2>1. /\ jobTimer' = TRUE /\ ticking' = FALSE /\ dueJobs' = {}
        /\ runs' = [r \in Runners |-> NoRow] /\ handled' = [o \in DOMAIN handled |-> 0]
        /\ UNCHANGED <<jobs, clock>>
    BY <1>1 DEF RestartJobs, JobsNewProcess
  <2>2. handled' \in [Jobs \X (1..SchedulerHorizon) -> {0, 1}] /\ \A i, t : ~Done(i, t)'
    BY <2>1 DEF Done
  <2>3. SchedulerTypeOK'
    BY <2>1 DEF SchedulerTypeOK
  <2>4. ASSUME NEW j \in Jobs, (jobs[j] # NoRow /\ jobs[j].next # NoRow /\ Done(j, jobs[j].next))'
        PROVE  FALSE
    BY <2>2, <2>4 DEF Done
  <2> QED
    BY <2>1, <2>2, <2>3, <2>4
<1>2. CASE StopJobs \/ TimePasses \/ UNCHANGED schedulerVars
  <2>1. /\ UNCHANGED <<jobs, ticking, dueJobs, runs, handled>> /\ clock <= clock' /\ clock' \in Times
        /\ jobTimer' \in BOOLEAN /\ clock \in Nat /\ clock' \in Nat
    <3>1. clock \in 0..SchedulerHorizon
      BY DEF SchedulerTypeOK
    <3>2. UNCHANGED <<jobs, ticking, dueJobs, runs, handled>>
      BY <1>2 DEF StopJobs, TimePasses, schedulerVars, schedulerEngine
    <3>3. clock' = clock \/ (clock < SchedulerHorizon /\ clock' = clock + 1)
      BY <1>2 DEF StopJobs, TimePasses, schedulerVars
    <3>4. clock \in Nat /\ clock' \in Nat /\ clock <= clock' /\ clock' \in Times
      BY <3>1, <3>3
    <3>5. jobTimer' = FALSE \/ jobTimer' = jobTimer
      BY <1>2, Zenon DEF StopJobs, TimePasses, schedulerVars, schedulerEngine
    <3>6. jobTimer \in BOOLEAN
      BY DEF SchedulerTypeOK
    <3>7. jobTimer' \in BOOLEAN
      BY <3>5, <3>6
    <3> QED
      BY <3>2, <3>4, <3>7, Zenon
  <2>2. \A i, t : Done(i, t)' = Done(i, t)
    BY <2>1 DEF Done
  <2>3. SchedulerTypeOK'
    BY <2>1 DEF SchedulerTypeOK
  <2>4. \A j \in Jobs, t \in Nat : Done(j, t)' => t <= clock'
    BY <2>1, <2>2
  <2>5. ASSUME NEW j \in Jobs, (jobs[j] # NoRow /\ jobs[j].next # NoRow /\ Done(j, jobs[j].next))'
        PROVE  runs'[Tick] # NoRow /\ runs'[Tick].job = j
    BY <2>1, <2>5 DEF Done
  <2> QED
    BY <2>1, <2>2, <2>3, <2>4, <2>5
<1> QED
  BY <1>1, <1>2

LEMMA SchedulerSteps == SchedulerInv /\ [SchedulerNext]_schedulerVars => SchedulerInv'
<1> SUFFICES ASSUME SchedulerInv, [SchedulerNext]_schedulerVars PROVE SchedulerInv'
  OBVIOUS
<1>1. CASE SchedulerRequests
  <2>1. CASE \E r \in ForcedRuns, j \in Jobs : RunJob(j, r)
    BY <2>1, AttemptsKeep
  <2>2. CASE ~\E r \in ForcedRuns, j \in Jobs : RunJob(j, r)
    BY <1>1, <2>2, RequestsKeep
  <2> QED
    BY <2>1, <2>2
<1>2. CASE EngineTick
  BY <1>2, TickKeeps
<1>3. CASE \E r \in Runners : RunWorks(r)
  BY <1>3, EndKeeps, AttemptsKeep DEF RunWorks
<1>4. CASE StopJobs \/ RestartJobs \/ TimePasses \/ UNCHANGED schedulerVars
  BY <1>4, RestartKeeps
<1> QED
  BY <1>1, <1>2, <1>3, <1>4 DEF SchedulerNext

LEMMA SchedulerStarts == SchedulerInit => SchedulerInv
<1> SUFFICES ASSUME SchedulerInit PROVE SchedulerInv
  OBVIOUS
<1>1. 0 \in Times /\ Tick \in Runners
  OBVIOUS
<1>2. handled \in [Jobs \X (1..SchedulerHorizon) -> {0, 1}] /\ \A i, t : ~Done(i, t)
  BY DEF SchedulerInit, Done
<1>3. SchedulerTypeOK
  BY <1>1 DEF SchedulerInit, SchedulerTypeOK
<1> QED
  BY <1>2, <1>3 DEF SchedulerInit, SchedulerInv

(* The step properties.  Only the end of an execution changes the rows and *)
(* the executions at once.                                                 *)
LEMMA EndsReschedule ==
  SchedulerInv /\ [SchedulerNext]_schedulerVars =>
    \A j \in Jobs : jobs'[j] # jobs[j] /\ runs' # runs =>
      /\ jobs[j] # NoRow /\ jobs'[j] # NoRow
      /\ jobs'[j] = [jobs[j] EXCEPT !.next = jobs'[j].next]
<1> SUFFICES ASSUME SchedulerInv, [SchedulerNext]_schedulerVars,
                    NEW j \in Jobs, jobs'[j] # jobs[j], runs' # runs
             PROVE  /\ jobs[j] # NoRow /\ jobs'[j] # NoRow
                    /\ jobs'[j] = [jobs[j] EXCEPT !.next = jobs'[j].next]
  OBVIOUS
<1>1. PICK r \in Runners : RunEnds(r)
  <2>1. jobs' # jobs
    OBVIOUS
  <2>2. CASE SchedulerRequests
    BY <2>1, <2>2 DEF SchedulerRequests, JobChanges, CreateJob, UpdateJob, DeleteJob, PauseJob,
                      ResumeJob, RunJob, schedulerEngine
  <2>3. CASE EngineTick \/ StopJobs \/ RestartJobs \/ TimePasses \/ UNCHANGED schedulerVars
    BY <2>1, <2>3 DEF EngineTick, StopJobs, RestartJobs, JobsNewProcess, TimePasses, schedulerVars
  <2>4. CASE \E r \in Runners : RunWorks(r)
    BY <2>1, <2>4 DEF RunWorks, AttemptFails, BackoffOver
  <2> QED
    BY <2>2, <2>3, <2>4 DEF SchedulerNext
<1> DEFINE later == NextRun(runs[r].read.schedule)
<1>2. /\ jobs'[j] = IF j = runs[r].job /\ jobs[j] # NoRow
                     THEN [jobs[j] EXCEPT !.next = later] ELSE jobs[j]
      /\ jobs[runs[r].job] # NoRow =>
           jobs'[runs[r].job] \in JobRecords /\ jobs'[runs[r].job].next = later
  BY <1>1, EndReschedules
<1> HIDE DEF later
<1>3. /\ j = runs[r].job /\ jobs[j] # NoRow /\ jobs'[j] = [jobs[j] EXCEPT !.next = later]
      /\ jobs'[j] \in JobRecords /\ jobs'[j].next = later
  BY <1>2
<1> QED
  BY <1>3

(* A new time is one of the row's own schedule, unless an execution of the *)
(* job read another.                                                       *)
LEMMA NewTimesFit ==
  SchedulerInv /\ [SchedulerNext]_schedulerVars =>
    \A j \in Jobs :
      /\ jobs'[j] # NoRow /\ jobs'[j].next # NoRow
      /\ jobs[j] = NoRow \/ jobs'[j].next # jobs[j].next
      /\ ~\E r \in Runners : /\ runs[r] # NoRow /\ runs[r].job = j /\ jobs[j] # NoRow
                             /\ runs[r].read.schedule # jobs[j].schedule
      => jobs'[j].next % jobs'[j].schedule = 0
<1> SUFFICES ASSUME SchedulerInv, [SchedulerNext]_schedulerVars, NEW j \in Jobs,
                    jobs'[j] # NoRow, jobs'[j].next # NoRow,
                    jobs[j] = NoRow \/ jobs'[j].next # jobs[j].next,
                    ~\E r \in Runners : /\ runs[r] # NoRow /\ runs[r].job = j /\ jobs[j] # NoRow
                                        /\ runs[r].read.schedule # jobs[j].schedule
             PROVE  jobs'[j].next % jobs'[j].schedule = 0
  OBVIOUS
<1>1. jobs \in [Jobs -> JobRecords \cup {NoRow}] /\ clock \in Nat
      /\ (jobs[j] # NoRow => jobs[j] \in JobRecords)
  BY DEF SchedulerInv, SchedulerTypeOK
<1>2. \A p \in Periods : NextRun(p) % p = 0
  BY <1>1, NextRunIsLater
<1>3. jobs'[j] # jobs[j]
  OBVIOUS
<1>4. CASE SchedulerRequests
  <2>1. PICK i \in Jobs : (\E p \in Periods : CreateJob(i, p)) \/ JobChanges(i)
    BY <1>4 DEF SchedulerRequests
  <2>2. ASSUME NEW p \in Periods, CreateJob(i, p) PROVE jobs'[j].next % jobs'[j].schedule = 0
    <3>1. j = i /\ jobs'[j] = [schedule |-> p, state |-> "ENABLED", next |-> NextRun(p)]
      BY <2>2, <1>1, <1>3 DEF CreateJob
    <3>2. jobs'[j].next = NextRun(p) /\ jobs'[j].schedule = p
      BY <3>1
    <3> QED
      BY <3>2, <1>2
  <2>3. ASSUME NEW p \in Periods, UpdateJob(i, p) PROVE jobs'[j].next % jobs'[j].schedule = 0
    <3>1. j = i /\ jobs[j] \in JobRecords
          /\ jobs'[j] = [jobs[j] EXCEPT !.schedule = p, !.next = NextRun(p)]
      BY <2>3, <1>1, <1>3 DEF UpdateJob, JobExists
    <3>2. jobs'[j].next = NextRun(p) /\ jobs'[j].schedule = p
      BY <3>1 DEF JobRecords
    <3> QED
      BY <3>2, <1>2
  <2>4. CASE DeleteJob(i) \/ \E r \in ForcedRuns : RunJob(i, r)
    BY <2>4, <1>1, <1>3 DEF DeleteJob, RunJob
  <2>5. CASE PauseJob(i)
    <3>1. j = i /\ jobs[j] \in JobRecords
          /\ jobs'[j] = [jobs[j] EXCEPT !.state = "PAUSED", !.next = NoRow]
      BY <2>5, <1>1, <1>3 DEF PauseJob, JobExists
    <3>2. jobs'[j].next = NoRow
      BY <3>1 DEF JobRecords
    <3> QED
      BY <3>2
  <2>6. CASE ResumeJob(i)
    <3> DEFINE later == NextRun(jobs[j].schedule)
    <3>1. j = i /\ jobs[j] \in JobRecords
          /\ jobs'[j] = [jobs[j] EXCEPT !.state = "ENABLED", !.next = later]
      BY <2>6, <1>1, <1>3 DEF ResumeJob, JobExists
    <3>2. jobs[j].schedule \in Periods
      BY <3>1 DEF JobRecords
    <3>3. later % jobs[j].schedule = 0
      BY <3>2, <1>2
    <3> HIDE DEF later
    <3>4. jobs'[j].next = later /\ jobs'[j].schedule = jobs[j].schedule
      BY <3>1 DEF JobRecords
    <3> QED
      BY <3>3, <3>4
  <2> QED
    BY <2>1, <2>2, <2>3, <2>4, <2>5, <2>6 DEF JobChanges
<1>5. ASSUME NEW r \in Runners, RunEnds(r) PROVE jobs'[j].next % jobs'[j].schedule = 0
  <2> DEFINE later == NextRun(runs[r].read.schedule)
  <2>1. /\ runs[r].read.schedule \in Periods
        /\ jobs'[j] = IF j = runs[r].job /\ jobs[j] # NoRow
                       THEN [jobs[j] EXCEPT !.next = later] ELSE jobs[j]
        /\ jobs[runs[r].job] # NoRow =>
             /\ jobs'[runs[r].job].next = later
             /\ jobs'[runs[r].job].schedule = jobs[runs[r].job].schedule
    BY <1>5, EndReschedules
  <2>2. later % runs[r].read.schedule = 0
    BY <2>1, <1>2
  <2> HIDE DEF later
  <2>3. j = runs[r].job /\ jobs[j] # NoRow /\ jobs'[j].next = later /\ jobs'[j].schedule = jobs[j].schedule
    BY <2>1, <1>3
  <2>4. runs[r].read.schedule = jobs[j].schedule
    BY <2>3, <1>5 DEF RunEnds
  <2> QED
    BY <2>2, <2>3, <2>4
<1>6. CASE \/ EngineTick \/ StopJobs \/ RestartJobs \/ TimePasses \/ UNCHANGED schedulerVars
           \/ \E r \in Runners : AttemptFails(r) \/ BackoffOver(r)
  BY <1>3, <1>6 DEF EngineTick, StopJobs, RestartJobs, JobsNewProcess, TimePasses, schedulerVars,
                    AttemptFails, BackoffOver
<1> QED
  BY <1>4, <1>5, <1>6 DEF SchedulerNext, RunWorks

(* Cloud Scheduler: one execution of a job per occurrence, whatever clients*)
(* do to the job meanwhile, an end of an execution that writes nothing but *)
(* the next time, and times of the job's own schedule.                     *)
THEOREM JobsRunOnSchedule == SchedulerSpec => SchedulesHold
<1>1. SchedulerInv => SchedulerTypeOK /\ OncePerOccurrence
  BY DEF SchedulerInv, OncePerOccurrence
<1> QED
  BY <1>1, SchedulerStarts, SchedulerSteps, EndsReschedule, NewTimesFit, PTL
     DEF SchedulerSpec, SchedulesHold, EndsOnlyReschedule, NextRunFitsSchedule

HIDE SchedulerAssumption DEF Runners, Times

---------------------------------------------------------------------------
(* The interpreter of workflows.                                           *)

(* The steps and cases a frame can have been opened by.                    *)
StepsIn(p) == UNION {{p[b][i] : i \in DOMAIN p[b]} : b \in DOMAIN p}
CasesIn(p) == UNION {{step.cases[i] : i \in DOMAIN step.cases} : step \in {s \in StepsIn(p) : s.op = "switch"}}
Values == SUBSET Nat
Frames(p) ==
  [kind : FrameKinds, block : DOMAIN p, pc : Nat, step : {NoStep} \cup StepsIn(p) \cup CasesIn(p),
   round : Nat, saved : {NoRow} \cup Values]

(* Which frames open a scope, which give the variable its value, and the   *)
(* scope a frame runs in.                                                  *)
Calls == {"sub", "predicate"}
Opens(frame) == frame.kind \in {"main", "sub", "predicate"}
Gives(frame) == frame.kind \in {"main", "sub", "predicate", "for"}
ValueOf(frame) == IF frame.kind = "for" THEN Indexed(frame.round) ELSE Unset
CallsTo(fs, i) == {j \in 1 .. i : fs[j].kind \in Calls}
Level(fs, i) == Cardinality(CallsTo(fs, i)) + 1

(* What the variable is after frame i, if no assignment has changed it.    *)
Current(fs, i, value) ==
  \E j \in 1 .. i :
    /\ Gives(fs[j]) /\ \A k \in j + 1 .. i : ~Gives(fs[k])
    /\ value \in {Assigned, ValueOf(fs[j])}

(* Each frame by itself, a frame under the next one, the value a loop      *)
(* restores, and the value in each scope.                                  *)
FrameFits(p, frame, i) ==
  /\ frame.kind = "main" <=> i = 1
  /\ frame.pc \in 1 .. Len(p[frame.block]) + 1
  /\ frame.kind = "try" => /\ frame.step.except \in DOMAIN p \cup {NoRow}
                           /\ frame.step.predicate \in Subworkflows \cup {NoRow} /\ frame.step.retries \in Nat
Bears(p, under, frame) ==
  IF frame.kind = "predicate" THEN under.kind = "try" ELSE under.pc <= Len(p[under.block])
Shows(fs, sc, i) == i = Len(fs) \/ Opens(fs[i + 1]) => Current(fs, i, sc[Level(fs, i)])

Stack(p, fs, sc) ==
  /\ fs \in Seq(Frames(p)) /\ Len(fs) > 0 /\ sc \in Seq(Values) /\ Len(sc) = Level(fs, Len(fs))
  /\ \A i \in 1 .. Len(fs) :
       /\ FrameFits(p, fs[i], i) /\ Shows(fs, sc, i)
       /\ fs[i].kind = "for" => Current(fs, i - 1, fs[i].saved)
       /\ i > 1 => Bears(p, fs[i - 1], fs[i])

EngineInv ==
  /\ program \in WorkflowPrograms /\ signal \in Signals /\ calling \in BOOLEAN
  /\ stepOutcome \in {"ACTIVE", "SUCCEEDED", "FAILED"}
  /\ callDepth \in 0 .. CallStackLimit /\ Len(scopes) = callDepth + 1
  /\ stepOutcome = "ACTIVE" => Stack(program, frames, scopes)
  /\ stepOutcome # "ACTIVE" => frames = <<>> /\ callDepth = 0
  /\ calling => /\ stepOutcome = "ACTIVE" /\ signal = "none"
                /\ InnerFrame.pc <= Len(program[InnerFrame.block])

-----------------------------------------------------------------------------
(* The calls below a frame.                                                *)
LEMMA LevelType ==
  ASSUME NEW fs, NEW i \in Nat
  PROVE  IsFiniteSet(CallsTo(fs, i)) /\ Level(fs, i) \in Nat /\ Level(fs, i) > 0
<1>1. IsFiniteSet(1 .. i)
  BY FS_Interval
<1>2. IsFiniteSet(CallsTo(fs, i))
  BY <1>1, FS_Subset DEF CallsTo
<1> QED
  BY <1>2, FS_CardinalityType DEF Level

LEMMA LevelSame ==
  ASSUME NEW fs, NEW gs, NEW i \in Nat, \A j \in 1 .. i : gs[j].kind = fs[j].kind
  PROVE  Level(gs, i) = Level(fs, i)
<1>1. CallsTo(gs, i) = CallsTo(fs, i)
  BY DEF CallsTo
<1> QED
  BY <1>1 DEF Level

LEMMA LevelStep ==
  ASSUME NEW fs, NEW i \in Nat
  PROVE  Level(fs, i + 1) = Level(fs, i) + (IF fs[i + 1].kind \in Calls THEN 1 ELSE 0)
<1>1. IsFiniteSet(CallsTo(fs, i)) /\ Cardinality(CallsTo(fs, i)) \in Nat
  BY LevelType, FS_CardinalityType
<1>2. CASE fs[i + 1].kind \in Calls
  <2>1. CallsTo(fs, i + 1) = CallsTo(fs, i) \cup {i + 1} /\ i + 1 \notin CallsTo(fs, i)
    BY <1>2 DEF CallsTo
  <2>2. Cardinality(CallsTo(fs, i + 1)) = Cardinality(CallsTo(fs, i)) + 1
    BY <1>1, <2>1, FS_AddElement
  <2> QED
    BY <1>1, <1>2, <2>2 DEF Level
<1>3. CASE fs[i + 1].kind \notin Calls
  <2>1. CallsTo(fs, i + 1) = CallsTo(fs, i)
    BY <1>3 DEF CallsTo
  <2> QED
    BY <1>1, <1>3, <2>1 DEF Level
<1> QED
  BY <1>2, <1>3

LEMMA LevelBelow ==
  ASSUME NEW fs, NEW k \in Nat, NEW i \in 0 .. k
  PROVE  Level(fs, i) <= Level(fs, k)
<1>1. CallsTo(fs, i) \subseteq CallsTo(fs, k)
  BY DEF CallsTo
<1>2. IsFiniteSet(CallsTo(fs, k)) /\ IsFiniteSet(CallsTo(fs, i))
  BY LevelType
<1>3. Cardinality(CallsTo(fs, i)) <= Cardinality(CallsTo(fs, k))
  BY <1>1, <1>2, FS_Subset
<1> QED
  BY <1>2, <1>3, FS_CardinalityType DEF Level

(* The value of the variable: the same below the same frames, and one more *)
(* frame changes it only if it gives it one.                               *)
LEMMA CurrentSame ==
  ASSUME NEW fs, NEW gs, NEW i \in Nat, NEW v, Current(fs, i, v),
         \A j \in 1 .. i : gs[j].kind = fs[j].kind /\ (fs[j].kind = "for" => gs[j].round = fs[j].round)
  PROVE  Current(gs, i, v)
BY DEF Current, Gives, ValueOf

LEMMA CurrentStep ==
  ASSUME NEW fs, NEW i \in Nat, NEW v
  PROVE  /\ ~Gives(fs[i + 1]) => (Current(fs, i + 1, v) <=> Current(fs, i, v))
         /\ Gives(fs[i + 1]) => (Current(fs, i + 1, v) <=> v \in {Assigned, ValueOf(fs[i + 1])})
         /\ Current(fs, i, v) => Current(fs, i, Assigned)
<1>1. ASSUME ~Gives(fs[i + 1]), Current(fs, i + 1, v) PROVE Current(fs, i, v)
  BY <1>1 DEF Current
<1>2. ASSUME ~Gives(fs[i + 1]), Current(fs, i, v) PROVE Current(fs, i + 1, v)
  <2>1. PICK j \in 1 .. i : /\ Gives(fs[j]) /\ \A k \in j + 1 .. i : ~Gives(fs[k])
                            /\ v \in {Assigned, ValueOf(fs[j])}
    BY <1>2 DEF Current
  <2>2. j \in 1 .. i + 1 /\ \A k \in j + 1 .. i + 1 : k = i + 1 \/ k \in j + 1 .. i
    OBVIOUS
  <2> QED
    BY <1>2, <2>1, <2>2 DEF Current
<1>3. ASSUME Gives(fs[i + 1]), Current(fs, i + 1, v) PROVE v \in {Assigned, ValueOf(fs[i + 1])}
  <2>1. PICK j \in 1 .. i + 1 : /\ Gives(fs[j]) /\ \A k \in j + 1 .. i + 1 : ~Gives(fs[k])
                                /\ v \in {Assigned, ValueOf(fs[j])}
    BY <1>3 DEF Current
  <2>2. j = i + 1
    BY <1>3, <2>1
  <2> QED
    BY <2>1, <2>2
<1>4. ASSUME Gives(fs[i + 1]), v \in {Assigned, ValueOf(fs[i + 1])} PROVE Current(fs, i + 1, v)
  <2>1. i + 1 \in 1 .. i + 1 /\ \A k \in (i + 1) + 1 .. i + 1 : ~Gives(fs[k])
    OBVIOUS
  <2> QED
    BY <1>4, <2>1 DEF Current
<1>5. Current(fs, i, v) => Current(fs, i, Assigned)
  BY DEF Current
<1> QED
  BY <1>1, <1>2, <1>3, <1>4, <1>5

(* A stack cut off above some frame, and given another top.                *)
Extends(p, fs, sc, k, gs, ss) ==
  /\ k \in 0 .. Len(fs) /\ gs \in Seq(Frames(p)) /\ Len(gs) = k + 1 /\ \A i \in 1 .. k : gs[i] = fs[i]
  /\ FrameFits(p, gs[k + 1], k + 1)
  /\ k > 0 => Bears(p, fs[k], gs[k + 1])
  /\ gs[k + 1].kind = "for" => Current(fs, k, gs[k + 1].saved)
  /\ k < Len(fs) /\ Opens(gs[k + 1]) => Opens(fs[k + 1])
  /\ ss \in Seq(Values) /\ Len(ss) = Level(gs, k + 1) /\ \A l \in 1 .. Len(ss) - 1 : ss[l] = sc[l]
  /\ Current(gs, k + 1, ss[Len(ss)])
LEMMA Rebuilt ==
  ASSUME NEW p, NEW fs, NEW sc, Stack(p, fs, sc), NEW k, NEW gs, NEW ss, Extends(p, fs, sc, k, gs, ss)
  PROVE  Stack(p, gs, ss)
<1>0. k \in 0 .. Len(fs) /\ \A i \in 1 .. k : gs[i] = fs[i]
  BY DEF Extends
<1>1. /\ fs \in Seq(Frames(p)) /\ Len(fs) \in Nat
      /\ \A i \in 1 .. Len(fs) :
           /\ FrameFits(p, fs[i], i) /\ Shows(fs, sc, i)
           /\ fs[i].kind = "for" => Current(fs, i - 1, fs[i].saved)
           /\ i > 1 => Bears(p, fs[i - 1], fs[i])
  BY DEF Stack
<1>2. ASSUME NEW i \in 0 .. k PROVE Level(gs, i) = Level(fs, i)
  <2>1. k \in Nat /\ i \in Nat /\ i <= k
    BY <1>0, <1>1
  <2>2. ASSUME NEW j \in 1 .. i PROVE gs[j].kind = fs[j].kind
    <3>1. j \in 1 .. k
      BY <2>1
    <3>2. gs[j] = fs[j]
      BY <3>1, <1>0
    <3> QED
      BY <3>2
  <2> QED
    BY <2>1, <2>2, LevelSame
<1>3. ASSUME NEW i \in 0 .. k, NEW v, Current(fs, i, v) PROVE Current(gs, i, v)
  <2>1. i \in Nat /\ \A j \in 1 .. i : gs[j] = fs[j]
    BY <1>0, <1>1
  <2> QED
    BY <1>3, <2>1, CurrentSame
<1> USE DEF Extends
<1>4. ASSUME NEW i \in 1 .. k + 1 PROVE FrameFits(p, gs[i], i)
  <2>1. CASE i = k + 1
    BY <2>1
  <2>2. CASE i \in 1 .. k
    BY <1>1, <2>2
  <2> QED
    BY <2>1, <2>2
<1>5. ASSUME NEW i \in 1 .. k + 1, gs[i].kind = "for" PROVE Current(gs, i - 1, gs[i].saved)
  <2>1. CASE i = k + 1
    BY <1>3, <1>5, <2>1
  <2>2. CASE i \in 1 .. k
    BY <1>1, <1>3, <1>5, <2>2
  <2> QED
    BY <2>1, <2>2
<1>6. ASSUME NEW i \in 1 .. k + 1, i > 1 PROVE Bears(p, gs[i - 1], gs[i])
  <2>1. CASE i = k + 1
    BY <1>6, <2>1
  <2>2. CASE i \in 1 .. k
    BY <1>1, <1>6, <2>2
  <2> QED
    BY <2>1, <2>2
<1>7. ASSUME NEW i \in 1 .. k, Opens(gs[i + 1]) PROVE Current(gs, i, ss[Level(gs, i)])
  <2>1. Current(fs, i, sc[Level(fs, i)])
    <3>1. CASE i = k
      BY <1>1, <1>7, <3>1 DEF Shows
    <3>2. CASE i < k
      <4>1. i + 1 \in 1 .. k /\ i \in 1 .. Len(fs)
        BY <3>2
      <4> QED
        BY <1>1, <1>7, <4>1 DEF Shows
    <3> QED
      BY <3>1, <3>2
  <2>2. gs[i + 1].kind \in Calls
    BY <1>4, <1>7 DEF FrameFits, Opens, Calls
  <2>3. Level(gs, i + 1) = Level(gs, i) + 1 /\ Level(gs, i) \in Nat /\ Level(gs, i) > 0
    <3>1. i \in Nat
      OBVIOUS
    <3>2. Level(gs, i + 1) = Level(gs, i) + 1
      BY <2>2, <3>1, LevelStep
    <3> QED
      BY <3>1, <3>2, LevelType
  <2>4. Level(gs, i + 1) <= Level(gs, k + 1) /\ Level(gs, k + 1) \in Nat
    BY LevelBelow, LevelType
  <2>5. ss[Level(gs, i)] = sc[Level(fs, i)]
    <3>1. Level(gs, i) \in 1 .. Len(ss) - 1
      BY <2>3, <2>4
    <3>2. Level(gs, i) = Level(fs, i)
      BY <1>2
    <3> QED
      BY <3>1, <3>2
  <2> QED
    BY <1>3, <2>1, <2>5
<1>8. ASSUME NEW i \in 1 .. k + 1 PROVE Shows(gs, ss, i)
  <2>1. CASE i = k + 1
    BY <2>1 DEF Shows
  <2>2. CASE i \in 1 .. k
    BY <1>7, <2>2 DEF Shows
  <2> QED
    BY <2>1, <2>2
<1> QED
  BY <1>4, <1>5, <1>6, <1>8 DEF Stack

(* What every stack gives of its top.                                      *)
LEMMA TopOf ==
  ASSUME NEW p, NEW fs, NEW sc, Stack(p, fs, sc)
  PROVE  LET n == Len(fs) IN
         /\ n \in Nat /\ n > 0 /\ Len(sc) \in Nat /\ Len(sc) > 0 /\ sc[Len(sc)] \in Values
         /\ fs[n] \in Frames(p) /\ FrameFits(p, fs[n], n) /\ Len(sc) = Level(fs, n)
         /\ Current(fs, n, sc[Len(sc)])
         /\ fs[n].kind # "main" => /\ n > 1 /\ fs[n - 1] \in Frames(p) /\ FrameFits(p, fs[n - 1], n - 1)
                                   /\ Bears(p, fs[n - 1], fs[n])
<1> DEFINE n == Len(fs)
<1>1. /\ fs \in Seq(Frames(p)) /\ n \in Nat /\ n > 0 /\ sc \in Seq(Values) /\ Len(sc) = Level(fs, n)
      /\ FrameFits(p, fs[n], n) /\ Shows(fs, sc, n)
      /\ n > 1 => Bears(p, fs[n - 1], fs[n]) /\ FrameFits(p, fs[n - 1], n - 1)
  BY DEF Stack
<1>2. Len(sc) \in Nat /\ Len(sc) > 0
  BY <1>1, LevelType
<1>3. sc[Len(sc)] \in Values
  BY <1>1, <1>2
<1>4. fs[n].kind # "main" => n > 1
  <2>1. n \in Nat /\ n > 0 /\ FrameFits(p, fs[n], n)
    BY <1>1
  <2>2. fs[n].kind # "main" => n # 1
    BY <2>1, Zenon DEF FrameFits
  <2>3. \A m \in Nat : m > 0 /\ m # 1 => m > 1
    OBVIOUS
  <2> QED
    BY <2>1, <2>2, <2>3, Zenon
<1>5. fs[n] \in Frames(p) /\ (n > 1 => fs[n - 1] \in Frames(p))
  BY <1>1
<1>6. Current(fs, n, sc[Len(sc)])
  BY <1>1 DEF Shows
<1> QED
  BY <1>1, <1>2, <1>3, <1>4, <1>5, <1>6

(* The innermost frame goes on, with the value v in its scope.             *)
LEMMA TopGoesOn ==
  ASSUME NEW p, NEW fs, NEW sc, Stack(p, fs, sc), NEW g \in Frames(p),
         g.kind = fs[Len(fs)].kind, g.saved = fs[Len(fs)].saved, FrameFits(p, g, Len(fs)),
         NEW v \in Values, NEW gs, gs = [fs EXCEPT ![Len(fs)] = g], Current(gs, Len(fs), v),
         NEW ss, ss = [sc EXCEPT ![Len(sc)] = v]
  PROVE  Stack(p, gs, ss)
<1> DEFINE n == Len(fs)
<1>1. fs \in Seq(Frames(p)) /\ sc \in Seq(Values) /\ n \in Nat /\ n > 0 /\ Len(sc) = Level(fs, n)
      /\ Len(sc) \in Nat /\ Len(sc) > 0
  BY TopOf DEF Stack
<1>2. gs \in Seq(Frames(p)) /\ Len(gs) = n /\ gs[n] = g /\ \A i \in 1 .. n - 1 : gs[i] = fs[i]
  BY <1>1
<1>3. ss \in Seq(Values) /\ Len(ss) = Len(sc) /\ ss[Len(ss)] = v /\ \A l \in 1 .. Len(ss) - 1 : ss[l] = sc[l]
  BY <1>1
<1>4. Level(gs, n) = Level(fs, n)
  <2>1. ASSUME NEW j \in 1 .. n PROVE gs[j].kind = fs[j].kind
    <3>1. j = n \/ j \in 1 .. n - 1
      BY <1>1
    <3> QED
      BY <1>2, <3>1
  <2> QED
    BY <1>1, <2>1, LevelSame
<1>5. /\ n > 1 => Bears(p, fs[n - 1], g)
      /\ g.kind = "for" => Current(fs, n - 1, g.saved)
      /\ Opens(g) => Opens(fs[n])
  BY <1>1, SMTT(40) DEF Stack, Bears, Opens
<1> DEFINE k == n - 1
<1>6. k \in 0 .. Len(fs) /\ Len(gs) = k + 1 /\ gs[k + 1] = g /\ FrameFits(p, gs[k + 1], k + 1)
      /\ Current(gs, k + 1, ss[Len(ss)]) /\ Len(ss) = Level(gs, k + 1)
  BY <1>1, <1>2, <1>3, <1>4
<1>7. /\ k > 0 => Bears(p, fs[k], gs[k + 1])
      /\ gs[k + 1].kind = "for" => Current(fs, k, gs[k + 1].saved)
      /\ k < Len(fs) /\ Opens(gs[k + 1]) => Opens(fs[k + 1])
      /\ \A i \in 1 .. k : gs[i] = fs[i]
  BY <1>1, <1>2, <1>5, <1>6
<1> HIDE DEF k
<1>8. Stack(p, gs, ss)
  <2>1. /\ k \in 0 .. Len(fs) /\ gs \in Seq(Frames(p)) /\ Len(gs) = k + 1 /\ \A i \in 1 .. k : gs[i] = fs[i]
    BY <1>2, <1>3, <1>6, <1>7
  <2>2. /\ FrameFits(p, gs[k + 1], k + 1)
        /\ k > 0 => Bears(p, fs[k], gs[k + 1])
        /\ gs[k + 1].kind = "for" => Current(fs, k, gs[k + 1].saved)
        /\ k < Len(fs) /\ Opens(gs[k + 1]) => Opens(fs[k + 1])
    BY <1>2, <1>3, <1>6, <1>7
  <2>3. /\ ss \in Seq(Values) /\ Len(ss) = Level(gs, k + 1) /\ \A l \in 1 .. Len(ss) - 1 : ss[l] = sc[l]
        /\ Current(gs, k + 1, ss[Len(ss)])
    BY <1>2, <1>3, <1>6, <1>7
  <2>4. Extends(p, fs, sc, k, gs, ss)
    BY <2>1, <2>2, <2>3 DEF Extends
  <2> QED
    BY <2>4, Rebuilt
<1> QED
  BY <1>8

(* A frame is opened above, within the scope, with the value v in it.      *)
LEMMA TopOpens ==
  ASSUME NEW p, NEW fs, NEW sc, Stack(p, fs, sc), NEW g \in Frames(p), ~Opens(g),
         FrameFits(p, g, Len(fs) + 1), fs[Len(fs)].pc <= Len(p[fs[Len(fs)].block]),
         g.kind = "for" => Current(fs, Len(fs), g.saved),
         NEW v \in Values, Current(Append(fs, g), Len(fs) + 1, v)
  PROVE  Stack(p, Append(fs, g), [sc EXCEPT ![Len(sc)] = v])
<1> DEFINE n == Len(fs)
           gs == Append(fs, g)
           ss == [sc EXCEPT ![Len(sc)] = v]
<1>1. fs \in Seq(Frames(p)) /\ sc \in Seq(Values) /\ n \in Nat /\ n > 0 /\ Len(sc) = Level(fs, n)
      /\ Len(sc) \in Nat /\ Len(sc) > 0
  BY TopOf DEF Stack
<1>2. gs \in Seq(Frames(p)) /\ Len(gs) = n + 1 /\ gs[n + 1] = g /\ \A i \in 1 .. n : gs[i] = fs[i]
  BY <1>1
<1>3. ss \in Seq(Values) /\ Len(ss) = Len(sc) /\ ss[Len(ss)] = v /\ \A l \in 1 .. Len(ss) - 1 : ss[l] = sc[l]
  BY <1>1
<1>4. Level(gs, n + 1) = Level(fs, n)
  <2>1. \A j \in 1 .. n : gs[j].kind = fs[j].kind
    BY <1>2
  <2>2. Level(gs, n) = Level(fs, n)
    BY <1>1, <2>1, LevelSame
  <2>3. gs[n + 1].kind \notin Calls
    BY <1>2 DEF Opens, Calls
  <2> QED
    <3>1. Level(gs, n + 1) = Level(gs, n)
      <4>1. Level(gs, n) \in Nat
        BY <1>1, LevelType
      <4>2. Level(gs, n + 1) = Level(gs, n) + (IF gs[n + 1].kind \in Calls THEN 1 ELSE 0)
        BY <1>1, LevelStep
      <4> QED
        BY <2>3, <4>1, <4>2
    <3> QED
      BY <2>2, <3>1
<1>5. Bears(p, fs[n], g)
  BY DEF Bears, Opens
<1>6. /\ n \in 0 .. Len(fs) /\ FrameFits(p, gs[n + 1], n + 1) /\ Bears(p, fs[n], gs[n + 1])
      /\ gs[n + 1].kind = "for" => Current(fs, n, gs[n + 1].saved)
      /\ Current(gs, n + 1, ss[Len(ss)]) /\ Len(ss) = Level(gs, n + 1)
  BY <1>1, <1>2, <1>3, <1>4, <1>5
<1> HIDE DEF gs, ss
<1>7. Stack(p, gs, ss)
  <2>1. Extends(p, fs, sc, n, gs, ss)
    BY <1>1, <1>2, <1>3, <1>6 DEF Extends
  <2> QED
    BY <2>1, Rebuilt
<1> QED
  BY <1>7 DEF gs, ss

(* A subworkflow is called.                                                *)
LEMMA TopCalls ==
  ASSUME NEW p, NEW fs, NEW sc, Stack(p, fs, sc), NEW g \in Frames(p), g.kind \in Calls,
         FrameFits(p, g, Len(fs) + 1), Bears(p, fs[Len(fs)], g)
  PROVE  Stack(p, Append(fs, g), Append(sc, Unset))
<1> DEFINE n == Len(fs)
           gs == Append(fs, g)
           ss == Append(sc, Unset)
<1>1. fs \in Seq(Frames(p)) /\ sc \in Seq(Values) /\ n \in Nat /\ n > 0 /\ Len(sc) = Level(fs, n)
      /\ Len(sc) \in Nat /\ Len(sc) > 0 /\ Unset \in Values
  BY TopOf DEF Stack, Unset, Values
<1>2. gs \in Seq(Frames(p)) /\ Len(gs) = n + 1 /\ gs[n + 1] = g /\ \A i \in 1 .. n : gs[i] = fs[i]
  BY <1>1
<1>3. /\ ss \in Seq(Values) /\ Len(ss) = Len(sc) + 1 /\ ss[Len(ss)] = Unset
      /\ \A l \in 1 .. Len(ss) - 1 : ss[l] = sc[l]
  BY <1>1
<1>4. Level(gs, n + 1) = Level(fs, n) + 1
  <2>1. \A j \in 1 .. n : gs[j].kind = fs[j].kind
    BY <1>2
  <2>2. Level(gs, n) = Level(fs, n)
    BY <1>1, <2>1, LevelSame
  <2>3. gs[n + 1].kind \in Calls
    BY <1>2
  <2> QED
    BY <1>1, <2>2, <2>3, LevelStep, LevelType
<1>5. Current(gs, n + 1, Unset)
  <2>1. Gives(gs[n + 1]) /\ ValueOf(gs[n + 1]) = Unset
    BY <1>2 DEF Gives, ValueOf, Calls
  <2> QED
    BY <1>1, <2>1, CurrentStep
<1>6. /\ n \in 0 .. Len(fs) /\ FrameFits(p, gs[n + 1], n + 1) /\ Bears(p, fs[n], gs[n + 1])
      /\ gs[n + 1].kind # "for"
      /\ Current(gs, n + 1, ss[Len(ss)]) /\ Len(ss) = Level(gs, n + 1)
  BY <1>1, <1>2, <1>3, <1>4, <1>5 DEF Calls
<1> HIDE DEF gs, ss
<1>7. Stack(p, gs, ss)
  <2>1. /\ n \in 0 .. Len(fs) /\ gs \in Seq(Frames(p)) /\ Len(gs) = n + 1 /\ \A i \in 1 .. n : gs[i] = fs[i]
    BY <1>2, <1>6
  <2>2. /\ FrameFits(p, gs[n + 1], n + 1)
        /\ n > 0 => Bears(p, fs[n], gs[n + 1])
        /\ gs[n + 1].kind = "for" => Current(fs, n, gs[n + 1].saved)
        /\ n < Len(fs) /\ Opens(gs[n + 1]) => Opens(fs[n + 1])
    BY <1>6
  <2>3. /\ ss \in Seq(Values) /\ Len(ss) = Level(gs, n + 1) /\ \A l \in 1 .. Len(ss) - 1 : ss[l] = sc[l]
        /\ Current(gs, n + 1, ss[Len(ss)])
    BY <1>3, <1>6
  <2>4. Extends(p, fs, sc, n, gs, ss)
    BY <2>1, <2>2, <2>3 DEF Extends
  <2> QED
    BY <2>4, Rebuilt
<1> QED
  BY <1>7 DEF gs, ss

(* The innermost frame is left: within its scope, with what a loop has     *)
(* saved, or together with its scope.                                      *)
LEMMA TopLeaves ==
  ASSUME NEW p, NEW fs, NEW sc, Stack(p, fs, sc), ~Opens(fs[Len(fs)]),
         NEW v, v = IF fs[Len(fs)].kind = "for" THEN fs[Len(fs)].saved ELSE sc[Len(sc)]
  PROVE  Stack(p, Outer(fs), [sc EXCEPT ![Len(sc)] = v])
<1> DEFINE n == Len(fs)
           gs == Outer(fs)
           k == n - 2
           ss == [sc EXCEPT ![Len(sc)] = v]
<1>1. /\ fs \in Seq(Frames(p)) /\ sc \in Seq(Values) /\ n \in Nat /\ n > 1 /\ Len(sc) = Level(fs, n)
      /\ Len(sc) \in Nat /\ Len(sc) > 0 /\ FrameFits(p, fs[n - 1], n - 1) /\ Current(fs, n, sc[Len(sc)])
      /\ sc[Len(sc)] \in Values
  BY TopOf DEF Stack, Opens
<1>2. /\ gs \in Seq(Frames(p)) /\ Len(gs) = n - 1 /\ \A i \in 1 .. n - 1 : gs[i] = fs[i]
  BY <1>1 DEF Outer
<1>3. Level(gs, n - 1) = Level(fs, n)
  <2>1. \A j \in 1 .. n - 1 : gs[j].kind = fs[j].kind
    BY <1>2
  <2>2. Level(gs, n - 1) = Level(fs, n - 1) /\ n - 1 \in Nat /\ (n - 1) + 1 = n
    BY <1>1, <2>1, LevelSame
  <2>3. fs[n].kind \notin Calls
    BY DEF Opens, Calls
  <2>4. Level(fs, (n - 1) + 1) = Level(fs, n - 1)
    <3>1. Level(fs, (n - 1) + 1) = Level(fs, n - 1) + (IF fs[(n - 1) + 1].kind \in Calls THEN 1 ELSE 0)
      BY <2>2, LevelStep
    <3>2. Level(fs, n - 1) \in Nat /\ fs[(n - 1) + 1].kind \notin Calls
      BY <2>2, <2>3, LevelType
    <3> QED
      BY <3>1, <3>2
  <2> QED
    BY <2>2, <2>4
<1>4. Current(gs, n - 1, v) /\ v \in Values
  <2>1. n - 1 \in Nat /\ (n - 1) + 1 = n /\ \A j \in 1 .. n - 1 : gs[j] = fs[j]
    BY <1>1, <1>2
  <2>2. CASE fs[n].kind = "for"
    <3>1. Current(fs, n - 1, fs[n].saved)
      BY <1>1, <2>2 DEF Stack
    <3>2. fs[n].saved \in Values
      <4>1. PICK j \in 1 .. n - 1 : fs[n].saved \in {Assigned, ValueOf(fs[j])}
        BY <3>1, Zenon DEF Current
      <4>2. fs[j] \in Frames(p)
        BY <1>1
      <4>3. fs[j].round \in Nat
        BY <4>2 DEF Frames
      <4> QED
        BY <4>1, <4>3 DEF ValueOf, Assigned, Indexed, Unset, Values
    <3> QED
      BY <2>1, <2>2, <3>1, <3>2, CurrentSame
  <2>3. CASE fs[n].kind # "for"
    <3>1. ~Gives(fs[n])
      BY <2>3 DEF Opens, Gives
    <3>2. Current(fs, (n - 1) + 1, sc[Len(sc)]) /\ ~Gives(fs[(n - 1) + 1]) /\ n - 1 \in Nat
      BY <1>1, <2>1, <3>1
    <3>4. Current(fs, n - 1, sc[Len(sc)])
      BY <3>2, CurrentStep
    <3> QED
      BY <1>1, <2>1, <2>3, <3>4, CurrentSame
  <2> QED
    BY <2>2, <2>3
<1>5. ss \in Seq(Values) /\ Len(ss) = Len(sc) /\ ss[Len(ss)] = v /\ \A l \in 1 .. Len(ss) - 1 : ss[l] = sc[l]
  BY <1>1, <1>4
<1>6. k \in 0 .. Len(fs) /\ Len(gs) = k + 1 /\ gs[k + 1] = fs[k + 1] /\ FrameFits(p, gs[k + 1], k + 1)
      /\ Current(gs, k + 1, ss[Len(ss)]) /\ Len(ss) = Level(gs, k + 1) /\ \A i \in 1 .. k : gs[i] = fs[i]
  BY <1>1, <1>2, <1>3, <1>4, <1>5
<1>7. /\ k > 0 => Bears(p, fs[k], gs[k + 1])
      /\ gs[k + 1].kind = "for" => Current(fs, k, gs[k + 1].saved)
  <2>1. k + 1 \in 1 .. Len(fs) /\ (k + 1) - 1 = k
    BY <1>1
  <2> QED
    BY <1>6, <2>1 DEF Stack
<1> HIDE DEF gs, ss, k
<1>8. Stack(p, gs, ss)
  <2>1. /\ k \in 0 .. Len(fs) /\ gs \in Seq(Frames(p)) /\ Len(gs) = k + 1 /\ \A i \in 1 .. k : gs[i] = fs[i]
    BY <1>2, <1>5, <1>6, <1>7
  <2>2. /\ FrameFits(p, gs[k + 1], k + 1)
        /\ k > 0 => Bears(p, fs[k], gs[k + 1])
        /\ gs[k + 1].kind = "for" => Current(fs, k, gs[k + 1].saved)
        /\ k < Len(fs) /\ Opens(gs[k + 1]) => Opens(fs[k + 1])
    BY <1>2, <1>5, <1>6, <1>7
  <2>3. /\ ss \in Seq(Values) /\ Len(ss) = Level(gs, k + 1) /\ \A l \in 1 .. Len(ss) - 1 : ss[l] = sc[l]
        /\ Current(gs, k + 1, ss[Len(ss)])
    BY <1>2, <1>5, <1>6, <1>7
  <2>4. Extends(p, fs, sc, k, gs, ss)
    BY <2>1, <2>2, <2>3 DEF Extends
  <2> QED
    BY <2>4, Rebuilt
<1> QED
  BY <1>8 DEF gs, ss

LEMMA CallLeaves ==
  ASSUME NEW p, NEW fs, NEW sc, Stack(p, fs, sc), fs[Len(fs)].kind \in Calls
  PROVE  Stack(p, Outer(fs), Outer(sc)) /\ Len(Outer(sc)) = Len(sc) - 1
<1> DEFINE n == Len(fs)
           gs == Outer(fs)
           k == n - 2
           ss == Outer(sc)
<1>1. /\ fs \in Seq(Frames(p)) /\ sc \in Seq(Values) /\ n \in Nat /\ n > 1 /\ Len(sc) = Level(fs, n)
      /\ Len(sc) \in Nat /\ Len(sc) > 0 /\ FrameFits(p, fs[n - 1], n - 1)
  BY TopOf DEF Stack, Calls
<1>2. /\ gs \in Seq(Frames(p)) /\ Len(gs) = n - 1 /\ \A i \in 1 .. n - 1 : gs[i] = fs[i]
  BY <1>1 DEF Outer
<1>3. Level(gs, n - 1) = Level(fs, n - 1) /\ Level(fs, n) = Level(fs, n - 1) + 1
      /\ Level(fs, n - 1) \in Nat /\ Level(fs, n - 1) > 0
  <2>1. \A j \in 1 .. n - 1 : gs[j].kind = fs[j].kind
    BY <1>2
  <2>2. Level(gs, n - 1) = Level(fs, n - 1) /\ n - 1 \in Nat /\ (n - 1) + 1 = n
    BY <1>1, <2>1, LevelSame
  <2>3. Level(fs, (n - 1) + 1) = Level(fs, n - 1) + 1
    BY <2>2, LevelStep
  <2> QED
    BY <2>2, <2>3, LevelType
<1>4. /\ ss \in Seq(Values) /\ Len(ss) = Len(sc) - 1 /\ Len(ss) > 0
      /\ \A l \in 1 .. Len(ss) : ss[l] = sc[l]
  BY <1>1, <1>3 DEF Outer
<1>5. Current(gs, n - 1, ss[Len(ss)])
  <2>1. Current(fs, n - 1, sc[Level(fs, n - 1)])
    <3>1. n - 1 \in 1 .. Len(fs) /\ (n - 1) + 1 = n /\ Opens(fs[n])
      BY <1>1 DEF Opens, Calls
    <3> QED
      BY <3>1 DEF Stack, Shows
  <2>2. n - 1 \in Nat /\ \A j \in 1 .. n - 1 : gs[j] = fs[j]
    BY <1>1, <1>2
  <2>3. ss[Len(ss)] = sc[Level(fs, n - 1)]
    BY <1>1, <1>3, <1>4
  <2> QED
    BY <2>1, <2>2, <2>3, CurrentSame
<1>6. k \in 0 .. Len(fs) /\ Len(gs) = k + 1 /\ gs[k + 1] = fs[k + 1] /\ FrameFits(p, gs[k + 1], k + 1)
      /\ Current(gs, k + 1, ss[Len(ss)]) /\ Len(ss) = Level(gs, k + 1)
      /\ (\A i \in 1 .. k : gs[i] = fs[i]) /\ \A l \in 1 .. Len(ss) - 1 : ss[l] = sc[l]
  BY <1>1, <1>2, <1>3, <1>4, <1>5
<1>7. /\ k > 0 => Bears(p, fs[k], gs[k + 1])
      /\ gs[k + 1].kind = "for" => Current(fs, k, gs[k + 1].saved)
  <2>1. k + 1 \in 1 .. Len(fs) /\ (k + 1) - 1 = k
    BY <1>1
  <2> QED
    BY <1>6, <2>1 DEF Stack
<1> HIDE DEF gs, ss, k
<1>8. Stack(p, gs, ss)
  <2>1. /\ k \in 0 .. Len(fs) /\ gs \in Seq(Frames(p)) /\ Len(gs) = k + 1 /\ \A i \in 1 .. k : gs[i] = fs[i]
    BY <1>2, <1>4, <1>6, <1>7
  <2>2. /\ FrameFits(p, gs[k + 1], k + 1)
        /\ k > 0 => Bears(p, fs[k], gs[k + 1])
        /\ gs[k + 1].kind = "for" => Current(fs, k, gs[k + 1].saved)
        /\ k < Len(fs) /\ Opens(gs[k + 1]) => Opens(fs[k + 1])
    BY <1>2, <1>4, <1>6, <1>7
  <2>3. /\ ss \in Seq(Values) /\ Len(ss) = Level(gs, k + 1) /\ \A l \in 1 .. Len(ss) - 1 : ss[l] = sc[l]
        /\ Current(gs, k + 1, ss[Len(ss)])
    BY <1>2, <1>4, <1>6, <1>7
  <2>4. Extends(p, fs, sc, k, gs, ss)
    BY <2>1, <2>2, <2>3 DEF Extends
  <2> QED
    BY <2>4, Rebuilt
<1> QED
  BY <1>4, <1>8 DEF gs, ss

-----------------------------------------------------------------------------
(* The same, for what the engine does to its stack.                        *)
LEMMA PcMoves ==
  ASSUME NEW p, IsProgram(p), NEW frame \in Frames(p), NEW i, FrameFits(p, frame, i),
         NEW m \in 1 .. Len(p[frame.block]) + 1, NEW r \in Nat
  PROVE  LET g == [frame EXCEPT !.pc = m, !.round = r] IN
         /\ g \in Frames(p) /\ g.kind = frame.kind /\ g.saved = frame.saved /\ g.round = r
         /\ FrameFits(p, g, i)
<1> DEFINE g == [frame EXCEPT !.pc = m, !.round = r]
<1>1. Len(p[frame.block]) \in Nat
  BY DEF IsProgram, Frames
<1>2. m \in Nat
  BY <1>1
<1>3. g \in Frames(p)
  BY <1>2 DEF Frames
<1>4. g.kind = frame.kind /\ g.saved = frame.saved /\ g.round = r /\ g.pc = m /\ g.block = frame.block
      /\ g.step = frame.step
  BY DEF Frames
<1>5. FrameFits(p, g, i)
  BY <1>4 DEF FrameFits
<1> QED
  BY <1>3, <1>4, <1>5

LEMMA RoundKept ==
  ASSUME NEW p, NEW frame \in Frames(p), NEW m
  PROVE  [frame EXCEPT !.pc = m] = [frame EXCEPT !.pc = m, !.round = frame.round]
BY DEF Frames

LEMMA ValueKept ==
  ASSUME NEW p, NEW fs, NEW sc, Stack(p, fs, sc)
  PROVE  sc = [sc EXCEPT ![Len(sc)] = sc[Len(sc)]]
BY TopOf DEF Stack

(* Only the step and the count of rounds change, or the variable is set.   *)
LEMMA TopKeeps ==
  ASSUME NEW p, NEW fs, NEW sc, Stack(p, fs, sc), NEW g \in Frames(p), g.kind = fs[Len(fs)].kind,
         g.saved = fs[Len(fs)].saved, g.kind = "for" => g.round = fs[Len(fs)].round,
         FrameFits(p, g, Len(fs)), NEW gs, gs = [fs EXCEPT ![Len(fs)] = g]
  PROVE  /\ Stack(p, gs, sc)
         /\ Stack(p, gs, [sc EXCEPT ![Len(sc)] = Assigned])
<1>1. Len(fs) \in Nat /\ Len(fs) > 0 /\ fs \in Seq(Frames(p))
  BY TopOf DEF Stack
<1>3. Len(gs) = Len(fs) /\ gs[Len(fs)] = g /\ \A j \in 1 .. Len(fs) : j # Len(fs) => gs[j] = fs[j]
  BY <1>1
<1>4. ASSUME NEW v, Current(fs, Len(fs), v) PROVE Current(gs, Len(fs), v)
  <2>1. \A j \in 1 .. Len(fs) : gs[j].kind = fs[j].kind /\ (fs[j].kind = "for" => gs[j].round = fs[j].round)
    BY <1>3
  <2> QED
    BY <1>1, <1>4, <2>1, CurrentSame
<1>5. Current(fs, Len(fs), sc[Len(sc)]) /\ sc[Len(sc)] \in Values
  BY TopOf
<1>6. Current(fs, Len(fs), Assigned) /\ Assigned \in Values
  BY <1>1, <1>5, CurrentStep DEF Assigned, Values
<1>7. ASSUME NEW v \in Values, Current(fs, Len(fs), v) PROVE Stack(p, gs, [sc EXCEPT ![Len(sc)] = v])
  BY <1>4, <1>7, TopGoesOn
<1>8. Stack(p, gs, [sc EXCEPT ![Len(sc)] = sc[Len(sc)]]) /\ Stack(p, gs, [sc EXCEPT ![Len(sc)] = Assigned])
  BY <1>5, <1>6, <1>7
<1> QED
  BY <1>8, ValueKept

LEMMA TopMoves ==
  ASSUME NEW p, IsProgram(p), NEW fs, NEW sc, Stack(p, fs, sc), NEW m \in 1 .. Len(p[fs[Len(fs)].block]) + 1,
         NEW r \in Nat, fs[Len(fs)].kind = "for" => r = fs[Len(fs)].round,
         NEW gs, gs = [fs EXCEPT ![Len(fs)] = [fs[Len(fs)] EXCEPT !.pc = m, !.round = r]]
  PROVE  /\ Stack(p, gs, sc)
         /\ Stack(p, gs, [sc EXCEPT ![Len(sc)] = Assigned])
<1> DEFINE frame == fs[Len(fs)]
           g == [frame EXCEPT !.pc = m, !.round = r]
<1>1. frame \in Frames(p) /\ FrameFits(p, frame, Len(fs))
  BY TopOf
<1>2. g \in Frames(p) /\ g.kind = frame.kind /\ g.saved = frame.saved /\ g.round = r /\ FrameFits(p, g, Len(fs))
  BY <1>1, PcMoves
<1>3. gs = [fs EXCEPT ![Len(fs)] = g]
  OBVIOUS
<1> HIDE DEF g
<1> QED
  BY <1>2, <1>3, TopKeeps, ZenonT(60)

(* The loop takes the next value of its list.                              *)
LEMMA LoopKeeps ==
  ASSUME NEW p, NEW fs, NEW sc, Stack(p, fs, sc), NEW g \in Frames(p), g.kind = "for",
         g.kind = fs[Len(fs)].kind, g.saved = fs[Len(fs)].saved,
         FrameFits(p, g, Len(fs)), NEW gs, gs = [fs EXCEPT ![Len(fs)] = g]
  PROVE  Stack(p, gs, [sc EXCEPT ![Len(sc)] = Indexed(g.round)])
<1>1. Len(fs) \in Nat /\ Len(fs) > 0 /\ fs \in Seq(Frames(p)) /\ g.round \in Nat
  BY TopOf DEF Stack, Frames
<1>3. gs[Len(fs)] = g
  BY <1>1
<1>4. Current(gs, Len(fs), Indexed(g.round)) /\ Indexed(g.round) \in Values
  <2>1. Gives(gs[Len(fs)]) /\ ValueOf(gs[Len(fs)]) = Indexed(g.round)
    BY <1>3 DEF Gives, ValueOf
  <2>4. Len(fs) - 1 \in Nat /\ (Len(fs) - 1) + 1 = Len(fs)
    BY <1>1
  <2>2. PICK n \in Nat : n + 1 = Len(fs)
    BY <2>4, Zenon
  <2>3. Current(gs, n + 1, Indexed(g.round))
    BY <2>1, <2>2, CurrentStep
  <2> QED
    BY <1>1, <2>2, <2>3 DEF Indexed, Values
<1> QED
  BY <1>4, TopGoesOn

LEMMA LoopMoves ==
  ASSUME NEW p, IsProgram(p), NEW fs, NEW sc, Stack(p, fs, sc), NEW r \in Nat, fs[Len(fs)].kind = "for",
         NEW gs, gs = [fs EXCEPT ![Len(fs)] = [fs[Len(fs)] EXCEPT !.pc = 1, !.round = r]]
  PROVE  Stack(p, gs, [sc EXCEPT ![Len(sc)] = Indexed(r)])
<1> DEFINE frame == fs[Len(fs)]
           g == [frame EXCEPT !.pc = 1, !.round = r]
<1>1. frame \in Frames(p) /\ FrameFits(p, frame, Len(fs))
  BY TopOf
<1>2. g \in Frames(p) /\ g.kind = frame.kind /\ g.saved = frame.saved /\ g.round = r /\ FrameFits(p, g, Len(fs))
  <2>1. Len(p[frame.block]) \in Nat
    BY <1>1 DEF IsProgram, Frames
  <2>2. 1 \in 1 .. Len(p[frame.block]) + 1
    BY <2>1
  <2> QED
    BY <1>1, <2>2, PcMoves
<1>3. gs = [fs EXCEPT ![Len(fs)] = g]
  OBVIOUS
<1> HIDE DEF g
<1> QED
  BY <1>2, <1>3, LoopKeeps

Plain == {"case", "try", "steps", "except"}

LEMMA PlainOpens ==
  ASSUME NEW p, NEW fs, NEW sc, Stack(p, fs, sc), NEW g \in Frames(p), g.kind \in Plain,
         FrameFits(p, g, Len(fs) + 1), fs[Len(fs)].pc <= Len(p[fs[Len(fs)].block])
  PROVE  Stack(p, Append(fs, g), sc)
<1> DEFINE n == Len(fs)
           gs == Append(fs, g)
<1>1. /\ n \in Nat /\ n > 0 /\ fs \in Seq(Frames(p)) /\ sc[Len(sc)] \in Values
      /\ Current(fs, n, sc[Len(sc)])
  BY TopOf DEF Stack
<1>2. gs[n + 1] = g /\ \A j \in 1 .. n : gs[j] = fs[j]
  BY <1>1
<1>3. ~Opens(g) /\ ~Gives(g) /\ g.kind # "for"
  BY DEF Plain, Opens, Gives
<1>4. Current(gs, n, sc[Len(sc)])
  BY <1>1, <1>2, CurrentSame
<1>5. Current(gs, n + 1, sc[Len(sc)])
  BY <1>1, <1>2, <1>3, <1>4, CurrentStep, ZenonT(60)
<1>6. Stack(p, Append(fs, g), [sc EXCEPT ![Len(sc)] = sc[Len(sc)]])
  BY <1>1, <1>3, <1>5, TopOpens
<1> QED
  BY <1>6, ValueKept

LEMMA LoopOpens ==
  ASSUME NEW p, NEW fs, NEW sc, Stack(p, fs, sc), NEW g \in Frames(p), g.kind = "for", g.saved = sc[Len(sc)],
         FrameFits(p, g, Len(fs) + 1), fs[Len(fs)].pc <= Len(p[fs[Len(fs)].block])
  PROVE  Stack(p, Append(fs, g), [sc EXCEPT ![Len(sc)] = Indexed(g.round)])
<1> DEFINE n == Len(fs)
           gs == Append(fs, g)
<1>1. /\ n \in Nat /\ n > 0 /\ fs \in Seq(Frames(p)) /\ Current(fs, n, g.saved)
  BY TopOf DEF Stack
<1>2. gs[n + 1] = g
  BY <1>1
<1>3. ~Opens(g) /\ Gives(g) /\ ValueOf(g) = Indexed(g.round) /\ Indexed(g.round) \in Values
  BY DEF Opens, Gives, ValueOf, Indexed, Values, Frames
<1>4. Current(gs, n + 1, Indexed(g.round))
  <2>1. Gives(gs[n + 1]) /\ ValueOf(gs[n + 1]) = Indexed(g.round) /\ n \in Nat
    BY <1>1, <1>2, <1>3
  <2> HIDE DEF gs, n
  <2> QED
    BY <2>1, CurrentStep
<1> QED
  BY <1>1, <1>3, <1>4, TopOpens

LEMMA PlainLeaves ==
  ASSUME NEW p, NEW fs, NEW sc, Stack(p, fs, sc), fs[Len(fs)].kind \in Plain
  PROVE  Stack(p, Outer(fs), sc)
<1>1. ~Opens(fs[Len(fs)]) /\ fs[Len(fs)].kind # "for"
  BY DEF Plain, Opens
<1>2. Stack(p, Outer(fs), [sc EXCEPT ![Len(sc)] = sc[Len(sc)]])
  BY <1>1, TopLeaves
<1> QED
  BY <1>2, ValueKept

(* The frame below is the top of what is left.                             *)
LEMMA OuterTop ==
  ASSUME NEW p, NEW fs, NEW sc, Stack(p, fs, sc), fs[Len(fs)].kind # "main"
  PROVE  /\ Len(Outer(fs)) = Len(fs) - 1 /\ Len(fs) - 1 \in Nat /\ Len(fs) - 1 > 0
         /\ Outer(fs)[Len(Outer(fs))] = fs[Len(fs) - 1]
         /\ fs[Len(fs)].kind # "predicate" => fs[Len(fs) - 1].pc <= Len(p[fs[Len(fs) - 1].block])
         /\ fs[Len(fs)].kind = "predicate" => fs[Len(fs) - 1].kind = "try"
<1>1. fs \in Seq(Frames(p)) /\ Len(fs) \in Nat /\ Len(fs) > 1 /\ Bears(p, fs[Len(fs) - 1], fs[Len(fs)])
  BY TopOf DEF Stack
<1>2. Len(Outer(fs)) = Len(fs) - 1 /\ Outer(fs)[Len(Outer(fs))] = fs[Len(fs) - 1]
  BY <1>1 DEF Outer
<1> QED
  BY <1>1, <1>2 DEF Bears

LEMMA MainIsAlone ==
  ASSUME NEW p, NEW fs, NEW sc, Stack(p, fs, sc), fs[Len(fs)].kind = "main"
  PROVE  Len(sc) = 1
<1>1. Len(fs) = 1
  BY TopOf, Zenon DEF FrameFits
<1>2. CallsTo(fs, 1) = {}
  <2>1. fs[1].kind \notin Calls
    BY <1>1 DEF Calls
  <2> QED
    BY <2>1 DEF CallsTo
<1>3. Level(fs, 1) = 1
  <2>1. Cardinality({}) = 0
    BY FS_EmptySet
  <2>2. Cardinality(CallsTo(fs, 1)) = 0
    BY <1>2, <2>1, Zenon
  <2> QED
    BY <2>2 DEF Level
<1>4. Len(sc) = Level(fs, Len(fs))
  BY DEF Stack
<1> QED
  BY <1>1, <1>3, <1>4

-----------------------------------------------------------------------------
(* The steps of the engine, on its own stack.                              *)
Lasts == stepOutcome = "ACTIVE" /\ program' = program /\ stepOutcome' = stepOutcome
Stays ==
  /\ Stack(program, frames', scopes') /\ callDepth' \in 0 .. CallStackLimit
  /\ Len(scopes') = callDepth' + 1 /\ signal' \in Signals

LEMMA StaysActive ==
  ASSUME EngineInv, Lasts, Stays, calling' = FALSE
  PROVE  EngineInv'
<1>1. program' = program /\ stepOutcome' = "ACTIVE" /\ program \in WorkflowPrograms
  BY DEF Lasts, EngineInv
<1>2. Stack(program', frames', scopes')
  BY <1>1 DEF Stays
<1> QED
  BY <1>1, <1>2 DEF EngineInv, Stays

LEMMA Active ==
  ASSUME EngineInv, stepOutcome = "ACTIVE"
  PROVE  /\ Stack(program, frames, scopes) /\ IsProgram(program) /\ NoRow \notin DOMAIN program
         /\ InnerFrame \in Frames(program) /\ FrameFits(program, InnerFrame, Len(frames))
         /\ InnerFrame = frames[Len(frames)] /\ Len(frames) \in Nat /\ Len(frames) > 0
         /\ callDepth \in 0 .. CallStackLimit /\ Len(scopes) = callDepth + 1 /\ CallStackLimit \in Nat
         /\ Variable = scopes[Len(scopes)] /\ Variable \in Values
<1>1. Stack(program, frames, scopes) /\ IsProgram(program) /\ NoRow \notin DOMAIN program
  BY EngineAssumption DEF EngineInv
<1>2. InnerFrame = frames[Len(frames)] /\ Variable = scopes[Len(scopes)]
  BY DEF InnerFrame, Variable
<1>3. callDepth \in 0 .. CallStackLimit /\ Len(scopes) = callDepth + 1 /\ CallStackLimit \in Nat
  BY EngineAssumption DEF EngineInv
<1> QED
  BY <1>1, <1>2, <1>3, TopOf

(* The step whose turn it is, and the frame it opens.                      *)
LEMMA StepIsThere ==
  ASSUME EngineInv, stepOutcome = "ACTIVE", InnerFrame.pc <= Len(program[InnerFrame.block])
  PROVE  /\ InnerFrame.pc \in 1 .. Len(program[InnerFrame.block])
         /\ ThisStep \in StepsIn(program) /\ StepFits(program, ThisStep)
<1>1. /\ IsProgram(program) /\ InnerFrame \in Frames(program)
      /\ FrameFits(program, InnerFrame, Len(frames))
  BY Active
<1>2. InnerFrame.block \in DOMAIN program /\ InnerFrame.pc \in 1 .. Len(program[InnerFrame.block]) + 1
  BY <1>1 DEF Frames, FrameFits
<1>3. /\ Len(program[InnerFrame.block]) \in Nat
      /\ DOMAIN program[InnerFrame.block] = 1 .. Len(program[InnerFrame.block])
      /\ \A i \in DOMAIN program[InnerFrame.block] : StepFits(program, program[InnerFrame.block][i])
  BY <1>1, <1>2 DEF IsProgram
<1>4. InnerFrame.pc \in 1 .. Len(program[InnerFrame.block])
  BY <1>2, <1>3
<1>5. ThisStep = program[InnerFrame.block][InnerFrame.pc]
  BY DEF ThisStep
<1>6. ThisStep \in StepsIn(program)
  BY <1>2, <1>3, <1>4, <1>5 DEF StepsIn
<1> QED
  BY <1>3, <1>4, <1>5, <1>6

LEMMA NewFrame ==
  ASSUME NEW p, IsProgram(p), NEW kind \in FrameKinds \ {"main"}, NEW block \in DOMAIN p,
         NEW step \in {NoStep} \cup StepsIn(p) \cup CasesIn(p),
         NEW saved \in {NoRow} \cup Values, NEW n \in Nat, n > 0,
         kind = "try" => /\ step.except \in DOMAIN p \cup {NoRow}
                         /\ step.predicate \in Subworkflows \cup {NoRow} /\ step.retries \in Nat
  PROVE  LET g == Frame(kind, block, step, saved) IN
         /\ g \in Frames(p) /\ g.kind = kind /\ g.saved = saved /\ g.round = 1
         /\ FrameFits(p, g, n + 1)
<1> DEFINE g == Frame(kind, block, step, saved)
<1>1. g = [kind |-> kind, block |-> block, pc |-> 1, step |-> step, round |-> 1, saved |-> saved]
  BY DEF Frame
<1>2. g \in Frames(p)
  BY <1>1 DEF Frames
<1>3. g.kind = kind /\ g.saved = saved /\ g.round = 1 /\ g.pc = 1 /\ g.block = block /\ g.step = step
  BY <1>1
<1>4. Len(p[block]) \in Nat
  BY DEF IsProgram
<1> HIDE DEF g
<1>5. FrameFits(p, g, n + 1)
  BY <1>3, <1>4 DEF FrameFits
<1> QED
  BY <1>2, <1>3, <1>5 DEF g

(* executeStep() is done with its step.                                    *)
LEMMA StepIsDone ==
  ASSUME NEW p, IsProgram(p), NEW fs, NEW sc, Stack(p, fs, sc),
         fs[Len(fs)].pc <= Len(p[fs[Len(fs)].block]), NEW step, StepDone(fs, step)
  PROVE  /\ Stack(p, frames', sc) /\ Stack(p, frames', [sc EXCEPT ![Len(sc)] = Assigned])
         /\ signal' \in Signals
<1> DEFINE frame == fs[Len(fs)]
<1>1. frame \in Frames(p) /\ FrameFits(p, frame, Len(fs))
  BY TopOf
<1>2. frame.round \in Nat /\ frame.pc + 1 \in 1 .. Len(p[frame.block]) + 1
  <2>1. Len(p[frame.block]) \in Nat
    BY <1>1 DEF IsProgram, Frames
  <2>2. frame.pc \in Nat /\ frame.round \in Nat
    BY <1>1 DEF Frames
  <2> QED
    BY <2>1, <2>2
<1>3. frames' = [fs EXCEPT ![Len(fs)] = [frame EXCEPT !.pc = frame.pc + 1]]
  BY DEF StepDone
<1>4. frames' = [fs EXCEPT ![Len(fs)] = [frame EXCEPT !.pc = frame.pc + 1, !.round = frame.round]]
  BY <1>1, <1>3, RoundKept
<1>5. signal' \in Signals
  BY DEF StepDone, Signals
<1> DEFINE m == frame.pc + 1
           r == frame.round
<1>6. m \in 1 .. Len(p[fs[Len(fs)].block]) + 1 /\ r \in Nat
      /\ (fs[Len(fs)].kind = "for" => r = fs[Len(fs)].round)
      /\ frames' = [fs EXCEPT ![Len(fs)] = [fs[Len(fs)] EXCEPT !.pc = m, !.round = r]]
  BY <1>2, <1>4
<1> HIDE DEF m, r
<1>7. Stack(p, frames', sc) /\ Stack(p, frames', [sc EXCEPT ![Len(sc)] = Assigned])
  BY <1>6, TopMoves
<1> QED
  BY <1>5, <1>7

(* A frame is left, with what its finally does.                            *)
LEMMA Unwinds ==
  ASSUME EngineInv, stepOutcome = "ACTIVE", InnerFrame.kind # "main", Unwind
  PROVE  /\ Stack(program, Outer(frames), scopes')
         /\ callDepth' \in 0 .. CallStackLimit /\ Len(scopes') = callDepth' + 1
         /\ Len(Outer(frames)) = Len(frames) - 1
         /\ Outer(frames)[Len(Outer(frames))] = CallerFrame
         /\ InnerFrame.kind # "predicate" => CallerFrame.pc <= Len(program[CallerFrame.block])
         /\ InnerFrame.kind = "predicate" => CallerFrame.kind = "try"
<1>1. /\ Stack(program, frames, scopes) /\ InnerFrame \in Frames(program) /\ InnerFrame = frames[Len(frames)]
      /\ callDepth \in 0 .. CallStackLimit /\ Len(scopes) = callDepth + 1 /\ CallStackLimit \in Nat
      /\ Len(frames) \in Nat
  BY Active
<1>2. /\ Len(Outer(frames)) = Len(frames) - 1
      /\ Outer(frames)[Len(Outer(frames))] = CallerFrame
      /\ InnerFrame.kind # "predicate" => CallerFrame.pc <= Len(program[CallerFrame.block])
      /\ InnerFrame.kind = "predicate" => CallerFrame.kind = "try"
  BY <1>1, OuterTop DEF CallerFrame
<1>3. /\ Stack(program, Outer(frames), scopes')
      /\ callDepth' \in 0 .. CallStackLimit /\ Len(scopes') = callDepth' + 1
  <2>1. CASE InnerFrame.kind = "for"
    <3>1. scopes' = [scopes EXCEPT ![Len(scopes)] = InnerFrame.saved] /\ callDepth' = callDepth
      BY <2>1 DEF Unwind, SetVariable
    <3>2. ~Opens(frames[Len(frames)])
      BY <1>1, <2>1 DEF Opens
    <3>3. Stack(program, Outer(frames), scopes')
      BY <1>1, <2>1, <3>1, <3>2, TopLeaves
    <3>4. Len(scopes') = Len(scopes)
      BY <1>1, <3>1 DEF Stack
    <3> QED
      BY <1>1, <3>1, <3>3, <3>4
  <2>2. CASE InnerFrame.kind \in Calls
    <3>1. scopes' = Outer(scopes) /\ callDepth' = callDepth - 1
      BY <2>2 DEF Unwind, Calls
    <3>2. Stack(program, Outer(frames), scopes') /\ Len(scopes') = Len(scopes) - 1
      BY <1>1, <2>2, <3>1, CallLeaves
    <3>3. Len(scopes') \in Nat /\ Len(scopes') > 0
      BY <3>2, TopOf
    <3> QED
      BY <1>1, <3>1, <3>2, <3>3
  <2>3. CASE InnerFrame.kind \in Plain
    <3>1. scopes' = scopes /\ callDepth' = callDepth
      BY <2>3 DEF Unwind, Plain, ScopesKept
    <3>2. Stack(program, Outer(frames), scopes)
      BY <1>1, <2>3, PlainLeaves
    <3> QED
      BY <1>1, <3>1, <3>2
  <2>4. InnerFrame.kind \in FrameKinds
    BY <1>1 DEF Frames
  <2> QED
    BY <2>1, <2>2, <2>3, <2>4 DEF FrameKinds, Calls, Plain
<1> QED
  BY <1>2, <1>3

LEMMA WhileRunning ==
  ASSUME EngineInv, Runs
  PROVE  /\ stepOutcome = "ACTIVE" /\ calling = FALSE /\ signal = "none"
         /\ InnerFrame.pc <= Len(program[InnerFrame.block])
         /\ frames[Len(frames)].pc <= Len(program[frames[Len(frames)].block])
<1>1. stepOutcome = "ACTIVE" /\ signal = "none" /\ InnerFrame.pc <= Len(program[InnerFrame.block])
  BY DEF Runs
<1>2. calling = FALSE
  BY Zenon DEF Runs, EngineInv
<1>3. InnerFrame = frames[Len(frames)]
  BY DEF InnerFrame
<1> QED
  BY <1>1, <1>2, <1>3

(* Steps that leave the stack as it is, or are done at once.               *)
LEMMA SameStack ==
  ASSUME EngineInv, stepOutcome = "ACTIVE", UNCHANGED <<program, stepOutcome, frames, scopes, callDepth>>,
         signal' \in Signals, calling' = FALSE
  PROVE  EngineInv'
<1>1. /\ Stack(program, frames, scopes) /\ callDepth \in 0 .. CallStackLimit
      /\ Len(scopes) = callDepth + 1
  BY Active
<1>2. Lasts /\ Stays
  BY <1>1 DEF Lasts, Stays
<1> QED
  BY <1>2, StaysActive

LEMMA StepEnds ==
  ASSUME EngineInv, stepOutcome = "ACTIVE", InnerFrame.pc <= Len(program[InnerFrame.block]),
         NEW step, StepDone(frames, step), UNCHANGED <<program, stepOutcome, callDepth>>,
         scopes' = scopes \/ SetVariable(Assigned), calling' = FALSE
  PROVE  EngineInv'
<1>1. /\ Stack(program, frames, scopes) /\ IsProgram(program) /\ InnerFrame = frames[Len(frames)]
      /\ callDepth \in 0 .. CallStackLimit /\ Len(scopes) = callDepth + 1
  BY Active
<1>2. /\ Stack(program, frames', scopes) /\ Stack(program, frames', [scopes EXCEPT ![Len(scopes)] = Assigned])
      /\ signal' \in Signals
  BY <1>1, StepIsDone
<1>3. Stack(program, frames', scopes') /\ Len(scopes') = Len(scopes)
  <2>1. Len([scopes EXCEPT ![Len(scopes)] = Assigned]) = Len(scopes)
    BY <1>1 DEF Stack
  <2> QED
    BY <1>2, <2>1 DEF SetVariable
<1>4. Lasts /\ Stays
  BY <1>1, <1>2, <1>3 DEF Lasts, Stays
<1> QED
  BY <1>4, StaysActive

LEMMA AssignKeeps ==
  ASSUME EngineInv, ExecuteAssign
  PROVE  EngineInv'
<1>1. Runs /\ SetVariable(Assigned) /\ StepDone(frames, ThisStep) /\ UNCHANGED <<program, stepOutcome, callDepth, calling>>
  BY DEF ExecuteAssign, Rest
<1>2. calling' = FALSE
  BY <1>1, WhileRunning, Zenon
<1> QED
  BY <1>1, <1>2, WhileRunning, StepEnds

LEMMA NextKeeps ==
  ASSUME EngineInv, ExecuteNext
  PROVE  EngineInv'
<1>1. Runs /\ StepDone(frames, ThisStep) /\ UNCHANGED <<program, stepOutcome, callDepth, scopes, calling>>
  BY DEF ExecuteNext, Rest, ScopesKept
<1>2. calling' = FALSE
  BY <1>1, WhileRunning, Zenon
<1> QED
  BY <1>1, <1>2, WhileRunning, StepEnds

LEMMA SignalKeeps ==
  ASSUME EngineInv, ExpressionThrows \/ ExecuteReturn
  PROVE  EngineInv'
<1>1. /\ Runs /\ signal' \in {"throw", "return"}
      /\ UNCHANGED <<program, stepOutcome, frames, scopes, callDepth, calling>>
  BY DEF ExpressionThrows, ExecuteReturn, Rest, ScopesKept
<1>2. calling' = FALSE
  BY <1>1, WhileRunning, Zenon
<1> QED
  BY <1>1, <1>2, WhileRunning, SameStack DEF Signals

(* A call, of a subworkflow or of the predicate of a try.                  *)
LEMMA EnterStays ==
  ASSUME EngineInv, stepOutcome = "ACTIVE", NEW kind \in Calls, NEW name \in Subworkflows, Enter(kind, name),
         kind = "sub" => InnerFrame.pc <= Len(program[InnerFrame.block]),
         kind = "predicate" => InnerFrame.kind = "try"
  PROVE  Stays
<1>1. /\ Stack(program, frames, scopes) /\ IsProgram(program) /\ InnerFrame = frames[Len(frames)]
      /\ callDepth \in 0 .. CallStackLimit /\ Len(scopes) = callDepth + 1 /\ CallStackLimit \in Nat
      /\ Len(frames) \in Nat /\ Len(frames) > 0
  BY Active
<1>2. CASE callDepth < CallStackLimit
  <2> DEFINE g == Frame(kind, name, NoStep, NoRow)
  <2>1. /\ callDepth' = callDepth + 1 /\ scopes' = Append(scopes, Unset) /\ signal' = "none"
        /\ frames' = Append(frames, g)
    BY <1>2 DEF Enter, Push
  <2>2. g \in Frames(program) /\ g.kind = kind /\ FrameFits(program, g, Len(frames) + 1)
    <3>1. kind \in FrameKinds \ {"main"} /\ kind # "try" /\ name \in DOMAIN program
      BY <1>1 DEF Calls, FrameKinds, IsProgram
    <3> QED
      BY <1>1, <3>1, NewFrame
  <2> HIDE DEF g
  <2>3. Bears(program, frames[Len(frames)], g)
    BY <1>1, <2>2 DEF Bears, Calls
  <2>4. Stack(program, frames', scopes')
    BY <1>1, <2>1, <2>2, <2>3, TopCalls
  <2>5. Len(scopes') = callDepth' + 1
    BY <1>1, <2>1 DEF Stack
  <2> QED
    BY <1>1, <1>2, <2>1, <2>4, <2>5 DEF Stays, Signals
<1>3. CASE ~(callDepth < CallStackLimit)
  <2>1. signal' = "throw" /\ UNCHANGED <<frames, scopes, callDepth>>
    BY <1>3 DEF Enter, ScopesKept
  <2> QED
    BY <1>1, <2>1 DEF Stays, Signals
<1> QED
  BY <1>2, <1>3

LEMMA CallKeeps ==
  ASSUME EngineInv, CallSubworkflow
  PROVE  EngineInv'
<1>1. /\ Runs /\ ThisStep.target \in Subworkflows /\ Enter("sub", ThisStep.target)
      /\ UNCHANGED <<program, stepOutcome, calling>>
  BY DEF CallSubworkflow, Rest
<1>2. calling' = FALSE
  BY <1>1, WhileRunning, Zenon
<1>3. stepOutcome = "ACTIVE" /\ InnerFrame.pc <= Len(program[InnerFrame.block])
  BY <1>1, WhileRunning
<1>4. Stays
  BY <1>1, <1>3, EnterStays DEF Calls
<1> QED
  BY <1>1, <1>2, <1>3, <1>4, StaysActive DEF Lasts

LEMMA StdlibKeeps ==
  ASSUME EngineInv, CallStdlib
  PROVE  EngineInv'
<1>1. /\ Runs /\ calling' = TRUE /\ UNCHANGED <<program, stepOutcome, frames, scopes, callDepth, signal>>
  BY DEF CallStdlib, Rest, ScopesKept
<1>2. /\ stepOutcome = "ACTIVE" /\ signal = "none" /\ InnerFrame.pc <= Len(program[InnerFrame.block])
  BY <1>1, WhileRunning
<1>3. InnerFrame' = InnerFrame
  BY <1>1 DEF InnerFrame
<1>4. Stack(program', frames', scopes')
  BY <1>1, <1>2 DEF EngineInv
<1> QED
  BY <1>1, <1>2, <1>3, <1>4 DEF EngineInv

LEMMA AnswerKeeps ==
  ASSUME EngineInv, StdlibAnswers
  PROVE  EngineInv'
<1>1. /\ calling /\ calling' = FALSE /\ UNCHANGED <<program, stepOutcome, scopes, callDepth>>
      /\ \/ StepDone(frames, ThisStep)
         \/ signal' = "throw" /\ UNCHANGED frames
  BY DEF StdlibAnswers, Rest, ScopesKept
<1>2. stepOutcome = "ACTIVE" /\ InnerFrame.pc <= Len(program[InnerFrame.block])
  BY <1>1 DEF EngineInv
<1>3. CASE StepDone(frames, ThisStep)
  BY <1>1, <1>2, <1>3, StepEnds
<1>4. CASE signal' = "throw" /\ UNCHANGED frames
  BY <1>1, <1>2, <1>4, SameStack DEF Signals
<1> QED
  BY <1>1, <1>3, <1>4

(* A block within this one is opened.                                      *)
LEMMA BlockOpens ==
  ASSUME EngineInv, Runs, NEW kind \in Plain \ {"except"}, NEW block \in DOMAIN program,
         NEW step \in StepsIn(program) \cup CasesIn(program),
         kind = "try" => /\ step.except \in DOMAIN program \cup {NoRow}
                         /\ step.predicate \in Subworkflows \cup {NoRow} /\ step.retries \in Nat,
         Push(Frame(kind, block, step, NoRow)),
         UNCHANGED <<program, stepOutcome, signal, scopes, callDepth, calling>>
  PROVE  EngineInv'
<1>1. /\ Stack(program, frames, scopes) /\ IsProgram(program)
      /\ callDepth \in 0 .. CallStackLimit /\ Len(scopes) = callDepth + 1
      /\ Len(frames) \in Nat /\ Len(frames) > 0 /\ stepOutcome = "ACTIVE"
      /\ frames[Len(frames)].pc <= Len(program[frames[Len(frames)].block])
  BY Active, WhileRunning
<1> DEFINE g == Frame(kind, block, step, NoRow)
<1>2. g \in Frames(program) /\ g.kind = kind /\ FrameFits(program, g, Len(frames) + 1)
  <2>1. kind \in FrameKinds \ {"main"}
    BY DEF Plain, FrameKinds
  <2> QED
    BY <1>1, <2>1, NewFrame
<1>3. frames' = Append(frames, g)
  BY DEF Push
<1> HIDE DEF g
<1>4. Stack(program, frames', scopes)
  BY <1>1, <1>2, <1>3, PlainOpens
<1>5. signal' \in Signals
  BY DEF EngineInv
<1>6. calling' = FALSE
  BY WhileRunning, Zenon
<1>7. Lasts /\ Stays
  BY <1>1, <1>4, <1>5 DEF Lasts, Stays
<1> QED
  BY <1>6, <1>7, StaysActive

LEMMA SwitchKeeps ==
  ASSUME EngineInv, ExecuteSwitch
  PROVE  EngineInv'
<1>1. /\ Runs /\ ThisStep.op = "switch" /\ UNCHANGED <<program, stepOutcome, scopes, callDepth, calling>>
      /\ \/ \E i \in DOMAIN ThisStep.cases :
              /\ Push(Frame("case", ThisStep.cases[i].block, ThisStep.cases[i], NoRow))
              /\ signal' = signal
         \/ StepDone(frames, ThisStep)
  BY DEF ExecuteSwitch, Rest, ScopesKept
<1>2. /\ stepOutcome = "ACTIVE" /\ InnerFrame.pc <= Len(program[InnerFrame.block])
      /\ ThisStep \in StepsIn(program) /\ StepFits(program, ThisStep)
  BY <1>1, WhileRunning, StepIsThere
<1>3. ASSUME NEW i \in DOMAIN ThisStep.cases,
             Push(Frame("case", ThisStep.cases[i].block, ThisStep.cases[i], NoRow)), signal' = signal
      PROVE  EngineInv'
  <2> DEFINE case == ThisStep.cases[i]
  <2>1. case \in CasesIn(program)
    BY <1>1, <1>2 DEF CasesIn
  <2>2. case.block \in DOMAIN program
    BY <1>1, <1>2 DEF StepFits
  <2>3. Push(Frame("case", case.block, case, NoRow))
    BY <1>3
  <2> HIDE DEF case
  <2> QED
    BY <1>1, <1>3, <2>1, <2>2, <2>3, BlockOpens DEF Plain
<1>4. ASSUME StepDone(frames, ThisStep) PROVE EngineInv'
  <2>1. calling' = FALSE
    BY <1>1, WhileRunning, Zenon
  <2> QED
    BY <1>1, <1>2, <1>4, <2>1, StepEnds
<1> QED
  BY <1>1, <1>3, <1>4

LEMMA NestedKeeps ==
  ASSUME EngineInv, ExecuteNested
  PROVE  EngineInv'
<1>1. /\ Runs /\ ThisStep.op \in {"try", "steps"}
      /\ Push(Frame(ThisStep.op, ThisStep.block, ThisStep, NoRow))
      /\ UNCHANGED <<program, stepOutcome, signal, scopes, callDepth, calling>>
  BY DEF ExecuteNested, Rest, ScopesKept
<1>2. ThisStep \in StepsIn(program) /\ StepFits(program, ThisStep)
  BY <1>1, WhileRunning, StepIsThere
<1>3. /\ ThisStep.block \in DOMAIN program
      /\ ThisStep.op = "try" => /\ ThisStep.except \in DOMAIN program \cup {NoRow}
                                /\ ThisStep.predicate \in Subworkflows \cup {NoRow} /\ ThisStep.retries \in Nat
  BY <1>1, <1>2 DEF StepFits
<1> QED
  BY <1>1, <1>2, <1>3, BlockOpens DEF Plain

LEMMA ForKeeps ==
  ASSUME EngineInv, ExecuteFor
  PROVE  EngineInv'
<1>1. /\ Runs /\ ThisStep.op = "for" /\ UNCHANGED <<program, stepOutcome, callDepth, calling>>
  BY DEF ExecuteFor, Rest
<1>2. /\ stepOutcome = "ACTIVE" /\ InnerFrame.pc <= Len(program[InnerFrame.block])
      /\ ThisStep \in StepsIn(program) /\ StepFits(program, ThisStep)
  BY <1>1, WhileRunning, StepIsThere
<1>3. calling' = FALSE
  BY <1>1, WhileRunning, Zenon
<1>4. CASE ThisStep.length = 0
  <2>1. StepDone(frames, ThisStep) /\ scopes' = scopes
    BY <1>4 DEF ExecuteFor
  <2> QED
    BY <1>1, <1>2, <1>3, <2>1, StepEnds
<1>5. CASE ThisStep.length # 0
  <2> DEFINE g == Frame("for", ThisStep.block, ThisStep, Variable)
  <2>1. frames' = Append(frames, g) /\ scopes' = [scopes EXCEPT ![Len(scopes)] = Indexed(1)] /\ signal' = signal
    BY <1>5 DEF ExecuteFor, Push, SetVariable
  <2>2. /\ Stack(program, frames, scopes) /\ IsProgram(program)
        /\ callDepth \in 0 .. CallStackLimit /\ Len(scopes) = callDepth + 1
        /\ Len(frames) \in Nat /\ Len(frames) > 0 /\ Variable = scopes[Len(scopes)] /\ Variable \in Values
        /\ frames[Len(frames)].pc <= Len(program[frames[Len(frames)].block])
    BY <1>1, <1>2, Active, WhileRunning
  <2>3. /\ g \in Frames(program) /\ g.kind = "for" /\ g.saved = Variable /\ g.round = 1
        /\ FrameFits(program, g, Len(frames) + 1)
    <3>1. ThisStep.block \in DOMAIN program /\ "for" \in FrameKinds \ {"main"} /\ "for" # "try"
      BY <1>1, <1>2 DEF StepFits, FrameKinds
    <3>2. Variable \in {NoRow} \cup Values /\ ThisStep \in {NoStep} \cup StepsIn(program) \cup CasesIn(program)
      BY <1>2, <2>2
    <3>3. ASSUME NEW kind \in FrameKinds \ {"main"}, kind = "for"
          PROVE  LET f == Frame(kind, ThisStep.block, ThisStep, Variable) IN
                 /\ f \in Frames(program) /\ f.kind = kind /\ f.saved = Variable /\ f.round = 1
                 /\ FrameFits(program, f, Len(frames) + 1)
      <4>1. kind # "try"
        BY <3>3
      <4> QED
        BY <2>2, <3>1, <3>2, <4>1, NewFrame
    <3> QED
      BY <3>1, <3>3, Zenon
  <2> HIDE DEF g
  <2>4. Stack(program, frames', scopes')
    <3>1. g.saved = scopes[Len(scopes)]
      BY <2>2, <2>3
    <3>2. Stack(program, Append(frames, g), [scopes EXCEPT ![Len(scopes)] = Indexed(g.round)])
      BY <2>2, <2>3, <3>1, LoopOpens
    <3> QED
      BY <2>1, <2>3, <3>2
  <2>5. Len(scopes') = Len(scopes) /\ signal' \in Signals
    BY <2>1, <2>2 DEF Stack, EngineInv
  <2>6. Lasts /\ Stays
    BY <1>1, <1>2, <2>2, <2>4, <2>5 DEF Lasts, Stays
  <2> QED
    BY <1>3, <2>6, StaysActive
<1> QED
  BY <1>4, <1>5

(* executeExcept(), or the error goes on.                                  *)
LEMMA TryFails ==
  ASSUME NEW p, IsProgram(p), NoRow \notin DOMAIN p, NEW fs, NEW sc, Stack(p, fs, sc),
         fs[Len(fs)].kind = "try", FailedTry(Outer(fs), fs[Len(fs)])
  PROVE  Stack(p, frames', sc) /\ signal' \in Signals
<1> DEFINE try == fs[Len(fs)]
           g == Frame("except", try.step.except, try.step, NoRow)
<1>1. /\ Stack(p, Outer(fs), sc) /\ Len(Outer(fs)) \in Nat /\ Len(Outer(fs)) > 0
      /\ Outer(fs)[Len(Outer(fs))].pc <= Len(p[Outer(fs)[Len(Outer(fs))].block])
  BY PlainLeaves, OuterTop DEF Plain
<1>2. try \in Frames(p) /\ FrameFits(p, try, Len(fs))
  BY TopOf
<1>3. CASE try.step.except = NoRow
  <2>1. frames' = Outer(fs) /\ signal' = "throw"
    BY <1>3 DEF FailedTry
  <2> QED
    BY <1>1, <2>1 DEF Signals
<1>4. CASE try.step.except # NoRow
  <2>1. frames' = Append(Outer(fs), g) /\ signal' = "none"
    BY <1>4 DEF FailedTry
  <2>2. try.step.except \in DOMAIN p /\ try.step \in {NoStep} \cup StepsIn(p) \cup CasesIn(p)
    BY <1>2, <1>4 DEF FrameFits, Frames
  <2>3. g \in Frames(p) /\ g.kind = "except" /\ FrameFits(p, g, Len(Outer(fs)) + 1)
    <3>1. "except" \in FrameKinds \ {"main"} /\ "except" # "try"
      BY DEF FrameKinds
    <3>2. NoRow \in {NoRow} \cup Values
      OBVIOUS
    <3> HIDE DEF try
    <3> QED
      BY <1>1, <2>2, <3>1, <3>2, NewFrame
  <2> HIDE DEF g
  <2>4. Stack(p, Append(Outer(fs), g), sc)
    BY <1>1, <2>3, PlainOpens DEF Plain
  <2> QED
    BY <2>1, <2>4 DEF Signals
<1> QED
  BY <1>3, <1>4

(* The next attempt of a try.                                              *)
LEMMA AgainFits ==
  ASSUME NEW p, IsProgram(p), NEW frame \in Frames(p), NEW i, FrameFits(p, frame, i)
  PROVE  /\ Again(frame) \in Frames(p) /\ Again(frame).kind = frame.kind /\ Again(frame).saved = frame.saved
         /\ Again(frame).round = frame.round + 1 /\ FrameFits(p, Again(frame), i)
<1>1. Len(p[frame.block]) \in Nat /\ frame.round \in Nat
  BY DEF IsProgram, Frames
<1>2. 1 \in 1 .. Len(p[frame.block]) + 1 /\ frame.round + 1 \in Nat
  BY <1>1
<1>3. Again(frame) = [frame EXCEPT !.pc = 1, !.round = frame.round + 1]
  BY DEF Again
<1> DEFINE r == frame.round + 1
<1>4. r \in Nat /\ Again(frame) = [frame EXCEPT !.pc = 1, !.round = r]
  BY <1>2, <1>3
<1> HIDE DEF r
<1>5. ASSUME NEW m \in 1 .. Len(p[frame.block]) + 1
      PROVE  LET g == [frame EXCEPT !.pc = m, !.round = r] IN
             /\ g \in Frames(p) /\ g.kind = frame.kind /\ g.saved = frame.saved /\ g.round = r
             /\ FrameFits(p, g, i)
  BY <1>4, PcMoves, Zenon
<1>6. LET g == [frame EXCEPT !.pc = 1, !.round = r] IN
      /\ g \in Frames(p) /\ g.kind = frame.kind /\ g.saved = frame.saved /\ g.round = r
      /\ FrameFits(p, g, i)
  BY <1>2, <1>5, Zenon
<1>7. /\ Again(frame) \in Frames(p) /\ Again(frame).kind = frame.kind /\ Again(frame).saved = frame.saved
      /\ Again(frame).round = r /\ FrameFits(p, Again(frame), i)
  BY <1>4, <1>6, Zenon
<1> QED
  BY <1>7 DEF r

LEMMA TriesAgain ==
  ASSUME NEW p, IsProgram(p), NEW fs, NEW sc, Stack(p, fs, sc), fs[Len(fs)].kind = "try"
  PROVE  /\ Stack(p, Append(Outer(fs), Again(fs[Len(fs)])), sc)
         /\ Stack(p, [fs EXCEPT ![Len(fs)] = Again(fs[Len(fs)])], sc)
<1> DEFINE g == Again(fs[Len(fs)])
<1>1. /\ Stack(p, Outer(fs), sc) /\ Len(Outer(fs)) = Len(fs) - 1 /\ Len(fs) - 1 \in Nat
      /\ Outer(fs)[Len(Outer(fs))].pc <= Len(p[Outer(fs)[Len(Outer(fs))].block])
  BY PlainLeaves, OuterTop DEF Plain
<1>2. fs[Len(fs)] \in Frames(p) /\ FrameFits(p, fs[Len(fs)], Len(fs)) /\ Len(fs) \in Nat
  BY TopOf
<1>3. /\ g \in Frames(p) /\ g.kind = "try" /\ g.saved = fs[Len(fs)].saved
      /\ FrameFits(p, g, Len(fs))
  BY <1>2, AgainFits
<1> HIDE DEF g
<1>4. Len(Outer(fs)) + 1 = Len(fs)
  BY <1>1, <1>2
<1>5. Stack(p, Append(Outer(fs), g), sc)
  BY <1>1, <1>3, <1>4, PlainOpens DEF Plain
<1>6. Stack(p, [fs EXCEPT ![Len(fs)] = g], sc)
  BY <1>3, TopKeeps
<1> QED
  BY <1>5, <1>6 DEF g

(* execute() ends with main's frame only.                                  *)
LEMMA MainEndKeeps ==
  ASSUME EngineInv, stepOutcome = "ACTIVE", InnerFrame.kind = "main", NEW state \in {"SUCCEEDED", "FAILED"},
         Ends(state), ScopesKept, program' = program, calling' = FALSE
  PROVE  EngineInv'
<1>1. /\ Stack(program, frames, scopes) /\ InnerFrame = frames[Len(frames)]
      /\ callDepth \in 0 .. CallStackLimit /\ Len(scopes) = callDepth + 1
  BY Active
<1>2. Len(scopes) = 1
  BY <1>1, MainIsAlone
<1>3. callDepth = 0
  <2>1. CallStackLimit \in Nat
    BY EngineAssumption
  <2>2. callDepth \in Int
    BY <1>1, <2>1
  <2>3. 1 = callDepth + 1
    BY <1>1, <1>2, Zenon
  <2> QED
    BY <2>2, <2>3
<1>4. stepOutcome' = state /\ frames' = <<>> /\ signal' = "none" /\ scopes' = scopes /\ callDepth' = callDepth
  BY DEF Ends, ScopesKept
<1> QED
  BY <1>1, <1>2, <1>3, <1>4 DEF EngineInv, Signals

LEMMA NotCalling ==
  ASSUME EngineInv, ~calling \/ signal # "none", calling' = calling
  PROVE  calling' = FALSE
BY Zenon DEF EngineInv

(* A predicate is over: the try below it fails or is tried again, in the   *)
(* scope the call was made in.                                             *)
LEMMA PredicateEnds ==
  ASSUME EngineInv, stepOutcome = "ACTIVE", InnerFrame.kind = "predicate", Unwind,
         \/ FailedTry(Outer(Outer(frames)), CallerFrame)
         \/ /\ frames' = Append(Outer(Outer(frames)), Again(CallerFrame)) /\ signal' = "none"
  PROVE  Stays
<1>1. /\ Stack(program, Outer(frames), scopes') /\ CallerFrame.kind = "try"
      /\ callDepth' \in 0 .. CallStackLimit /\ Len(scopes') = callDepth' + 1
      /\ Outer(frames)[Len(Outer(frames))] = CallerFrame
  BY Unwinds
<1>2. IsProgram(program) /\ NoRow \notin DOMAIN program
  BY Active
<1>3. Stack(program, frames', scopes') /\ signal' \in Signals
  <2>1. CASE FailedTry(Outer(Outer(frames)), CallerFrame)
    BY <1>1, <1>2, <2>1, TryFails
  <2>2. CASE frames' = Append(Outer(Outer(frames)), Again(CallerFrame)) /\ signal' = "none"
    <3>1. Stack(program, Append(Outer(Outer(frames)), Again(CallerFrame)), scopes')
      BY <1>1, <1>2, TriesAgain
    <3> QED
      BY <2>2, <3>1 DEF Signals
  <2> QED
    BY <2>1, <2>2
<1> QED
  BY <1>1, <1>3 DEF Stays

(* The block below a frame goes on, at the step that opened it or after it. *)
LEMMA BlockIsLeft ==
  ASSUME EngineInv, stepOutcome = "ACTIVE", InnerFrame.kind \notin {"main", "predicate"}, Unwind,
         \/ frames' = Outer(frames) /\ signal' \in Signals
         \/ StepDone(Outer(frames), program[CallerFrame.block][CallerFrame.pc])
  PROVE  Stays
<1>1. /\ Stack(program, Outer(frames), scopes') /\ CallerFrame.pc <= Len(program[CallerFrame.block])
      /\ callDepth' \in 0 .. CallStackLimit /\ Len(scopes') = callDepth' + 1
      /\ Outer(frames)[Len(Outer(frames))] = CallerFrame
  BY Unwinds
<1>2. IsProgram(program)
  BY Active
<1>3. Stack(program, frames', scopes') /\ signal' \in Signals
  <2>1. CASE frames' = Outer(frames) /\ signal' \in Signals
    BY <1>1, <2>1
  <2>2. CASE StepDone(Outer(frames), program[CallerFrame.block][CallerFrame.pc])
    <3> DEFINE step == program[CallerFrame.block][CallerFrame.pc]
    <3>1. StepDone(Outer(frames), step)
      BY <2>2
    <3> HIDE DEF step
    <3> QED
      BY <1>1, <1>2, <3>1, StepIsDone
  <2> QED
    BY <2>1, <2>2
<1> QED
  BY <1>1, <1>3 DEF Stays

(* The next value of a loop.                                               *)
LEMMA LoopGoesOn ==
  ASSUME EngineInv, stepOutcome = "ACTIVE", InnerFrame.kind = "for", TopTo(Again(InnerFrame)),
         SetVariable(Indexed(InnerFrame.round + 1)), UNCHANGED <<signal, callDepth>>
  PROVE  Stays
<1>1. /\ Stack(program, frames, scopes) /\ IsProgram(program) /\ InnerFrame = frames[Len(frames)]
      /\ InnerFrame \in Frames(program) /\ FrameFits(program, InnerFrame, Len(frames))
      /\ callDepth \in 0 .. CallStackLimit /\ Len(scopes) = callDepth + 1
  BY Active
<1> DEFINE g == Again(InnerFrame)
<1>2. /\ g \in Frames(program) /\ g.kind = InnerFrame.kind /\ g.saved = InnerFrame.saved
      /\ g.round = InnerFrame.round + 1 /\ FrameFits(program, g, Len(frames))
  BY <1>1, AgainFits
<1>3. frames' = [frames EXCEPT ![Len(frames)] = g] /\ scopes' = [scopes EXCEPT ![Len(scopes)] = Indexed(g.round)]
  BY <1>2 DEF TopTo, SetVariable
<1> HIDE DEF g
<1>4. Stack(program, frames', scopes')
  BY <1>1, <1>2, <1>3, LoopKeeps
<1>5. Len(scopes') = Len(scopes)
  BY <1>1, <1>3 DEF Stack
<1>6. signal' \in Signals
  BY DEF EngineInv
<1> QED
  BY <1>1, <1>4, <1>5, <1>6 DEF Stays

LEMMA BlockEndsKeeps ==
  ASSUME EngineInv, BlockEnds
  PROVE  EngineInv'
<1>1. /\ stepOutcome = "ACTIVE" /\ signal = "none" /\ program' = program
      /\ ~calling /\ calling' = calling
  BY DEF BlockEnds
<1>2. calling' = FALSE
  BY <1>1, NotCalling, Zenon
<1>3. CASE InnerFrame.kind = "main"
  <2>1. Ends("SUCCEEDED") /\ ScopesKept
    BY <1>3 DEF BlockEnds
  <2> QED
    BY <1>1, <1>2, <1>3, <2>1, MainEndKeeps
<1>4. ASSUME Stays, stepOutcome' = stepOutcome PROVE EngineInv'
  BY <1>1, <1>2, <1>4, StaysActive DEF Lasts
<1>5. CASE InnerFrame.kind = "for" /\ InnerFrame.round < InnerFrame.step.length
  <2>1. /\ TopTo(Again(InnerFrame)) /\ SetVariable(Indexed(InnerFrame.round + 1))
        /\ UNCHANGED <<signal, callDepth, stepOutcome>>
    BY <1>5 DEF BlockEnds
  <2> QED
    BY <1>1, <1>4, <1>5, <2>1, LoopGoesOn
<1>6. CASE InnerFrame.kind = "predicate"
  <2>1. FailedTry(Outer(Outer(frames)), CallerFrame) /\ Unwind /\ UNCHANGED stepOutcome
    BY <1>6 DEF BlockEnds
  <2> QED
    BY <1>1, <1>4, <1>6, <2>1, PredicateEnds
<1>7. CASE InnerFrame.kind = "case" /\ InnerFrame.step.next # NoRow
  <2>1. frames' = Outer(frames) /\ signal' = "next" /\ ScopesKept /\ UNCHANGED stepOutcome
    BY <1>7 DEF BlockEnds
  <2>2. Unwind
    BY <1>7, <2>1 DEF Unwind
  <2> QED
    BY <1>1, <1>4, <1>7, <2>1, <2>2, BlockIsLeft DEF Signals
<1>8. CASE /\ InnerFrame.kind \notin {"main", "predicate"}
           /\ ~(InnerFrame.kind = "for" /\ InnerFrame.round < InnerFrame.step.length)
           /\ ~(InnerFrame.kind = "case" /\ InnerFrame.step.next # NoRow)
  <2>1. StepDone(Outer(frames), program[CallerFrame.block][CallerFrame.pc]) /\ Unwind /\ UNCHANGED stepOutcome
    BY <1>8 DEF BlockEnds
  <2> QED
    BY <1>1, <1>4, <1>8, <2>1, BlockIsLeft
<1> QED
  BY <1>3, <1>5, <1>6, <1>7, <1>8

LEMMA JumpKeeps ==
  ASSUME EngineInv, Jump
  PROVE  EngineInv'
<1> DEFINE block == program[InnerFrame.block]
           found == {i \in DOMAIN block : block[i].name = jumpTarget}
           m == CHOOSE i \in found : \A j \in found : i <= j
<1>1. /\ stepOutcome = "ACTIVE" /\ signal = "next"
      /\ UNCHANGED <<program, stepOutcome, scopes, callDepth, calling>>
  BY DEF Jump, ScopesKept, Rest
<1>2. calling' = FALSE
  BY <1>1, NotCalling, Zenon
<1>3. \/ signal' \in {"end", "throw"} /\ UNCHANGED frames
      \/ found # {} /\ TopTo([InnerFrame EXCEPT !.pc = m]) /\ signal' = "none"
  BY DEF Jump
<1>4. CASE signal' \in {"end", "throw"} /\ UNCHANGED frames
  BY <1>1, <1>2, <1>4, SameStack DEF Signals
<1>5. CASE found # {} /\ TopTo([InnerFrame EXCEPT !.pc = m]) /\ signal' = "none"
  <2>1. /\ Stack(program, frames, scopes) /\ IsProgram(program) /\ InnerFrame = frames[Len(frames)]
        /\ InnerFrame \in Frames(program) /\ callDepth \in 0 .. CallStackLimit /\ Len(scopes) = callDepth + 1
    BY <1>1, Active
  <2>2. DOMAIN block = 1 .. Len(block) /\ Len(block) \in Nat
    BY <2>1 DEF IsProgram, Frames
  <2>3. found \subseteq 1 .. Len(block) /\ found \subseteq Nat
    BY <2>2
  <2> HIDE DEF found
  <2>4. \E i \in found : \A j \in found : i <= j
    BY <1>5, <2>3, LeastNatural
  <2>5. m \in found
    BY <2>4, Zenon
  <2>6. m \in 1 .. Len(block) + 1
    <3>1. m \in 1 .. Len(block)
      BY <2>3, <2>5
    <3> HIDE DEF m
    <3> QED
      BY <2>2, <3>1
  <2> HIDE DEF m
  <2>7. [InnerFrame EXCEPT !.pc = m] = [InnerFrame EXCEPT !.pc = m, !.round = InnerFrame.round]
    BY <2>1, RoundKept
  <2>8. InnerFrame.round \in Nat
    BY <2>1 DEF Frames
  <2> DEFINE r == InnerFrame.round
  <2>9. frames' = [frames EXCEPT ![Len(frames)] = [frames[Len(frames)] EXCEPT !.pc = m, !.round = r]]
    BY <1>5, <2>1, <2>7 DEF TopTo
  <2>10. r \in Nat /\ r = frames[Len(frames)].round /\ m \in 1 .. Len(program[frames[Len(frames)].block]) + 1
    BY <2>1, <2>6, <2>8
  <2> HIDE DEF r
  <2>11. Stack(program, frames', scopes)
    BY <2>1, <2>9, <2>10, TopMoves
  <2>12. Lasts /\ Stays
    BY <1>1, <1>5, <2>1, <2>11 DEF Lasts, Stays, Signals
  <2> QED
    BY <1>2, <2>12, StaysActive
<1> QED
  BY <1>3, <1>4, <1>5

LEMMA ReturnsKeeps ==
  ASSUME EngineInv, Returns
  PROVE  EngineInv'
<1>1. /\ stepOutcome = "ACTIVE" /\ signal \in {"return", "end"} /\ program' = program
      /\ calling' = calling
  BY DEF Returns
<1>2. calling' = FALSE
  <2>1. signal # "none"
    BY <1>1
  <2> QED
    BY <1>1, <2>1, NotCalling, Zenon
<1>3. CASE InnerFrame.kind = "main"
  <2>1. Ends("SUCCEEDED") /\ ScopesKept
    BY <1>3 DEF Returns
  <2> QED
    BY <1>1, <1>2, <1>3, <2>1, MainEndKeeps
<1>4. ASSUME Stays, stepOutcome' = stepOutcome PROVE EngineInv'
  BY <1>1, <1>2, <1>4, StaysActive DEF Lasts
<1>5. CASE InnerFrame.kind = "sub"
  <2>1. StepDone(Outer(frames), program[CallerFrame.block][CallerFrame.pc]) /\ Unwind /\ UNCHANGED stepOutcome
    BY <1>5 DEF Returns
  <2> QED
    BY <1>1, <1>4, <1>5, <2>1, BlockIsLeft
<1>6. CASE InnerFrame.kind = "predicate"
  <2>1. /\ Unwind /\ UNCHANGED stepOutcome
        /\ \/ FailedTry(Outer(Outer(frames)), CallerFrame)
           \/ frames' = Append(Outer(Outer(frames)), Again(CallerFrame)) /\ signal' = "none"
    BY <1>6 DEF Returns
  <2> QED
    BY <1>1, <1>4, <1>6, <2>1, PredicateEnds
<1>7. CASE InnerFrame.kind \notin {"main", "sub", "predicate"}
  <2>1. frames' = Outer(frames) /\ Unwind /\ UNCHANGED <<signal, stepOutcome>>
    BY <1>7 DEF Returns
  <2> QED
    BY <1>1, <1>4, <1>7, <2>1, BlockIsLeft DEF Signals
<1> QED
  BY <1>3, <1>5, <1>6, <1>7

LEMMA ThrowsKeeps ==
  ASSUME EngineInv, Throws
  PROVE  EngineInv'
<1>1. /\ stepOutcome = "ACTIVE" /\ signal = "throw" /\ program' = program
      /\ calling' = calling
  BY DEF Throws
<1>2. calling' = FALSE
  <2>1. signal # "none"
    BY <1>1
  <2> QED
    BY <1>1, <2>1, NotCalling, Zenon
<1>3. CASE InnerFrame.kind = "main"
  <2>1. Ends("FAILED") /\ ScopesKept
    BY <1>3 DEF Throws
  <2> QED
    BY <1>1, <1>2, <1>3, <2>1, MainEndKeeps
<1>4. ASSUME Stays, stepOutcome' = stepOutcome PROVE EngineInv'
  BY <1>1, <1>2, <1>4, StaysActive DEF Lasts
<1>5. /\ Stack(program, frames, scopes) /\ IsProgram(program) /\ NoRow \notin DOMAIN program
      /\ InnerFrame = frames[Len(frames)] /\ FrameFits(program, InnerFrame, Len(frames))
      /\ InnerFrame \in Frames(program)
      /\ callDepth \in 0 .. CallStackLimit /\ Len(scopes) = callDepth + 1
  BY <1>1, Active
<1>6. CASE InnerFrame.kind = "predicate"
  <2>1. frames' = Outer(Outer(frames)) /\ Unwind /\ UNCHANGED <<signal, stepOutcome>>
    BY <1>6 DEF Throws
  <2>2. /\ Stack(program, Outer(frames), scopes') /\ CallerFrame.kind = "try"
        /\ callDepth' \in 0 .. CallStackLimit /\ Len(scopes') = callDepth' + 1
        /\ Outer(frames)[Len(Outer(frames))] = CallerFrame
    BY <1>1, <1>6, <2>1, Unwinds
  <2>3. Stack(program, Outer(Outer(frames)), scopes')
    BY <2>2, PlainLeaves DEF Plain
  <2>4. Stays
    BY <1>1, <2>1, <2>2, <2>3 DEF Stays, Signals
  <2> QED
    BY <1>4, <2>1, <2>4
<1>7. CASE InnerFrame.kind = "try" /\ InnerFrame.round <= InnerFrame.step.retries
  <2>1. /\ UNCHANGED stepOutcome
        /\ \/ InnerFrame.step.predicate # NoRow /\ Enter("predicate", InnerFrame.step.predicate)
           \/ frames' = Outer(frames) /\ ScopesKept /\ UNCHANGED signal
           \/ TopTo(Again(InnerFrame)) /\ signal' = "none" /\ ScopesKept
    <3>0. InnerFrame.round \in Nat /\ InnerFrame.step.retries \in Nat
      BY <1>5, <1>7 DEF FrameFits, Frames
    <3>1. UNCHANGED stepOutcome
      BY <1>7, <3>0 DEF Throws
    <3>2. IF InnerFrame.step.predicate # NoRow /\ callDepth < CallStackLimit
          THEN Enter("predicate", InnerFrame.step.predicate)
          ELSE IF InnerFrame.step.predicate # NoRow
          THEN frames' = Outer(frames) /\ ScopesKept /\ UNCHANGED signal
          ELSE TopTo(Again(InnerFrame)) /\ signal' = "none" /\ ScopesKept
      BY <1>7, <3>0 DEF Throws
    <3> QED
      BY <3>1, <3>2, Zenon
  <2>2. CASE InnerFrame.step.predicate # NoRow /\ Enter("predicate", InnerFrame.step.predicate)
    <3>1. InnerFrame.step.predicate \in Subworkflows
      BY <1>5, <1>7, <2>2 DEF FrameFits
    <3>2. ASSUME NEW kind \in Calls, kind = "predicate" PROVE Stays
      BY <1>1, <1>7, <2>2, <3>1, <3>2, EnterStays
    <3>3. Stays
      BY <3>2 DEF Calls
    <3> QED
      BY <1>4, <2>1, <3>3
  <2>3. CASE frames' = Outer(frames) /\ ScopesKept /\ UNCHANGED signal
    <3>1. Stack(program, Outer(frames), scopes)
      BY <1>5, <1>7, PlainLeaves DEF Plain
    <3>2. Stays
      BY <1>1, <1>5, <2>3, <3>1 DEF Stays, Signals, ScopesKept
    <3> QED
      BY <1>4, <2>1, <3>2
  <2>4. CASE TopTo(Again(InnerFrame)) /\ signal' = "none" /\ ScopesKept
    <3>1. Stack(program, [frames EXCEPT ![Len(frames)] = Again(InnerFrame)], scopes)
      BY <1>5, <1>7, TriesAgain
    <3>2. Stays
      BY <1>5, <2>4, <3>1 DEF Stays, Signals, ScopesKept, TopTo
    <3> QED
      BY <1>4, <2>1, <3>2
  <2> QED
    BY <2>1, <2>2, <2>3, <2>4
<1>8. CASE InnerFrame.kind = "try" /\ InnerFrame.round > InnerFrame.step.retries
  <2>1. FailedTry(Outer(frames), InnerFrame) /\ ScopesKept /\ UNCHANGED stepOutcome
    <3>1. InnerFrame.round \in Nat /\ InnerFrame.step.retries \in Nat
      BY <1>5, <1>8 DEF FrameFits, Frames
    <3> QED
      BY <1>8, <3>1 DEF Throws
  <2>2. Stack(program, frames', scopes) /\ signal' \in Signals
    BY <1>5, <1>8, <2>1, TryFails
  <2>3. Stays
    BY <1>5, <2>1, <2>2 DEF Stays, ScopesKept
  <2> QED
    BY <1>4, <2>1, <2>3
<1>9. CASE /\ InnerFrame.kind \notin {"main", "predicate"}
           /\ InnerFrame.kind # "try"
  <2>1. frames' = Outer(frames) /\ Unwind /\ UNCHANGED <<signal, stepOutcome>>
    BY <1>9 DEF Throws
  <2> QED
    BY <1>1, <1>4, <1>9, <2>1, BlockIsLeft DEF Signals
<1>10. InnerFrame.kind = "try" => \/ InnerFrame.round <= InnerFrame.step.retries
                                   \/ InnerFrame.round > InnerFrame.step.retries
  <2>1. InnerFrame.round \in Nat
    BY <1>5 DEF Frames
  <2> QED
    BY <1>5, <2>1 DEF FrameFits
<1> QED
  BY <1>3, <1>6, <1>7, <1>8, <1>9, <1>10

(* Every step.                                                             *)
LEMMA EngineStep ==
  ASSUME EngineInv, EngineNext
  PROVE  EngineInv'
BY AssignKeeps, SignalKeeps, NextKeeps, CallKeeps, StdlibKeeps, AnswerKeeps, SwitchKeeps, ForKeeps,
   NestedKeeps, BlockEndsKeeps, JumpKeeps, ReturnsKeeps, ThrowsKeeps DEF EngineNext

LEMMA EngineStutters ==
  ASSUME EngineInv, UNCHANGED engineVars
  PROVE  EngineInv'
<1>1. /\ UNCHANGED <<program, frames, scopes, signal, callDepth, stepOutcome>>
      /\ calling' = calling
  BY DEF engineVars
<1>2. InnerFrame' = InnerFrame
  BY <1>1 DEF InnerFrame
<1>3. stepOutcome = "ACTIVE" => Stack(program', frames', scopes')
  BY <1>1 DEF EngineInv
<1>4. calling' \in BOOLEAN
  BY <1>1, Zenon DEF EngineInv
<1>5. calling' => /\ stepOutcome' = "ACTIVE" /\ signal' = "none"
                  /\ InnerFrame'.pc <= Len(program'[InnerFrame'.block])
  BY <1>1, <1>2, Zenon DEF EngineInv
<1> QED
  BY <1>1, <1>3, <1>4, <1>5 DEF EngineInv

LEMMA EngineStarts ==
  ASSUME EngineInit
  PROVE  EngineInv
<1> DEFINE g == Frame("main", "main", NoStep, NoRow)
<1>1. program \in WorkflowPrograms /\ IsProgram(program) /\ CallStackLimit \in Nat
  BY EngineAssumption DEF EngineInit
<1>2. /\ frames = <<g>> /\ scopes = <<Unset>> /\ signal = "none" /\ callDepth = 0
      /\ calling = FALSE /\ stepOutcome = "ACTIVE"
  BY DEF EngineInit
<1>3. g \in Frames(program) /\ g.kind = "main" /\ g.pc = 1 /\ g.block = "main"
  BY <1>1 DEF Frame, Frames, FrameKinds, IsProgram
<1>4. Len(program["main"]) \in Nat
  BY <1>1 DEF IsProgram
<1> HIDE DEF g
<1>5. /\ frames \in Seq(Frames(program)) /\ Len(frames) = 1 /\ frames[1] = g
      /\ scopes \in Seq(Values) /\ Len(scopes) = 1 /\ scopes[1] = Unset
  BY <1>2, <1>3 DEF Values, Unset
<1>6. FrameFits(program, g, 1)
  BY <1>3, <1>4 DEF FrameFits
<1>7. Level(frames, 1) = 1
  <2>1. Level(frames, 0 + 1) = Level(frames, 0) + (IF frames[0 + 1].kind \in Calls THEN 1 ELSE 0)
    BY LevelStep
  <2>2. CallsTo(frames, 0) = {}
    BY DEF CallsTo
  <2>3. Level(frames, 0) = 1
    BY <2>2, FS_EmptySet DEF Level
  <2> QED
    BY <1>3, <1>5, <2>1, <2>3 DEF Calls
<1>8. Current(frames, 1, Unset)
  BY <1>3, <1>5 DEF Current, Gives, ValueOf
<1>9. Stack(program, frames, scopes)
  BY <1>3, <1>5, <1>6, <1>7, <1>8 DEF Stack, Shows
<1>10. calling \in BOOLEAN
  BY <1>2, Zenon
<1> QED
  BY <1>1, <1>2, <1>5, <1>9, <1>10 DEF EngineInv, Signals

(* The frame whose value the variable has is the last loop of the scope,   *)
(* or the frame that opened it.                                            *)
LEMMA VariableIsCurrent ==
  ASSUME EngineInv
  PROVE  LoopVariableIsCurrent
<1> SUFFICES ASSUME frames # <<>> PROVE LoopVariableIsCurrent
  BY DEF LoopVariableIsCurrent
<1> DEFINE n == Len(frames)
           openers == {i \in DOMAIN frames : Opens(frames[i])}
           loops == {i \in ScopeStart .. n : frames[i].kind = "for"}
           top == CHOOSE i \in loops : \A j \in loops : j <= i
<1>1. stepOutcome = "ACTIVE"
  BY DEF EngineInv
<1>2. /\ Stack(program, frames, scopes) /\ n \in Nat /\ n > 0 /\ frames \in Seq(Frames(program))
      /\ Variable = scopes[Len(scopes)] /\ Len(scopes) = Level(frames, n)
  BY <1>1, Active DEF Stack
<1>3. DOMAIN frames = 1 .. n
  BY <1>2
<1>4. Current(frames, n, Variable)
  BY <1>2 DEF Stack, Shows
<1>5. PICK j \in 1 .. n : /\ Gives(frames[j]) /\ \A k \in j + 1 .. n : ~Gives(frames[k])
                          /\ Variable \in {Assigned, ValueOf(frames[j])}
  BY <1>4, Zenon DEF Current
<1>6. ScopeStart \in openers /\ \A i \in openers : i <= ScopeStart
  <2>1. openers \in SUBSET Nat /\ \A i \in openers : i <= n
    BY <1>2, <1>3
  <2>2. 1 \in openers
    BY <1>2, <1>3 DEF Stack, FrameFits, Opens
  <2>3. \E i \in openers : \A k \in openers : k <= i
    BY <1>2, <2>1, <2>2, GreatestNatural
  <2>4. ScopeStart = CHOOSE i \in openers : \A k \in openers : k <= i
    BY DEF ScopeStart, Opens
  <2> QED
    BY <2>3, <2>4, Zenon
<1>7. ScopeStart \in 1 .. n /\ ScopeStart <= j
  <2>1. ScopeStart \in 1 .. n /\ Gives(frames[ScopeStart])
    BY <1>3, <1>6 DEF Opens, Gives
  <2>2. ScopeStart \notin j + 1 .. n
    BY <1>5, <2>1
  <2> QED
    BY <1>2, <2>1, <2>2
<1>8. \A i \in loops : i <= j /\ i \in 1 .. n
  <2>1. TAKE i \in loops
  <2>2. i \in 1 .. n /\ Gives(frames[i])
    BY <1>7, <2>1 DEF Gives
  <2>3. i \notin j + 1 .. n
    BY <1>5, <2>2
  <2> QED
    BY <1>2, <2>2, <2>3
<1>9. CASE frames[j].kind = "for"
  <2>1. j \in loops
    BY <1>5, <1>7, <1>9
  <2>2. \E i \in loops : \A k \in loops : k <= i
    BY <1>8, <2>1, Zenon
  <2>3. top \in loops /\ \A k \in loops : k <= top
    BY <2>2, Zenon
  <2> HIDE DEF top
  <2>4. top = j
    <3>1. top <= j /\ j <= top /\ top \in Nat /\ j \in Nat
      BY <1>8, <2>1, <2>3
    <3> QED
      BY <3>1
  <2>5. Variable \in {Assigned, Indexed(frames[top].round)}
    BY <1>5, <1>9, <2>4 DEF ValueOf
  <2>6. loops # {}
    BY <2>1
  <2>7. Variable \in {Assigned, IF loops = {} THEN Unset ELSE Indexed(frames[top].round)}
    BY <2>5, <2>6
  <2> QED
    BY <2>7 DEF LoopVariableIsCurrent, top
<1>10. CASE frames[j].kind # "for"
  <2>1. j = ScopeStart
    <3>1. j \in openers
      BY <1>3, <1>5, <1>10 DEF Gives, Opens
    <3>2. j <= ScopeStart /\ ScopeStart <= j /\ j \in Nat /\ ScopeStart \in Nat
      BY <1>6, <1>7, <3>1
    <3> QED
      BY <3>2
  <2>2. loops = {}
    <3>1. ASSUME NEW i \in loops PROVE FALSE
      <4>1. i = j
        BY <1>8, <2>1, <3>1
      <4> QED
        BY <1>10, <3>1, <4>1
    <3> QED
      BY <3>1
  <2>3. Variable \in {Assigned, Unset}
    BY <1>5, <1>10 DEF ValueOf
  <2>4. Variable \in {Assigned, IF loops = {} THEN Unset ELSE Indexed(frames[top].round)}
    BY <2>2, <2>3
  <2> QED
    BY <2>4 DEF LoopVariableIsCurrent
<1> QED
  BY <1>9, <1>10

LEMMA EngineIsSafe ==
  ASSUME EngineInv
  PROVE  WorkflowEngineInvariant
<1>1. CASE stepOutcome = "ACTIVE"
  <2>1. /\ Stack(program, frames, scopes) /\ frames \in Seq(Frames(program))
        /\ Len(frames) \in Nat /\ Len(frames) > 0
        /\ callDepth \in 0 .. CallStackLimit /\ CallStackLimit \in Nat
        /\ Len(scopes) = callDepth + 1 /\ Len(scopes) = Level(frames, Len(frames))
    BY <1>1, Active DEF Stack
  <2>2. DOMAIN frames = 1 .. Len(frames) /\ frames # <<>>
    BY <2>1
  <2>3. EngineTypeOK
    <3>1. ASSUME NEW i \in DOMAIN frames
          PROVE  /\ frames[i].kind \in FrameKinds /\ (frames[i].kind = "main" <=> i = 1)
                 /\ frames[i].pc \in 1 .. (Len(program[frames[i].block]) + 1)
      <4>1. frames[i] \in Frames(program) /\ FrameFits(program, frames[i], i)
        BY <2>1, <2>2, <3>1 DEF Stack
      <4> QED
        BY <4>1 DEF FrameFits, Frames
    <3>2. signal \in Signals /\ calling \in BOOLEAN
      BY Zenon DEF EngineInv
    <3> QED
      BY <1>1, <2>2, <3>1, <3>2, Zenon DEF EngineTypeOK
  <2>4. CallDepthMatches
    <3>1. SubFrames = CallsTo(frames, Len(frames))
      BY <2>2 DEF SubFrames, CallsTo, Calls
    <3>2. Cardinality(CallsTo(frames, Len(frames))) \in Nat
      BY <2>1, LevelType, FS_CardinalityType
    <3>3. Cardinality(CallsTo(frames, Len(frames))) + 1 = callDepth + 1
      BY <2>1 DEF Level
    <3>4. callDepth = Cardinality(SubFrames)
      BY <2>1, <3>1, <3>2, <3>3
    <3> QED
      BY <2>1, <3>4 DEF CallDepthMatches
  <2> QED
    BY <2>3, <2>4, VariableIsCurrent DEF WorkflowEngineInvariant
<1>2. CASE stepOutcome # "ACTIVE"
  <2>1. /\ frames = <<>> /\ callDepth = 0 /\ Len(scopes) = callDepth + 1 /\ CallStackLimit \in Nat
    BY <1>2, EngineAssumption DEF EngineInv
  <2>2. EngineTypeOK
    <3>1. DOMAIN frames = {}
      BY <2>1
    <3>2. /\ signal \in Signals /\ calling \in BOOLEAN
          /\ stepOutcome \in {"ACTIVE", "SUCCEEDED", "FAILED"}
      BY Zenon DEF EngineInv
    <3> QED
      BY <1>2, <2>1, <3>1, <3>2, Zenon DEF EngineTypeOK
  <2>3. SubFrames = {}
    BY <2>1 DEF SubFrames
  <2>4. CallDepthMatches
    <3>1. Cardinality(SubFrames) = 0
      BY <2>3, FS_EmptySet
    <3> QED
      BY <2>1, <3>1 DEF CallDepthMatches
  <2> QED
    BY <2>2, <2>4, VariableIsCurrent DEF WorkflowEngineInvariant
<1> QED
  BY <1>1, <1>2

(* The interpreter of workflows (execution/engine.ts): on every way out of *)
(* a block, a loop, a try, a predicate or a subworkflow the calls are      *)
(* counted, and a body reads its own loop's variable.                      *)
THEOREM WorkflowsKeepTheirStack == EngineSpec => []WorkflowEngineInvariant
<1>1. EngineInit => EngineInv
  BY EngineStarts
<1>2. EngineInv /\ [EngineNext]_engineVars => EngineInv'
  BY EngineStep, EngineStutters
<1>3. EngineInv => WorkflowEngineInvariant
  BY EngineIsSafe
<1> QED
  BY <1>1, <1>2, <1>3, PTL DEF EngineSpec
===========================================================================
