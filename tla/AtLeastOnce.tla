---------------------------- MODULE AtLeastOnce -----------------------------
(***************************************************************************)
(* What Pub/Sub promises a subscriber.  A copy is a message owed to a        *)
(* subscription.  It stops being owed only once it was handed over, or       *)
(* when its subscription is deleted, or when the message itself is deleted   *)
(* with its topic, for every subscriber at once.  It may be handed over      *)
(* any number of times, and is made, and so owed, only once.                 *)
(***************************************************************************)
CONSTANTS Subscribers, Messages

VARIABLES
  owed,     (* copies still to be delivered                                  *)
  made,     (* copies ever made                                              *)
  handed    (* copies a consumer was given at least once                     *)

promise == <<owed, made, handed>>

Copies == Subscribers \X Messages

Init == owed = {} /\ made = {} /\ handed = {}

(* A publish, by a client or of a dead letter, which settles the copy it is  *)
(* made from; nobody need be subscribed.                                     *)
Publish(settled) ==
  /\ made \subseteq made' /\ made' \subseteq Copies
  /\ settled \subseteq handed
  /\ owed' = (owed \ settled) \cup (made' \ made)
  /\ UNCHANGED handed

HandOver ==
  /\ handed \subseteq handed' /\ handed' \subseteq made
  /\ UNCHANGED <<owed, made>>

Settle(c) ==
  /\ c \in handed
  /\ owed' = owed \ {c}
  /\ UNCHANGED <<made, handed>>

DropSubscriber(s) ==
  /\ owed' = {c \in owed : c[1] # s}
  /\ UNCHANGED <<made, handed>>

DropMessages(dropped) ==
  /\ owed' = {c \in owed : c[2] \notin dropped}
  /\ UNCHANGED <<made, handed>>

Next ==
  \/ HandOver
  \/ \E c \in Copies : Settle(c)
  \/ Publish({})
  \/ \E c \in Copies : Publish({c})
  \/ \E s \in Subscribers : DropSubscriber(s)
  \/ \E dropped \in SUBSET Messages : DropMessages(dropped)

Spec == Init /\ [][Next]_promise
=============================================================================
