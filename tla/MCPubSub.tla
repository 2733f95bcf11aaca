------------------------------ MODULE MCPubSub ------------------------------
(* TLC instance of PubSub: a topic and its dead-letter topic.                *)
EXTENDS PubSub

CONSTANTS orders, dead, s1, s2, snap

Policy == [topic |-> dead, max |-> 1]
Pushed == [topic |-> orders, push |-> TRUE, policy |-> Policy]
Plain == [topic |-> orders, push |-> FALSE, policy |-> NoPolicy]
Discarding == [topic |-> orders, push |-> TRUE, policy |-> [topic |-> NoRow, max |-> 2]]
DeadLetters == [topic |-> dead, push |-> FALSE, policy |-> NoPolicy]

MCSubConfigs == [s \in {s1, s2} |-> IF s = s1 THEN {Pushed, Plain} ELSE {DeadLetters}]
MCMaxDeliveries == [s \in {s1, s2} |-> IF s = s1 THEN 2 ELSE 0]
MCOperations == PubSubAllOperations
=============================================================================
