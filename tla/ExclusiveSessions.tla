-------------------------- MODULE ExclusiveSessions --------------------------
(***************************************************************************)
(* What PGliteSessionQueue promises its callers, without any queue: one      *)
(* backend, used by one connection at a time, whose transaction is held by   *)
(* one connection from the message that opens it to the message that ends    *)
(* it, and never for ever by a connection that is gone.                      *)
(***************************************************************************)
CONSTANTS Connections, NoConn

VARIABLES
  holder,     (* connection whose transaction is open, or NoConn             *)
  executing,  (* connection whose message the backend executes, or NoConn    *)
  cleaning,   (* the message being executed is a ROLLBACK for a gone client  *)
  alive       (* connections that are still there                            *)

vars == <<holder, executing, cleaning, alive>>

Init ==
  /\ holder = NoConn
  /\ executing = NoConn
  /\ cleaning = FALSE
  /\ alive = Connections

(* The backend starts on a message of c: a live client's, or the ROLLBACK of *)
(* a connection that is gone; inside a transaction, of its holder only.      *)
Start(c, rollback) ==
  /\ executing = NoConn
  /\ holder \in {NoConn, c}
  /\ rollback = (c \notin alive)
  /\ executing' = c
  /\ cleaning' = rollback
  /\ UNCHANGED <<holder, alive>>

(* It is done with it; a ROLLBACK leaves no transaction behind.              *)
Finish(open) ==
  /\ executing # NoConn
  /\ cleaning => ~open
  /\ holder' = IF open THEN executing ELSE NoConn
  /\ executing' = NoConn
  /\ cleaning' = FALSE
  /\ UNCHANGED alive

Vanish(c) ==
  /\ c \in alive
  /\ alive' = alive \ {c}
  /\ UNCHANGED <<holder, executing, cleaning>>

(* A connection leaves with the backend idle and its transaction open: the   *)
(* ROLLBACK starts in the same step.                                         *)
VanishAndRollback(c) ==
  /\ c \in alive
  /\ holder = c
  /\ executing = NoConn
  /\ alive' = alive \ {c}
  /\ executing' = c
  /\ cleaning' = TRUE
  /\ UNCHANGED holder

Next ==
  \/ \E c \in Connections, rollback \in BOOLEAN : Start(c, rollback)
  \/ \E open \in BOOLEAN : Finish(open)
  \/ \E c \in Connections : Vanish(c) \/ VanishAndRollback(c)

Spec == Init /\ [][Next]_vars

(* The backend answers, and cleaning up after a gone holder is not put off.  *)
Reclaim == \E c \in Connections : holder = c /\ Start(c, TRUE)
LiveSpec == Spec /\ WF_vars(\E open \in BOOLEAN : Finish(open)) /\ WF_vars(Reclaim)
=============================================================================
