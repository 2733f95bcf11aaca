---------------------------- MODULE MCWireServer ----------------------------
(* TLC instances of WireServer.                                              *)
EXTENDS WireServer, TLC

(* An extended-query sequence and an orderly end.                            *)
Orderly == <<"startup", "password", "parse", "query", "terminate">>
(* A frame larger than the threshold, and pipelining behind it.              *)
Bulky == <<"startup", "bulk", "query">>
(* A sequence that is too long.                                              *)
Endless == <<"startup", "parse", "bulk">>
Broken == <<"startup", "badlength">>
Unauthorised == <<"startup", "wrong">>
Hasty == <<"ssl", "malformed">>
Cancelling == <<"cancel">>

CONSTANTS c1, c2

(* Every kind of client beside one that may hold a transaction.              *)
MixedScripts ==
  (c1 :> {Orderly, Bulky, Endless, Broken, Unauthorised, Hasty, Cancelling}) @@
  (c2 :> {<<"startup">>})
=============================================================================
