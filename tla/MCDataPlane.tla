----------------------------- MODULE MCDataPlane -----------------------------
(* TLC instances of DataPlane.                                               *)
EXTENDS DataPlane, TLC

CONSTANTS i1, i2, d1, d2

Call(kind, instance, names) == [kind |-> kind, instance |-> instance, names |-> names]

(* Everything that may be asked of one instance.                             *)
AllRequests ==
  {Call("start", i1, {d1, d2}), Call("stop", i1, {}), Call("dropInstance", i1, {}),
   Call("openDatabase", i1, {d2}), Call("dropDatabase", i1, {d2})}

(* Two instances that compete for ports.                                     *)
PortRequests ==
  {Call("start", i1, {d1}), Call("start", i2, {d1}), Call("stop", i1, {})}

Symmetry == Permutations(Requesters)
=============================================================================
