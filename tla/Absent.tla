------------------------------- MODULE Absent -------------------------------
(* The value of a table's entry, a map's entry or a field that is not there. *)
CONSTANT NoRow
=============================================================================
