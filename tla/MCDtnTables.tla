---------------------------- MODULE MCDtnTables ----------------------------
(* Instances of DtnTables for TLC: the peers are model values. *)
EXTENDS DtnTables

CONSTANTS p1, p2

=============================================================================
