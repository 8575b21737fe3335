-------------------------- MODULE MCPacingControl --------------------------
(* The source side on a small instance: two children that overlap, one     *)
(* child at a time and an operator who sends commands, or the Kafka        *)
(* consumer and the operator, each beside the idle branch.                 *)
EXTENDS PacingControl

=============================================================================
