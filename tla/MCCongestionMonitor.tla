------------------------ MODULE MCCongestionMonitor ------------------------
(* The destination side on a small instance: one flow, a queue of one      *)
(* message (so that the sampling thread, a handler and the idle branch can *)
(* be held up at a full ring), and either two handlers at once on a link   *)
(* that falls idle, or an operator who sends commands.                     *)
EXTENDS CongestionMonitor

=============================================================================
