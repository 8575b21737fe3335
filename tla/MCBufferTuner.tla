--------------------------- MODULE MCBufferTuner ---------------------------
(* The search on a device whose good rate is 9.7 Gb/s: idle, below one     *)
(* gigabit, two rates that are too low, and a good one; a buffer that is   *)
(* found below the lowest size the search goes down to, or that the        *)
(* recommended size lets grow by two changes; three changes without a      *)
(* better rate end the search; and the operator may set the recommended    *)
(* size at any time.                                                       *)
EXTENDS BufferTuner

=============================================================================
