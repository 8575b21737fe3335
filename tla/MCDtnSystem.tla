---------------------------- MODULE MCDtnSystem ----------------------------
(* Two sources, of which one is watched, so that messages also go to the   *)
(* other; a queue of one message; and two messages queued, under way or at *)
(* work at once, so that they overtake each other and their children       *)
(* overlap.  Both ends may be started again at any time.                   *)
EXTENDS DtnSystem

=============================================================================
