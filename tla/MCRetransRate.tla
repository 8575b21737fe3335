--------------------------- MODULE MCRetransRate ---------------------------
(* Two connections and two peers, a ring of two intervals, so that it      *)
(* wraps within the passes the bound on events leaves room for, and a      *)
(* small word, so that a wrapped difference differs from all others.       *)
EXTENDS RetransRate

=============================================================================
