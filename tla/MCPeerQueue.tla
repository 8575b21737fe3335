---------------------------- MODULE MCPeerQueue ----------------------------
(* The ring on small instances: an enqueuing thread, two timer handlers    *)
(* that can interrupt it or the sending thread, a ring of three slots (two *)
(* messages).  Every way to fill the ring, to find it empty and to wrap    *)
(* its indices occurs.                                                     *)
EXTENDS PeerQueue

=============================================================================
