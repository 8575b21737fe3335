---------------------------- MODULE MCHpnMailbox ----------------------------
(* Instances of HpnMailbox for TLC: the clients are model values. *)
EXTENDS HpnMailbox, TLC

CONSTANTS c1, c2

(* One client asks now and then, the other wants to be kept informed. *)
AsksOfTwo == (c1 :> {"READ"}) @@ (c2 :> {"READALL"})

(* The connection of the first breaks, that of the other is closed. *)
EndsOfTwo == (c1 :> {"reset"}) @@ (c2 :> {"closed"})

=============================================================================
