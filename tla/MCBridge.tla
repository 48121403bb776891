------------------------------- MODULE MCBridge ------------------------------
(***************************************************************************)
(* Small instances of Bridge: networks that share a bridge, because they   *)
(* have one master and no brName.                                          *)
(***************************************************************************)
EXTENDS Bridge, TLC

CONSTANTS c1, c2, c3, a1, a2, a3

TwoAndOne == (c1 :> "red") @@ (c2 :> "red") @@ (c3 :> "blue")

Red  == [name |-> "red", brName |-> "eth0", vlan |-> 7, isGW |-> TRUE,
         force |-> FALSE, l3 |-> TRUE, masq |-> TRUE, pool |-> {a1, a2},
         gateway |-> "redgw"]
Blue == [Red EXCEPT !.name = "blue", !.masq = FALSE, !.pool = {a3},
                    !.gateway = "bluegw"]

One  == c1 :> "red"
Each == (c1 :> "red") @@ (c2 :> "blue")

Shared == [n \in Net |-> IF n = "red" THEN Red ELSE Blue]
=============================================================================
