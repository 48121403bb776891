----------------------------- MODULE MCVxlanFdb -------------------------------
(***************************************************************************)
(* Two nodes on one VXLAN and an address to spare.                         *)
(***************************************************************************)
EXTENDS VxlanFdb, FiniteSets

CONSTANTS n1, n2, a1, a2, a3

(* The nodes start with different addresses; which ones makes no          *)
(* difference.                                                             *)
OwnAddress == (n1 :> a1) @@ (n2 :> a2)
=============================================================================
