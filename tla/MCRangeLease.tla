----------------------------- MODULE MCRangeLease ----------------------------
(***************************************************************************)
(* Small instances of RangeLease: one or two nodes, blocks of two          *)
(* addresses, and a range that holds three blocks with an address to       *)
(* spare, two with one to spare, or exactly three.  OldUnit is a cache     *)
(* from when blocks had four addresses.                                    *)
(***************************************************************************)
EXTENDS RangeLease

CONSTANTS n1, n2, w1, w2, w3

Solo     == w1 :> n1
OneEach  == (w1 :> n1) @@ (w2 :> n2)
Pair     == (w1 :> n1) @@ (w2 :> n1)
TwoOnOne == (w1 :> n1) @@ (w2 :> n1) @@ (w3 :> n2)

NoneLeft == [n \in Node |-> << >>]
OldUnit  == [n \in Node |-> IF n = n1 THEN <<[lo |-> 3, hi |-> 6]>> ELSE << >>]
=============================================================================
