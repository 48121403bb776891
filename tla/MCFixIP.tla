------------------------------- MODULE MCFixIP --------------------------------
(***************************************************************************)
(* Small instances of FixIP: two pods in one network, or in two networks   *)
(* of which one has a name that begins with the other's; two usable        *)
(* addresses and one below them for which there may be keys from before    *)
(* the range was changed.                                                  *)
(***************************************************************************)
EXTENDS FixIP, TLC

CONSTANTS p1, p2

Single == [n \in Net |-> {}]
Nested == [n \in Net |-> IF n = "net1" THEN {"net10"} ELSE {}]

Names == [n \in Net |-> IF n = "net1" THEN 1 ELSE 2]

Small == [n \in Net |-> [lo |-> 3, hi |-> 4, subnet |-> 0]]

AllIn(n) == Pod \X {n}
InNet1 == AllIn("net1")
InBoth == AllIn("net1") \cup AllIn("net10")

OneOrTwo == [a \in Att |-> IF a[1] = p1 THEN 2 ELSE 1]
OneOf == [a \in Att |-> 1]

Empty == [k \in Key |-> None]
OldKey == [Empty EXCEPT ![<<"net1", 2>>] = <<p1, 1>>]
Clean == {Empty}
MaybeOld == {Empty, OldKey}
=============================================================================
