----------------------------- MODULE MCFreeRange -----------------------------
(***************************************************************************)
(* Four ranges of 4-bit addresses: one from address 0 on, one that blocks  *)
(* leave an address of, one they fill exactly, and one that reaches the    *)
(* last address there is and starts at the third of its subnet.            *)
(***************************************************************************)
EXTENDS FreeRangeWalk

MCConfs ==
  {[rangeStart |-> c[1], rangeEnd |-> c[2], subnet |-> c[3]] :
     c \in {<<0, 6, 0>>, <<3, 12, 0>>, <<3, 10, 0>>, <<4, 15, 2>>}}
=============================================================================
