----------------------------- MODULE MCLocalIPAM -----------------------------
(***************************************************************************)
(* Small instances of LocalIPAM: blocks of two or three addresses, one of  *)
(* which may be the gateway of the network, and two or three attachments,  *)
(* each of a container of its own (Apart) or of one (Together).            *)
(***************************************************************************)
EXTENDS LocalIPAM, TLC

CONSTANTS a1, a2, a3, c1, c2, c3

Apart    == (a1 :> c1) @@ (a2 :> c2) @@ (a3 :> c3)
Together == (a1 :> c1) @@ (a2 :> c1)
Two      == (a1 :> c1) @@ (a2 :> c2)

Low  == [lo |-> 1, hi |-> 2]
High == [lo |-> 3, hi |-> 4]
Top  == [lo |-> 5, hi |-> 6]
Wide == [lo |-> 1, hi |-> 3]
Four == [lo |-> 1, hi |-> 4]

LowOnly  == {Low}
LowHigh  == {Low, High}
LowHighTop == {Low, High, Top}
WideOnly == {Wide}
FourOnly == {Four}

NoCache   == << >>
CacheLow  == <<Low>>
CacheBoth == <<Low, High>>
CacheWide == <<Wide>>
CacheFour == <<Four>>

NoFiles     == {<< >>}
TwoGateways ==
  {(1 :> [cid |-> GatewayId, ifn |-> GatewayId, sub |-> 1]) @@
   (2 :> [cid |-> GatewayId, ifn |-> GatewayId, sub |-> 2])}
NoneOrTwo   == NoFiles \cup TwoGateways

FirstIsPrefix == {<<a1, a2>>}
=============================================================================
