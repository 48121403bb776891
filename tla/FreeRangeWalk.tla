---------------------------- MODULE FreeRangeWalk ----------------------------
(***************************************************************************)
(* The loop of ipamGetFreeIPRange, one key at a time, over tables that     *)
(* grants, leases made under another configuration and deletions lead to.  *)
(* FreeRange gives the loop in closed form, and everything else is built   *)
(* on that: here the two are compared, and the loop with a definition of   *)
(* first fit that knows nothing of it.                                     *)
(*                                                                         *)
(* The loop goes through the answer of one Get, so that it is of no        *)
(* importance when the table changes meanwhile: here it does between walks.*)
(***************************************************************************)
EXTENDS FreeRange, FiniteSets

CONSTANTS
  Confs,            \* range configurations
  BitSizes,         \* applyUnit values in use
  MaxLeases         \* bound on the keys of a table

ASSUME WalkAssumption ==
  /\ Confs \subseteq Conf
  /\ BitSizes \subseteq 0..(W - 1)
  /\ MaxLeases \in Nat

VARIABLES
  conf, bits,       \* the range of the network and the size of its blocks
  leases,           \* the keys of the network in etcd
  pc, left, last    \* the walk: where it is, the keys to come, and `last'

tableVars == <<conf, bits, leases>>
walkVars  == <<pc, left, last>>
vars == <<tableVars, walkVars>>

Init ==
  /\ conf \in Confs
  /\ bits \in BitSizes
  /\ leases = {}
  /\ pc = "idle" /\ left = {} /\ last = 0

-----------------------------------------------------------------------------
(* The table between walks: a lease of the same network made under another *)
(* configuration, and the lease of a node that has left.                   *)
Foreign(k) ==
  /\ pc = "idle"
  /\ Cardinality(leases) < MaxLeases
  /\ leases' = leases \cup {k}
  /\ UNCHANGED <<conf, bits, walkVars>>

Delete(k) ==
  /\ pc = "idle"
  /\ leases' = leases \ {k}
  /\ UNCHANGED <<conf, bits, walkVars>>

(* The keys of the network are read.                                       *)
Get ==
  /\ pc = "idle"
  /\ pc' = "walk"
  /\ left' = leases
  /\ last' = FirstUsable(conf)
  /\ UNCHANGED tableVars

(* The loop, at the key that is next.                                      *)
Key == FirstKey(left)
Valid == Key.start # 0 /\ Key.start <= conf.rangeEnd
Gap == Minus(Key.start, last)

Skip ==
  /\ pc = "walk" /\ left # {}
  /\ ~Valid
  /\ left' = left \ {Key}
  /\ UNCHANGED <<tableVars, pc, last>>

(* Mutant: a gap that fits a block exactly is passed over.                 *)
StepOver_Exact ==
  /\ pc = "walk" /\ left # {}
  /\ Valid /\ Gap <= 2^bits
  /\ left' = left \ {Key}
  /\ last' = Plus(Smaller(KeyRange(Key).hi, conf.rangeEnd), 1)
  /\ UNCHANGED <<tableVars, pc>>

StepOver ==
  /\ pc = "walk" /\ left # {}
  /\ Valid /\ Gap < 2^bits
  /\ left' = left \ {Key}
  /\ last' = Plus(Smaller(KeyRange(Key).hi, conf.rangeEnd), 1)
  /\ UNCHANGED <<tableVars, pc>>

Break ==
  /\ pc = "walk" /\ left # {}
  /\ Valid /\ Gap >= 2^bits
  /\ pc' = "end"
  /\ UNCHANGED <<tableVars, left, last>>

NoMore ==
  /\ pc = "walk" /\ left = {}
  /\ pc' = "end"
  /\ UNCHANGED <<tableVars, left, last>>

(* The last test, and the block that is returned when it holds.            *)
Room == Minus(conf.rangeEnd, last) >= 2^bits - 1
Found == [lo |-> last, hi |-> Plus(last, 2^bits - 1)]

Return ==
  /\ pc = "end"
  /\ pc' = "idle" /\ left' = {} /\ last' = 0

Grant ==
  /\ Room
  /\ Cardinality(leases) < MaxLeases
  /\ leases' = leases \cup {RangeKey(Found)}
  /\ Return
  /\ UNCHANGED <<conf, bits>>

(* No room, or the caller does not get its key into etcd.                  *)
Fail == Return /\ UNCHANGED tableVars

Next ==
  \/ \E s \in Address, b \in BitSizes : Foreign([start |-> s, bits |-> b])
  \/ \E k \in leases : Delete(k)
  \/ Get \/ Skip \/ StepOver \/ Break \/ NoMore \/ Grant \/ Fail

Spec == Init /\ [][Next]_vars

-----------------------------------------------------------------------------
(* The blocks of the right size that meet no lease and lie in the range.   *)
Windows ==
  {w \in {[lo |-> a, hi |-> a + 2^bits - 1] : a \in Address} :
     Inside(w, conf) /\ \A k \in leases : Disjoint(w, KeyRange(k))}

(* The closed form of the walk is the loop of ipamGetFreeIPRange, on every *)
(* table, those it was never meant for included: both come to the same     *)
(* block, and to the same verdict.                                         *)
WalkIsLoop ==
  pc = "end" =>
    /\ FreeBlock(leases, conf, bits) = Found
    /\ Fits(leases, conf, bits) <=> Room

(* On a well-formed table ipamGetFreeIPRange is first fit: it grants the   *)
(* lowest free block inside the range, and reports an error only when      *)
(* there is none.                                                          *)
FirstFit ==
  pc = "end" /\ WellFormed(leases, conf) =>
    IF Room THEN Found \in Windows /\ \A w \in Windows : last <= w.lo
            ELSE Windows = {}
=============================================================================
