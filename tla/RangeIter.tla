------------------------------ MODULE RangeIter ------------------------------
(***************************************************************************)
(* The iterator of multus-ipam's allocator over the addresses of a range   *)
(* set (allocator.RangeIter), a sequence of ranges [lo, hi].  One call of  *)
(* Next is an operator on the iterator; where the code calls itself to     *)
(* skip an address, the caller here goes on with another call.             *)
(***************************************************************************)
EXTENDS Integers, Sequences

CONSTANTS
  Gateway,          \* the gateway of the network's range
  Reserves,         \* its reserved addresses
  NoIP              \* nil

InRange(r, ip) == r.lo <= ip /\ ip <= r.hi

Has(rs, ip) == \E i \in DOMAIN rs : InRange(rs[i], ip)

(* The addresses of a range set.                                           *)
Addresses(rs) == UNION {rs[i].lo .. rs[i].hi : i \in DOMAIN rs}

(* Mutant: the search starts at the first address each time.               *)
GetIter_First(rs, last) == [idx |-> 1, cur |-> NoIP, startIP |-> rs[1].lo, startRange |-> 1]

(* GetIter starts behind the address reserved last, when the range set has *)
(* it, and at the first address otherwise.                                 *)
GetIter(rs, last) ==
  IF last # NoIP /\ Has(rs, last)
    THEN LET i == CHOOSE i \in DOMAIN rs :
                    /\ InRange(rs[i], last)
                    /\ \A j \in DOMAIN rs : InRange(rs[j], last) => i <= j
         IN  [idx |-> i, cur |-> last, startIP |-> NoIP, startRange |-> i]
    ELSE [idx |-> 1, cur |-> NoIP, startIP |-> rs[1].lo, startRange |-> 1]

(* Where a call of Next takes the iterator.                                *)
Advance(rs, it) ==
  LET i  == IF it.cur = rs[it.idx].hi THEN (it.idx % Len(rs)) + 1 ELSE it.idx
      ip == IF it.cur = rs[it.idx].hi THEN rs[i].lo ELSE it.cur + 1
  IN  [idx |-> i, cur |-> ip, startRange |-> it.startRange,
       startIP |-> IF it.startIP = NoIP THEN ip ELSE it.startIP]

Moved(rs, it) ==
  IF it.cur = NoIP
    THEN [it EXCEPT !.cur = rs[it.idx].lo, !.startIP = rs[it.idx].lo]
    ELSE Advance(rs, it)

(* Mutants: the iterator gives up one address early, or never.             *)
Looped_Early(rs, it) ==
  /\ it.cur # NoIP /\ it.startIP # NoIP
  /\ Moved(rs, Moved(rs, it)).cur = it.startIP

Looped_Never(rs, it) == FALSE

(* Next returns nil: it is back in the range it started from and at the    *)
(* address it came to first.                                               *)
Looped(rs, it) ==
  /\ it.cur # NoIP /\ it.startIP # NoIP
  /\ Moved(rs, it).idx = it.startRange
  /\ Moved(rs, it).cur = it.startIP

(* Next goes on at once: reserved addresses are looked at in its first     *)
(* call alone.                                                             *)
Skipped(rs, it) ==
  \/ Moved(rs, it).cur = Gateway
  \/ it.cur = NoIP /\ Moved(rs, it).cur \in Reserves
=============================================================================
