------------------------------ MODULE FreeRange ------------------------------
(***************************************************************************)
(* The arithmetic of multus-ipam's range leases: address ranges, the etcd  *)
(* keys that name them, and the walk that looks for a free block in the    *)
(* keys of a network (ipamGetFreeIPRange).  Addresses are uint32 in the    *)
(* code; here they have W bits, so that every wrap-around is kept.         *)
(*                                                                         *)
(* The walk is written in closed form instead of as a loop: `Walked' is    *)
(* the set of keys the loop steps over before it breaks and `After' the    *)
(* value of its variable `last' once it has stepped over a set of keys.    *)
(* FreeRangeWalk compares the closed form with the loop itself.            *)
(***************************************************************************)
EXTENDS Integers

CONSTANT W          \* width of an address in bits, 32 in the code

(***************************************************************************)
(* W is a width, and powers of two are positive and at least double from   *)
(* one exponent to the next: the fact of arithmetic the lemmas about block *)
(* sizes need, evaluated by TLC for the W of each run.                     *)
(***************************************************************************)
ASSUME WidthAssumption ==
  /\ W \in Nat
  /\ \A a \in 0..W : 2^a \in Nat /\ 2^a >= 1
  /\ \A a, b \in 0..W : a < b => 2 * 2^a <= 2^b

M == 2^W

Address == 0 .. (M - 1)

Plus(a, b)  == (a + b) % M
Minus(a, b) == (a - b) % M

Smaller(a, b) == IF a <= b THEN a ELSE b
Larger(a, b)  == IF a >= b THEN a ELSE b

-----------------------------------------------------------------------------
(* Ranges of addresses: allocator.SimpleRange.                             *)

SimpleRange == [lo : Address, hi : Address]

(* Whether an end of r lies in r1.  The code asks nothing else: an r that  *)
(* properly surrounds r1 does not "overlap" it.                            *)
Overlaps(r, r1) == \/ r1.lo <= r.lo /\ r.lo <= r1.hi
                   \/ r1.lo <= r.hi /\ r.hi <= r1.hi

Match(r, r1) == r.lo = r1.lo /\ r.hi = r1.hi

(* The floor of the binary logarithm of the number of addresses of r.      *)
HostSize(r) ==
  LET size == Plus(Minus(r.hi, r.lo), 1)
  IN  CHOOSE n \in 0..W : 2^n <= size /\ size < 2 * 2^n

(* What remains of r when FlashCache has written it to the cache file: the *)
(* largest power of two of addresses that fits.                            *)
Canonicalize(r) ==
  [r EXCEPT !.hi = Minus(Plus(r.lo, 2^HostSize(r)), 1)]

-----------------------------------------------------------------------------
(* Keys <network>/<start>-<bits> under the lease directory of etcd.        *)

LeaseKey == [start : Address, bits : 0..(W - 1)]

KeyRange(k) == [lo |-> k.start, hi |-> Minus(Plus(k.start, 2^k.bits), 1)]

(* The ranges that keys name.                                              *)
Block == {KeyRange(k) : k \in LeaseKey}

RangeKey(r) == [start |-> r.lo, bits |-> HostSize(r)]

(* etcd returns the keys in the order of their text "%010d-%d": by start,  *)
(* and by the decimal digits of bits, where "10" is before "2".            *)
DigitRank(n) == IF n < 10 THEN 100 * n ELSE 100 * (n \div 10) + 1 + (n % 10)

Precedes(j, k) ==
  \/ j.start < k.start
  \/ j.start = k.start /\ DigitRank(j.bits) < DigitRank(k.bits)

-----------------------------------------------------------------------------
(* ipamGetFreeIPRange over the keys L of a network, for a range conf of    *)
(* its configuration and blocks of 2^bits addresses.                       *)

Conf == [rangeStart : Address, rangeEnd : Address, subnet : Address]

(* rips: the first two addresses of the subnet are never leased.           *)
FirstUsable(conf) == Larger(conf.rangeStart, Plus(conf.subnet, 2))

(* Mutant: a key at the last address is skipped too.                       *)
Considered_Strict(L, conf) == {k \in L : k.start # 0 /\ k.start < conf.rangeEnd}

(* The keys the loop looks at; the others it skips as "Invalid Key".       *)
Considered(L, conf) == {k \in L : k.start # 0 /\ k.start <= conf.rangeEnd}

Before(k, S) == {j \in S : Precedes(j, k)}

FirstKey(S) == CHOOSE k \in S : \A j \in S \ {k} : Precedes(k, j)

LastKey(S) == CHOOSE k \in S : \A j \in S \ {k} : Precedes(j, k)

(* Mutant: the loop goes on from the last address of a lease.              *)
After_NoStep(S, conf) ==
  IF S = {} THEN FirstUsable(conf)
            ELSE Smaller(KeyRange(LastKey(S)).hi, conf.rangeEnd)

(* The loop's variable last once it has stepped over the keys S.           *)
After(S, conf) ==
  IF S = {} THEN FirstUsable(conf)
            ELSE Plus(Smaller(KeyRange(LastKey(S)).hi, conf.rangeEnd), 1)

(* The keys at which the loop would break: room for a block before them.   *)
Gaps(L, conf, bits) ==
  LET C == Considered(L, conf)
  IN  {k \in C : Minus(k.start, After(Before(k, C), conf)) >= 2^bits}

(* The keys before the first of the gaps.                                  *)
Walked(L, conf, bits) ==
  {k \in Considered(L, conf) :
     \A j \in Gaps(L, conf, bits) : j # k /\ ~Precedes(j, k)}

FreeStart(L, conf, bits) == After(Walked(L, conf, bits), conf)

(* The function's last test: an error when it is false.                    *)
Fits(L, conf, bits) ==
  Minus(conf.rangeEnd, FreeStart(L, conf, bits)) >= 2^bits - 1

FreeBlock(L, conf, bits) ==
  [lo |-> FreeStart(L, conf, bits),
   hi |-> Plus(FreeStart(L, conf, bits), 2^bits - 1)]

-----------------------------------------------------------------------------
(* What a caller of the walk relies on.                                    *)

Disjoint(r, s) == r.hi < s.lo \/ s.hi < r.lo

Inside(r, conf) == FirstUsable(conf) <= r.lo /\ r.lo <= r.hi /\ r.hi <= conf.rangeEnd

(* No lease reaches past the last address but one of the range, none that  *)
(* the walk considers starts before its first, none wraps around and no    *)
(* two overlap: the tables for which the walk is sound.                    *)
WellFormed(L, conf) ==
  /\ FirstUsable(conf) <= conf.rangeEnd
  /\ \A k \in L : KeyRange(k).lo <= KeyRange(k).hi
  /\ \A k \in Considered(L, conf) : /\ FirstUsable(conf) <= k.start
                                    /\ KeyRange(k).hi < conf.rangeEnd
  /\ 0 \notin {k.start : k \in L}
  /\ \A j, k \in L : j # k => Disjoint(KeyRange(j), KeyRange(k))

=============================================================================
