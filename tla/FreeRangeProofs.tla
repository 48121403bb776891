--------------------------- MODULE FreeRangeProofs ---------------------------
(***************************************************************************)
(* What the walk of ipamGetFreeIPRange promises, for every address width,  *)
(* range, block size and lease table.                                      *)
(***************************************************************************)
EXTENDS FreeRange, WellFoundedInduction, TLAPS

-----------------------------------------------------------------------------
(* Least and greatest numbers, which the walk over keys is about.          *)

(* A set of natural numbers that is not empty has a least element.         *)
LEMMA LeastNat ==
  ASSUME NEW T \in SUBSET Nat, T # {}
  PROVE  \E x \in T : \A y \in T : x <= y
<1> DEFINE Less == {ss \in Nat \X Nat : ss[1] < ss[2]}
<1>1. IsWellFoundedOn(Less, Nat)
  BY NatLessThanWellFounded DEF OpToRel
<1>2. \A x, y \in Nat : <<y, x>> \in Less \/ x <= y
  OBVIOUS
<1> HIDE DEF Less
<1>3. PICK x \in T : \A y \in T : <<y, x>> \notin Less
  BY <1>1, WFMin
<1> QED BY <1>2, <1>3
(* One that has an upper bound has a greatest element.                     *)
LEMMA GreatestNat ==
  ASSUME NEW N \in Nat, NEW T \in SUBSET (0..N), T # {}
  PROVE  \E x \in T : \A y \in T : y <= x
<1> DEFINE U == {N - x : x \in T}
<1>1. U \in SUBSET Nat /\ U # {}
  <2>1. \A x \in T : N - x \in Nat
    OBVIOUS
  <2>2. U # {}
    OBVIOUS
  <2> QED BY <2>1, <2>2
<1>2. PICK u \in U : \A v \in U : u <= v
  BY <1>1, LeastNat
<1>3. PICK x \in T : u = N - x
  BY <1>2
<1>4. ASSUME NEW y \in T PROVE y <= x
  <2>1. N - y \in U
    OBVIOUS
  <2>2. N - x <= N - y
    BY <2>1, <1>2, <1>3
  <2> QED BY <2>2
<1> QED BY <1>4

-----------------------------------------------------------------------------
(* Arithmetic modulo a number, as uint32 does it.                          *)

(* A value in range is its own remainder, a small negative one wraps once, *)
(* and every remainder is in range.                                        *)
LEMMA ModFacts ==
  ASSUME NEW m \in Nat, m > 0
  PROVE  /\ \A x \in 0..(m - 1) : x % m = x
         /\ \A x \in (-m)..(-1) : x % m = x + m
         /\ \A x \in Int : x % m \in 0..(m - 1)
<1>1. ASSUME NEW x \in 0..(m - 1) PROVE x % m = x
  OBVIOUS
<1>2. ASSUME NEW x \in (-m)..(-1) PROVE x % m = x + m
  OBVIOUS
<1>3. ASSUME NEW x \in Int PROVE x % m \in 0..(m - 1)
  OBVIOUS
<1> QED BY <1>1, <1>2, <1>3

(* Addresses: 0 to M - 1, with M positive.                                 *)
LEMMA MFacts == M \in Nat /\ M > 0 /\ Address = 0..(M - 1)
<1>1. W \in 0..W
  BY WidthAssumption
<1> QED BY <1>1, WidthAssumption DEF M, Address

(* Plus and Minus stay among the addresses and, when nothing wraps, they   *)
(* are + and -.                                                            *)
LEMMA PlusMinus ==
  ASSUME NEW a \in Int, NEW b \in Int
  PROVE  /\ Plus(a, b) \in Address
         /\ Minus(a, b) \in Address
         /\ a + b \in Address => Plus(a, b) = a + b
         /\ a - b \in Address => Minus(a, b) = a - b
<1>1. a + b \in Int /\ a - b \in Int
  OBVIOUS
<1>2. (a + b) % M \in 0..(M - 1) /\ (a - b) % M \in 0..(M - 1)
  BY <1>1, MFacts, ModFacts
<1>3. a + b \in 0..(M - 1) => (a + b) % M = a + b
  BY MFacts, ModFacts
<1>4. a - b \in 0..(M - 1) => (a - b) % M = a - b
  BY MFacts, ModFacts
<1> QED BY <1>2, <1>3, <1>4, MFacts DEF Plus, Minus

-----------------------------------------------------------------------------
(* The order of the keys.                                                  *)

(* The rank of the digits of bits tells bit sizes apart.                   *)
LEMMA DigitRankFacts ==
  ASSUME NEW a \in Nat, NEW b \in Nat
  PROVE  /\ DigitRank(a) \in Nat
         /\ DigitRank(a) <= 100 * a + 100
         /\ DigitRank(a) = DigitRank(b) => a = b
  BY DEF DigitRank

(* Precedes is a strict total order on the keys.                           *)
LEMMA PrecedesOrder ==
  ASSUME NEW j \in LeaseKey, NEW k \in LeaseKey
  PROVE  /\ ~(Precedes(j, k) /\ Precedes(k, j))
         /\ j # k => Precedes(j, k) \/ Precedes(k, j)
         /\ \A l \in LeaseKey : Precedes(j, k) /\ Precedes(k, l) => Precedes(j, l)
<1> USE MFacts
<1>1. ASSUME NEW x \in LeaseKey
      PROVE  x.start \in Nat /\ x.bits \in Nat /\ DigitRank(x.bits) \in Nat
  BY WidthAssumption, DigitRankFacts DEF LeaseKey
<1>2. j # k => j.start # k.start \/ j.bits # k.bits
  BY DEF LeaseKey
<1>3. j.bits # k.bits => DigitRank(j.bits) # DigitRank(k.bits)
  BY <1>1, DigitRankFacts
<1> QED BY <1>1, <1>2, <1>3 DEF Precedes

(* FirstKey and LastKey of a set of keys that is not empty are what their  *)
(* names say.                                                              *)
LEMMA FirstKeyExists ==
  ASSUME NEW S \in SUBSET LeaseKey, S # {}
  PROVE  /\ FirstKey(S) \in S
         /\ \A j \in S \ {FirstKey(S)} : Precedes(FirstKey(S), j)
<1>1. ASSUME NEW x \in LeaseKey
      PROVE  x.start \in Nat /\ x.bits \in Nat /\ DigitRank(x.bits) \in Nat
  BY WidthAssumption, DigitRankFacts, MFacts DEF LeaseKey
<1> DEFINE Starts == {k.start : k \in S}
<1>2. PICK s \in Starts : \A t \in Starts : s <= t
  <2>1. Starts \in SUBSET Nat /\ Starts # {}
    BY <1>1
  <2> QED BY <2>1, LeastNat
<1> DEFINE Ranks == {DigitRank(k.bits) : k \in {x \in S : x.start = s}}
<1>3. PICK r \in Ranks : \A t \in Ranks : r <= t
  <2>1. Ranks \in SUBSET Nat /\ Ranks # {}
    BY <1>1, <1>2
  <2> QED BY <2>1, LeastNat
<1>4. PICK k \in S : k.start = s /\ DigitRank(k.bits) = r
  BY <1>3
<1>5. ASSUME NEW j \in S \ {k} PROVE Precedes(k, j)
  <2>1. s <= j.start
    BY <1>2
  <2>2. j.start = s => r <= DigitRank(j.bits)
    BY <1>3
  <2>3. ~Precedes(j, k)
    BY <2>1, <2>2, <1>1, <1>4 DEF Precedes
  <2> QED BY <2>3, PrecedesOrder
<1>6. \E x \in S : \A j \in S \ {x} : Precedes(x, j)
  BY <1>5
<1> QED BY <1>6 DEF FirstKey

(* The last key of a set of keys: the same, the other way round.           *)
LEMMA LastKeyExists ==
  ASSUME NEW S \in SUBSET LeaseKey, S # {}
  PROVE  /\ LastKey(S) \in S
         /\ \A j \in S \ {LastKey(S)} : Precedes(j, LastKey(S))
<1>1. ASSUME NEW x \in LeaseKey
      PROVE  /\ x.start \in 0..(M - 1) /\ x.bits \in Nat
             /\ DigitRank(x.bits) \in 0..(100 * W + 100)
  <2>1. x.start \in 0..(M - 1) /\ x.bits \in Nat /\ x.bits <= W
    BY WidthAssumption, MFacts DEF LeaseKey
  <2> QED BY <2>1, DigitRankFacts, WidthAssumption
<1> DEFINE Starts == {k.start : k \in S}
<1>2. PICK s \in Starts : \A t \in Starts : t <= s
  <2>1. Starts \in SUBSET (0..(M - 1)) /\ Starts # {} /\ M - 1 \in Nat
    BY <1>1, MFacts
  <2> QED BY <2>1, GreatestNat
<1> DEFINE Ranks == {DigitRank(k.bits) : k \in {x \in S : x.start = s}}
<1>3. PICK r \in Ranks : \A t \in Ranks : t <= r
  <2>1. Ranks \in SUBSET (0..(100 * W + 100)) /\ Ranks # {} /\ 100 * W + 100 \in Nat
    BY <1>1, <1>2, WidthAssumption
  <2> QED BY <2>1, GreatestNat
<1>4. PICK k \in S : k.start = s /\ DigitRank(k.bits) = r
  BY <1>3
<1>5. ASSUME NEW j \in S \ {k} PROVE Precedes(j, k)
  <2>1. j.start <= s
    BY <1>2
  <2>2. j.start = s => DigitRank(j.bits) <= r
    BY <1>3
  <2>3. ~Precedes(k, j)
    BY <2>1, <2>2, <1>1, <1>4, MFacts DEF Precedes
  <2> QED BY <2>3, PrecedesOrder
<1>6. \E x \in S : \A j \in S \ {x} : Precedes(j, x)
  BY <1>5
<1> QED BY <1>6 DEF LastKey

-----------------------------------------------------------------------------
(* The walk.                                                               *)

(* What the lemmas below assume of a table, a range and a block size.      *)
Sound(L, c, bits) ==
  /\ L \in SUBSET LeaseKey
  /\ c \in Conf
  /\ bits \in 0..(W - 1)
  /\ WellFormed(L, c)

(* The size of a block is a positive number.                               *)
LEMMA BlockSize ==
  ASSUME NEW bits \in 0..(W - 1)
  PROVE  2^bits \in Nat /\ 2^bits >= 1
<1>1. bits \in 0..W
  BY WidthAssumption
<1> QED BY <1>1, WidthAssumption

(* The range that a key names is a range of addresses.                     *)
LEMMA KeyRangeType ==
  ASSUME NEW k \in LeaseKey
  PROVE  /\ k.start \in Address
         /\ KeyRange(k) = [lo |-> k.start, hi |-> KeyRange(k).hi]
         /\ KeyRange(k) \in SimpleRange
<1>1. k.start \in Address /\ k.bits \in 0..(W - 1)
  BY DEF LeaseKey
<1>2. k.start \in Int /\ 2^k.bits \in Int
  BY <1>1, BlockSize, MFacts
<1>3. Plus(k.start, 2^k.bits) \in Int
  <2>1. Plus(k.start, 2^k.bits) \in Address
    BY <1>2, PlusMinus
  <2> QED BY <2>1, MFacts
<1>4. Minus(Plus(k.start, 2^k.bits), 1) \in Address
  BY <1>3, PlusMinus
<1> QED BY <1>1, <1>4 DEF KeyRange, SimpleRange

(* The ends of the range of a network are addresses.                       *)
LEMMA ConfType ==
  ASSUME NEW c \in Conf
  PROVE  /\ FirstUsable(c) \in Address
         /\ c.rangeEnd \in Address
<1>1. c.rangeStart \in Address /\ c.rangeEnd \in Address /\ c.subnet \in Int
  BY MFacts DEF Conf
<1>2. Plus(c.subnet, 2) \in Address
  BY <1>1, PlusMinus
<1> QED BY <1>1, <1>2 DEF FirstUsable, Larger

(* A key that the walk considers lies within the range.                    *)
LEMMA ConsideredFacts ==
  ASSUME NEW L, NEW c, NEW bits, Sound(L, c, bits), NEW k \in Considered(L, c)
  PROVE  /\ k \in LeaseKey
         /\ k.start \in Nat
         /\ KeyRange(k).hi \in Nat
         /\ KeyRange(k).lo = k.start
         /\ FirstUsable(c) <= k.start
         /\ k.start <= KeyRange(k).hi
         /\ KeyRange(k).hi < c.rangeEnd
<1>1. k \in LeaseKey
  BY DEF Sound, Considered
<1>2. KeyRange(k).lo = k.start /\ k.start \in Nat /\ KeyRange(k).hi \in Nat
  BY <1>1, KeyRangeType, MFacts DEF SimpleRange
<1> QED BY <1>1, <1>2 DEF Sound, WellFormed, Considered

(* Of two keys that the walk considers, the first ends before the second   *)
(* starts.                                                                 *)
LEMMA EarlierEnds ==
  ASSUME NEW L, NEW c, NEW bits, Sound(L, c, bits),
         NEW j \in Considered(L, c), NEW k \in Considered(L, c), Precedes(j, k)
  PROVE  KeyRange(j).hi < k.start
<1>1. j.start <= k.start
  BY ConsideredFacts DEF Precedes
<1>2. j # k
  BY ConsideredFacts, PrecedesOrder
<1>3. Disjoint(KeyRange(j), KeyRange(k))
  BY <1>2 DEF Sound, WellFormed, Considered
<1> QED BY <1>1, <1>3, ConsideredFacts DEF Disjoint

(* Once the loop has stepped over some keys, `last' is inside the range    *)
(* and behind all of them.                                                 *)
LEMMA AfterFacts ==
  ASSUME NEW L, NEW c, NEW bits, Sound(L, c, bits),
         NEW S \in SUBSET Considered(L, c)
  PROVE  /\ After(S, c) \in Address
         /\ FirstUsable(c) <= After(S, c)
         /\ After(S, c) <= c.rangeEnd
         /\ \A k \in S : KeyRange(k).hi < After(S, c)
         /\ S # {} => After(S, c) = KeyRange(LastKey(S)).hi + 1
<1>1. c \in Conf /\ FirstUsable(c) \in Address /\ c.rangeEnd \in Address
      /\ FirstUsable(c) <= c.rangeEnd
  BY ConfType DEF Sound, WellFormed
<1>2. CASE S = {}
  BY <1>1, <1>2, MFacts DEF After
<1>3. CASE S # {}
  <2> DEFINE p == LastKey(S)
  <2>1. S \in SUBSET LeaseKey
    BY DEF Considered, Sound
  <2>2. p \in S /\ \A j \in S \ {p} : Precedes(j, p)
    BY <1>3, <2>1, LastKeyExists
  <2>3. /\ KeyRange(p).hi \in Nat /\ p.start \in Nat
        /\ FirstUsable(c) <= p.start /\ p.start <= KeyRange(p).hi
        /\ KeyRange(p).hi < c.rangeEnd
    BY <2>2, ConsideredFacts
  <2>4. Smaller(KeyRange(p).hi, c.rangeEnd) = KeyRange(p).hi
    BY <1>1, <2>3, MFacts DEF Smaller
  <2>5. KeyRange(p).hi + 1 \in Address /\ KeyRange(p).hi \in Int
    BY <1>1, <2>3, MFacts
  <2>6. After(S, c) = KeyRange(p).hi + 1
    BY <1>3, <2>4, <2>5, PlusMinus DEF After
  <2>7. ASSUME NEW k \in S PROVE KeyRange(k).hi < After(S, c)
    <3>1. CASE k = p
      BY <3>1, <2>3, <2>6
    <3>2. CASE k # p
      <4>1. KeyRange(k).hi < p.start
        BY <3>2, <2>2, EarlierEnds
      <4>2. KeyRange(k).hi \in Nat
        BY ConsideredFacts
      <4> QED BY <4>1, <4>2, <2>3, <2>6
    <3> QED BY <3>1, <3>2
  <2> QED BY <1>1, <2>3, <2>5, <2>6, <2>7, MFacts
<1> QED BY <1>2, <1>3

(* The distance the loop measures before a key is a true distance.         *)
LEMMA GapMeasured ==
  ASSUME NEW L, NEW c, NEW bits, Sound(L, c, bits), NEW k \in Considered(L, c)
  PROVE  LET last == After(Before(k, Considered(L, c)), c)
         IN  last <= k.start /\ Minus(k.start, last) = k.start - last
<1> DEFINE C == Considered(L, c)
           S == Before(k, C)
           last == After(S, c)
<1>1. S \in SUBSET C /\ \A j \in S : Precedes(j, k)
  BY DEF Before
<1>2. last \in Address /\ (S # {} => last = KeyRange(LastKey(S)).hi + 1)
  BY <1>1, AfterFacts
<1>3. k.start \in Address
  BY ConsideredFacts, KeyRangeType
<1>4. last <= k.start
  <2>1. CASE S = {}
    BY <2>1, ConsideredFacts DEF After
  <2>2. CASE S # {}
    <3>1. LastKey(S) \in S
      BY <2>2, <1>1, LastKeyExists DEF Considered, Sound
    <3>2. KeyRange(LastKey(S)).hi < k.start /\ KeyRange(LastKey(S)).hi \in Nat
      BY <3>1, <1>1, EarlierEnds, ConsideredFacts
    <3> QED BY <3>2, <2>2, <1>2, <1>3, MFacts
  <2> QED BY <2>1, <2>2
<1>5. k.start - last \in Address /\ k.start \in Int /\ last \in Int
  BY <1>2, <1>3, <1>4, MFacts
<1> QED BY <1>4, <1>5, PlusMinus

(* Every key behind the place where the loop stops leaves room for a block *)
(* in front of it.                                                         *)
LEMMA StopsAtGap ==
  ASSUME NEW L, NEW c, NEW bits, Sound(L, c, bits),
         NEW k \in Considered(L, c) \ Walked(L, c, bits)
  PROVE  k.start - FreeStart(L, c, bits) >= 2^bits
<1> DEFINE C == Considered(L, c)
           S == Walked(L, c, bits)
           G == Gaps(L, c, bits)
           f == FirstKey(C \ S)
<1>1. C \in SUBSET LeaseKey /\ C \ S # {} /\ C \ S \in SUBSET LeaseKey
  BY DEF Considered, Sound
<1>2. f \in C \ S /\ \A j \in (C \ S) \ {f} : Precedes(f, j)
  BY <1>1, FirstKeyExists
<1>3. G \in SUBSET C /\ \A j \in G : j \notin S
  BY DEF Gaps, Walked
<1>4. f \in G
  <2>1. PICK j \in G : j = f \/ Precedes(j, f)
    BY <1>2 DEF Walked
  <2>2. j \in C \ S
    BY <1>3
  <2>3. j # f => Precedes(f, j)
    BY <2>2, <1>2
  <2>4. ~(Precedes(f, j) /\ Precedes(j, f))
    BY <2>2, <1>1, <1>2, PrecedesOrder
  <2> QED BY <2>1, <2>3, <2>4
<1>5. Before(f, C) = S
  <2>1. ASSUME NEW j \in S PROVE j \in Before(f, C)
    <3>1. j \in C /\ f # j /\ ~Precedes(f, j)
      BY <1>4 DEF Walked
    <3>2. Precedes(j, f)
      BY <3>1, <1>1, <1>2, PrecedesOrder
    <3> QED BY <3>1, <3>2 DEF Before
  <2>2. ASSUME NEW j \in Before(f, C) PROVE j \in S
    <3>1. j \in C /\ Precedes(j, f)
      BY DEF Before
    <3>2. ~Precedes(f, j) /\ j # f
      BY <3>1, <1>1, <1>2, PrecedesOrder
    <3> QED BY <3>1, <3>2, <1>2
  <2> QED BY <2>1, <2>2
<1> DEFINE last == FreeStart(L, c, bits)
<1>6. last = After(Before(f, C), c)
  BY <1>5 DEF FreeStart
<1>7. f.start - last >= 2^bits
  <2>1. Minus(f.start, last) >= 2^bits
    BY <1>4, <1>6 DEF Gaps
  <2>2. Minus(f.start, last) = f.start - last
    BY <1>2, <1>6, GapMeasured
  <2> QED BY <2>1, <2>2
<1>8. f.start <= k.start
  <2>1. f = k \/ Precedes(f, k)
    BY <1>2
  <2> QED BY <2>1, <1>2, ConsideredFacts DEF Precedes
<1>9. last \in Nat
  <2>1. After(S, c) \in Address
    BY AfterFacts DEF Walked
  <2> QED BY <2>1, MFacts DEF FreeStart
<1>10. f.start \in Nat /\ k.start \in Nat /\ 2^bits \in Nat
  BY <1>2, ConsideredFacts, BlockSize DEF Sound
<1>11. k.start - last >= 2^bits
  <2> HIDE DEF last, f
  <2> QED BY <1>7, <1>8, <1>9, <1>10
<1> QED BY <1>11

(* On a well-formed table, whenever ipamGetFreeIPRange returns a block and *)
(* not an error, the block has 2^bits addresses, lies inside the range of  *)
(* the network without wrapping around, and is disjoint from every lease.  *)
THEOREM GrantSound ==
  ASSUME NEW L, NEW c, NEW bits, Sound(L, c, bits), Fits(L, c, bits)
  PROVE  LET b == FreeBlock(L, c, bits)
         IN  /\ b \in SimpleRange
             /\ b.hi = b.lo + 2^bits - 1
             /\ Inside(b, c)
             /\ \A k \in L : Disjoint(b, KeyRange(k))
<1> DEFINE C == Considered(L, c)
           S == Walked(L, c, bits)
           last == FreeStart(L, c, bits)
           num == 2^bits
           b == FreeBlock(L, c, bits)
<1>1. num \in Nat /\ num >= 1
  BY BlockSize DEF Sound
<1>2. /\ last \in Address /\ FirstUsable(c) <= last /\ last <= c.rangeEnd
      /\ \A k \in S : KeyRange(k).hi < last
  BY AfterFacts DEF FreeStart, Walked
<1>3. c.rangeEnd \in Address /\ FirstUsable(c) \in Address
  BY ConfType DEF Sound
<1>4. c.rangeEnd - last >= num - 1
  <2>1. c.rangeEnd - last \in Address /\ c.rangeEnd \in Int /\ last \in Int
    BY <1>2, <1>3, MFacts
  <2>2. Minus(c.rangeEnd, last) = c.rangeEnd - last
    BY <2>1, PlusMinus
  <2> QED BY <2>2 DEF Fits
<1>5. b.lo = last /\ b.hi = last + num - 1 /\ b \in SimpleRange
  <2> HIDE DEF last, num
  <2>1. last + (num - 1) \in Address /\ last \in Int /\ num - 1 \in Int
    BY <1>1, <1>2, <1>3, <1>4, MFacts
  <2>2. Plus(last, num - 1) = last + (num - 1)
    BY <2>1, PlusMinus
  <2>3. b = [lo |-> last, hi |-> Plus(last, num - 1)]
    BY DEF FreeBlock, last, num
  <2> QED BY <2>1, <2>2, <2>3, <1>1, <1>2, MFacts DEF SimpleRange
<1>6. Inside(b, c)
  BY <1>1, <1>2, <1>3, <1>4, <1>5, MFacts DEF Inside
<1>7. ASSUME NEW k \in L PROVE Disjoint(b, KeyRange(k))
  <2>1. k \in LeaseKey
    BY DEF Sound
  <2>2. /\ KeyRange(k).lo = k.start /\ k.start \in Nat
        /\ KeyRange(k).hi \in Nat /\ k.start <= KeyRange(k).hi
    BY <2>1, KeyRangeType, MFacts DEF SimpleRange, Sound, WellFormed
  <2>3. CASE k \in S
    BY <2>3, <2>2, <1>2, <1>5 DEF Disjoint
  <2>4. CASE k \in C \ S
    <3>1. k.start - last >= num
      BY <2>4, StopsAtGap
    <3> HIDE DEF last, num
    <3>2. last + num - 1 < k.start
      BY <3>1, <2>2, <1>1, <1>2, MFacts
    <3> QED BY <3>2, <2>2, <1>5 DEF Disjoint
  <2>5. CASE k \notin C
    <3>1. c.rangeEnd < k.start
      BY <2>5, <2>2, <1>3, MFacts DEF Considered, Sound, WellFormed
    <3> HIDE DEF last, num, b
    <3>2. b.hi < k.start
      BY <3>1, <1>6, <1>5, <1>3, <2>2, MFacts DEF Inside, SimpleRange
    <3> QED BY <3>2, <2>2 DEF Disjoint
  <2> QED BY <2>3, <2>4, <2>5
<1> QED BY <1>5, <1>6, <1>7

-----------------------------------------------------------------------------
(* Keys and the ranges they name.                                          *)

(* The addresses of the range a key names, counted the way the code does,  *)
(* are 2^bits, for a range that wraps around too.                          *)
LEMMA KeyRangeSize ==
  ASSUME NEW k \in LeaseKey
  PROVE  Plus(Minus(KeyRange(k).hi, KeyRange(k).lo), 1) = 2^k.bits
<1> DEFINE a == k.start
           n == 2^k.bits
<1>1. a \in 0..(M - 1) /\ n \in 1..(M - 1)
  <2>1. k.bits \in 0..W /\ W \in 0..W /\ k.bits < W
    BY WidthAssumption DEF LeaseKey
  <2>2. 2 * n <= M /\ n \in Nat /\ n >= 1
    BY <2>1, WidthAssumption DEF M
  <2> QED BY <2>2, MFacts DEF LeaseKey
<1>2. M \in Nat /\ M > 0
  BY MFacts
<1> HIDE DEF a, n
<1>3. /\ \A x \in 0..(M - 1) : x % M = x
      /\ \A x \in (-M)..(-1) : x % M = x + M
  BY <1>2, ModFacts
<1>4. \A x \in M..(2 * M - 1) : x % M = x - M
  <2>1. ASSUME NEW m \in Nat, m > 0
        PROVE  \A x \in m..(2 * m - 1) : x % m = x - m
    OBVIOUS
  <2> QED BY <2>1, <1>2
<1>5. Plus(n - 1, 1) = n
  <2>1. n - 1 + 1 = n
    BY <1>1
  <2> QED BY <1>1, <1>2, <1>3, <2>1 DEF Plus
<1>6. CASE a + n < M
  <2>1. Plus(a, n) = a + n
    BY <1>1, <1>2, <1>3, <1>4, <1>6 DEF Plus
  <2>2. Minus(a + n, 1) = a + n - 1
    BY <1>1, <1>2, <1>3, <1>6 DEF Minus
  <2>3. Minus(a + n - 1, a) = n - 1
    <3>1. a + n - 1 - a = n - 1
      BY <1>1, <1>2
    <3> QED BY <1>1, <1>2, <1>3, <3>1 DEF Minus
  <2> QED BY <2>1, <2>2, <2>3, <1>5 DEF KeyRange, a, n
<1>7. CASE a + n = M
  <2>1. Plus(a, n) = 0
    BY <1>1, <1>2, <1>3, <1>4, <1>7 DEF Plus
  <2>2. Minus(0, 1) = M - 1
    BY <1>1, <1>2, <1>3, <1>7 DEF Minus
  <2>3. Minus(M - 1, a) = n - 1
    <3>1. M - 1 - a = n - 1
      BY <1>1, <1>2, <1>7
    <3> QED BY <1>1, <1>2, <1>3, <3>1 DEF Minus
  <2> QED BY <2>1, <2>2, <2>3, <1>5 DEF KeyRange, a, n
<1>8. CASE a + n > M
  <2>1. Plus(a, n) = a + n - M
    BY <1>1, <1>2, <1>3, <1>4, <1>8 DEF Plus
  <2>2. Minus(a + n - M, 1) = a + n - M - 1
    BY <1>1, <1>2, <1>3, <1>8 DEF Minus
  <2>3. Minus(a + n - M - 1, a) = n - 1
    <3> DEFINE x == a + n - M - 1
    <3>1. x \in Int /\ x - a = n - 1 - M /\ n - 1 - M \in (-M)..(-1)
      BY <1>1, <1>2
    <3> HIDE DEF x
    <3>2. (x - a) % M = n - 1 - M + M
      BY <1>3, <3>1
    <3>3. n - 1 - M + M = n - 1
      BY <1>1, <1>2
    <3>4. Minus(x, a) = n - 1
      BY <3>2, <3>3 DEF Minus
    <3> QED BY <3>4 DEF x
  <2> QED BY <2>1, <2>2, <2>3, <1>5 DEF KeyRange, a, n
<1> QED BY <1>1, <1>2, <1>6, <1>7, <1>8

(* The key that is written for the range a key names is that key, and      *)
(* making the range canonical does not change it: a block survives the way *)
(* into etcd or the cache file and back.                                   *)
THEOREM KeyRoundTrip ==
  ASSUME NEW k \in LeaseKey
  PROVE  /\ RangeKey(KeyRange(k)) = k
         /\ Canonicalize(KeyRange(k)) = KeyRange(k)
<1> DEFINE size == Plus(Minus(KeyRange(k).hi, KeyRange(k).lo), 1)
<1>1. k.start \in Address /\ k.bits \in 0..(W - 1) /\ k.bits \in 0..W
  BY WidthAssumption DEF LeaseKey
<1>2. size = 2^k.bits
  BY KeyRangeSize
<1> HIDE DEF size
<1>3. HostSize(KeyRange(k)) = CHOOSE n \in 0..W : 2^n <= size /\ size < 2 * 2^n
  BY DEF HostSize, size
<1>4. 2^k.bits <= size /\ size < 2 * 2^k.bits
  BY <1>1, <1>2, WidthAssumption
<1>5. ASSUME NEW n \in 0..W, 2^n <= size, size < 2 * 2^n
      PROVE  n = k.bits
  <2>1. ~(n < k.bits)
    <3>1. SUFFICES ASSUME n < k.bits PROVE FALSE
      OBVIOUS
    <3>2. 2 * 2^n <= 2^k.bits
      BY <3>1, <1>1, WidthAssumption
    <3>3. 2^n \in Nat /\ 2^k.bits \in Nat
      BY <1>1, WidthAssumption
    <3> QED BY <3>2, <3>3, <1>2, <1>5
  <2>2. ~(k.bits < n)
    <3>1. SUFFICES ASSUME k.bits < n PROVE FALSE
      OBVIOUS
    <3>2. 2 * 2^k.bits <= 2^n
      BY <3>1, <1>1, WidthAssumption
    <3>3. 2^n \in Nat /\ 2^k.bits \in Nat /\ 2^k.bits >= 1
      BY <1>1, WidthAssumption
    <3> QED BY <3>2, <3>3, <1>2, <1>5
  <2> QED BY <2>1, <2>2, <1>1, WidthAssumption
<1>6. HostSize(KeyRange(k)) = k.bits
  BY <1>1, <1>3, <1>4, <1>5
<1>7. KeyRange(k) = [lo |-> k.start, hi |-> Minus(Plus(k.start, 2^k.bits), 1)]
  BY DEF KeyRange
<1>8. k = [start |-> k.start, bits |-> k.bits]
  BY DEF LeaseKey
<1> QED BY <1>6, <1>7, <1>8 DEF RangeKey, Canonicalize

(* The same of a block that is known as a block.                           *)
LEMMA BlockKey ==
  ASSUME NEW r \in Block
  PROVE  /\ r \in SimpleRange
         /\ RangeKey(r) \in LeaseKey
         /\ KeyRange(RangeKey(r)) = r
         /\ Canonicalize(r) = r
<1>1. PICK k \in LeaseKey : r = KeyRange(k)
  BY DEF Block
<1> QED BY <1>1, KeyRoundTrip, KeyRangeType

(* Whatever the table, the walk returns a block that a key can name.       *)
LEMMA FreeBlockIsBlock ==
  ASSUME NEW L \in SUBSET LeaseKey, NEW c \in Conf, NEW bits \in 0..(W - 1)
  PROVE  LET k == [start |-> FreeStart(L, c, bits), bits |-> bits]
         IN  /\ k \in LeaseKey
             /\ FreeBlock(L, c, bits) = KeyRange(k)
             /\ FreeBlock(L, c, bits) \in Block
<1> DEFINE S == Walked(L, c, bits)
           last == FreeStart(L, c, bits)
           k == [start |-> last, bits |-> bits]
<1>1. S \in SUBSET LeaseKey
  BY DEF Walked, Considered
<1>2. last \in Address
  <2>1. CASE S = {}
    BY <2>1, ConfType DEF FreeStart, After
  <2>2. CASE S # {}
    <3>1. LastKey(S) \in LeaseKey
      BY <2>2, <1>1, LastKeyExists
    <3>2. KeyRange(LastKey(S)).hi \in Address /\ c.rangeEnd \in Address
      BY <3>1, KeyRangeType, ConfType DEF SimpleRange
    <3>3. Smaller(KeyRange(LastKey(S)).hi, c.rangeEnd) \in Int
      BY <3>2, MFacts DEF Smaller
    <3> QED BY <3>3, <2>2, PlusMinus DEF FreeStart, After
  <2> QED BY <2>1, <2>2
<1>3. k \in LeaseKey
  BY <1>2 DEF LeaseKey
<1>4. Minus(Plus(last, 2^bits), 1) = Plus(last, 2^bits - 1)
  <2> HIDE DEF last
  <2> DEFINE n == 2^bits
  <2>1. last \in 0..(M - 1) /\ n \in 1..(M - 1) /\ M \in Nat /\ M > 0
    <3>1. bits \in 0..W /\ W \in 0..W /\ bits < W
      BY WidthAssumption
    <3>2. 2 * n <= M /\ n \in Nat /\ n >= 1
      BY <3>1, WidthAssumption DEF M
    <3> QED BY <3>2, <1>2, MFacts
  <2> HIDE DEF n
  <2>2. ASSUME NEW m \in Nat, m > 0, NEW x \in 0..(m - 1), NEW y \in 1..(m - 1)
        PROVE  (((x + y) % m) - 1) % m = (x + (y - 1)) % m
    <3>1. CASE x + y < m
      BY <3>1, <2>2
    <3>2. CASE x + y = m
      BY <3>2, <2>2
    <3>3. CASE x + y > m
      BY <3>3, <2>2
    <3> QED BY <3>1, <3>2, <3>3
  <2>3. (((last + n) % M) - 1) % M = (last + (n - 1)) % M
    BY <2>1, <2>2
  <2> QED BY <2>3 DEF Plus, Minus, n
<1>5. FreeBlock(L, c, bits) = KeyRange(k)
  BY <1>4 DEF FreeBlock, KeyRange
<1> QED BY <1>3, <1>5 DEF Block

=============================================================================
