------------------------- MODULE FreeRangeWalkProofs -------------------------
(***************************************************************************)
(* The closed form of FreeRange is the loop of ipamGetFreeIPRange, and the *)
(* loop is first fit on well-formed tables: for every width of addresses,  *)
(* range, size of blocks and table.                                        *)
(***************************************************************************)
EXTENDS FreeRangeWalk, FreeRangeProofs

-----------------------------------------------------------------------------
(* Types: of the table, the configuration and the keys that are left.      *)
WalkTypes ==
  /\ conf \in Conf /\ bits \in 0..(W - 1)
  /\ leases \in SUBSET LeaseKey
  /\ pc \in {"idle", "walk", "end"}
  /\ left \in SUBSET LeaseKey
  /\ last \in Address

(* The keys the loop has taken.                                            *)
Taken == leases \ left

(* While the loop runs, it has taken the keys before those that are left,  *)
(* was never at a gap, and its variable is what the closed form says of    *)
(* the keys it has not skipped.                                            *)
WalkInv ==
  /\ WalkTypes
  /\ pc = "walk" =>
       /\ left \subseteq leases
       /\ \A j \in Taken, k \in left : Precedes(j, k)
       /\ Taken \cap Gaps(leases, conf, bits) = {}
       /\ last = After(Taken \cap Considered(leases, conf), conf)
  /\ pc = "end" => last = FreeStart(leases, conf, bits)

(* The values `last' takes are addresses.                                  *)
LEMMA LastType ==
  ASSUME NEW c \in Conf, NEW k \in LeaseKey
  PROVE  /\ Plus(Smaller(KeyRange(k).hi, c.rangeEnd), 1) \in Address
         /\ FirstUsable(c) \in Address
         /\ 0 \in Address
<1>1. KeyRange(k).hi \in Int /\ c.rangeEnd \in Int /\ FirstUsable(c) \in Address
  BY KeyRangeType, ConfType, MFacts DEF SimpleRange
<1>2. Smaller(KeyRange(k).hi, c.rangeEnd) \in Int
  BY <1>1 DEF Smaller
<1>3. Plus(Smaller(KeyRange(k).hi, c.rangeEnd), 1) \in Address
  BY <1>2, PlusMinus
<1> QED BY <1>1, <1>3, MFacts

(* The last key is the one that all others precede.                        *)
LEMMA LastKeyIs ==
  ASSUME NEW S \in SUBSET LeaseKey, NEW k \in S, \A j \in S \ {k} : Precedes(j, k)
  PROVE  LastKey(S) = k
<1>1. /\ LastKey(S) \in S
      /\ \A j \in S \ {LastKey(S)} : Precedes(j, LastKey(S))
  BY LastKeyExists
<1>2. CASE LastKey(S) # k
  <2>1. Precedes(LastKey(S), k) /\ Precedes(k, LastKey(S))
    BY <1>1, <1>2
  <2> QED BY <1>1, <2>1, PrecedesOrder
<1> QED BY <1>2

(* Where the loop is: the keys before the next one, the distance to it,    *)
(* and what is left when it has been taken.                                *)
LEMMA AtKey ==
  ASSUME WalkInv, pc = "walk", left # {}
  PROVE  LET C == Considered(leases, conf)
         IN  /\ Key \in left /\ Key \in LeaseKey /\ Key \in leases
             /\ \A k \in left \ {Key} : Precedes(Key, k)
             /\ Valid <=> Key \in C
             /\ Valid => Before(Key, C) = Taken \cap C
             /\ Valid => (Gap >= 2^bits <=> Key \in Gaps(leases, conf, bits))
<1> DEFINE C == Considered(leases, conf)
<1>1. /\ left \subseteq leases /\ left \in SUBSET LeaseKey /\ leases \in SUBSET LeaseKey
      /\ \A j \in Taken, k \in left : Precedes(j, k)
      /\ last = After(Taken \cap C, conf)
  BY DEF WalkInv, WalkTypes
<1>2. Key \in left /\ \A k \in left \ {Key} : Precedes(Key, k)
  BY <1>1, FirstKeyExists DEF Key
<1>3. Valid <=> Key \in C
  BY <1>1, <1>2 DEF Valid, Considered
<1>4. ASSUME Key \in C PROVE Before(Key, C) = Taken \cap C
  <2>1. ASSUME NEW j \in Before(Key, C) PROVE j \in Taken
    <3>1. j \in C /\ Precedes(j, Key) /\ j \in leases
      BY DEF Before, Considered
    <3>2. ~Precedes(Key, j) /\ j # Key
      BY <1>1, <1>2, <3>1, PrecedesOrder
    <3> QED BY <1>2, <3>1, <3>2 DEF Taken
  <2>2. ASSUME NEW j \in Taken \cap C PROVE j \in Before(Key, C)
    BY <1>1, <1>2, <2>2 DEF Before
  <2>3. Before(Key, C) \subseteq C
    BY DEF Before
  <2> QED BY <2>1, <2>2, <2>3
<1>5. ASSUME Key \in C PROVE Gap >= 2^bits <=> Key \in Gaps(leases, conf, bits)
  BY <1>1, <1>4, <1>5 DEF Gap, Gaps
<1> QED BY <1>1, <1>2, <1>3, <1>4, <1>5

(* When the loop breaks at a gap or has taken all keys, what it has taken  *)
(* is what the closed form says it walks over.                             *)
LEMMA WalkEnds ==
  ASSUME WalkInv, pc = "walk",
         left # {} => Valid /\ Gap >= 2^bits
  PROVE  last = FreeStart(leases, conf, bits)
<1> DEFINE C == Considered(leases, conf)
           G == Gaps(leases, conf, bits)
<1>1. /\ left \subseteq leases /\ leases \in SUBSET LeaseKey
      /\ \A j \in Taken, k \in left : Precedes(j, k)
      /\ Taken \cap G = {} /\ last = After(Taken \cap C, conf)
  BY DEF WalkInv, WalkTypes
<1>2. G \subseteq C /\ C \subseteq leases
  BY DEF Gaps, Considered
<1>3. G \subseteq left
  BY <1>1, <1>2 DEF Taken
<1>4. ASSUME NEW k \in Taken \cap C PROVE k \in Walked(leases, conf, bits)
  <2>1. ASSUME NEW j \in G PROVE j # k /\ ~Precedes(j, k)
    <3>1. j \in left /\ k \in Taken /\ Precedes(k, j) /\ j \in LeaseKey /\ k \in LeaseKey
      BY <1>1, <1>2, <1>3, <1>4, <2>1
    <3> QED BY <3>1, PrecedesOrder DEF Taken
  <2> QED BY <2>1, <1>4 DEF Walked
<1>5. ASSUME NEW k \in Walked(leases, conf, bits) PROVE k \in Taken \cap C
  <2>1. k \in C /\ \A j \in G : j # k /\ ~Precedes(j, k)
    BY DEF Walked
  <2>2. CASE k \in left
    <3>1. Key \in G /\ \A i \in left \ {Key} : Precedes(Key, i)
      BY <2>2, AtKey
    <3> QED BY <2>1, <2>2, <3>1
  <2> QED BY <1>2, <2>1, <2>2 DEF Taken
<1>6. Walked(leases, conf, bits) = Taken \cap C
  BY <1>4, <1>5
<1> QED BY <1>1, <1>6 DEF FreeStart

(* What taking the next key does.                                          *)
LEMMA KeyTaken ==
  ASSUME WalkInv, pc = "walk", left # {},
         UNCHANGED tableVars, pc' = "walk", left' = left \ {Key}, last' \in Address,
         Key \notin Gaps(leases, conf, bits),
         last' = After((Taken \cup {Key}) \cap Considered(leases, conf), conf)
  PROVE  WalkInv'
<1>1. /\ left \subseteq leases /\ left \in SUBSET LeaseKey
      /\ \A j \in Taken, k \in left : Precedes(j, k)
      /\ Taken \cap Gaps(leases, conf, bits) = {}
  BY DEF WalkInv, WalkTypes
<1>2. Key \in left /\ Key \in leases /\ \A k \in left \ {Key} : Precedes(Key, k)
  BY AtKey
<1>3. WalkTypes'
  BY <1>1 DEF WalkInv, WalkTypes, tableVars
<1>4. Taken' = Taken \cup {Key}
  BY <1>1, <1>2 DEF Taken, tableVars
<1>5. \A j \in Taken', k \in left' : Precedes(j, k)
  BY <1>1, <1>2, <1>4
<1>6. /\ left' \subseteq leases'
      /\ Taken' \cap Gaps(leases, conf, bits)' = {}
      /\ last' = After(Taken \cap Considered(leases, conf), conf)'
  BY <1>1, <1>4 DEF tableVars
<1> QED BY <1>3, <1>5, <1>6 DEF WalkInv

(* WalkInv is inductive.                                                   *)
LEMMA InitWalk ==
  Init => WalkInv
BY WalkAssumption, MFacts DEF Init, WalkInv, WalkTypes

LEMMA StepWalk ==
  WalkInv /\ [Next]_vars => WalkInv'
<1> SUFFICES ASSUME WalkInv, [Next]_vars PROVE WalkInv'
  OBVIOUS
<1> USE DEF tableVars, walkVars
<1>t. WalkTypes
  BY DEF WalkInv
<1>1. ASSUME WalkTypes', pc' = "idle" PROVE WalkInv'
  BY <1>1 DEF WalkInv
<1>2. CASE \E s \in Address, b \in BitSizes : Foreign([start |-> s, bits |-> b])
  <2>1. PICK s \in Address, b \in BitSizes : Foreign([start |-> s, bits |-> b])
    BY <1>2
  <2>2. [start |-> s, bits |-> b] \in LeaseKey
    BY WalkAssumption DEF LeaseKey
  <2> QED BY <1>1, <1>t, <2>1, <2>2 DEF Foreign, WalkTypes
<1>3. CASE \E k \in leases : Delete(k)
  BY <1>1, <1>3, <1>t DEF Delete, WalkTypes
<1>4. CASE Get
  <2>1. Taken' = {} /\ left' = leases' /\ pc' = "walk" /\ UNCHANGED tableVars
        /\ last' = FirstUsable(conf)
    BY <1>4 DEF Get, Taken
  <2>2. WalkTypes'
    BY <2>1, <1>t, ConfType DEF WalkTypes
  <2>3. last' = After({}, conf)'
    BY <2>1 DEF After
  <2> QED BY <2>1, <2>2, <2>3 DEF WalkInv
<1>5. CASE Skip
  <2>1. Key \notin Considered(leases, conf)
    BY <1>5, AtKey DEF Skip
  <2>2. Key \notin Gaps(leases, conf, bits)
    BY <2>1 DEF Gaps
  <2>3. last' = After((Taken \cup {Key}) \cap Considered(leases, conf), conf)
    <3>1. (Taken \cup {Key}) \cap Considered(leases, conf) = Taken \cap Considered(leases, conf)
      BY <2>1
    <3> QED BY <1>5, <3>1 DEF Skip, WalkInv
  <2> QED BY <1>5, <1>t, <2>2, <2>3, KeyTaken DEF Skip, WalkTypes
<1>6. CASE StepOver
  <2> DEFINE C == Considered(leases, conf)
  <2>1. /\ pc = "walk" /\ left # {} /\ Valid /\ Gap < 2^bits /\ left' = left \ {Key}
        /\ last' = Plus(Smaller(KeyRange(Key).hi, conf.rangeEnd), 1)
        /\ UNCHANGED tableVars /\ pc' = "walk"
    BY <1>6 DEF StepOver
  <2>2. Key \in C /\ Key \in LeaseKey /\ Key \in left
    BY <2>1, AtKey
  <2>3. Key \notin Gaps(leases, conf, bits)
    <3>1. Gap \in Int /\ 2^bits \in Int
      <4>1. Key.start \in Int /\ last \in Int
        BY <1>t, <2>2, KeyRangeType, MFacts DEF WalkTypes
      <4>2. Gap \in Address
        BY <4>1, PlusMinus DEF Gap
      <4> QED BY <1>t, <4>2, BlockSize, MFacts DEF WalkTypes
    <3> QED BY <2>1, <3>1, AtKey
  <2> DEFINE S == (Taken \cup {Key}) \cap C
  <2>4. S \in SUBSET LeaseKey /\ Key \in S
    BY <1>t, <2>2 DEF WalkTypes, Considered
  <2>5. \A j \in S \ {Key} : Precedes(j, Key)
    BY <2>1, <2>2 DEF WalkInv
  <2>6. LastKey(S) = Key
    BY <2>4, <2>5, LastKeyIs
  <2>7. last' = After(S, conf)
    BY <2>1, <2>4, <2>6 DEF After
  <2>8. last' \in Address
    BY <1>t, <2>1, <2>2, LastType DEF WalkTypes
  <2> QED BY <2>1, <2>3, <2>7, <2>8, KeyTaken
<1>7. CASE Break \/ NoMore
  <2>1. /\ pc = "walk" /\ (left # {} => Valid /\ Gap >= 2^bits)
        /\ pc' = "end" /\ UNCHANGED <<tableVars, left, last>>
    BY <1>7 DEF Break, NoMore
  <2>2. last = FreeStart(leases, conf, bits)
    BY <2>1, WalkEnds
  <2>3. last' = FreeStart(leases, conf, bits)'
    BY <2>1, <2>2
  <2> QED BY <1>t, <2>1, <2>3 DEF WalkInv, WalkTypes
<1>8. CASE Grant
  <2>1. pc = "end" /\ last = FreeStart(leases, conf, bits)
    BY <1>8 DEF Grant, Return, WalkInv
  <2>2. Found = FreeBlock(leases, conf, bits)
    BY <2>1 DEF Found, FreeBlock
  <2>3. Found \in Block
    BY <1>t, <2>2, FreeBlockIsBlock DEF WalkTypes
  <2>4. RangeKey(Found) \in LeaseKey
    BY <2>3, BlockKey
  <2> QED BY <1>1, <1>8, <1>t, <2>4, MFacts DEF Grant, Return, WalkTypes
<1>9. CASE Fail
  BY <1>1, <1>9, <1>t, MFacts DEF Fail, Return, WalkTypes
<1>10. CASE UNCHANGED vars
  BY <1>10 DEF vars, WalkInv, WalkTypes, Taken
<1> QED BY <1>2, <1>3, <1>4, <1>5, <1>6, <1>7, <1>8, <1>9, <1>10 DEF Next

(* The closed form of the walk is the loop of ipamGetFreeIPRange: on every *)
(* table, with ranges that wrap around or overlap and keys outside the     *)
(* range, both come to the same block and the same verdict.                *)
THEOREM ClosedForm == Spec => []WalkIsLoop
<1>1. Init => WalkInv
  BY InitWalk
<1>2. WalkInv /\ [Next]_vars => WalkInv'
  BY StepWalk
<1>3. WalkInv => WalkIsLoop
  BY DEF WalkInv, WalkIsLoop, FreeBlock, Found, Fits, Room
<1> QED BY <1>1, <1>2, <1>3, PTL DEF Spec

-----------------------------------------------------------------------------
(* First fit.                                                              *)

(* A block of the right size that lies in the range and meets no lease     *)
(* does not start before the place where the walk stops: the first key the *)
(* walk went over that ends in the block or behind it would have had room  *)
(* in front of it.                                                         *)
LEMMA NoneEarlier ==
  ASSUME NEW L, NEW c, NEW n, Sound(L, c, n), NEW w \in SimpleRange,
         w.hi = w.lo + 2^n - 1, Inside(w, c),
         \A k \in L : Disjoint(w, KeyRange(k))
  PROVE  FreeStart(L, c, n) <= w.lo
<1> DEFINE C == Considered(L, c)
           S == Walked(L, c, n)
           f == FreeStart(L, c, n)
           T == {k \in S : w.lo <= KeyRange(k).hi}
<1>1. /\ w.lo \in Nat /\ w.hi \in Nat /\ 2^n \in Nat /\ 2^n >= 1
      /\ FirstUsable(c) <= w.lo
  BY MFacts, BlockSize DEF Sound, SimpleRange, Inside
<1>2. /\ S \in SUBSET C /\ C \in SUBSET LeaseKey /\ C \in SUBSET L
      /\ S \in SUBSET LeaseKey /\ T \in SUBSET LeaseKey
  BY DEF Walked, Considered, Sound
<1>3. f \in Address /\ (S # {} => f = KeyRange(LastKey(S)).hi + 1)
  BY <1>2, AfterFacts DEF FreeStart
<1>4. CASE S = {}
  BY <1>1, <1>4 DEF FreeStart, After
<1>5. CASE S # {} /\ T = {}
  <2>1. LastKey(S) \in S
    BY <1>2, <1>5, LastKeyExists
  <2>2. KeyRange(LastKey(S)).hi \in Nat
    BY <1>2, <2>1, ConsideredFacts
  <2>3. ~(w.lo <= KeyRange(LastKey(S)).hi)
    BY <1>5, <2>1
  <2> QED BY <1>1, <1>3, <1>5, <2>2, <2>3
<1>6. CASE T # {}
  <2>1. PICK k : k = FirstKey(T)
    OBVIOUS
  <2>2. k \in T /\ \A j \in T \ {k} : Precedes(k, j)
    BY <1>2, <1>6, <2>1, FirstKeyExists
  <2>3. k \in S /\ k \in C /\ k \in L /\ k \in LeaseKey /\ w.lo <= KeyRange(k).hi
    BY <1>2, <2>2
  <2>4. /\ k.start \in Nat /\ KeyRange(k).hi \in Nat /\ KeyRange(k).lo = k.start
    BY <2>3, ConsideredFacts
  <2>5. w.hi < k.start
    BY <1>1, <2>3, <2>4 DEF Disjoint
  <2> DEFINE B == Before(k, C)
             reached == After(B, c)
  <2>6. ASSUME NEW j \in B PROVE j \in S /\ KeyRange(j).hi < w.lo
    <3>1. j \in C /\ Precedes(j, k) /\ j \in LeaseKey
      BY <1>2 DEF Before
    <3>2. ASSUME NEW g \in Gaps(L, c, n) PROVE g # j /\ ~Precedes(g, j)
      <4>1. g # k /\ ~Precedes(g, k) /\ g \in LeaseKey
        BY <1>2, <2>3 DEF Walked, Gaps
      <4> QED BY <2>3, <3>1, <4>1, PrecedesOrder
    <3>3. j \in S
      BY <3>1, <3>2 DEF Walked
    <3>4. j \notin T
      BY <2>2, <2>3, <3>1, PrecedesOrder
    <3>5. KeyRange(j).hi \in Nat
      BY <3>1, ConsideredFacts
    <3> QED BY <1>1, <3>3, <3>4, <3>5
  <2>7. reached <= w.lo
    <3>1. CASE B = {}
      BY <1>1, <3>1 DEF After
    <3>2. CASE B # {}
      <4>1. B \in SUBSET C /\ B \in SUBSET LeaseKey
        BY <1>2 DEF Before
      <4>2. LastKey(B) \in B
        BY <3>2, <4>1, LastKeyExists
      <4>3. KeyRange(LastKey(B)).hi \in Nat /\ KeyRange(LastKey(B)).hi < w.lo
        BY <2>6, <4>1, <4>2, ConsideredFacts
      <4>4. reached = KeyRange(LastKey(B)).hi + 1
        BY <3>2, <4>1, AfterFacts
      <4> QED BY <1>1, <4>3, <4>4
    <3> QED BY <3>1, <3>2
  <2>8. reached \in Nat
    <3>1. B \in SUBSET C
      BY DEF Before
    <3>2. reached \in Address
      BY <3>1, AfterFacts
    <3> QED BY <3>2, MFacts
  <2>9. Minus(k.start, reached) >= 2^n
    <3>1. Minus(k.start, reached) = k.start - reached
      BY <2>3, GapMeasured
    <3> HIDE DEF reached
    <3>2. k.start - reached >= 2^n
      BY <1>1, <2>4, <2>5, <2>7, <2>8
    <3> QED BY <3>1, <3>2
  <2>10. k \in Gaps(L, c, n)
    BY <2>3, <2>9 DEF Gaps
  <2>11. k \notin S
    BY <2>10 DEF Walked
  <2> QED BY <2>3, <2>11
<1> QED BY <1>4, <1>5, <1>6

(* On a well-formed table the walk finds the lowest free block, and room   *)
(* whenever there is any.                                                  *)
LEMMA FitsFirst ==
  ASSUME WalkTypes, pc = "end", last = FreeStart(leases, conf, bits),
         WellFormed(leases, conf)
  PROVE  FirstFit
<1> DEFINE num == 2^bits
<1>s. Sound(leases, conf, bits)
  BY DEF Sound, WalkTypes
<1>n. num \in Nat /\ num >= 1 /\ last \in Nat /\ last \in Address
      /\ conf.rangeEnd \in Nat /\ conf.rangeEnd \in Address
  BY <1>s, BlockSize, ConfType, MFacts DEF Sound, WalkTypes
<1>f. Found = FreeBlock(leases, conf, bits) /\ (Room <=> Fits(leases, conf, bits))
  BY DEF Found, FreeBlock, Room, Fits
<1>1. ASSUME NEW w \in Windows
      PROVE  /\ w.lo \in Address /\ w.hi = w.lo + num - 1 /\ Inside(w, conf)
             /\ last <= w.lo
  <2>1. PICK a \in Address : w = [lo |-> a, hi |-> a + num - 1]
    BY DEF Windows
  <2>2. Inside(w, conf) /\ \A k \in leases : Disjoint(w, KeyRange(k))
    BY DEF Windows
  <2>3. w \in SimpleRange
    <3>1. a + num - 1 \in Nat /\ a + num - 1 <= conf.rangeEnd
      BY <1>n, <2>1, <2>2, MFacts DEF Inside
    <3>2. a + num - 1 \in Address
      BY <1>n, <3>1, MFacts
    <3> QED BY <2>1, <3>2 DEF SimpleRange
  <2> QED BY <1>s, <2>1, <2>2, <2>3, NoneEarlier
<1>2. CASE Room
  <2>1. /\ Found \in SimpleRange /\ Found.hi = Found.lo + num - 1 /\ Inside(Found, conf)
        /\ \A k \in leases : Disjoint(Found, KeyRange(k))
    BY <1>s, <1>f, <1>2, GrantSound
  <2>2. Found = [lo |-> last, hi |-> last + num - 1]
    BY <2>1 DEF Found
  <2>3. Found \in {[lo |-> a, hi |-> a + num - 1] : a \in Address}
    BY <1>n, <2>2
  <2>4. Found \in Windows
    BY <2>1, <2>3 DEF Windows
  <2> QED BY <1>1, <1>2, <2>4 DEF FirstFit
<1>3. CASE ~Room
  <2>1. last <= conf.rangeEnd
    BY <1>s, AfterFacts DEF FreeStart, Walked
  <2>2. Minus(conf.rangeEnd, last) = conf.rangeEnd - last
    <3>1. conf.rangeEnd - last \in Address
      BY <1>n, <2>1, MFacts
    <3> QED BY <1>n, <3>1, PlusMinus
  <2>3. conf.rangeEnd - last < num - 1
    BY <1>3, <1>n, <2>2 DEF Room
  <2>4. ASSUME NEW w \in Windows PROVE FALSE
    <3>1. w.lo \in Nat /\ w.lo + num - 1 <= conf.rangeEnd /\ last <= w.lo
      BY <1>1, MFacts DEF Inside
    <3> QED BY <1>n, <2>3, <3>1
  <2>5. Windows = {}
    BY <2>4
  <2> QED BY <1>3, <2>5 DEF FirstFit
<1> QED BY <1>2, <1>3

(* On a well-formed table the loop of ipamGetFreeIPRange returns the       *)
(* lowest block of its size that is inside the range and meets no lease,   *)
(* and reports an error only when there is none.                           *)
THEOREM WalkIsFirstFit == Spec => []FirstFit
<1>1. Init => WalkInv
  BY InitWalk
<1>2. WalkInv /\ [Next]_vars => WalkInv'
  BY StepWalk
<1>3. WalkInv => FirstFit
  <2> SUFFICES ASSUME WalkInv, pc = "end", WellFormed(leases, conf) PROVE FirstFit
    BY DEF FirstFit
  <2> QED BY FitsFirst DEF WalkInv
<1> QED BY <1>1, <1>2, <1>3, PTL DEF Spec

=============================================================================
