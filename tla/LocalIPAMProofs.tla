-------------------------- MODULE LocalIPAMProofs ---------------------------
(***************************************************************************)
(* What holds of the addresses of a network on a node for any number of    *)
(* attachments and any blocks: first of the iterator over a range set,     *)
(* then of the plugins that search with it.                                *)
(***************************************************************************)
EXTENDS LocalIPAM, WellFoundedInduction, TLAPS

-----------------------------------------------------------------------------
(* The iterator.                                                           *)

(* A set of natural numbers that is not empty has a least element.         *)
LEMMA LeastNat ==
  ASSUME NEW T \in SUBSET Nat, T # {}
  PROVE  \E x \in T : \A y \in T : x <= y
<1> DEFINE Less == {ss \in Nat \X Nat : ss[1] < ss[2]}
<1>1. IsWellFoundedOn(Less, Nat)
  BY NatLessThanWellFounded DEF OpToRel
<1>2. \A x, y \in Nat : <<y, x>> \in Less \/ x <= y
  OBVIOUS
<1> HIDE DEF Less
<1>3. PICK x \in T : \A y \in T : <<y, x>> \notin Less
  BY <1>1, WFMin
<1> QED BY <1>2, <1>3

(* Range sets there is something in.                                       *)
IsRangeSet(rs) == rs \in Seq(Blocks) /\ rs # << >>

LEMMA RangeSetTyped ==
  ASSUME NEW rs, IsRangeSet(rs)
  PROVE  /\ Len(rs) \in Nat \ {0} /\ DOMAIN rs = 1..Len(rs)
         /\ \A i \in 1..Len(rs) :
              /\ rs[i] \in Blocks /\ rs[i].lo \in Nat /\ rs[i].hi \in Nat
              /\ rs[i].lo <= rs[i].hi /\ NoIP \notin rs[i].lo..rs[i].hi
<1>1. Len(rs) \in Nat /\ rs \in [1..Len(rs) -> Blocks] BY DEF IsRangeSet
<1>2. Len(rs) # 0 BY DEF IsRangeSet
<1> QED BY <1>1, <1>2, ConstantsAssumption

IterOK(rs, it) ==
  /\ DOMAIN it = {"idx", "cur", "startIP", "startRange"}
  /\ it.idx \in 1..Len(rs) /\ it.startRange \in 1..Len(rs)
  /\ it.cur \in {NoIP} \cup rs[it.idx].lo..rs[it.idx].hi
  /\ it.cur = NoIP => it.idx = 1 /\ it.startRange = 1
  /\ it.startIP = NoIP => it.cur # NoIP /\ it.idx = it.startRange

(* The place behind <<i, ip>>: range and address.                          *)
NextRange(rs, i, ip) == IF ip = rs[i].hi THEN (i % Len(rs)) + 1 ELSE i
NextIP(rs, i, ip) == IF ip = rs[i].hi THEN rs[NextRange(rs, i, ip)].lo ELSE ip + 1

LEMMA Around ==
  ASSUME NEW n \in Nat \ {0}, NEW i \in 1..n
  PROVE  (i % n) + 1 = IF i = n THEN 1 ELSE i + 1
<1>1. n > 0 OBVIOUS
<1>2. CASE i = n
  <2>1. n % n = 0 BY <1>1
  <2> QED BY <1>2, <2>1
<1>3. CASE i < n
  <2>1. i % n = i BY <1>1, <1>3
  <2> QED BY <1>3, <2>1
<1> QED BY <1>2, <1>3

LEMMA NextPlace ==
  ASSUME NEW rs, IsRangeSet(rs), NEW i \in 1..Len(rs), NEW ip \in rs[i].lo..rs[i].hi
  PROVE  /\ NextRange(rs, i, ip) \in 1..Len(rs)
         /\ ip = rs[i].hi => NextRange(rs, i, ip) = IF i = Len(rs) THEN 1 ELSE i + 1
         /\ NextIP(rs, i, ip)
              \in rs[NextRange(rs, i, ip)].lo..rs[NextRange(rs, i, ip)].hi
<1>1. Len(rs) \in Nat \ {0} BY RangeSetTyped
<1>2. (i % Len(rs)) + 1 = IF i = Len(rs) THEN 1 ELSE i + 1 BY <1>1, Around
<1> QED BY <1>2, RangeSetTyped DEF NextRange, NextIP

(* What a call of Next makes of an iterator.                               *)
LEMMA IterMoves ==
  ASSUME NEW rs, IsRangeSet(rs), NEW it, IterOK(rs, it)
  PROVE  LET m == Moved(rs, it)
         IN  /\ IterOK(rs, m) /\ m.cur \in rs[m.idx].lo..rs[m.idx].hi
             /\ m.startRange = it.startRange /\ m.startIP # NoIP /\ m.cur # NoIP
             /\ it.cur = NoIP => m.idx = 1 /\ m.startIP = rs[1].lo /\ m.cur = rs[1].lo
             /\ it.cur # NoIP =>
                  /\ m.idx = NextRange(rs, it.idx, it.cur)
                  /\ m.cur = NextIP(rs, it.idx, it.cur)
                  /\ m.startIP = IF it.startIP = NoIP THEN m.cur ELSE it.startIP
<1> PICK m : m = Moved(rs, it) OBVIOUS
<1>1. CASE it.cur = NoIP
  <2>1. m = [it EXCEPT !.cur = rs[it.idx].lo, !.startIP = rs[it.idx].lo]
    BY <1>1 DEF Moved
  <2>2. /\ DOMAIN m = DOMAIN it /\ m.cur = rs[1].lo /\ m.startIP = rs[1].lo /\ m.idx = 1
        /\ m.startRange = 1 /\ it.startRange = 1
    BY <1>1, <2>1 DEF IterOK
  <2> QED BY <1>1, <2>2, RangeSetTyped DEF IterOK
<1>2. CASE it.cur # NoIP
  <2>1. it.cur \in rs[it.idx].lo..rs[it.idx].hi /\ it.idx \in 1..Len(rs)
    BY <1>2 DEF IterOK
  <2> PICK i : i = NextRange(rs, it.idx, it.cur) OBVIOUS
  <2> PICK ip : ip = NextIP(rs, it.idx, it.cur) OBVIOUS
  <2>2. m = [idx |-> i, cur |-> ip, startRange |-> it.startRange,
             startIP |-> IF it.startIP = NoIP THEN ip ELSE it.startIP]
    BY <1>2 DEF Moved, Advance, NextRange, NextIP
  <2>3. i \in 1..Len(rs) /\ ip \in rs[i].lo..rs[i].hi BY <2>1, NextPlace
  <2>4. ip # NoIP BY <2>3, RangeSetTyped
  <2> QED BY <1>2, <2>2, <2>3, <2>4 DEF IterOK
<1> QED BY <1>1, <1>2

LEMMA IterStarts ==
  ASSUME NEW rs, IsRangeSet(rs), NEW lst \in Addr \cup {NoIP}
  PROVE  LET it == GetIter(rs, lst)
         IN  /\ IterOK(rs, it)
             /\ lst # NoIP /\ Has(rs, lst) =>
                  /\ it.cur = lst /\ it.startIP = NoIP
                  /\ InRange(rs[it.startRange], lst)
             /\ ~(lst # NoIP /\ Has(rs, lst)) => it.cur = NoIP
<1> PICK it : it = GetIter(rs, lst) OBVIOUS
<1>1. CASE lst # NoIP /\ Has(rs, lst)
  <2> DEFINE T == {i \in DOMAIN rs : InRange(rs[i], lst)}
  <2>1. T \in SUBSET Nat /\ T # {} BY <1>1, RangeSetTyped DEF Has
  <2>2. \E i \in T : \A j \in T : i <= j BY <2>1, LeastNat
  <2>3. \E i \in DOMAIN rs : /\ InRange(rs[i], lst)
                             /\ \A j \in DOMAIN rs : InRange(rs[j], lst) => i <= j
    BY <2>2
  <2>4. PICK i \in DOMAIN rs :
          /\ InRange(rs[i], lst)
          /\ it = [idx |-> i, cur |-> lst, startIP |-> NoIP, startRange |-> i]
    BY <1>1, <2>3 DEF GetIter
  <2>5. lst \in rs[i].lo..rs[i].hi
    <3>1. lst \in Nat BY <1>1, ConstantsAssumption DEF Addr
    <3> QED BY <2>4, <3>1, RangeSetTyped DEF InRange
  <2> QED BY <1>1, <2>4, <2>5, RangeSetTyped DEF IterOK
<1>2. CASE ~(lst # NoIP /\ Has(rs, lst))
  <2>1. it = [idx |-> 1, cur |-> NoIP, startIP |-> rs[1].lo, startRange |-> 1]
    BY <1>2 DEF GetIter
  <2>2. rs[1].lo # NoIP /\ 1 \in 1..Len(rs) BY RangeSetTyped
  <2> QED BY <1>2, <2>1, <2>2 DEF IterOK
<1> QED BY <1>1, <1>2

-----------------------------------------------------------------------------
(* What a search has met.  The places of a range set, a range and an       *)
(* address of it each, are gone through in order and round and round.      *)

Upto(i, x, j, y) == i < j \/ (i = j /\ x <= y)

(* <<j, x>> lies on the way from <<s, y>> to <<i, c>>.                     *)
Between(s, y, j, x, i, c) ==
  IF Upto(s, y, i, c) THEN Upto(s, y, j, x) /\ Upto(j, x, i, c)
                      ELSE Upto(s, y, j, x) \/ Upto(j, x, i, c)

(* All addresses met from <<s, y>> on are in T.                            *)
MetFrom(rs, s, y, i, c, T) ==
  \A j \in 1..Len(rs) : \A x \in rs[j].lo..rs[j].hi :
    Between(s, y, j, x, i, c) => x \in T

(* Where an iterator came to first: in the range it started from, or at    *)
(* the beginning of the next.                                              *)
Met(rs, it, T) ==
  it.cur # NoIP /\ it.startIP # NoIP =>
    \E s \in 1..Len(rs) :
      /\ it.startIP \in rs[s].lo..rs[s].hi
      /\ \/ s = it.startRange
         \/ /\ s = (it.startRange % Len(rs)) + 1
            /\ it.startIP = rs[s].lo
      /\ MetFrom(rs, s, it.startIP, it.idx, it.cur, T)

LEMMA MetMore ==
  ASSUME NEW rs, NEW it, NEW S, NEW T, S \subseteq T, Met(rs, it, S)
  PROVE  Met(rs, it, T)
BY DEF Met, MetFrom

(* The place behind the last one met is the only one more.                 *)
LEMMA BetweenNext ==
  ASSUME NEW rs, IsRangeSet(rs), NEW s \in 1..Len(rs), NEW y \in rs[s].lo..rs[s].hi,
         NEW i \in 1..Len(rs), NEW c \in rs[i].lo..rs[i].hi,
         NEW j \in 1..Len(rs), NEW x \in rs[j].lo..rs[j].hi,
         Between(s, y, j, x, NextRange(rs, i, c), NextIP(rs, i, c))
  PROVE  \/ Between(s, y, j, x, i, c)
         \/ j = NextRange(rs, i, c) /\ x = NextIP(rs, i, c)
<1> PICK n : n = Len(rs) OBVIOUS
<1>1. /\ n \in Nat /\ s \in 1..n /\ i \in 1..n /\ j \in 1..n
      /\ x \in Nat /\ y \in Nat /\ c \in Nat
  <2>1. n \in Nat /\ \A k \in 1..n : rs[k].lo \in Nat BY RangeSetTyped
  <2> QED BY <2>1
<1>2. CASE c # rs[i].hi
  <2>1. NextRange(rs, i, c) = i /\ NextIP(rs, i, c) = c + 1 /\ c < rs[i].hi
    BY <1>2, RangeSetTyped DEF NextRange, NextIP
  <2>2. Between(s, y, j, x, i, c + 1) BY <2>1
  <2>3. Between(s, y, j, x, i, c) \/ (j = i /\ x = c + 1)
    BY <1>1, <2>2 DEF Between, Upto
  <2> QED BY <2>1, <2>3
<1>3. CASE c = rs[i].hi
  <2> PICK k : k = NextRange(rs, i, c) OBVIOUS
  <2>1. /\ k = IF i = n THEN 1 ELSE i + 1
        /\ NextIP(rs, i, c) = rs[k].lo /\ k \in 1..n
    BY <1>3, NextPlace DEF NextIP
  <2>2. Between(s, y, j, x, k, rs[k].lo) BY <2>1
  <2>3. /\ rs[k].lo \in Nat /\ (j = k => rs[k].lo <= x) /\ (s = k => rs[k].lo <= y)
        /\ (j = i => x <= c) /\ (s = i => y <= c)
    BY <1>3, <2>1, RangeSetTyped
  <2>4. Between(s, y, j, x, i, c) \/ (j = k /\ x = rs[k].lo)
    <3>1. CASE i = n
      <4>1. k = 1 BY <2>1, <3>1
      <4> QED BY <1>1, <2>2, <2>3, <3>1, <4>1 DEF Between, Upto
    <3>2. CASE i # n
      <4>1. k = i + 1 BY <2>1, <3>2
      <4> QED BY <1>1, <2>2, <2>3, <3>2, <4>1 DEF Between, Upto
    <3> QED BY <3>1, <3>2
  <2> QED BY <2>1, <2>4
<1> QED BY <1>2, <1>3

LEMMA MetMoves ==
  ASSUME NEW rs, IsRangeSet(rs), NEW it, IterOK(rs, it), NEW T, Met(rs, it, T),
         Moved(rs, it).cur \in T
  PROVE  Met(rs, Moved(rs, it), T)
<1> PICK m : m = Moved(rs, it) OBVIOUS
<1>1. /\ IterOK(rs, m) /\ m.cur \in rs[m.idx].lo..rs[m.idx].hi /\ m.idx \in 1..Len(rs)
      /\ m.startRange = it.startRange /\ m.startIP # NoIP /\ m.cur # NoIP
      /\ it.cur = NoIP => m.idx = 1 /\ m.startIP = rs[1].lo /\ m.cur = rs[1].lo
      /\ it.cur # NoIP =>
           /\ m.idx = NextRange(rs, it.idx, it.cur)
           /\ m.cur = NextIP(rs, it.idx, it.cur)
           /\ m.startIP = IF it.startIP = NoIP THEN m.cur ELSE it.startIP
  BY IterMoves DEF IterOK
<1>2. CASE it.cur = NoIP \/ it.startIP = NoIP
  <2>1. m.startIP = m.cur BY <1>1, <1>2
  <2>2. MetFrom(rs, m.idx, m.cur, m.idx, m.cur, T)
    BY <1>1, RangeSetTyped DEF MetFrom, Between, Upto
  <2>3. \/ m.idx = m.startRange
        \/ m.idx = (m.startRange % Len(rs)) + 1 /\ m.startIP = rs[m.idx].lo
    <3>1. CASE it.cur = NoIP BY <1>1, <3>1 DEF IterOK
    <3>2. CASE it.cur # NoIP
      <4>1. it.idx = it.startRange BY <1>2, <3>2 DEF IterOK
      <4> QED BY <1>1, <2>1, <3>2, <4>1 DEF NextRange, NextIP
    <3> QED BY <3>1, <3>2
  <2> QED BY <1>1, <2>1, <2>2, <2>3 DEF Met
<1>3. CASE it.cur # NoIP /\ it.startIP # NoIP
  <2>1. PICK s \in 1..Len(rs) :
          /\ it.startIP \in rs[s].lo..rs[s].hi
          /\ \/ s = it.startRange
             \/ /\ s = (it.startRange % Len(rs)) + 1
                /\ it.startIP = rs[s].lo
          /\ MetFrom(rs, s, it.startIP, it.idx, it.cur, T)
    BY <1>3 DEF Met
  <2>2. it.idx \in 1..Len(rs) /\ it.cur \in rs[it.idx].lo..rs[it.idx].hi
    BY <1>3 DEF IterOK
  <2>3. ASSUME NEW j \in 1..Len(rs), NEW x \in rs[j].lo..rs[j].hi,
               Between(s, it.startIP, j, x, m.idx, m.cur)
        PROVE  x \in T
    <3>1. Between(s, it.startIP, j, x, NextRange(rs, it.idx, it.cur), NextIP(rs, it.idx, it.cur))
      BY <1>1, <1>3, <2>3
    <3>2. \/ Between(s, it.startIP, j, x, it.idx, it.cur)
          \/ j = NextRange(rs, it.idx, it.cur) /\ x = NextIP(rs, it.idx, it.cur)
      BY <2>1, <2>2, <3>1, BetweenNext
    <3> QED BY <1>1, <1>3, <2>1, <3>2 DEF MetFrom
  <2>4. m.startIP = it.startIP /\ m.startRange = it.startRange BY <1>1, <1>3
  <2>5. MetFrom(rs, s, m.startIP, m.idx, m.cur, T) BY <2>3, <2>4 DEF MetFrom
  <2> QED BY <2>1, <2>4, <2>5 DEF Met
<1> QED BY <1>2, <1>3

(* Back where the search came to first, all places are met.                *)
LEMMA BetweenAll ==
  ASSUME NEW rs, IsRangeSet(rs), NEW s \in 1..Len(rs), NEW y \in rs[s].lo..rs[s].hi,
         NEW i \in 1..Len(rs), NEW c \in rs[i].lo..rs[i].hi,
         NextRange(rs, i, c) = s, NextIP(rs, i, c) = y,
         NEW j \in 1..Len(rs), NEW x \in rs[j].lo..rs[j].hi
  PROVE  Between(s, y, j, x, i, c)
<1> PICK n : n = Len(rs) OBVIOUS
<1>1. /\ n \in Nat /\ s \in 1..n /\ i \in 1..n /\ j \in 1..n
      /\ x \in Nat /\ y \in Nat /\ c \in Nat
  BY RangeSetTyped
<1>2. CASE c # rs[i].hi
  <2>1. s = i /\ y = c + 1
    BY <1>2 DEF NextRange, NextIP
  <2> QED BY <1>1, <2>1 DEF Between, Upto
<1>3. CASE c = rs[i].hi
  <2>1. s = (IF i = n THEN 1 ELSE i + 1) /\ y = rs[s].lo
    BY <1>3, NextPlace DEF NextIP
  <2>2. (j = s => y <= x) /\ (j = i => x <= c) /\ (s = i => y <= c)
    BY <1>3, <2>1, RangeSetTyped
  <2>3. CASE i = n
    <3>1. s = 1 BY <2>1, <2>3
    <3> QED BY <1>1, <2>2, <2>3, <3>1 DEF Between, Upto
  <2>4. CASE i # n
    <3>1. s = i + 1 BY <2>1, <2>4
    <3> QED BY <1>1, <2>2, <2>4, <3>1 DEF Between, Upto
  <2> QED BY <2>3, <2>4
<1> QED BY <1>2, <1>3

(* The same when it comes to the end of range i, the one before s.         *)
LEMMA BetweenOthers ==
  ASSUME NEW rs, IsRangeSet(rs), NEW s \in 1..Len(rs), NEW r \in 1..Len(rs),
         s = (r % Len(rs)) + 1, s # r,
         NEW i \in 1..Len(rs), NEW c \in rs[i].lo..rs[i].hi,
         NextRange(rs, i, c) = r, NextIP(rs, i, c) = rs[r].lo,
         NEW j \in 1..Len(rs), j # r, NEW x \in rs[j].lo..rs[j].hi
  PROVE  Between(s, rs[s].lo, j, x, i, c)
<1> PICK n : n = Len(rs) OBVIOUS
<1>1. /\ n \in Nat \ {0} /\ s \in 1..n /\ i \in 1..n /\ j \in 1..n /\ r \in 1..n
      /\ x \in Nat /\ c \in Nat /\ rs[s].lo \in Nat
  <2>1. n \in Nat \ {0} /\ \A k \in 1..n : rs[k].lo \in Nat BY RangeSetTyped
  <2> QED BY <2>1
<1>2. s = IF r = n THEN 1 ELSE r + 1 BY <1>1, Around
<1>3. c = rs[i].hi
  <2>1. CASE c # rs[i].hi
    <3>1. i = r /\ c + 1 = rs[r].lo BY <2>1 DEF NextRange, NextIP
    <3> QED BY <1>1, <3>1, RangeSetTyped
  <2> QED BY <2>1
<1>4. r = IF i = n THEN 1 ELSE i + 1 BY <1>3, NextPlace
<1>5. (j = s => rs[s].lo <= x) /\ (j = i => x <= c) /\ (s = i => rs[s].lo <= c)
  BY <1>3, RangeSetTyped
<1>6. CASE i = n
  <2>1. r = 1 BY <1>4, <1>6
  <2>2. s = 2 BY <1>1, <1>2, <1>6, <2>1
  <2> QED BY <1>1, <1>5, <1>6, <2>1, <2>2 DEF Between, Upto
<1>7. CASE i # n
  <2>1. r = i + 1 BY <1>4, <1>7
  <2>2. CASE r = n
    <3>1. s = 1 BY <1>2, <2>2
    <3> QED BY <1>1, <1>5, <2>1, <2>2, <3>1 DEF Between, Upto
  <2>3. CASE r # n
    <3>1. s = i + 2 BY <1>1, <1>2, <2>1, <2>3
    <3> QED BY <1>1, <1>5, <2>1, <2>3, <3>1 DEF Between, Upto
  <2> QED BY <2>2, <2>3
<1> QED BY <1>6, <1>7

(* Two ranges with an address in common are one block.                     *)
LEMMA SameBlock ==
  ASSUME NEW rs, IsRangeSet(rs), NEW i \in 1..Len(rs), NEW j \in 1..Len(rs),
         NEW x \in rs[i].lo..rs[i].hi, x \in rs[j].lo..rs[j].hi
  PROVE  rs[i] = rs[j]
<1>1. /\ rs[i] \in Blocks /\ rs[j] \in Blocks /\ rs[i].lo \in Nat /\ rs[i].hi \in Nat
      /\ rs[j].lo \in Nat /\ rs[j].hi \in Nat
  BY RangeSetTyped
<1> QED BY <1>1, ConstantsAssumption

(* When Next returns nil the search has met every address.                 *)
LEMMA LoopedMet ==
  ASSUME NEW rs, IsRangeSet(rs), NEW it, IterOK(rs, it), NEW T, Met(rs, it, T),
         Looped(rs, it)
  PROVE  Addresses(rs) \subseteq T
<1>1. it.cur # NoIP /\ it.startIP # NoIP BY DEF Looped
<1>2. /\ it.idx \in 1..Len(rs) /\ it.cur \in rs[it.idx].lo..rs[it.idx].hi
      /\ it.startRange \in 1..Len(rs)
  BY <1>1 DEF IterOK
<1>3. /\ NextRange(rs, it.idx, it.cur) = it.startRange
      /\ NextIP(rs, it.idx, it.cur) = it.startIP
  BY <1>1, IterMoves DEF Looped
<1>4. PICK s \in 1..Len(rs) :
        /\ it.startIP \in rs[s].lo..rs[s].hi
        /\ \/ s = it.startRange
           \/ /\ s = (it.startRange % Len(rs)) + 1
              /\ it.startIP = rs[s].lo
        /\ MetFrom(rs, s, it.startIP, it.idx, it.cur, T)
  BY <1>1 DEF Met
<1>5. ASSUME NEW j \in 1..Len(rs), NEW x \in rs[j].lo..rs[j].hi PROVE x \in T
  <2>1. CASE s = it.startRange
    <3>1. Between(s, it.startIP, j, x, it.idx, it.cur)
      BY <1>2, <1>3, <1>4, <2>1, BetweenAll
    <3> QED BY <1>4, <3>1 DEF MetFrom
  <2>2. CASE s # it.startRange
    <3> PICK r : r = it.startRange OBVIOUS
    <3>1. it.startIP \in rs[r].lo..rs[r].hi BY <1>2, <1>3, NextPlace
    <3>2. rs[r] = rs[s] BY <1>2, <1>4, <3>1, SameBlock
    <3>3. PICK k \in 1..Len(rs) : k # r /\ x \in rs[k].lo..rs[k].hi
      BY <1>4, <2>2, <3>2
    <3>4. s = (r % Len(rs)) + 1 /\ it.startIP = rs[s].lo /\ rs[s].lo = rs[r].lo
      BY <1>4, <2>2, <3>2
    <3>5. Between(s, it.startIP, k, x, it.idx, it.cur)
      BY <1>2, <1>3, <2>2, <3>3, <3>4, BetweenOthers
    <3> QED BY <1>4, <3>3, <3>5 DEF MetFrom
  <2> QED BY <2>1, <2>2
<1>6. DOMAIN rs = 1..Len(rs) BY RangeSetTyped
<1> QED BY <1>5, <1>6 DEF Addresses

-----------------------------------------------------------------------------
(* Round robin.                                                            *)

(* An iterator that started behind the address reserved last, if its range *)
(* set has it.                                                             *)
Since(rs, it, lst) ==
  lst # NoIP /\ Has(rs, lst) =>
    /\ it.cur # NoIP /\ lst \in rs[it.startRange].lo..rs[it.startRange].hi
    /\ IF it.startIP = NoIP THEN it.cur = lst
                            ELSE it.startIP = NextIP(rs, it.startRange, lst)

(* No block is twice in a range set.                                       *)
Different(rs) == \A i, j \in DOMAIN rs : rs[i] = rs[j] => i = j

LEMMA SinceStarts ==
  ASSUME NEW rs, IsRangeSet(rs), NEW lst \in Addr \cup {NoIP}
  PROVE  Since(rs, GetIter(rs, lst), lst)
<1> PICK it : it = GetIter(rs, lst) OBVIOUS
<1> SUFFICES ASSUME lst # NoIP, Has(rs, lst) PROVE Since(rs, it, lst)
  BY DEF Since
<1>1. /\ IterOK(rs, it) /\ it.cur = lst /\ it.startIP = NoIP
  BY IterStarts
<1>2. lst \in rs[it.idx].lo..rs[it.idx].hi /\ it.idx = it.startRange
  BY <1>1 DEF IterOK
<1> QED BY <1>1, <1>2 DEF Since

LEMMA SinceMoves ==
  ASSUME NEW rs, IsRangeSet(rs), NEW it, IterOK(rs, it), NEW lst, Since(rs, it, lst)
  PROVE  Since(rs, Moved(rs, it), lst)
<1> PICK m : m = Moved(rs, it) OBVIOUS
<1> SUFFICES ASSUME lst # NoIP, Has(rs, lst) PROVE Since(rs, m, lst)
  BY DEF Since
<1>1. /\ it.cur # NoIP /\ m.startRange = it.startRange /\ m.startIP # NoIP /\ m.cur # NoIP
      /\ m.cur = NextIP(rs, it.idx, it.cur)
      /\ m.startIP = IF it.startIP = NoIP THEN m.cur ELSE it.startIP
  BY IterMoves DEF Since
<1>2. it.startIP = NoIP => it.idx = it.startRange BY DEF IterOK
<1> QED BY <1>1, <1>2 DEF Since

(* Between the place behind <<r, z>> and the place before it there are all *)
(* the others.                                                             *)
LEMMA BetweenButOne ==
  ASSUME NEW rs, IsRangeSet(rs), NEW r \in 1..Len(rs), NEW z \in rs[r].lo..rs[r].hi,
         NEW i \in 1..Len(rs), NEW c \in rs[i].lo..rs[i].hi,
         NextRange(rs, i, c) = r, NextIP(rs, i, c) = z,
         NEW j \in 1..Len(rs), NEW x \in rs[j].lo..rs[j].hi, j # r \/ x # z
  PROVE  Between(NextRange(rs, r, z), NextIP(rs, r, z), j, x, i, c)
<1> PICK n : n = Len(rs) OBVIOUS
<1> PICK s : s = NextRange(rs, r, z) OBVIOUS
<1> PICK y : y = NextIP(rs, r, z) OBVIOUS
<1>1. /\ n \in Nat /\ s \in 1..n /\ r \in 1..n /\ i \in 1..n /\ j \in 1..n
      /\ x \in Nat /\ y \in Nat /\ c \in Nat /\ z \in Nat
  <2>1. s \in 1..n /\ y \in rs[s].lo..rs[s].hi BY NextPlace
  <2>2. n \in Nat /\ \A k \in 1..n : rs[k].lo \in Nat BY RangeSetTyped
  <2> QED BY <2>1, <2>2
<1>2. Between(r, z, j, x, i, c) BY BetweenAll
<1>3. i = r \/ (c = rs[i].hi /\ r = (IF i = n THEN 1 ELSE i + 1))
  <2>1. c = rs[i].hi => r = (IF i = n THEN 1 ELSE i + 1) BY NextPlace
  <2>2. c # rs[i].hi => i = r BY DEF NextRange
  <2> QED BY <2>1, <2>2
<1>4. CASE z # rs[r].hi
  <2>1. s = r /\ y = z + 1 BY <1>4 DEF NextRange, NextIP
  <2> QED BY <1>1, <1>2, <2>1 DEF Between, Upto
<1>5. CASE z = rs[r].hi
  <2>1. s = (IF r = n THEN 1 ELSE r + 1) /\ y = rs[s].lo
    BY <1>5, NextPlace DEF NextIP
  <2>2. (j = s => y <= x) /\ (i = s => y <= c) /\ (j = r => x <= z) /\ (i = r => c <= z)
    BY <1>1, <1>5, <2>1, RangeSetTyped
  <2>3. CASE r = n
    <3>1. s = 1 BY <2>1, <2>3
    <3> QED BY <1>1, <1>2, <2>2, <2>3, <3>1 DEF Between, Upto
  <2>4. CASE r # n
    <3>1. s = r + 1 BY <2>1, <2>4
    <3> QED BY <1>1, <1>2, <2>2, <2>4, <3>1 DEF Between, Upto
  <2> QED BY <2>3, <2>4
<1> QED BY <1>4, <1>5

(* A search that comes to the address reserved last has met all others.    *)
LEMMA LastMet ==
  ASSUME NEW rs, IsRangeSet(rs), Different(rs), NEW it, IterOK(rs, it),
         NEW T, Met(rs, it, T), Since(rs, it, Moved(rs, it).cur)
  PROVE  Addresses(rs) \ {Moved(rs, it).cur} \subseteq T
<1> PICK m : m = Moved(rs, it) OBVIOUS
<1> PICK z : z = m.cur OBVIOUS
<1>1. /\ m.idx \in 1..Len(rs) /\ z \in rs[m.idx].lo..rs[m.idx].hi /\ z # NoIP
      /\ it.cur # NoIP => /\ m.idx = NextRange(rs, it.idx, it.cur)
                          /\ z = NextIP(rs, it.idx, it.cur)
  BY IterMoves DEF IterOK
<1>2. DOMAIN rs = 1..Len(rs) /\ Len(rs) \in Nat BY RangeSetTyped
<1>3. Has(rs, z) BY <1>1, <1>2, RangeSetTyped DEF Has, InRange
<1> PICK r : r = it.startRange OBVIOUS
<1>4. /\ it.cur # NoIP /\ z \in rs[r].lo..rs[r].hi /\ r \in 1..Len(rs)
      /\ IF it.startIP = NoIP THEN it.cur = z ELSE it.startIP = NextIP(rs, r, z)
  BY <1>1, <1>3 DEF Since, IterOK
<1>5. m.idx = r
  <2>1. rs[m.idx] = rs[r] BY <1>1, <1>4, SameBlock
  <2> QED BY <1>1, <1>2, <1>4, <2>1 DEF Different
<1>6. /\ it.idx \in 1..Len(rs) /\ it.cur \in rs[it.idx].lo..rs[it.idx].hi
      /\ NextRange(rs, it.idx, it.cur) = r /\ NextIP(rs, it.idx, it.cur) = z
  BY <1>1, <1>4, <1>5 DEF IterOK
<1>7. ASSUME NEW j \in 1..Len(rs), NEW x \in rs[j].lo..rs[j].hi, x # z PROVE x \in T
  <2>1. Between(NextRange(rs, r, z), NextIP(rs, r, z), j, x, it.idx, it.cur)
    BY <1>4, <1>6, <1>7, BetweenButOne
  <2>2. CASE it.startIP = NoIP
    <3>1. it.idx = r /\ it.cur = z BY <1>4, <2>2 DEF IterOK
    <3>2. Between(r, z, j, x, r, z) BY <1>4, <1>6, <3>1, BetweenAll
    <3> QED BY <1>7, <1>4, <3>2, RangeSetTyped DEF Between, Upto
  <2>3. CASE it.startIP # NoIP
    <3>1. PICK s \in 1..Len(rs) :
            /\ it.startIP \in rs[s].lo..rs[s].hi
            /\ MetFrom(rs, s, it.startIP, it.idx, it.cur, T)
      BY <1>4, <2>3 DEF Met
    <3> PICK t : t = NextRange(rs, r, z) OBVIOUS
    <3>2. t \in 1..Len(rs) /\ it.startIP \in rs[t].lo..rs[t].hi
      BY <1>4, <2>3, NextPlace
    <3>3. rs[s] = rs[t] BY <3>1, <3>2, SameBlock
    <3>4. s = t BY <1>2, <3>1, <3>2, <3>3 DEF Different
    <3> QED BY <1>4, <2>1, <2>3, <3>1, <3>4 DEF MetFrom
  <2> QED BY <2>2, <2>3
<1> QED BY <1>2, <1>7 DEF Addresses

-----------------------------------------------------------------------------
(* Types.                                                                  *)

AddPCs == {"form", "get", "search", "apply", "append", "flash", "got", "fail", "gw"}

(* The plugin j at work for attachment a, which has got as far as p.       *)
Job(a, j, p) ==
  /\ DOMAIN j = DOMAIN Idle
  /\ j.pc \in {"idle", "release"} \cup AddPCs
  /\ p = "adding" <=> j.pc \in AddPCs
  /\ p = "deleting" <=> j.pc = "release"
  /\ j.pc \in AddPCs => j.who \in {a, GatewayId}
  /\ j.pc \in AddPCs /\ ~AllocGW => j.who = a /\ j.pc # "gw"
  /\ j.rss \in Seq(Blocks) /\ j.rs \in Seq(Blocks) /\ j.img \in Seq(Blocks)
  /\ j.pc \in {"append", "flash"} => j.blk \in Blocks
  /\ j.got \in Seq(Addr) /\ j.left \in Nat
  /\ j.pc = "search" => IsRangeSet(j.rs) /\ IterOK(j.rs, j.it)

Typed ==
  /\ TypeOK /\ DOMAIN job = Att /\ DOMAIN ips = Att
  /\ \A a \in Att : Job(a, job[a], phase[a])

Phases == {"new", "adding", "up", "failed", "killed", "deleting", "deleted"}

(* A step of the plugin for a, which is l afterwards.                      *)
Goes(a, l) ==
  /\ job'[a] = l /\ DOMAIN job' = Att /\ DOMAIN ips' = Att
  /\ \A d \in Att \ {a} : job'[d] = job[d] /\ phase'[d] = phase[d]

LEMMA GoesTyped ==
  ASSUME Typed, NEW a \in Att, NEW l, Goes(a, l), Job(a, l, phase'[a]), TypeOK'
  PROVE  Typed'
<1>1. ASSUME NEW d \in Att PROVE Job(d, job'[d], phase'[d])
  <2>1. CASE d = a BY <2>1 DEF Goes
  <2>2. CASE d # a BY <2>2 DEF Goes, Typed
  <2> QED BY <2>1, <2>2
<1> QED BY <1>1 DEF Typed, Goes

(* A step that leaves the files, the lock and the blocks alone.            *)
LEMMA GoesAlone ==
  ASSUME Typed, NEW a \in Att, NEW l, Goes(a, l), Job(a, l, phase'[a]),
         UNCHANGED <<file, last, lock, cache, granted, running>>,
         phase' \in [Att -> Phases], job[a].pc = "search" <=> l.pc = "search"
  PROVE  Typed'
<1>1. TypeOK' BY DEF Typed, TypeOK, Goes, At, Phases
<1> QED BY <1>1, GoesTyped

(* A step that releases addresses besides.                                 *)
LEMMA UnlinksTyped ==
  ASSUME Typed, NEW a \in Att, NEW l, Goes(a, l), Job(a, l, phase'[a]), NEW S, Unlink(S),
         UNCHANGED <<last, lock, cache, granted, running, phase>>,
         job[a].pc # "search", l.pc # "search"
  PROVE  Typed'
<1>1. DOMAIN file' \subseteq DOMAIN file /\ \A ip \in DOMAIN file' : file'[ip] = file[ip]
  BY DEF Unlink
<1>2. TypeOK' BY <1>1 DEF Typed, TypeOK, Goes, At
<1> QED BY <1>2, GoesTyped

(* Where a file is created: at an address of a block.                      *)
LEMMA CandidateTyped ==
  ASSUME Typed, NEW a \in Att, At(a, "search")
  PROVE  Candidate(a) \in Addr /\ Candidate(a) # NoIP
<1>1. IsRangeSet(job[a].rs) /\ IterOK(job[a].rs, job[a].it) BY DEF Typed, Job, At
<1> PICK m : m = Moved(job[a].rs, job[a].it) OBVIOUS
<1>2. IterOK(job[a].rs, m) /\ m.cur \in job[a].rs[m.idx].lo..job[a].rs[m.idx].hi
      /\ m.cur # NoIP
  BY <1>1, IterMoves
<1>3. job[a].rs[m.idx] \in Blocks BY <1>1, <1>2, RangeSetTyped DEF IterOK
<1> QED BY <1>2, <1>3 DEF Candidate, Addr

LEMMA CreateTyped ==
  ASSUME Typed, NEW a \in Att, NEW owner, Create(a, owner),
         owner.cid \in Container \cup {GatewayId, None}
  PROVE  /\ DOMAIN file' \subseteq Addr \cup UNION {DOMAIN f : f \in Filed}
         /\ \A ip \in DOMAIN file' : file'[ip].cid \in Container \cup {GatewayId, None}
         /\ lock = a
<1>1. At(a, "search") BY DEF Create, Offered
<1>2. Candidate(a) \in Addr BY <1>1, CandidateTyped
<1>3. /\ DOMAIN file' = DOMAIN file \cup {Candidate(a)}
      /\ \A ip \in DOMAIN file' : file'[ip] = IF ip = Candidate(a) THEN owner ELSE file[ip]
  BY DEF Create
<1>4. lock = a BY <1>1 DEF Typed, TypeOK
<1>5. DOMAIN file' \subseteq Addr \cup UNION {DOMAIN f : f \in Filed}
  BY <1>2, <1>3 DEF Typed, TypeOK
<1>6. \A ip \in DOMAIN file' : file'[ip].cid \in Container \cup {GatewayId, None}
  BY <1>3 DEF Typed, TypeOK
<1> QED BY <1>4, <1>5, <1>6

(* None is no attachment.                                                  *)
LEMMA NobodyIs == None \notin Att
BY ConstantsAssumption

LEMMA OwnersTyped ==
  ASSUME NEW a \in Att
  PROVE  /\ NewOwner(a).cid \in Container \cup {GatewayId, None}
         /\ Nobody.cid \in Container \cup {GatewayId, None}
BY ConstantsAssumption DEF NewOwner, Owner, OwnerCid, Nobody

LEMMA AddTyped ==
  ASSUME Typed, NEW a \in Att, Add(a)
  PROVE  Typed'
<1> PICK j : j = job[a] OBVIOUS
<1>1. Job(a, j, phase[a]) BY DEF Typed
<1> PICK l : l = [j EXCEPT !.pc = "form", !.who = a] OBVIOUS
<1>2. /\ DOMAIN l = DOMAIN Idle /\ l.pc = "form" /\ l.who = a
      /\ l.rss = j.rss /\ l.rs = j.rs /\ l.img = j.img /\ l.got = j.got
      /\ l.left = j.left
  BY <1>1 DEF Job, Idle
<1>3. Job(a, l, phase'[a])
  BY <1>1, <1>2 DEF Add, At, Job, AddPCs, Typed, TypeOK
<1>4. Goes(a, l) BY DEF Add, Goes, Typed, TypeOK
<1>5. phase' \in [Att -> Phases] /\ (j.pc = "search" <=> l.pc = "search")
  BY <1>1, <1>2 DEF Add, At, Typed, TypeOK, Phases, Job, AddPCs
<1>6. UNCHANGED <<file, last, lock, cache, granted, running>> BY DEF Add
<1> QED BY <1>3, <1>4, <1>5, <1>6, GoesAlone

LEMMA FormTyped ==
  ASSUME Typed, NEW a \in Att, Form(a)
  PROVE  Typed'
<1> PICK j : j = job[a] OBVIOUS
<1>1. Job(a, j, phase[a]) BY DEF Typed
<1> PICK l : l = [j EXCEPT !.rss = cache, !.rs = cache, !.pc = "get", !.tries = 0, !.got = << >>] OBVIOUS
<1>2. /\ DOMAIN l = DOMAIN Idle /\ l.pc = "get" /\ l.who = j.who
      /\ l.rss = cache /\ l.rs = cache /\ l.img = j.img /\ l.got = << >>
      /\ l.left = j.left /\ l.tries = 0
  BY <1>1 DEF Job, Idle
<1>3. Job(a, l, phase'[a])
  BY <1>1, <1>2 DEF Form, At, Job, AddPCs, Typed, TypeOK
<1>4. Goes(a, l) BY DEF Form, Goes, Typed, TypeOK
<1>5. phase' \in [Att -> Phases] /\ (j.pc = "search" <=> l.pc = "search")
  BY <1>1, <1>2 DEF Form, At, Typed, TypeOK, Phases, Job, AddPCs
<1>6. UNCHANGED <<file, last, lock, cache, granted, running>> BY DEF Form
<1> QED BY <1>3, <1>4, <1>5, <1>6, GoesAlone

LEMMA NothingCachedTyped ==
  ASSUME Typed, NEW a \in Att, NothingCached(a)
  PROVE  Typed'
<1> PICK j : j = job[a] OBVIOUS
<1>1. Job(a, j, phase[a]) BY DEF Typed
<1> PICK l : l = [j EXCEPT !.pc = "apply"] OBVIOUS
<1>2. /\ DOMAIN l = DOMAIN Idle /\ l.pc = "apply" /\ l.who = j.who
      /\ l.rss = j.rss /\ l.rs = j.rs /\ l.img = j.img /\ l.got = j.got
      /\ l.left = j.left
  BY <1>1 DEF Job, Idle
<1>3. Job(a, l, phase'[a])
  BY <1>1, <1>2 DEF NothingCached, At, Job, AddPCs, Typed, TypeOK
<1>4. Goes(a, l) BY DEF NothingCached, Goes, Typed, TypeOK
<1>5. phase' \in [Att -> Phases] /\ (j.pc = "search" <=> l.pc = "search")
  BY <1>1, <1>2 DEF NothingCached, At, Typed, TypeOK, Phases, Job, AddPCs
<1>6. UNCHANGED <<file, last, lock, cache, granted, running>>
  BY DEF NothingCached
<1> QED BY <1>3, <1>4, <1>5, <1>6, GoesAlone

LEMMA GetTyped ==
  ASSUME Typed, NEW a \in Att, Get(a)
  PROVE  Typed'
<1> PICK j : j = job[a] OBVIOUS
<1>1. Job(a, j, phase[a]) BY DEF Typed
<1>2. j.pc = "get" /\ j.rs # << >> /\ IsRangeSet(j.rs) /\ lock = None
  BY <1>1 DEF Get, At, Job, IsRangeSet
<1>3. IterOK(j.rs, GetIter(j.rs, last))
  <2>1. last \in Addr \cup {NoIP} BY DEF Typed, TypeOK
  <2> QED BY <1>2, <2>1, IterStarts
<1>4. CASE Duplicate(a)
  <2> PICK l : l = [j EXCEPT !.pc = "fail", !.left = Len(j.got)] OBVIOUS
  <2>1. Job(a, l, phase[a])
    <3>1. Len(j.got) \in Nat BY <1>1 DEF Job
    <3> QED BY <1>1, <1>2, <3>1 DEF Job, Idle, AddPCs
  <2>2. Goes(a, l) BY <1>4 DEF Get, Goes, Typed
  <2>3. UNCHANGED <<file, last, lock, cache, granted, running, phase>>
    BY <1>4 DEF Get
  <2>4. l.pc # "search" BY <1>1 DEF Job, Idle
  <2>5. phase' \in [Att -> Phases] BY <2>3 DEF Typed, TypeOK, Phases
  <2> QED BY <1>2, <2>1, <2>2, <2>3, <2>4, <2>5, GoesAlone
<1>5. CASE ~Duplicate(a)
  <2> PICK l : l = [j EXCEPT !.pc = "search", !.it = GetIter(j.rs, last)] OBVIOUS
  <2>1. Job(a, l, phase[a]) BY <1>1, <1>2, <1>3 DEF Job, Idle, AddPCs
  <2>2. Goes(a, l) BY <1>5 DEF Get, Goes, Typed
  <2>3. lock' = a /\ UNCHANGED <<file, last, cache, granted, running, phase>>
    BY <1>5 DEF Get
  <2>4. l.pc = "search" BY <1>1 DEF Job, Idle
  <2>5. TypeOK'
    <3>1. \A d \in Att : ~At(d, "search") BY <1>2, ConstantsAssumption DEF Typed, TypeOK
    <3>2. \A d \in Att : lock' = d <=> job'[d].pc = "search"
      BY <2>2, <2>3, <2>4, <3>1 DEF Goes, At
    <3> QED BY <2>3, <3>2 DEF Typed, TypeOK, At
  <2> QED BY <2>1, <2>2, <2>3, <2>5, GoesTyped
<1> QED BY <1>4, <1>5

LEMMA SkipTyped ==
  ASSUME Typed, NEW a \in Att, Skip(a)
  PROVE  Typed'
<1> PICK j : j = job[a] OBVIOUS
<1>1. Job(a, j, phase[a]) BY DEF Typed
<1>2. IsRangeSet(j.rs) /\ IterOK(j.rs, Moved(j.rs, j.it))
  BY <1>1, IterMoves DEF Skip, At, Job
<1> PICK l : l = [j EXCEPT !.it = Moved(j.rs, j.it)] OBVIOUS
<1>3. /\ DOMAIN l = DOMAIN Idle /\ l.pc = j.pc /\ l.who = j.who
      /\ l.rss = j.rss /\ l.rs = j.rs /\ l.it = Moved(j.rs, j.it)
      /\ l.img = j.img /\ l.got = j.got /\ l.left = j.left
  BY <1>1 DEF Job, Idle
<1>4. Job(a, l, phase'[a])
  BY <1>1, <1>3, <1>2 DEF Skip, At, Job, AddPCs, Typed, TypeOK
<1>5. Goes(a, l) BY <1>2 DEF Skip, Goes, Typed, TypeOK
<1>6. phase' \in [Att -> Phases] /\ (j.pc = "search" <=> l.pc = "search")
  BY <1>1, <1>3 DEF Skip, At, Typed, TypeOK, Phases, Job, AddPCs
<1>7. UNCHANGED <<file, last, lock, cache, granted, running>> BY DEF Skip
<1> QED BY <1>4, <1>5, <1>6, <1>7, GoesAlone

LEMMA ReserveTyped ==
  ASSUME Typed, NEW a \in Att, Reserve(a)
  PROVE  Typed'
<1> PICK j : j = job[a] OBVIOUS
<1>1. Job(a, j, phase[a]) BY DEF Typed
<1>2. /\ At(a, "search") /\ lock = a /\ lock' = None /\ Candidate(a) \in Addr
      /\ DOMAIN file' \subseteq Addr \cup UNION {DOMAIN f : f \in Filed}
      /\ \A ip \in DOMAIN file' : file'[ip].cid \in Container \cup {GatewayId, None}
  <2>1. At(a, "search") BY DEF Reserve, Create, Offered
  <2> QED BY <2>1, CreateTyped, OwnersTyped, CandidateTyped DEF Reserve
<1> PICK l : l = [j EXCEPT !.got = Append(j.got, Candidate(a)), !.pc = "got"] OBVIOUS
<1>3. /\ DOMAIN l = DOMAIN Idle /\ l.pc = "got" /\ l.who = j.who
      /\ l.rss = j.rss /\ l.rs = j.rs /\ l.img = j.img
      /\ l.got = Append(j.got, Candidate(a)) /\ l.left = j.left
  BY <1>1 DEF Job, Idle
<1>4. Job(a, l, phase'[a]) BY <1>1, <1>2, <1>3 DEF Reserve, At, Job, AddPCs
<1>5. Goes(a, l) BY DEF Reserve, Goes, Typed
<1>6. TypeOK'
  <2>1. \A d \in Att : d # a => ~At(d, "search") BY <1>2 DEF Typed, TypeOK
  <2>2. \A d \in Att : lock' = d <=> job'[d].pc = "search"
    BY <1>2, <1>3, <1>5, <2>1, NobodyIs DEF Goes, At
  <2> QED BY <1>2, <2>2 DEF Reserve, Typed, TypeOK, At
<1> QED BY <1>4, <1>5, <1>6, GoesTyped

LEMMA ReserveErrorTyped ==
  ASSUME Typed, NEW a \in Att, ReserveError(a)
  PROVE  Typed'
<1> PICK j : j = job[a] OBVIOUS
<1>1. Job(a, j, phase[a]) BY DEF Typed
<1>2. /\ At(a, "search") /\ lock = a /\ lock' = None /\ Candidate(a) \in Addr
      /\ DOMAIN file' \subseteq Addr \cup UNION {DOMAIN f : f \in Filed}
      /\ \A ip \in DOMAIN file' : file'[ip].cid \in Container \cup {GatewayId, None}
  <2>1. At(a, "search") BY DEF ReserveError, Create, Offered
  <2> QED BY <2>1, CreateTyped, OwnersTyped, CandidateTyped DEF ReserveError
<1> PICK l : l = [j EXCEPT !.pc = "fail", !.left = Len(j.got)] OBVIOUS
<1>3. /\ DOMAIN l = DOMAIN Idle /\ l.pc = "fail" /\ l.who = j.who
      /\ l.rss = j.rss /\ l.rs = j.rs /\ l.img = j.img /\ l.got = j.got
      /\ l.left = Len(j.got)
  BY <1>1 DEF Job, Idle
<1>4. Job(a, l, phase'[a])
  <2>1. Len(j.got) \in Nat BY <1>1 DEF Job
  <2> QED BY <1>1, <1>2, <1>3, <2>1 DEF ReserveError, At, Job, AddPCs
<1>5. Goes(a, l) BY DEF ReserveError, Goes, Typed
<1>6. TypeOK'
  <2>1. \A d \in Att : d # a => ~At(d, "search") BY <1>2 DEF Typed, TypeOK
  <2>2. \A d \in Att : lock' = d <=> job'[d].pc = "search"
    BY <1>2, <1>3, <1>5, <2>1, NobodyIs DEF Goes, At
  <2> QED BY <1>2, <2>2 DEF ReserveError, Typed, TypeOK, At
<1> QED BY <1>4, <1>5, <1>6, GoesTyped

LEMMA ExhaustedTyped ==
  ASSUME Typed, NEW a \in Att, Exhausted(a)
  PROVE  Typed'
<1> PICK j : j = job[a] OBVIOUS
<1>1. Job(a, j, phase[a]) BY DEF Typed
<1>2. At(a, "search") /\ lock = a /\ lock' = None BY DEF Exhausted, Typed, TypeOK
<1> PICK l : l = [j EXCEPT !.pc = "apply"] OBVIOUS
<1>3. /\ DOMAIN l = DOMAIN Idle /\ l.pc = "apply" /\ l.who = j.who
      /\ l.rss = j.rss /\ l.rs = j.rs /\ l.img = j.img /\ l.got = j.got
      /\ l.left = j.left
  BY <1>1 DEF Job, Idle
<1>4. Job(a, l, phase'[a]) BY <1>1, <1>2, <1>3 DEF Exhausted, At, Job, AddPCs
<1>5. Goes(a, l) BY DEF Exhausted, Goes, Typed
<1>6. TypeOK'
  <2>1. \A d \in Att : d # a => ~At(d, "search") BY <1>2 DEF Typed, TypeOK
  <2>2. \A d \in Att : lock' = d <=> job'[d].pc = "search"
    BY <1>2, <1>3, <1>5, <2>1, NobodyIs DEF Goes, At
  <2> QED BY <1>2, <2>2 DEF Exhausted, Typed, TypeOK, At
<1> QED BY <1>4, <1>5, <1>6, GoesTyped

LEMMA ApplyBlockTyped ==
  ASSUME Typed, NEW a \in Att, ApplyBlock(a)
  PROVE  Typed'
<1> PICK j : j = job[a] OBVIOUS
<1>1. Job(a, j, phase[a]) BY DEF Typed
<1>2. PICK b \in Blocks :
        /\ granted' = granted \cup {b}
        /\ job' = [job EXCEPT ![a].blk = b, ![a].tries = @ + 1, ![a].pc = "append"]
  BY DEF ApplyBlock
<1> PICK l : l = [j EXCEPT !.blk = b, !.tries = j.tries + 1, !.pc = "append"] OBVIOUS
<1>3. /\ DOMAIN l = DOMAIN Idle /\ l.pc = "append" /\ l.who = j.who
      /\ l.rss = j.rss /\ l.rs = j.rs /\ l.blk = b /\ l.img = j.img
      /\ l.got = j.got /\ l.left = j.left /\ l.tries = j.tries + 1
  BY <1>1 DEF Job, Idle
<1>4. Job(a, l, phase'[a]) BY <1>1, <1>2, <1>3 DEF ApplyBlock, At, Job, AddPCs
<1>5. Goes(a, l) BY <1>2 DEF ApplyBlock, Goes, Typed
<1>6. TypeOK' BY <1>2, <1>3, <1>5 DEF ApplyBlock, Goes, At, Typed, TypeOK
<1> QED BY <1>4, <1>5, <1>6, GoesTyped

LEMMA NoBlockTyped ==
  ASSUME Typed, NEW a \in Att, NoBlock(a)
  PROVE  Typed'
<1> PICK j : j = job[a] OBVIOUS
<1>1. Job(a, j, phase[a]) BY DEF Typed
<1>2. Len(j.got) \in Nat BY <1>1 DEF Job
<1> PICK l : l = [j EXCEPT !.pc = "fail", !.left = Len(j.got)] OBVIOUS
<1>3. /\ DOMAIN l = DOMAIN Idle /\ l.pc = "fail" /\ l.who = j.who
      /\ l.rss = j.rss /\ l.rs = j.rs /\ l.img = j.img /\ l.got = j.got
      /\ l.left = Len(j.got)
  BY <1>1 DEF Job, Idle
<1>4. Job(a, l, phase'[a])
  BY <1>1, <1>3, <1>2 DEF NoBlock, At, Job, AddPCs, Typed, TypeOK
<1>5. Goes(a, l) BY <1>2 DEF NoBlock, Goes, Typed, TypeOK
<1>6. phase' \in [Att -> Phases] /\ (j.pc = "search" <=> l.pc = "search")
  BY <1>1, <1>3 DEF NoBlock, At, Typed, TypeOK, Phases, Job, AddPCs
<1>7. UNCHANGED <<file, last, lock, cache, granted, running>> BY DEF NoBlock
<1> QED BY <1>4, <1>5, <1>6, <1>7, GoesAlone

LEMMA AppendLoadTyped ==
  ASSUME Typed, NEW a \in Att, AppendLoad(a)
  PROVE  Typed'
<1> PICK j : j = job[a] OBVIOUS
<1>1. Job(a, j, phase[a]) BY DEF Typed
<1> PICK l : l = [j EXCEPT !.img = cache, !.pc = "flash"] OBVIOUS
<1>2. /\ DOMAIN l = DOMAIN Idle /\ l.pc = "flash" /\ l.who = j.who
      /\ l.rss = j.rss /\ l.rs = j.rs /\ l.img = cache /\ l.got = j.got
      /\ l.left = j.left /\ l.blk = j.blk
  BY <1>1 DEF Job, Idle
<1>3. Job(a, l, phase'[a])
  BY <1>1, <1>2 DEF AppendLoad, At, Job, AddPCs, Typed, TypeOK
<1>4. Goes(a, l) BY DEF AppendLoad, Goes, Typed, TypeOK
<1>5. phase' \in [Att -> Phases] /\ (j.pc = "search" <=> l.pc = "search")
  BY <1>1, <1>2 DEF AppendLoad, At, Typed, TypeOK, Phases, Job, AddPCs
<1>6. UNCHANGED <<file, last, lock, cache, granted, running>> BY DEF AppendLoad
<1> QED BY <1>3, <1>4, <1>5, <1>6, GoesAlone

LEMMA AppendFlashTyped ==
  ASSUME Typed, NEW a \in Att, AppendFlash(a)
  PROVE  Typed'
<1> PICK j : j = job[a] OBVIOUS
<1>1. Job(a, j, phase[a]) BY DEF Typed
<1>2. j.pc = "flash" /\ j.blk \in Blocks BY <1>1 DEF AppendFlash, At, Job
<1> PICK l : l = [j EXCEPT !.rs = <<j.blk>>, !.img = << >>, !.pc = "get"] OBVIOUS
<1>3. /\ DOMAIN l = DOMAIN Idle /\ l.pc = "get" /\ l.who = j.who
      /\ l.rss = j.rss /\ l.rs = <<j.blk>> /\ l.img = << >> /\ l.got = j.got
      /\ l.left = j.left
  BY <1>1 DEF Job, Idle
<1>4. Job(a, l, phase'[a]) BY <1>1, <1>2, <1>3 DEF AppendFlash, Job, AddPCs
<1>5. Goes(a, l) BY DEF AppendFlash, Goes, Typed
<1>6. cache' \in Seq(Blocks) BY <1>1, <1>2 DEF AppendFlash, Job
<1>7. TypeOK' BY <1>2, <1>3, <1>5, <1>6 DEF AppendFlash, Goes, At, Typed, TypeOK
<1> QED BY <1>4, <1>5, <1>7, GoesTyped

LEMMA NextAddressTyped ==
  ASSUME Typed, NEW a \in Att, NextAddress(a)
  PROVE  Typed'
<1> PICK j : j = job[a] OBVIOUS
<1>1. Job(a, j, phase[a]) BY DEF Typed
<1> PICK l : l = [j EXCEPT !.rs = j.rss, !.tries = 0, !.pc = "get"] OBVIOUS
<1>2. /\ DOMAIN l = DOMAIN Idle /\ l.pc = "get" /\ l.who = j.who
      /\ l.rss = j.rss /\ l.rs = j.rss /\ l.img = j.img /\ l.got = j.got
      /\ l.left = j.left /\ l.tries = 0
  BY <1>1 DEF Job, Idle
<1>3. Job(a, l, phase'[a])
  BY <1>1, <1>2 DEF NextAddress, At, Job, AddPCs, Typed, TypeOK
<1>4. Goes(a, l) BY DEF NextAddress, Goes, Typed, TypeOK
<1>5. phase' \in [Att -> Phases] /\ (j.pc = "search" <=> l.pc = "search")
  BY <1>1, <1>2 DEF NextAddress, At, Typed, TypeOK, Phases, Job, AddPCs
<1>6. UNCHANGED <<file, last, lock, cache, granted, running>>
  BY DEF NextAddress
<1> QED BY <1>3, <1>4, <1>5, <1>6, GoesAlone

LEMMA RollBackTyped ==
  ASSUME Typed, NEW a \in Att, RollBack(a)
  PROVE  Typed'
<1> PICK j : j = job[a] OBVIOUS
<1>1. Job(a, j, phase[a]) BY DEF Typed
<1> PICK l : l = [j EXCEPT !.left = j.left - 1] OBVIOUS
<1>2. /\ DOMAIN l = DOMAIN Idle /\ l.pc = j.pc /\ l.who = j.who
      /\ l.rss = j.rss /\ l.rs = j.rs /\ l.img = j.img /\ l.got = j.got
      /\ l.left = j.left - 1
  BY <1>1 DEF Job, Idle
<1>3. Job(a, l, phase'[a])
  BY <1>1, <1>2 DEF RollBack, At, Job, AddPCs, Typed, TypeOK
<1>4. Goes(a, l) BY DEF RollBack, Goes, Typed, TypeOK
<1>5. Unlink(ByID(OwnerCid(a), OwnerIf(a))) /\ j.pc # "search" /\ l.pc # "search"
  BY <1>2 DEF RollBack, At
<1>6. UNCHANGED <<last, lock, cache, granted, running, phase>> BY DEF RollBack
<1> QED BY <1>3, <1>4, <1>5, <1>6, UnlinksTyped

LEMMA AddFailsTyped ==
  ASSUME Typed, NEW a \in Att, AddFails(a)
  PROVE  Typed'
<1> PICK j : j = job[a] OBVIOUS
<1>1. Job(a, j, phase[a]) BY DEF Typed
<1>2. j.pc # "search"
  BY <1>1 DEF AddFails, At
<1>3. Job(a, Idle, "failed") BY DEF Job, Idle, AddPCs
<1>4. Goes(a, Idle) /\ phase'[a] = "failed" BY DEF AddFails, Goes, Typed, TypeOK
<1>5. phase' \in [Att -> Phases] BY DEF AddFails, Typed, TypeOK, Phases
<1>6. UNCHANGED <<file, last, lock, cache, granted, running>> BY DEF AddFails
<1>7. Idle.pc # "search" BY DEF Idle
<1> QED BY <1>2, <1>3, <1>4, <1>5, <1>6, <1>7, GoesAlone

LEMMA AddDoneTyped ==
  ASSUME Typed, NEW a \in Att, AddDone(a)
  PROVE  Typed'
<1> PICK j : j = job[a] OBVIOUS
<1>1. Job(a, j, phase[a]) BY DEF Typed
<1>2. j.pc # "search"
  BY <1>1 DEF AddDone, At
<1>3. Job(a, Idle, "up") BY DEF Job, Idle, AddPCs
<1>4. Goes(a, Idle) /\ phase'[a] = "up" BY DEF AddDone, Goes, Typed, TypeOK
<1>5. phase' \in [Att -> Phases] BY DEF AddDone, Typed, TypeOK, Phases
<1>6. UNCHANGED <<file, last, lock, cache, granted, running>> BY DEF AddDone
<1>7. Idle.pc # "search" BY DEF Idle
<1> QED BY <1>2, <1>3, <1>4, <1>5, <1>6, <1>7, GoesAlone

LEMMA DelDoneTyped ==
  ASSUME Typed, NEW a \in Att, DelDone(a)
  PROVE  Typed'
<1> PICK j : j = job[a] OBVIOUS
<1>1. Job(a, j, phase[a]) BY DEF Typed
<1>2. j.pc # "search"
  BY <1>1 DEF DelDone, At
<1>3. Job(a, Idle, "deleted") BY DEF Job, Idle, AddPCs
<1>4. Goes(a, Idle) /\ phase'[a] = "deleted" BY DEF DelDone, Goes, Typed, TypeOK
<1>5. phase' \in [Att -> Phases] BY DEF DelDone, Typed, TypeOK, Phases
<1>6. UNCHANGED <<file, last, lock, cache, granted, running>> BY DEF DelDone
<1>7. Idle.pc # "search" BY DEF Idle
<1> QED BY <1>2, <1>3, <1>4, <1>5, <1>6, <1>7, GoesAlone

LEMMA LookForGWTyped ==
  ASSUME Typed, NEW a \in Att, LookForGW(a)
  PROVE  Typed'
<1> PICK j : j = job[a] OBVIOUS
<1>1. Job(a, j, phase[a]) BY DEF Typed
<1> PICK l : l = job'[a] OBVIOUS
<1>2. j.pc = "got" BY DEF LookForGW, At
<1>3. /\ DOMAIN l = DOMAIN Idle /\ l.pc = "gw" /\ l.who = j.who /\ l.rss = j.rss
      /\ l.rs = j.rs /\ l.img = j.img /\ l.got = j.got /\ l.left = j.left
  <2> PICK gws : gws = OfContainer(GatewayId) OBVIOUS
  <2>1. \/ l = [j EXCEPT !.pc = "gw"]
        \/ l = [j EXCEPT !.pc = "gw", !.gws = gws \ {First(gws)}]
    BY DEF LookForGW, Typed
  <2> QED BY <1>1, <2>1 DEF Job, Idle
<1>4. Job(a, l, phase'[a]) BY <1>1, <1>2, <1>3 DEF LookForGW, Job, AddPCs
<1>5. Goes(a, l) BY DEF LookForGW, Goes, Typed
<1>6. UNCHANGED <<file, last, lock, cache, granted, running, phase>> BY DEF LookForGW
<1>7. phase' \in [Att -> Phases] BY <1>6 DEF Typed, TypeOK, Phases
<1> QED BY <1>2, <1>3, <1>4, <1>5, <1>6, <1>7, GoesAlone

LEMMA ReleaseRedundantTyped ==
  ASSUME Typed, NEW a \in Att, ReleaseRedundant(a)
  PROVE  Typed'
<1> PICK j : j = job[a] OBVIOUS
<1>1. Job(a, j, phase[a]) BY DEF Typed
<1> PICK l : l = [j EXCEPT !.gws = j.gws \ {First(j.gws)}] OBVIOUS
<1>2. /\ DOMAIN l = DOMAIN Idle /\ l.pc = j.pc /\ l.who = j.who
      /\ l.rss = j.rss /\ l.rs = j.rs /\ l.img = j.img /\ l.got = j.got
      /\ l.left = j.left /\ l.gws = j.gws \ {First(j.gws)}
  BY <1>1 DEF Job, Idle
<1>3. Job(a, l, phase'[a])
  BY <1>1, <1>2 DEF ReleaseRedundant, At, Job, AddPCs, Typed, TypeOK
<1>4. Goes(a, l) BY DEF ReleaseRedundant, Goes, Typed, TypeOK
<1>5. Unlink({First(j.gws)}) /\ j.pc # "search" /\ l.pc # "search"
  BY <1>2 DEF ReleaseRedundant, At
<1>6. UNCHANGED <<last, lock, cache, granted, running, phase>>
  BY DEF ReleaseRedundant
<1> QED BY <1>3, <1>4, <1>5, <1>6, UnlinksTyped

LEMMA AllocateGWTyped ==
  ASSUME Typed, NEW a \in Att, AllocateGW(a)
  PROVE  Typed'
<1> PICK j : j = job[a] OBVIOUS
<1>1. Job(a, j, phase[a]) BY DEF Typed
<1> PICK l : l = [j EXCEPT !.who = GatewayId, !.pc = "form"] OBVIOUS
<1>2. /\ DOMAIN l = DOMAIN Idle /\ l.pc = "form" /\ l.who = GatewayId
      /\ l.rss = j.rss /\ l.rs = j.rs /\ l.img = j.img /\ l.got = j.got
      /\ l.left = j.left
  BY <1>1 DEF Job, Idle
<1>3. Job(a, l, phase'[a])
  BY <1>1, <1>2 DEF AllocateGW, At, Job, AddPCs, Typed, TypeOK
<1>4. Goes(a, l) BY DEF AllocateGW, Goes, Typed, TypeOK
<1>5. phase' \in [Att -> Phases] /\ (j.pc = "search" <=> l.pc = "search")
  BY <1>1, <1>2 DEF AllocateGW, At, Typed, TypeOK, Phases, Job, AddPCs
<1>6. UNCHANGED <<file, last, lock, cache, granted, running>> BY DEF AllocateGW
<1> QED BY <1>3, <1>4, <1>5, <1>6, GoesAlone

LEMMA DeleteTyped ==
  ASSUME Typed, NEW a \in Att, Delete(a)
  PROVE  Typed'
<1> PICK j : j = job[a] OBVIOUS
<1>1. Job(a, j, phase[a]) BY DEF Typed
<1> PICK l : l = [j EXCEPT !.pc = "release", !.left = RangeSets] OBVIOUS
<1>2. /\ DOMAIN l = DOMAIN Idle /\ l.pc = "release" /\ l.who = j.who
      /\ l.rss = j.rss /\ l.rs = j.rs /\ l.img = j.img /\ l.got = j.got
      /\ l.left = RangeSets
  BY <1>1 DEF Job, Idle
<1>3. Job(a, l, phase'[a])
  BY <1>1, <1>2, ConstantsAssumption DEF Delete, At, Job, AddPCs, Typed,
    TypeOK
<1>4. Goes(a, l) BY DEF Delete, Goes, Typed, TypeOK
<1>5. phase' \in [Att -> Phases] /\ (j.pc = "search" <=> l.pc = "search")
  BY <1>1, <1>2 DEF Delete, At, Typed, TypeOK, Phases, Job, AddPCs
<1>6. UNCHANGED <<file, last, lock, cache, granted, running>> BY DEF Delete
<1> QED BY <1>3, <1>4, <1>5, <1>6, GoesAlone

LEMMA ReleaseTyped ==
  ASSUME Typed, NEW a \in Att, Release(a)
  PROVE  Typed'
<1> PICK j : j = job[a] OBVIOUS
<1>1. Job(a, j, phase[a]) BY DEF Typed
<1> PICK l : l = [j EXCEPT !.left = j.left - 1] OBVIOUS
<1>2. /\ DOMAIN l = DOMAIN Idle /\ l.pc = j.pc /\ l.who = j.who
      /\ l.rss = j.rss /\ l.rs = j.rs /\ l.img = j.img /\ l.got = j.got
      /\ l.left = j.left - 1
  BY <1>1 DEF Job, Idle
<1>3. Job(a, l, phase'[a])
  BY <1>1, <1>2 DEF Release, At, Job, AddPCs, Typed, TypeOK
<1>4. Goes(a, l) BY DEF Release, Goes, Typed, TypeOK
<1>5. Unlink(ByID(Cid[a], a)) /\ j.pc # "search" /\ l.pc # "search"
  BY <1>2 DEF Release, At
<1>6. UNCHANGED <<last, lock, cache, granted, running, phase>> BY DEF Release
<1> QED BY <1>3, <1>4, <1>5, <1>6, UnlinksTyped

LEMMA KillTyped ==
  ASSUME Typed, NEW a \in Att, Kill(a)
  PROVE  Typed'
<1> PICK j : j = job[a] OBVIOUS
<1>1. Job(a, j, phase[a]) BY DEF Typed
<1>2. /\ job' = [job EXCEPT ![a] = Idle] /\ phase' = [phase EXCEPT ![a] = "killed"]
      /\ lock' = (IF lock = a THEN None ELSE lock) /\ UNCHANGED <<last, granted, running, ips>>
  BY DEF Kill
<1>3. Job(a, Idle, "killed") BY DEF Job, Idle, AddPCs
<1>4. Goes(a, Idle) /\ phase'[a] = "killed" BY <1>2 DEF Goes, Typed, TypeOK
<1>5. cache' \in Seq(Blocks)
  <2>1. CASE cache' = cache BY <2>1 DEF Typed, TypeOK
  <2>2. CASE \E i \in 0..Len(j.img) : cache' = SubSeq(j.img, 1, i)
    BY <1>1, <2>2 DEF Job
  <2> QED BY <2>1, <2>2 DEF Kill
<1>6. /\ DOMAIN file' \subseteq Addr \cup UNION {DOMAIN f : f \in Filed}
      /\ \A ip \in DOMAIN file' : file'[ip].cid \in Container \cup {GatewayId, None}
  <2>1. CASE file' = file BY <2>1 DEF Typed, TypeOK
  <2>2. CASE \E owner \in {NewOwner(a), Nobody} : Create(a, owner)
    BY <2>2, CreateTyped, OwnersTyped
  <2> QED BY <2>1, <2>2 DEF Kill
<1>7. TypeOK'
  <2>1. \A d \in Att : lock' = d <=> job'[d].pc = "search"
    <3>1. Idle.pc # "search" BY DEF Idle
    <3>2. \A d \in Att : lock = d <=> job[d].pc = "search" BY DEF Typed, TypeOK, At
    <3> QED BY <1>2, <1>4, <3>1, <3>2, ConstantsAssumption DEF Goes
  <2>2. phase' \in [Att -> Phases] BY <1>2 DEF Typed, TypeOK, Phases
  <2>3. lock' \in Att \cup {None} BY <1>2 DEF Typed, TypeOK
  <2> QED BY <1>2, <1>5, <1>6, <2>1, <2>2, <2>3 DEF Typed, TypeOK, At, Phases
<1> QED BY <1>3, <1>4, <1>7, GoesTyped

(* Containers and the clean-up of the daemon.                              *)
LEMMA OthersTyped ==
  ASSUME Typed,
         \/ \E c \in Container : Start(c) \/ Stop(c)
         \/ CleanUp \/ DockerError
  PROVE  Typed'
<1>1. CASE \E c \in Container : Start(c)
  BY <1>1 DEF Start, Typed, TypeOK, At
<1>2. ASSUME NEW c \in Container, Stop(c) PROVE Typed'
  <2>1. UNCHANGED <<file, last, lock, cache, granted, ips, job>> /\ running' \subseteq running
    BY <1>2 DEF Stop
  <2>2. \A a \in Att : phase'[a] = phase[a] \/ (phase[a] = "new" /\ phase'[a] = "deleted")
    BY <1>2 DEF Stop
  <2>3. phase' \in [Att -> Phases] BY <1>2 DEF Stop, Typed, TypeOK, Phases
  <2>4. TypeOK' BY <2>1, <2>3 DEF Typed, TypeOK, At, Phases
  <2>5. ASSUME NEW a \in Att PROVE Job(a, job'[a], phase'[a])
    <3>1. Job(a, job[a], phase[a]) BY DEF Typed
    <3> QED BY <2>1, <2>2, <3>1 DEF Job
  <2> QED BY <2>1, <2>4, <2>5 DEF Typed
<1>3. CASE ListFiles \/ AskDocker \/ CleanUpDone \/ DockerError
  <2>1. UNCHANGED <<file, last, lock, cache, granted, running, phase, ips, job>>
    BY <1>3 DEF ListFiles, AskDocker, CleanUpDone, DockerError
  <2> QED BY <2>1 DEF Typed, TypeOK, At
<1>4. CASE RemoveFile
  <2>1. PICK S : Unlink(S) BY <1>4 DEF RemoveFile
  <2>2. DOMAIN file' \subseteq DOMAIN file /\ \A ip \in DOMAIN file' : file'[ip] = file[ip]
    BY <2>1 DEF Unlink
  <2>3. UNCHANGED <<last, lock, cache, granted, running, phase, ips, job>>
    BY <1>4 DEF RemoveFile
  <2> QED BY <2>2, <2>3 DEF Typed, TypeOK, At
<1> QED BY <1>1, <1>2, <1>3, <1>4 DEF CleanUp

LEMMA InitTyped ==
  Init => Typed
<1> SUFFICES ASSUME Init PROVE Typed OBVIOUS
<1>1. \A a \in Att : job[a] = Idle /\ phase[a] = "new" BY DEF Init
<1>2. \A a \in Att : Job(a, Idle, "new") BY DEF Job, Idle, AddPCs
<1>3. TypeOK
  <2>1. DOMAIN file \subseteq UNION {DOMAIN f : f \in Filed} BY DEF Init
  <2>2. \A ip \in DOMAIN file : file[ip].cid \in Container \cup {GatewayId, None}
    BY ConstantsAssumption DEF Init
  <2>3. /\ last = NoIP /\ lock = None /\ running = {}
        /\ cache \in Seq(Blocks) /\ granted \subseteq Blocks
    BY ConstantsAssumption DEF Init, ToSet
  <2>4. phase \in [Att -> Phases] BY DEF Init, Phases
  <2>5. \A a \in Att : ~At(a, "search") /\ lock # a
    BY <1>1, <2>3, ConstantsAssumption DEF At, Idle
  <2> QED BY <2>1, <2>2, <2>3, <2>4, <2>5 DEF TypeOK, Phases
<1> QED BY <1>1, <1>2, <1>3 DEF Typed, Init

LEMMA StepTyped ==
  Typed /\ [Next]_vars => Typed'
<1> SUFFICES ASSUME Typed, [Next]_vars PROVE Typed' OBVIOUS
<1>1. CASE UNCHANGED vars BY <1>1 DEF vars, Typed, TypeOK, At
<1>2. ASSUME NEW a \in Att, AddStep(a) PROVE Typed'
  BY <1>2, FormTyped, NothingCachedTyped, GetTyped, SkipTyped, ReserveTyped,
     ExhaustedTyped, ApplyBlockTyped, NoBlockTyped, AppendLoadTyped,
     AppendFlashTyped, NextAddressTyped, RollBackTyped, AddFailsTyped,
     AddDoneTyped, LookForGWTyped, ReleaseRedundantTyped, AllocateGWTyped
  DEF AddStep
<1>3. ASSUME NEW a \in Att,
             Add(a) \/ ReserveError(a) \/ Kill(a) \/ Delete(a) \/ DelStep(a)
      PROVE  Typed'
  BY <1>3, AddTyped, ReserveErrorTyped, KillTyped, DeleteTyped, ReleaseTyped,
     DelDoneTyped
  DEF DelStep
<1>4. CASE \/ \E c \in Container : Start(c) \/ Stop(c)
           \/ CleanUp \/ DockerError
  BY <1>4, OthersTyped
<1> QED BY <1>1, <1>2, <1>3, <1>4 DEF Next

LEMMA AlwaysTyped == Spec => []Typed
BY InitTyped, StepTyped, PTL DEF Spec

(* Every variable keeps its type, and whatever fails and is killed, the    *)
(* file lock is held exactly by a plugin that searches: no two search at a *)
(* time, and a lock is never left behind.                                  *)
THEOREM LocalTypeCorrect == Spec => []TypeOK
<1>1. Typed => TypeOK BY DEF Typed
<1> QED BY <1>1, AlwaysTyped, PTL

-----------------------------------------------------------------------------
(* What the steps of a plugin do to the files.                             *)

PlugStep(a) ==
  Add(a) \/ AddStep(a) \/ ReserveError(a) \/ Kill(a) \/ Delete(a) \/ DelStep(a)

Others ==
  \/ \E c \in Container : Start(c) \/ Stop(c)
  \/ CleanUp \/ DockerError

QuietStep(a) ==
  \/ Add(a) \/ Form(a) \/ NothingCached(a) \/ Get(a) \/ Skip(a) \/ Exhausted(a)
  \/ ApplyBlock(a) \/ NoBlock(a) \/ AppendLoad(a) \/ AppendFlash(a) \/ NextAddress(a)
  \/ AddFails(a) \/ AddDone(a) \/ LookForGW(a) \/ AllocateGW(a)
  \/ Delete(a) \/ DelDone(a)

LEMMA StepKinds ==
  ASSUME NEW a \in Att, PlugStep(a)
  PROVE  \/ QuietStep(a) \/ RollBack(a) \/ Release(a) \/ ReleaseRedundant(a)
         \/ Reserve(a) \/ ReserveError(a) \/ Kill(a)
BY DEF PlugStep, AddStep, DelStep, QuietStep

LEMMA QuietFiles ==
  ASSUME NEW a \in Att, QuietStep(a)
  PROVE  UNCHANGED <<file, last>>
BY DEF QuietStep, Add, Form, NothingCached, Get, Skip, Exhausted, ApplyBlock, NoBlock,
       AppendLoad, AppendFlash, NextAddress, AddFails, AddDone, LookForGW,
       AllocateGW, Delete, DelDone

LEMMA NextKinds ==
  ASSUME [Next]_vars
  PROVE  (\E a \in Att : PlugStep(a)) \/ Others \/ UNCHANGED vars
BY DEF Next, PlugStep, Others

(* A step of the plugin for a is not one for d.                            *)
LEMMA PlugAlone ==
  ASSUME Typed, NEW a \in Att, PlugStep(a)
  PROVE  /\ \A d \in Att \ {a} : /\ job'[d] = job[d] /\ phase'[d] = phase[d]
                                 /\ ips'[d] = ips[d]
         /\ UNCHANGED <<running, gc>>
<1>1. CASE QuietStep(a)
  <2>1. \A d \in Att \ {a} :
          job'[d] = job[d] /\ phase'[d] = phase[d] /\ ips'[d] = ips[d]
    BY <1>1
    DEF Typed, TypeOK, QuietStep, Add, Form, NothingCached, Get, Skip, Exhausted, ApplyBlock,
        NoBlock, AppendLoad, AppendFlash, NextAddress, AddFails, AddDone, LookForGW,
        AllocateGW, Delete, DelDone
  <2>2. UNCHANGED <<running, gc>>
    BY <1>1
    DEF QuietStep, Add, Form, NothingCached, Get, Skip, Exhausted, ApplyBlock,
        NoBlock, AppendLoad, AppendFlash, NextAddress, AddFails, AddDone, LookForGW,
        AllocateGW, Delete, DelDone
  <2> QED BY <2>1, <2>2
<1>2. CASE RollBack(a) \/ Release(a) \/ ReleaseRedundant(a)
  BY <1>2 DEF Typed, TypeOK, RollBack, Release, ReleaseRedundant
<1>3. CASE Reserve(a) \/ ReserveError(a) \/ Kill(a)
  BY <1>3 DEF Typed, TypeOK, Reserve, ReserveError, Kill
<1> QED BY <1>1, <1>2, <1>3, StepKinds

-----------------------------------------------------------------------------
(* A search holds the lock: nothing happens to the files meanwhile.        *)

LEMMA LockedStays ==
  ASSUME Typed, ~AllocGW, NEW d \in Att, At(d, "search"),
         \/ \E a \in Att \ {d} : PlugStep(a)
         \/ Others
  PROVE  UNCHANGED <<file, last>> /\ job'[d] = job[d]
<1>1. lock = d /\ lock # None BY ConstantsAssumption DEF Typed, TypeOK
<1>2. ASSUME NEW a \in Att \ {d}, PlugStep(a)
      PROVE  UNCHANGED <<file, last>> /\ job'[d] = job[d]
  <2>1. ~At(a, "search") BY <1>1 DEF Typed, TypeOK
  <2>2. ~(RollBack(a) \/ Release(a)) BY <1>1 DEF RollBack, Release
  <2>3. ~ReleaseRedundant(a)
    BY DEF ReleaseRedundant, At, Typed, Job, AddPCs
  <2>4. ~(Reserve(a) \/ ReserveError(a))
    BY <2>1 DEF Reserve, ReserveError, Create, Offered
  <2>5. CASE Kill(a) BY <1>2, <2>1, <2>5, PlugAlone DEF Kill, Create, Offered
  <2>6. CASE QuietStep(a) BY <1>2, <2>6, QuietFiles, PlugAlone
  <2> QED BY <1>2, <2>2, <2>3, <2>4, <2>5, <2>6, StepKinds
<1>3. CASE Others
  <2>1. ~RemoveFile BY <1>1 DEF RemoveFile
  <2> QED BY <1>3, <2>1
       DEF Others, Start, Stop, CleanUp, ListFiles, AskDocker, CleanUpDone, DockerError
<1> QED BY <1>2, <1>3

(* Addresses no search returns, and those it passes over because of where  *)
(* it started.                                                             *)
Busy  == DOMAIN file \cup {Gateway}
Taken == Busy \cup Reserves

SearchOf(a) ==
  At(a, "search") =>
    /\ Met(job[a].rs, job[a].it, Taken) /\ Since(job[a].rs, job[a].it, last)
    /\ last # NoIP /\ Has(job[a].rs, last) => Met(job[a].rs, job[a].it, Busy)

LEMMA SearchBegins ==
  ASSUME Typed, NEW a \in Att, Get(a), At(a, "search")'
  PROVE  SearchOf(a)'
<1> PICK rs : rs = job[a].rs OBVIOUS
<1> PICK it : it = GetIter(rs, last) OBVIOUS
<1>1. ~Duplicate(a)
  <2> SUFFICES ASSUME Duplicate(a) PROVE FALSE OBVIOUS
  <2>1. job'[a].pc = "fail" BY DEF Get, Typed, Job, Idle
  <2> QED BY <2>1 DEF At
<1>2. /\ job'[a].rs = rs /\ job'[a].it = it /\ UNCHANGED <<file, last>>
      /\ rs # << >> /\ rs \in Seq(Blocks) /\ last \in Addr \cup {NoIP}
  BY <1>1 DEF Get, Typed, TypeOK, Job, Idle
<1>3. IsRangeSet(rs) BY <1>2 DEF IsRangeSet
<1>4. IterOK(rs, it) /\ (it.cur = NoIP \/ it.startIP = NoIP) /\ Since(rs, it, last)
  BY <1>2, <1>3, IterStarts, SinceStarts
<1>5. \A T : Met(rs, it, T) BY <1>4 DEF Met
<1> QED BY <1>2, <1>4, <1>5 DEF SearchOf

LEMMA SearchGoesOn ==
  ASSUME Typed, NEW a \in Att, Skip(a), SearchOf(a)
  PROVE  SearchOf(a)'
<1> PICK rs : rs = job[a].rs OBVIOUS
<1> PICK it : it = job[a].it OBVIOUS
<1> PICK m : m = Moved(rs, it) OBVIOUS
<1>1. /\ job'[a].rs = rs /\ job'[a].it = m /\ UNCHANGED <<file, last>>
      /\ IsRangeSet(rs) /\ IterOK(rs, it)
  BY DEF Skip, At, Typed, Job, Idle
<1>2. Met(rs, it, Taken) /\ Since(rs, it, last) BY DEF SearchOf, Skip
<1>3. Skipped(rs, it) \/ m.cur \in DOMAIN file BY DEF Skip, Candidate
<1>4. m.cur \in Taken BY <1>3 DEF Skipped, Taken, Busy
<1>5. Met(rs, m, Taken) BY <1>1, <1>2, <1>4, MetMoves
<1>6. Since(rs, m, last) BY <1>1, <1>2, SinceMoves
<1>7. ASSUME last # NoIP, Has(rs, last) PROVE Met(rs, m, Busy)
  <2>1. it.cur # NoIP BY <1>2, <1>7 DEF Since
  <2>2. m.cur \in Busy BY <1>3, <2>1 DEF Skipped, Busy
  <2>3. Met(rs, it, Busy) BY <1>7 DEF SearchOf, Skip
  <2> QED BY <1>1, <2>2, <2>3, MetMoves
<1> QED BY <1>1, <1>5, <1>6, <1>7 DEF SearchOf, Taken, Busy

LEMMA StepSearch ==
  ASSUME ~AllocGW, Typed, \A a \in Att : SearchOf(a), [Next]_vars
  PROVE  (\A a \in Att : SearchOf(a))'
<1> SUFFICES ASSUME NEW d \in Att, At(d, "search")' PROVE SearchOf(d)'
  BY DEF SearchOf
<1>1. CASE UNCHANGED vars BY <1>1 DEF vars, SearchOf, At, Taken, Busy
<1>2. CASE At(d, "search") /\ ((\E a \in Att \ {d} : PlugStep(a)) \/ Others)
  <2>1. UNCHANGED <<file, last>> /\ job'[d] = job[d] BY <1>2, LockedStays
  <2> QED BY <2>1 DEF SearchOf, At, Taken, Busy
<1>3. CASE ~At(d, "search") /\ (\E a \in Att \ {d} : PlugStep(a))
  <2>1. job'[d] = job[d] BY <1>3, PlugAlone
  <2> QED BY <1>3, <2>1 DEF At
<1>4. CASE ~At(d, "search") /\ Others
  <2>1. UNCHANGED job
    BY <1>4 DEF Others, Start, Stop, CleanUp, ListFiles, AskDocker, RemoveFile,
                CleanUpDone, DockerError
  <2> QED BY <1>4, <2>1 DEF At
<1>5. CASE PlugStep(d)
  <2>1. CASE Get(d) BY <2>1, SearchBegins
  <2>2. CASE Skip(d) BY <2>2, SearchGoesOn
  <2>3. CASE ~Get(d) /\ ~Skip(d)
    <3> PICK j : j = job[d] OBVIOUS
    <3>1. DOMAIN job[d] = DOMAIN Idle /\ d \in DOMAIN job BY DEF Typed, Job
    <3>2. CASE Add(d) \/ Form(d) \/ NothingCached(d) \/ Exhausted(d) \/ NoBlock(d)
               \/ AppendLoad(d) \/ AppendFlash(d) \/ NextAddress(d)
      BY <3>1, <3>2 DEF Add, Form, NothingCached, Exhausted, NoBlock, AppendLoad,
                        AppendFlash, NextAddress, At, Idle
    <3>3. CASE ApplyBlock(d) BY <3>1, <3>3 DEF ApplyBlock, At, Idle
    <3>4. CASE AddFails(d) \/ AddDone(d) \/ DelDone(d) \/ Kill(d)
      BY <3>1, <3>4 DEF AddFails, AddDone, DelDone, Kill, At, Idle
    <3>5. CASE LookForGW(d) \/ AllocateGW(d) \/ ReleaseRedundant(d)
      <4>1. j.pc # "gw" BY DEF Typed, Job, AddPCs
      <4> QED BY <3>5, <4>1 DEF LookForGW, AllocateGW, ReleaseRedundant, At
    <3>6. CASE Delete(d) \/ RollBack(d) \/ Release(d)
      <4>1. RollBack(d) => j.pc = "fail" BY DEF RollBack, At
      <4> QED BY <3>1, <3>6, <4>1 DEF Delete, RollBack, Release, At, Idle
    <3>7. CASE Reserve(d) \/ ReserveError(d)
      <4>1. CASE Reserve(d) BY <3>1, <4>1 DEF Reserve, At, Idle
      <4>2. CASE ReserveError(d) BY <3>1, <4>2 DEF ReserveError, At, Idle
      <4> QED BY <3>7, <4>1, <4>2
    <3> QED BY <1>5, <2>3, <3>2, <3>3, <3>4, <3>5, <3>6, <3>7 DEF PlugStep, AddStep, DelStep, At
  <2> QED BY <2>1, <2>2, <2>3
<1> QED BY <1>1, <1>2, <1>3, <1>4, <1>5, NextKinds


LEMMA InitSearch ==
  Init => \A a \in Att : SearchOf(a)
BY DEF Init, SearchOf, At, Idle

LEMMA AlwaysSearch ==
  ASSUME ~AllocGW
  PROVE  Spec => [](Typed /\ \A a \in Att : SearchOf(a))
<1>1. Init => Typed /\ \A a \in Att : SearchOf(a) BY InitTyped, InitSearch
<1>2. (Typed /\ \A a \in Att : SearchOf(a)) /\ [Next]_vars
        => (Typed /\ \A a \in Att : SearchOf(a))'
  BY StepTyped, StepSearch
<1> QED BY <1>1, <1>2, PTL DEF Spec

(* A search gives up only when every address of its range set has an       *)
(* owner, or is the gateway or one of the `reserves': Next comes to every  *)
(* address, of however many blocks, before it is back where it started,    *)
(* and no file is removed meanwhile.  Without allocGW: the gateways'       *)
(* files are removed without the lock.                                     *)
THEOREM SearchesAreComplete == ~AllocGW => (Spec => SearchComplete)
<1> SUFFICES ASSUME ~AllocGW PROVE Spec => SearchComplete OBVIOUS
<1>1. ASSUME Typed, \A a \in Att : SearchOf(a), NEW a \in Att, Exhausted(a)
      PROVE  Addresses(job[a].rs) \subseteq DOMAIN file \cup {Gateway} \cup Reserves
  <2>1. /\ IsRangeSet(job[a].rs) /\ IterOK(job[a].rs, job[a].it)
        /\ Met(job[a].rs, job[a].it, Taken) /\ Looped(job[a].rs, job[a].it)
    BY <1>1 DEF Typed, Job, SearchOf, Exhausted, At
  <2>2. Addresses(job[a].rs) \subseteq Taken BY <2>1, LoopedMet
  <2> QED BY <2>2 DEF Taken, Busy
<1>2. (Typed /\ \A a \in Att : SearchOf(a))
        => [\A a \in Att : Exhausted(a) =>
              Addresses(job[a].rs) \subseteq DOMAIN file \cup {Gateway} \cup Reserves]_vars
  BY <1>1
<1> QED BY <1>2, AlwaysSearch, PTL DEF SearchComplete

-----------------------------------------------------------------------------
(* Blocks: none is twice in the cache, nor in anything made of it.         *)

Without(s, b) == \A i \in DOMAIN s : s[i] # b

(* All different, and granted.                                             *)
Held(s, g) == Different(s) /\ \A i \in DOMAIN s : s[i] \in g

(* A plugin with a block that the cache does not have yet.                 *)
Brings(j) == j.pc \in {"append", "flash"}

BlocksApart ==
  /\ Held(cache, granted)
  /\ \A a \in Att :
       /\ Held(job[a].img, granted) /\ Different(job[a].rs) /\ Different(job[a].rss)
       /\ Brings(job[a]) => job[a].blk \in granted /\ Without(cache, job[a].blk)
  /\ \A a, d \in Att : Brings(job[a]) => Without(job[d].img, job[a].blk)
  /\ \A a, d \in Att :
       a # d /\ Brings(job[a]) /\ Brings(job[d]) => job[a].blk # job[d].blk

(* A step that takes lists of blocks from where they are.                  *)
Takes(a) ==
  /\ UNCHANGED <<cache, granted>>
  /\ \A d \in Att \ {a} : job'[d] = job[d]
  /\ job'[a].img \in {job[a].img, cache, << >>}
  /\ job'[a].rs \in {job[a].rs, job[a].rss, cache, << >>}
  /\ job'[a].rss \in {job[a].rss, cache, << >>}
  /\ Brings(job'[a]) => Brings(job[a]) /\ job'[a].blk = job[a].blk

LEMMA TakesApart ==
  ASSUME BlocksApart, NEW a \in Att, Takes(a)
  PROVE  BlocksApart'
<1> PICK l : l = job'[a] OBVIOUS
<1>1. UNCHANGED <<cache, granted>> /\ job'[a] = l /\ \A d \in Att \ {a} : job'[d] = job[d]
  BY DEF Takes
<1>2. Held(<< >>, granted) BY DEF Held, Different
<1>3. Held(l.img, granted) /\ Different(l.rs) /\ Different(l.rss)
  BY <1>1, <1>2 DEF Takes, BlocksApart, Held
<1>4. Brings(l) => Brings(job[a]) /\ l.blk = job[a].blk BY <1>1 DEF Takes
<1>5. \A d \in Att : Brings(job[d]) => Without(l.img, job[d].blk)
  BY <1>1 DEF Takes, BlocksApart, Without
<1>6. \A d \in Att : Brings(job'[d]) => Brings(job[d]) /\ job'[d].blk = job[d].blk
  BY <1>1, <1>4
<1>7. \A d \in Att : /\ Held(job'[d].img, granted) /\ Different(job'[d].rs)
                     /\ Different(job'[d].rss)
  BY <1>1, <1>3 DEF BlocksApart
<1>8. \A d, e \in Att : Brings(job[e]) => Without(job'[d].img, job[e].blk)
  BY <1>1, <1>5 DEF BlocksApart
<1>9. \A d, e \in Att : Brings(job'[e]) => Without(job'[d].img, job'[e].blk)
  BY <1>6, <1>8
<1>10. \A d, e \in Att : d # e /\ Brings(job'[d]) /\ Brings(job'[e]) => job'[d].blk # job'[e].blk
  BY <1>6 DEF BlocksApart
<1>11. \A d \in Att : Brings(job'[d]) => job'[d].blk \in granted /\ Without(cache, job'[d].blk)
  BY <1>6 DEF BlocksApart
<1> QED BY <1>1, <1>7, <1>9, <1>10, <1>11 DEF BlocksApart

LEMMA MostTake ==
  ASSUME Typed, NEW a \in Att, PlugStep(a)
  PROVE  Takes(a) \/ ApplyBlock(a) \/ AppendFlash(a) \/ (Kill(a) /\ cache' # cache)
<1>1. DOMAIN job[a] = DOMAIN Idle /\ DOMAIN job = Att BY DEF Typed, Job
<1>2. CASE Add(a) \/ Form(a) \/ NothingCached(a) \/ Exhausted(a) \/ NoBlock(a)
           \/ AppendLoad(a) \/ NextAddress(a)
  BY <1>1, <1>2 DEF Add, Form, NothingCached, Exhausted, NoBlock, AppendLoad,
                    NextAddress, Takes, Brings, At, Idle
<1>3. CASE Get(a)
  <2>1. CASE Duplicate(a) BY <1>1, <1>3, <2>1 DEF Get, Takes, Brings, Idle
  <2>2. CASE ~Duplicate(a) BY <1>1, <1>3, <2>2 DEF Get, Takes, Brings, Idle
  <2> QED BY <2>1, <2>2
<1>4. CASE Skip(a) BY <1>1, <1>4 DEF Skip, Takes, Brings, Idle
<1>5. CASE Reserve(a) \/ ReserveError(a)
  BY <1>1, <1>5 DEF Reserve, ReserveError, Takes, Brings, Idle
<1>6. CASE AddFails(a) \/ AddDone(a) \/ DelDone(a) \/ (Kill(a) /\ cache' = cache)
  BY <1>1, <1>6 DEF AddFails, AddDone, DelDone, Kill, Takes, Brings, Idle
<1>7. CASE RollBack(a) \/ Release(a) \/ Delete(a)
  BY <1>1, <1>7 DEF RollBack, Release, Delete, Takes, Brings, Idle
<1>8. CASE ReleaseRedundant(a) \/ AllocateGW(a)
  BY <1>1, <1>8 DEF ReleaseRedundant, AllocateGW, Takes, Brings, Idle
<1>9. CASE LookForGW(a)
  <2> PICK gws : gws = OfContainer(GatewayId) OBVIOUS
  <2>1. CASE gws = {} BY <1>1, <1>9, <2>1 DEF LookForGW, Takes, Brings, Idle
  <2>2. CASE gws # {}
    <3>1. /\ job' = [job EXCEPT ![a].pc = "gw", ![a].gws = gws \ {First(gws)}]
          /\ UNCHANGED <<cache, granted>>
      BY <1>9, <2>2 DEF LookForGW
    <3> QED BY <1>1, <3>1 DEF Takes, Brings, Idle
  <2> QED BY <2>1, <2>2
<1> QED BY <1>2, <1>3, <1>4, <1>5, <1>6, <1>7, <1>8, <1>9 DEF PlugStep, AddStep, DelStep

LEMMA OthersTake ==
  ASSUME Others
  PROVE  UNCHANGED <<cache, granted, job>>
BY DEF Others, Start, Stop, CleanUp, ListFiles, AskDocker, RemoveFile, CleanUpDone, DockerError

LEMMA ApplyApart ==
  ASSUME Typed, BlocksApart, NEW a \in Att, ApplyBlock(a)
  PROVE  BlocksApart'
<1>1. PICK b \in Blocks \ granted :
        /\ granted' = granted \cup {b}
        /\ job' = [job EXCEPT ![a].blk = b, ![a].tries = @ + 1, ![a].pc = "append"]
        /\ cache' = cache
  BY DEF ApplyBlock
<1>2. DOMAIN job[a] = DOMAIN Idle /\ DOMAIN job = Att BY DEF Typed, Job
<1>3. /\ job'[a].blk = b /\ \A d \in Att \ {a} : job'[d] = job[d]
      /\ \A d \in Att : /\ job'[d].img = job[d].img /\ job'[d].rs = job[d].rs
                        /\ job'[d].rss = job[d].rss
  BY <1>1, <1>2 DEF Idle
<1>4. \A s : Held(s, granted) => Held(s, granted') /\ Without(s, b)
  BY <1>1 DEF Held, Without
<1>5. b \in granted' /\ granted \subseteq granted' /\ b \notin granted BY <1>1
<1>6. \A d \in Att : /\ Held(job'[d].img, granted') /\ Different(job'[d].rs)
                     /\ Different(job'[d].rss)
  BY <1>3, <1>4 DEF BlocksApart
<1>7. \A d \in Att : Brings(job'[d]) => job'[d].blk \in granted' /\ Without(cache, job'[d].blk)
  BY <1>3, <1>4, <1>5 DEF BlocksApart
<1>8. \A d, e \in Att : Brings(job'[e]) => Without(job'[d].img, job'[e].blk)
  BY <1>3, <1>4 DEF BlocksApart
<1>9. \A d, e \in Att : d # e /\ Brings(job'[d]) /\ Brings(job'[e]) => job'[d].blk # job'[e].blk
  BY <1>3, <1>5 DEF BlocksApart
<1> QED BY <1>1, <1>4, <1>6, <1>7, <1>8, <1>9 DEF BlocksApart

LEMMA FlashApart ==
  ASSUME Typed, BlocksApart, NEW a \in Att, AppendFlash(a)
  PROVE  BlocksApart'
<1> PICK img : img = job[a].img OBVIOUS
<1> PICK b : b = job[a].blk OBVIOUS
<1>1. DOMAIN job[a] = DOMAIN Idle /\ DOMAIN job = Att /\ img \in Seq(Blocks)
      /\ Brings(job[a])
  BY DEF Typed, Job, AppendFlash, At, Brings
<1>2. /\ cache' = Append(img, b) /\ granted' = granted
      /\ \A d \in Att \ {a} : job'[d] = job[d]
      /\ job'[a].rs = <<b>> /\ job'[a].img = << >> /\ job'[a].rss = job[a].rss
      /\ ~Brings(job'[a])
  BY <1>1 DEF AppendFlash, Brings, Idle
<1>3. /\ Held(img, granted) /\ b \in granted /\ Without(img, b)
  BY <1>1 DEF BlocksApart
<1>4. /\ DOMAIN Append(img, b) = 1..(Len(img) + 1) /\ DOMAIN img = 1..Len(img)
      /\ Len(img) \in Nat
      /\ \A i \in 1..(Len(img) + 1) :
           Append(img, b)[i] = IF i = Len(img) + 1 THEN b ELSE img[i]
  BY <1>1
<1>5. Held(Append(img, b), granted)
  <2>1. \A i \in 1..(Len(img) + 1) : i # Len(img) + 1 => i \in 1..Len(img)
    BY <1>4
  <2> QED BY <1>3, <1>4, <2>1 DEF Held, Different, Without
<1>6. \A c : Without(img, c) /\ c # b => Without(Append(img, b), c)
  <2>1. \A i \in 1..(Len(img) + 1) : i # Len(img) + 1 => i \in 1..Len(img)
    BY <1>4
  <2> QED BY <1>4, <2>1 DEF Without
<1>7. \A d \in Att : Brings(job'[d]) =>
        /\ d # a /\ Brings(job[d]) /\ job'[d].blk = job[d].blk
        /\ job[d].blk \in granted /\ Without(img, job[d].blk) /\ job[d].blk # b
  BY <1>1, <1>2 DEF BlocksApart
<1>8. Held(<< >>, granted) /\ Different(<<b>>) /\ \A c : Without(<< >>, c)
  BY DEF Held, Different, Without
<1>9. \A d \in Att : /\ Held(job'[d].img, granted) /\ Different(job'[d].rs)
                     /\ Different(job'[d].rss)
  BY <1>2, <1>8 DEF BlocksApart
<1>10. \A d \in Att : Brings(job'[d]) => job'[d].blk \in granted /\ Without(cache', job'[d].blk)
  BY <1>2, <1>6, <1>7
<1>11. \A d, e \in Att : Brings(job'[e]) => Without(job'[d].img, job'[e].blk)
  BY <1>2, <1>7, <1>8 DEF BlocksApart
<1>12. \A d, e \in Att : d # e /\ Brings(job'[d]) /\ Brings(job'[e]) => job'[d].blk # job'[e].blk
  BY <1>7 DEF BlocksApart
<1> QED BY <1>2, <1>5, <1>9, <1>10, <1>11, <1>12 DEF BlocksApart

LEMMA TornApart ==
  ASSUME Typed, BlocksApart, NEW a \in Att, Kill(a), cache' # cache
  PROVE  BlocksApart'
<1> PICK img : img = job[a].img OBVIOUS
<1>1. DOMAIN job = Att /\ img \in Seq(Blocks) BY DEF Typed, Job
<1>2. PICK i \in 0..Len(img) : cache' = SubSeq(img, 1, i) BY DEF Kill
<1>3. granted' = granted /\ job'[a] = Idle /\ \A d \in Att \ {a} : job'[d] = job[d]
  BY <1>1 DEF Kill
<1>4. /\ DOMAIN SubSeq(img, 1, i) \subseteq DOMAIN img
      /\ \A k \in DOMAIN SubSeq(img, 1, i) : SubSeq(img, 1, i)[k] = img[k]
  <2>1. Len(img) \in Nat /\ DOMAIN img = 1..Len(img) BY <1>1
  <2>2. DOMAIN SubSeq(img, 1, i) = 1..i /\ 1..i \subseteq 1..Len(img)
    BY <1>1, <2>1
  <2> QED BY <1>1, <2>1, <2>2
<1>5. Held(img, granted) BY DEF BlocksApart
<1>6. Held(cache', granted) BY <1>2, <1>4, <1>5 DEF Held, Different
<1>7. \A c : Without(img, c) => Without(cache', c) BY <1>2, <1>4 DEF Without
<1>8. /\ Held(Idle.img, granted) /\ Different(Idle.rs) /\ Different(Idle.rss) /\ ~Brings(Idle)
      /\ \A c : Without(Idle.img, c)
  BY DEF Held, Different, Brings, Without, Idle
<1>9. \A d \in Att : Brings(job'[d]) => d # a /\ Brings(job[d]) /\ job'[d] = job[d]
  BY <1>3, <1>8
<1>10. \A d \in Att : /\ Held(job'[d].img, granted) /\ Different(job'[d].rs)
                      /\ Different(job'[d].rss)
  BY <1>3, <1>8 DEF BlocksApart
<1>11. \A d \in Att : Brings(job'[d]) => job'[d].blk \in granted /\ Without(cache', job'[d].blk)
  BY <1>7, <1>9 DEF BlocksApart
<1>12. \A d, e \in Att : Brings(job'[e]) => Without(job'[d].img, job'[e].blk)
  BY <1>3, <1>8, <1>9 DEF BlocksApart
<1>13. \A d, e \in Att : d # e /\ Brings(job'[d]) /\ Brings(job'[e]) => job'[d].blk # job'[e].blk
  BY <1>9 DEF BlocksApart
<1> QED BY <1>3, <1>6, <1>10, <1>11, <1>12, <1>13 DEF BlocksApart

LEMMA StepApart ==
  Typed /\ BlocksApart /\ [Next]_vars => BlocksApart'
<1> SUFFICES ASSUME Typed, BlocksApart, [Next]_vars PROVE BlocksApart' OBVIOUS
<1>1. ASSUME NEW a \in Att, PlugStep(a) PROVE BlocksApart'
  BY <1>1, MostTake, TakesApart, ApplyApart, FlashApart, TornApart
<1>2. CASE UNCHANGED <<cache, granted, job>> BY <1>2 DEF BlocksApart
<1> QED BY <1>1, <1>2, OthersTake, NextKinds DEF vars

LEMMA InitApart ==
  Init => BlocksApart
<1> SUFFICES ASSUME Init PROVE BlocksApart OBVIOUS
<1>1. Held(cache, granted) BY ConstantsAssumption DEF Init, ToSet, Held, Different
<1>2. /\ Held(Idle.img, granted) /\ Different(Idle.rs) /\ Different(Idle.rss) /\ ~Brings(Idle)
  BY DEF Held, Different, Brings, Idle
<1>3. \A a \in Att : job[a] = Idle BY DEF Init
<1> QED BY <1>1, <1>2, <1>3 DEF BlocksApart

(* The address reserved last is reserved again only when every other       *)
(* address of the range set is taken, whatever was searched and released   *)
(* in between: GetIter starts behind it, in the block that it is in.       *)
THEOREM RoundRobinKept == ~AllocGW => (Spec => RoundRobin)
<1> SUFFICES ASSUME ~AllocGW PROVE Spec => RoundRobin OBVIOUS
<1> DEFINE I == (Typed /\ \A a \in Att : SearchOf(a)) /\ BlocksApart
<1>1. ASSUME Typed, \A a \in Att : SearchOf(a), BlocksApart,
             NEW a \in Att, Reserve(a), Candidate(a) = last
      PROVE  \A ip \in Addresses(job[a].rs) \ {last, Gateway} : ip \in DOMAIN file
  <2> PICK rs : rs = job[a].rs OBVIOUS
  <2> PICK it : it = job[a].it OBVIOUS
  <2>1. At(a, "search") BY <1>1 DEF Reserve, Create, Offered
  <2>2. /\ IsRangeSet(rs) /\ Different(rs) /\ IterOK(rs, it)
        /\ last = Moved(rs, it).cur /\ Since(rs, it, last)
        /\ last # NoIP /\ Has(rs, last) => Met(rs, it, Busy)
    BY <1>1, <2>1 DEF Typed, Job, SearchOf, At, BlocksApart, Candidate
  <2>3. last # NoIP /\ Has(rs, last)
    <3> PICK m : m = Moved(rs, it) OBVIOUS
    <3>1. IsRangeSet(rs) /\ IterOK(rs, it) BY <2>2
    <3>2. IterOK(rs, m) /\ m.cur \in rs[m.idx].lo..rs[m.idx].hi /\ m.cur # NoIP
      BY <3>1, IterMoves
    <3>3. DOMAIN rs = 1..Len(rs) /\ rs[m.idx].lo \in Nat /\ rs[m.idx].hi \in Nat
            /\ m.idx \in 1..Len(rs)
      BY <2>2, <3>2, RangeSetTyped DEF IterOK
    <3>4. InRange(rs[m.idx], m.cur) BY <3>2, <3>3 DEF InRange
    <3> QED BY <2>2, <3>2, <3>3, <3>4 DEF Has
  <2>4. Addresses(rs) \ {last} \subseteq Busy BY <2>2, <2>3, LastMet
  <2> QED BY <2>4 DEF Busy
<1>2. I => [\A a \in Att : Reserve(a) /\ Candidate(a) = last =>
              \A ip \in Addresses(job[a].rs) \ {last, Gateway} : ip \in DOMAIN file]_vars
  BY <1>1
<1>3. Init => BlocksApart BY InitApart
<1>4. (Typed /\ BlocksApart) /\ [Next]_vars => BlocksApart' BY StepApart
<1>5. Spec => []BlocksApart BY <1>3, <1>4, AlwaysTyped, PTL DEF Spec
<1> QED BY <1>2, <1>5, AlwaysSearch, PTL DEF RoundRobin

-----------------------------------------------------------------------------
(* A failed ADD: no file is left of an attachment when there should be     *)
(* none.                                                                   *)

NoneOf(a) == \A ip \in DOMAIN file : ~(file[ip].cid = Cid[a] /\ file[ip].ifn = a)

Seeking == {"get", "search", "apply", "append", "flash"}

(* When there should be none: before the first address is reserved, and    *)
(* when all are released.                                                  *)
Bare(a, j, p) ==
  \/ p \in {"new", "failed"}
  \/ /\ j.who = a
     /\ \/ j.pc = "form"
        \/ j.pc \in Seeking /\ j.got = << >>
        \/ j.pc = "fail" /\ j.left = 0

Traced ==
  \A a \in Att : /\ Bare(a, job[a], phase[a]) => NoneOf(a)
                 /\ job[a].pc = "got" => job[a].got # << >>

(* What a step does to the files.                                          *)
LEMMA PlugFiles ==
  ASSUME NEW a \in Att, PlugStep(a)
  PROVE  \/ file' = file
         \/ RollBack(a) \/ Release(a) \/ ReleaseRedundant(a)
         \/ \E owner \in {NewOwner(a), Nobody} : Create(a, owner)
BY StepKinds, QuietFiles DEF Reserve, ReserveError, Kill

LEMMA OtherFiles ==
  ASSUME Others
  PROVE  file' = file \/ RemoveFile
BY DEF Others, Start, Stop, CleanUp, ListFiles, AskDocker, CleanUpDone, DockerError

LEMMA UnlinkLeaves ==
  ASSUME NEW S, Unlink(S)
  PROVE  /\ DOMAIN file' = DOMAIN file \ S
         /\ \A ip \in DOMAIN file' : file'[ip] = file[ip]
BY DEF Unlink

LEMMA CreateAdds ==
  ASSUME NEW a, NEW owner, Create(a, owner)
  PROVE  /\ Offered(a) /\ Candidate(a) \notin DOMAIN file
         /\ DOMAIN file' = DOMAIN file \cup {Candidate(a)}
         /\ file'[Candidate(a)] = owner
         /\ \A ip \in DOMAIN file : file'[ip] = file[ip]
BY DEF Create

LEMMA NoneStays ==
  ASSUME NEW d \in Att, NoneOf(d), (\E a \in Att \ {d} : PlugStep(a)) \/ Others
  PROVE  NoneOf(d)'
<1>1. ASSUME NEW S, Unlink(S) PROVE NoneOf(d)' BY <1>1, UnlinkLeaves DEF NoneOf
<1>2. CASE file' = file BY <1>2 DEF NoneOf
<1>3. ASSUME NEW a \in Att \ {d}, NEW owner \in {NewOwner(a), Nobody}, Create(a, owner)
      PROVE  NoneOf(d)'
  <2>1. owner.ifn # d
    BY ConstantsAssumption DEF NewOwner, Owner, OwnerIf, Nobody
  <2> QED BY <1>3, <2>1, CreateAdds DEF NoneOf
<1>4. ASSUME NEW a \in Att \ {d}, PlugStep(a) PROVE NoneOf(d)'
  <2>1. CASE RollBack(a) \/ Release(a) \/ ReleaseRedundant(a)
    BY <1>1, <2>1 DEF RollBack, Release, ReleaseRedundant
  <2> QED BY <1>2, <1>3, <1>4, <2>1, PlugFiles
<1>5. CASE RemoveFile BY <1>1, <1>5 DEF RemoveFile
<1> QED BY <1>2, <1>4, <1>5, OtherFiles

(* A roll-back leaves nothing that is the attachment's own.                *)
LEMMA RolledBack ==
  ASSUME NEW a \in Att, RollBack(a), job[a].who = a
  PROVE  NoneOf(a)'
<1>1. Unlink(ByID(Cid[a], a))
  BY ConstantsAssumption DEF RollBack, OwnerCid, OwnerIf
<1>2. \A ip \in DOMAIN file :
        file[ip].cid = Cid[a] /\ file[ip].ifn = a => ip \in ByID(Cid[a], a)
  BY DEF ByID, OfInterface, OfContainer
<1> QED BY <1>1, <1>2, UnlinkLeaves DEF NoneOf

(* The plugin for a becomes l; a is as far as p.                           *)
TracedOf(a) ==
  /\ Bare(a, job[a], phase[a]) => NoneOf(a)
  /\ job[a].pc = "got" => job[a].got # << >>

LEMMA OwnTraced ==
  ASSUME ~Errors, Typed, NEW a \in Att, TracedOf(a), PlugStep(a)
  PROVE  TracedOf(a)'
<1> PICK j : j = job[a] OBVIOUS
<1> PICK p : p = phase[a] OBVIOUS
<1>1. /\ DOMAIN j = DOMAIN Idle /\ DOMAIN job = Att /\ DOMAIN phase = Att
      /\ j.got \in Seq(Addr) /\ j.left \in Nat
      /\ p = "adding" <=> j.pc \in AddPCs
      /\ p = "deleting" <=> j.pc = "release"
  BY DEF Typed, TypeOK, Job
<1>2. ~ReserveError(a) BY DEF ReserveError
<1>3. CASE Add(a) \/ Form(a) \/ NothingCached(a) \/ NoBlock(a) \/ Exhausted(a)
           \/ AppendLoad(a) \/ AppendFlash(a) \/ NextAddress(a)
  <2>1. file' = file
    BY <1>3 DEF Add, Form, NothingCached, NoBlock, Exhausted, AppendLoad, AppendFlash,
                NextAddress
  <2>2. Len(j.got) = 0 => j.got = << >> BY <1>1
  <2>3. CASE Add(a) BY <1>1, <2>1, <2>3 DEF Add, TracedOf, Bare, NoneOf, Idle
  <2>4. CASE Form(a)
    BY <1>1, <2>1, <2>4 DEF Form, TracedOf, Bare, NoneOf, At, Seeking, AddPCs, Idle
  <2>5. CASE NothingCached(a) \/ Exhausted(a) \/ AppendLoad(a) \/ AppendFlash(a)
    BY <1>1, <2>1, <2>5
    DEF NothingCached, Exhausted, AppendLoad, AppendFlash, TracedOf, Bare, NoneOf, At,
        Seeking, AddPCs, Idle
  <2>6. CASE NextAddress(a)
    BY <1>1, <2>1, <2>6 DEF NextAddress, TracedOf, Bare, NoneOf, At, Seeking, AddPCs, Idle
  <2>7. CASE NoBlock(a)
    BY <1>1, <2>1, <2>2, <2>7 DEF NoBlock, TracedOf, Bare, NoneOf, At, Seeking, AddPCs, Idle
  <2> QED BY <1>3, <2>3, <2>4, <2>5, <2>6, <2>7
<1>4. CASE Get(a)
  <2>1. file' = file /\ phase' = phase BY <1>4 DEF Get
  <2>2. Len(j.got) = 0 => j.got = << >> BY <1>1
  <2>3. CASE Duplicate(a)
    BY <1>1, <1>4, <2>1, <2>2, <2>3 DEF Get, TracedOf, Bare, NoneOf, At, Seeking, AddPCs, Idle
  <2>4. CASE ~Duplicate(a)
    BY <1>1, <1>4, <2>1, <2>4 DEF Get, TracedOf, Bare, NoneOf, At, Seeking, AddPCs, Idle
  <2> QED BY <2>3, <2>4
<1>5. CASE Skip(a) \/ ApplyBlock(a)
  <2>1. CASE Skip(a)
    BY <1>1, <2>1 DEF Skip, TracedOf, Bare, NoneOf, At, Seeking, AddPCs, Idle
  <2>2. CASE ApplyBlock(a)
    BY <1>1, <2>2 DEF ApplyBlock, TracedOf, Bare, NoneOf, At, Seeking, AddPCs, Idle
  <2> QED BY <1>5, <2>1, <2>2
<1>6. CASE Reserve(a)
  <2>1. Append(j.got, Candidate(a)) # << >>
    <3> PICK s : s = Append(j.got, Candidate(a)) OBVIOUS
    <3>1. Len(s) = Len(j.got) + 1 /\ Len(j.got) \in Nat BY <1>1
    <3>2. Len(s) # 0 BY <3>1
    <3> QED BY <3>2
  <2>2. j.pc = "search" /\ phase' = phase
    BY <1>6 DEF Reserve, Create, Offered, At
  <2> QED BY <1>1, <1>6, <2>1, <2>2 DEF Reserve, TracedOf, Bare, At, Seeking, AddPCs, Idle
<1>7. CASE RollBack(a)
  <2>1. CASE j.who = a
    <3>1. NoneOf(a)' BY <1>7, <2>1, RolledBack
    <3>2. job'[a].pc = "fail" BY <1>1, <1>7 DEF RollBack, At, Idle
    <3> QED BY <3>1, <3>2 DEF TracedOf
  <2>2. CASE j.who # a
    BY <1>1, <1>7, <2>2 DEF RollBack, TracedOf, Bare, At, AddPCs, Idle
  <2> QED BY <2>1, <2>2
<1>8. CASE AddFails(a)
  BY <1>1, <1>8 DEF AddFails, TracedOf, Bare, NoneOf, At, Seeking, Idle
<1>9. CASE AddDone(a)
  BY <1>1, <1>9, ConstantsAssumption DEF AddDone, TracedOf, Bare, Seeking, Idle
<1>10. CASE DelDone(a) \/ Kill(a)
  BY <1>1, <1>10 DEF DelDone, Kill, TracedOf, Bare, Seeking, Idle
<1>11. CASE Delete(a)
  BY <1>1, <1>11 DEF Delete, TracedOf, Bare, Seeking, Idle
<1>12. CASE Release(a)
  BY <1>1, <1>12 DEF Release, TracedOf, Bare, At, Seeking, Idle
<1>13. CASE ReleaseRedundant(a)
  BY <1>1, <1>13 DEF ReleaseRedundant, TracedOf, Bare, At, Seeking, AddPCs, Idle
<1>14. CASE AllocateGW(a)
  BY <1>1, <1>14, ConstantsAssumption
  DEF AllocateGW, TracedOf, Bare, At, Seeking, AddPCs, Idle
<1>15. CASE LookForGW(a)
  <2>1. j.pc = "got" /\ phase' = phase BY <1>15 DEF LookForGW, At
  <2>2. job'[a].pc = "gw"
    <3>1. \/ job' = [job EXCEPT ![a].pc = "gw"]
          \/ \E g : job' = [job EXCEPT ![a].pc = "gw", ![a].gws = g]
      BY <1>15 DEF LookForGW
    <3> QED BY <1>1, <3>1 DEF Idle
  <2> QED BY <1>1, <2>1, <2>2 DEF TracedOf, Bare, Seeking, AddPCs
<1> QED BY <1>2, <1>3, <1>4, <1>5, <1>6, <1>7, <1>8, <1>9, <1>10, <1>11, <1>12, <1>13,
           <1>14, <1>15
        DEF PlugStep, AddStep, DelStep

LEMMA OthersStay ==
  ASSUME Others
  PROVE  /\ UNCHANGED job
         /\ \A a \in Att : phase'[a] # phase[a] => phase[a] = "new" /\ phase'[a] = "deleted"
<1>1. UNCHANGED job BY OthersTake
<1>2. ASSUME NEW c \in Container, Stop(c)
      PROVE  \A a \in Att : phase'[a] # phase[a] => phase[a] = "new" /\ phase'[a] = "deleted"
  BY <1>2 DEF Stop
<1>3. ASSUME NEW c \in Container, Start(c) PROVE phase' = phase BY <1>3 DEF Start
<1>4. CASE CleanUp \/ DockerError
  BY <1>4 DEF CleanUp, ListFiles, AskDocker, RemoveFile, CleanUpDone, DockerError
<1> QED BY <1>1, <1>2, <1>3, <1>4 DEF Others

LEMMA StepTraced ==
  ASSUME ~Errors, Typed, Traced, [Next]_vars
  PROVE  Traced'
<1> SUFFICES ASSUME NEW d \in Att PROVE TracedOf(d)' BY DEF Traced, TracedOf
<1>1. TracedOf(d) BY DEF Traced, TracedOf
<1>2. CASE UNCHANGED vars BY <1>1, <1>2 DEF vars, TracedOf, NoneOf, Bare
<1>3. CASE PlugStep(d) BY <1>1, <1>3, OwnTraced
<1>4. CASE \E a \in Att \ {d} : PlugStep(a)
  <2>1. job'[d] = job[d] /\ phase'[d] = phase[d] BY <1>4, PlugAlone
  <2>2. NoneOf(d) => NoneOf(d)' BY <1>4, NoneStays
  <2> QED BY <1>1, <2>1, <2>2 DEF TracedOf
<1>5. CASE Others
  <2>1. job'[d] = job[d]
        /\ (phase'[d] # phase[d] => phase[d] = "new" /\ phase'[d] = "deleted")
    BY <1>5, OthersStay
  <2>2. NoneOf(d) => NoneOf(d)' BY <1>5, NoneStays
  <2>3. Bare(d, job'[d], phase'[d]) => Bare(d, job[d], phase[d]) BY <2>1 DEF Bare
  <2> QED BY <1>1, <2>1, <2>2, <2>3 DEF TracedOf
<1> QED BY <1>2, <1>3, <1>4, <1>5, NextKinds

(* An ADD that fails leaves no address reserved for its attachment:        *)
(* allocateIP releases what it has reserved, and the releases that the     *)
(* runtime, other ADDs and the clean-up make meanwhile only take away.     *)
(* Without write errors: with them the address of Reserve's last file is   *)
(* not among those released.                                               *)
THEOREM FailureLeavesNone == ~Errors => (Spec => []FailedKeepsNone)
<1> SUFFICES ASSUME ~Errors PROVE Spec => []FailedKeepsNone OBVIOUS
<1>1. Init => Traced
  <2> SUFFICES ASSUME Init, NEW a \in Att PROVE TracedOf(a) BY DEF Traced, TracedOf
  <2>1. NoneOf(a) BY ConstantsAssumption DEF Init, NoneOf
  <2>2. job[a].pc # "got" BY DEF Init, Idle
  <2> QED BY <2>1, <2>2 DEF TracedOf
<1>2. Typed /\ Traced /\ [Next]_vars => Traced' BY StepTraced
<1>3. Traced => FailedKeepsNone BY DEF Traced, Bare, NoneOf, FailedKeepsNone
<1> QED BY <1>1, <1>2, <1>3, AlwaysTyped, PTL DEF Spec

-----------------------------------------------------------------------------
(* Addresses in use, with one attachment of a container and no allocGW.    *)

OneEach == ~AllocGW /\ \A a, d \in Att : Cid[a] = Cid[d] => a = d

(* The addresses s are reserved for a.                                     *)
Uphold(a, s) ==
  \A i \in 1..Len(s) : s[i] \in DOMAIN file /\ file[s[i]] = Owner(Cid[a], a, i)

(* While its container runs, what an attachment has got is reserved for    *)
(* it; the clean-up has come to containers only that run no more; and      *)
(* there is no trace of an attachment before its ADD.                      *)
KeptOf(a) ==
  /\ Cid[a] \in running =>
       /\ phase[a] = "up" => Uphold(a, ips[a])
       /\ job[a].pc \in Seeking \cup {"got"} => Uphold(a, job[a].got)
       /\ gc.cid # Cid[a]
  /\ phase[a] = "new" =>
       /\ \A ip \in DOMAIN file : file[ip].cid # Cid[a]
       /\ \A e \in gc.todo : e[2] # Cid[a]
       /\ gc.cid # Cid[a]

Kept == DOMAIN gc = {"pc", "todo", "ip", "cid"} /\ \A a \in Att : KeptOf(a)

(* What one attachment has got stays reserved while the others are at      *)
(* work, and while the clean-up goes on.                                   *)
LEMMA UpheldStays ==
  ASSUME OneEach, Typed, NEW d \in Att, NEW s, Uphold(d, s),
         \/ \E a \in Att \ {d} : PlugStep(a)
         \/ Others /\ gc.cid # Cid[d]
  PROVE  Uphold(d, s)'
<1>1. CASE file' = file BY <1>1 DEF Uphold
<1>2. ASSUME NEW S, Unlink(S), \A ip \in S \cap DOMAIN file : file[ip].cid # Cid[d]
      PROVE  Uphold(d, s)'
  <2>1. ASSUME NEW i \in 1..Len(s) PROVE file[s[i]].cid = Cid[d]
    <3>1. file[s[i]] = Owner(Cid[d], d, i) BY DEF Uphold
    <3> QED BY <3>1 DEF Owner
  <2>2. \A i \in 1..Len(s) : s[i] \in DOMAIN file /\ s[i] \notin S BY <1>2, <2>1 DEF Uphold
  <2> QED BY <1>2, <2>2, UnlinkLeaves DEF Uphold
<1>3. ASSUME NEW a \in Att \ {d}, NEW owner, Create(a, owner) PROVE Uphold(d, s)'
  BY <1>3, CreateAdds DEF Uphold
<1>4. ASSUME NEW a \in Att \ {d}, PlugStep(a) PROVE Uphold(d, s)'
  <2>1. Cid[a] # Cid[d] BY DEF OneEach
  <2>2. \A ip \in ByID(Cid[a], a) : file[ip].cid # Cid[d]
    BY <2>1 DEF ByID, OfInterface, OfContainer
  <2>3. CASE Release(a) BY <1>2, <2>2, <2>3 DEF Release
  <2>4. CASE RollBack(a)
    <3>1. job[a].who = a BY <2>4 DEF OneEach, RollBack, At, Typed, Job, AddPCs
    <3>2. Unlink(ByID(Cid[a], a))
      BY <2>4, <3>1, ConstantsAssumption DEF RollBack, OwnerCid, OwnerIf
    <3> QED BY <1>2, <2>2, <3>2
  <2>5. ~ReleaseRedundant(a) BY DEF OneEach, ReleaseRedundant, At, Typed, Job, AddPCs
  <2> QED BY <1>1, <1>3, <1>4, <2>3, <2>4, <2>5, PlugFiles
<1>5. CASE RemoveFile /\ gc.cid # Cid[d]
  <2>1. \A ip \in {gc.ip} \cap OfContainer(gc.cid) : file[ip].cid # Cid[d]
    BY <1>5 DEF OfContainer
  <2> QED BY <1>2, <1>5, <2>1 DEF RemoveFile
<1> QED BY <1>1, <1>4, <1>5, OtherFiles

(* No file of a container comes up before the ADD of its attachment.       *)
LEMMA NoTraceYet ==
  ASSUME OneEach, NEW d \in Att, \A ip \in DOMAIN file : file[ip].cid # Cid[d],
         (\E a \in Att \ {d} : PlugStep(a)) \/ Others
  PROVE  \A ip \in DOMAIN file' : file'[ip].cid # Cid[d]
<1>1. ASSUME NEW S, Unlink(S) PROVE \A ip \in DOMAIN file' : file'[ip].cid # Cid[d]
  BY <1>1, UnlinkLeaves
<1>2. ASSUME NEW a \in Att \ {d}, PlugStep(a)
      PROVE  \A ip \in DOMAIN file' : file'[ip].cid # Cid[d]
  <2>1. ASSUME NEW owner \in {NewOwner(a), Nobody}, Create(a, owner)
        PROVE  \A ip \in DOMAIN file' : file'[ip].cid # Cid[d]
    <3>1. Cid[a] # Cid[d] /\ Cid[d] \in Container BY ConstantsAssumption DEF OneEach
    <3>2. owner.cid # Cid[d]
      BY <3>1, ConstantsAssumption DEF NewOwner, Owner, OwnerCid, Nobody
    <3> QED BY <2>1, <3>2, CreateAdds
  <2>2. CASE RollBack(a) \/ Release(a) \/ ReleaseRedundant(a)
    BY <1>1, <2>2 DEF RollBack, Release, ReleaseRedundant
  <2> QED BY <1>2, <2>1, <2>2, PlugFiles
<1> QED BY <1>1, <1>2, OtherFiles DEF RemoveFile

LEMMA PlugKept ==
  ASSUME OneEach, Typed, Kept, NEW a \in Att, PlugStep(a), NEW d \in Att \ {a}
  PROVE  KeptOf(d)'
<1>1. /\ job'[d] = job[d] /\ phase'[d] = phase[d] /\ ips'[d] = ips[d]
      /\ UNCHANGED <<running, gc>>
  BY PlugAlone
<1>2. KeptOf(d) BY DEF Kept
<1>3. \A s : Uphold(d, s) => Uphold(d, s)'
  <2> SUFFICES ASSUME NEW s, Uphold(d, s) PROVE Uphold(d, s)' OBVIOUS
  <2> QED BY UpheldStays
<1>4. (\A ip \in DOMAIN file : file[ip].cid # Cid[d])
        => \A ip \in DOMAIN file' : file'[ip].cid # Cid[d]
  BY NoTraceYet
<1>5. Uphold(d, ips[d])' <=> \A i \in 1..Len(ips[d]) :
        ips[d][i] \in DOMAIN file' /\ file'[ips[d][i]] = Owner(Cid[d], d, i)
  BY <1>1 DEF Uphold
<1>6. Uphold(d, job[d].got)' <=> \A i \in 1..Len(job[d].got) :
        job[d].got[i] \in DOMAIN file' /\ file'[job[d].got[i]] = Owner(Cid[d], d, i)
  BY <1>1 DEF Uphold
<1>7. Uphold(d, ips[d]) => Uphold(d, ips[d])'
  <2> PICK s : s = ips[d] OBVIOUS
  <2> QED BY <1>1, <1>3, <1>5 DEF Uphold
<1>8. Uphold(d, job[d].got) => Uphold(d, job[d].got)'
  <2> PICK s : s = job[d].got OBVIOUS
  <2> QED BY <1>1, <1>3, <1>6 DEF Uphold
<1> QED BY <1>1, <1>2, <1>4, <1>7, <1>8 DEF KeptOf

(* The plugin's own steps: it goes on with what it has got, or it has      *)
(* nothing to keep.                                                        *)
Goal(a) ==
  \/ /\ UNCHANGED file
     /\ job'[a].got = job[a].got /\ job[a].pc \in Seeking \cup {"got"}
     /\ phase'[a] \notin {"new", "up"}
  \/ job'[a].pc \notin Seeking \cup {"got"} /\ phase'[a] \notin {"new", "up"}

LEMMA MostGoOn ==
  ASSUME OneEach, Typed, NEW a \in Att, PlugStep(a), ~Form(a), ~Reserve(a), ~AddDone(a)
  PROVE  Goal(a)
<1> PICK j : j = job[a] OBVIOUS
<1> PICK p : p = phase[a] OBVIOUS
<1>1. /\ DOMAIN j = DOMAIN Idle /\ DOMAIN job = Att /\ DOMAIN phase = Att
      /\ p = "adding" <=> j.pc \in AddPCs
      /\ p = "deleting" <=> j.pc = "release"
      /\ j.pc # "gw"
  BY DEF Typed, TypeOK, Job, AddPCs, OneEach
<1>2. ~ReleaseRedundant(a) /\ ~AllocateGW(a) /\ ~LookForGW(a)
  BY <1>1 DEF OneEach, ReleaseRedundant, AllocateGW, LookForGW, At
<1>3. CASE Add(a) BY <1>1, <1>3 DEF Add, Goal, Seeking, Idle
<1>4. CASE NothingCached(a) \/ Skip(a) \/ Exhausted(a) \/ AppendLoad(a)
           \/ AppendFlash(a) \/ NextAddress(a)
  BY <1>1, <1>4
  DEF NothingCached, Skip, Exhausted, AppendLoad, AppendFlash, NextAddress, Goal, At,
      Seeking, AddPCs, Idle
<1>5. CASE ApplyBlock(a)
  BY <1>1, <1>5 DEF ApplyBlock, Goal, At, Seeking, AddPCs, Idle
<1>6. CASE Get(a)
  <2>1. phase' = phase /\ file' = file /\ j.pc = "get" BY <1>6 DEF Get, At
  <2>2. job'[a].got = j.got
    <3>1. CASE Duplicate(a) BY <1>1, <1>6, <3>1 DEF Get, Idle
    <3>2. CASE ~Duplicate(a) BY <1>1, <1>6, <3>2 DEF Get, Idle
    <3> QED BY <3>1, <3>2
  <2> QED BY <1>1, <2>1, <2>2 DEF Goal, Seeking, AddPCs
<1>7. CASE ReserveError(a)
  BY <1>1, <1>7 DEF ReserveError, Create, Offered, Goal, At, Seeking, AddPCs, Idle
<1>8. CASE NoBlock(a) BY <1>1, <1>8 DEF NoBlock, Goal, At, Seeking, AddPCs, Idle
<1>9. CASE RollBack(a) BY <1>1, <1>9 DEF RollBack, Goal, At, Seeking, AddPCs, Idle
<1>10. CASE AddFails(a) \/ DelDone(a) \/ Kill(a)
  BY <1>1, <1>10 DEF AddFails, DelDone, Kill, Goal, Seeking, Idle
<1>11. CASE Delete(a) BY <1>1, <1>11 DEF Delete, Goal, Seeking, Idle
<1>12. CASE Release(a) BY <1>1, <1>12 DEF Release, Goal, At, Seeking, Idle
<1> QED BY <1>2, <1>3, <1>4, <1>5, <1>6, <1>7, <1>8, <1>9, <1>10, <1>11, <1>12
        DEF PlugStep, AddStep, DelStep

LEMMA OwnKept ==
  ASSUME OneEach, Typed, Kept, NEW a \in Att, PlugStep(a)
  PROVE  KeptOf(a)'
<1> PICK j : j = job[a] OBVIOUS
<1>1. UNCHANGED <<running, gc>> BY PlugAlone
<1>2. /\ DOMAIN j = DOMAIN Idle /\ DOMAIN job = Att /\ DOMAIN phase = Att
      /\ DOMAIN ips = Att /\ j.got \in Seq(Addr)
      /\ phase[a] = "adding" <=> j.pc \in AddPCs
      /\ j.pc \in AddPCs => j.who = a /\ j.pc # "gw"
  BY DEF Typed, TypeOK, Job, OneEach
<1>3. KeptOf(a) BY DEF Kept
<1>4. CASE ~Form(a) /\ ~Reserve(a) /\ ~AddDone(a)
  <2>1. Goal(a) BY <1>4, MostGoOn
  <2>2. CASE job'[a].pc \notin Seeking \cup {"got"} /\ phase'[a] \notin {"new", "up"}
    BY <1>1, <1>3, <2>2 DEF KeptOf
  <2>3. CASE /\ UNCHANGED file
             /\ job'[a].got = j.got /\ j.pc \in Seeking \cup {"got"}
             /\ phase'[a] \notin {"new", "up"}
    <3>1. Uphold(a, j.got) => Uphold(a, job[a].got)' BY <2>3 DEF Uphold
    <3> QED BY <1>1, <1>3, <2>3, <3>1 DEF KeptOf
  <2> QED BY <2>1, <2>2, <2>3 DEF Goal
<1>5. CASE Form(a)
  <2>1. phase'[a] = "adding" BY <1>2, <1>5 DEF Form, At, AddPCs
  <2>2. job'[a].got = << >> BY <1>2, <1>5 DEF Form, Idle
  <2>3. Uphold(a, job[a].got)' BY <2>2 DEF Uphold
  <2> QED BY <1>1, <1>3, <2>1, <2>3 DEF KeptOf
<1>6. CASE Reserve(a)
  <2> PICK ip : ip = Candidate(a) OBVIOUS
  <2>1. /\ Create(a, NewOwner(a)) /\ j.pc = "search" /\ phase' = phase
        /\ job'[a].got = Append(j.got, ip)
    BY <1>2, <1>6 DEF Reserve, Create, Offered, At, Idle
  <2>2. phase'[a] = "adding" /\ j.who = a BY <1>2, <2>1 DEF AddPCs
  <2>3. NewOwner(a) = Owner(Cid[a], a, Len(j.got) + 1)
    BY <2>2, ConstantsAssumption DEF NewOwner, OwnerCid, OwnerIf
  <2>4. /\ ip \notin DOMAIN file /\ DOMAIN file' = DOMAIN file \cup {ip}
        /\ file'[ip] = NewOwner(a) /\ \A x \in DOMAIN file : file'[x] = file[x]
    BY <2>1, CreateAdds
  <2>5. /\ Len(Append(j.got, ip)) = Len(j.got) + 1 /\ Len(j.got) \in Nat
        /\ Append(j.got, ip)[Len(j.got) + 1] = ip
        /\ \A i \in 1..Len(j.got) : Append(j.got, ip)[i] = j.got[i]
    BY <1>2
  <2>6. ASSUME Uphold(a, j.got), NEW i \in 1..Len(Append(j.got, ip))
        PROVE  /\ Append(j.got, ip)[i] \in DOMAIN file'
               /\ file'[Append(j.got, ip)[i]] = Owner(Cid[a], a, i)
    <3>1. CASE i = Len(j.got) + 1 BY <2>3, <2>4, <2>5, <3>1
    <3>2. CASE i # Len(j.got) + 1
      <4>1. i \in 1..Len(j.got) BY <2>5, <3>2
      <4> QED BY <2>4, <2>5, <2>6, <4>1 DEF Uphold
    <3> QED BY <3>1, <3>2
  <2>7. Uphold(a, j.got) => Uphold(a, job[a].got)' BY <2>1, <2>6 DEF Uphold
  <2> QED BY <1>1, <1>3, <2>1, <2>2, <2>7 DEF KeptOf, Seeking
<1>7. CASE AddDone(a)
  <2>1. /\ j.pc = "got" /\ ips' = [ips EXCEPT ![a] = j.got]
    <3>1. j.pc \in AddPCs => j.who # GatewayId BY <1>2, ConstantsAssumption
    <3> QED BY <1>2, <1>7, <3>1 DEF AddDone, At, AddPCs
  <2>2. file' = file /\ ips'[a] = j.got /\ phase'[a] = "up" /\ job'[a].pc = "idle"
    BY <1>2, <1>7, <2>1 DEF AddDone, Idle
  <2>3. Uphold(a, j.got) => Uphold(a, ips[a])' BY <2>2 DEF Uphold
  <2> QED BY <1>1, <1>3, <2>1, <2>2, <2>3 DEF KeptOf, Seeking
<1> QED BY <1>4, <1>5, <1>6, <1>7

(* The containers and the clean-up.                                        *)
LEMMA OthersKept ==
  ASSUME OneEach, Typed, Kept, Others, NEW d \in Att
  PROVE  KeptOf(d)'
<1>1. /\ job' = job /\ ips' = ips /\ DOMAIN phase = Att
      /\ phase'[d] # phase[d] => phase[d] = "new" /\ phase'[d] = "deleted"
  BY OthersStay DEF Others, Start, Stop, CleanUp, ListFiles, AskDocker, RemoveFile,
                    CleanUpDone, DockerError, Typed, TypeOK
<1>2. KeptOf(d) /\ DOMAIN gc = {"pc", "todo", "ip", "cid"} BY DEF Kept
<1>3. Cid[d] \in Container /\ None \notin Container BY ConstantsAssumption
<1>4. phase[d] = "new" => job[d].pc \notin Seeking \cup {"got"}
  BY DEF Typed, Job, AddPCs, Seeking
<1>5. ASSUME gc.cid # Cid[d] PROVE \A s : Uphold(d, s) => Uphold(d, s)'
  BY <1>5, UpheldStays
<1>6. ASSUME \A ip \in DOMAIN file : file[ip].cid # Cid[d]
      PROVE  \A ip \in DOMAIN file' : file'[ip].cid # Cid[d]
  BY <1>6, NoTraceYet
<1>7. ASSUME gc.cid # Cid[d]
      PROVE  /\ Uphold(d, ips[d]) => Uphold(d, ips[d])'
             /\ Uphold(d, job[d].got) => Uphold(d, job[d].got)'
  <2>1. PICK s : s = ips[d] OBVIOUS
  <2>2. PICK t : t = job[d].got OBVIOUS
  <2>3. Uphold(d, s)' => Uphold(d, ips[d])' BY <1>1, <2>1 DEF Uphold
  <2>4. Uphold(d, t)' => Uphold(d, job[d].got)' BY <1>1, <2>2 DEF Uphold
  <2> QED BY <1>5, <1>7, <2>1, <2>2, <2>3, <2>4
<1>8. ASSUME NEW c \in Container, Start(c) PROVE KeptOf(d)'
  <2>1. UNCHANGED <<file, phase, gc>> /\ running' = running \cup {c}
        /\ (Cid[d] = c => phase[d] = "new")
    BY <1>8 DEF Start
  <2> QED BY <1>1, <1>2, <1>4, <1>7, <2>1 DEF KeptOf
<1>9. ASSUME NEW c \in Container, Stop(c) PROVE KeptOf(d)'
  <2>1. UNCHANGED <<file, gc>> /\ running' \subseteq running BY <1>9 DEF Stop
  <2> QED BY <1>1, <1>2, <1>7, <2>1 DEF KeptOf
<1>10. CASE ListFiles
  <2>1. /\ UNCHANGED <<file, phase, running>> /\ gc'.cid = gc.cid
        /\ gc'.todo = {e \in {<<ip, file[ip].cid>> : ip \in DOMAIN file} :
                         e[2] \notin {GatewayId, None}}
    BY <1>2, <1>10 DEF ListFiles
  <2>2. ASSUME \A ip \in DOMAIN file : file[ip].cid # Cid[d]
        PROVE  \A e \in gc'.todo : e[2] # Cid[d]
    BY <2>1, <2>2
  <2> QED BY <1>1, <1>2, <1>7, <2>1, <2>2 DEF KeptOf
<1>11. CASE AskDocker
  <2>1. UNCHANGED <<file, phase, running>> BY <1>11 DEF AskDocker
  <2>2. PICK e \in gc.todo :
          gc' = IF e[2] \in running
                  THEN [gc EXCEPT !.todo = @ \ {e}]
                  ELSE [gc EXCEPT !.todo = @ \ {e}, !.pc = "remove", !.ip = e[1], !.cid = e[2]]
    BY <1>11 DEF AskDocker
  <2>3. /\ gc'.todo = gc.todo \ {e}
        /\ gc'.cid = gc.cid \/ (gc'.cid = e[2] /\ e[2] \notin running)
    <3>1. CASE e[2] \in running BY <1>2, <2>2, <3>1
    <3>2. CASE e[2] \notin running BY <1>2, <2>2, <3>2
    <3> QED BY <3>1, <3>2
  <2> QED BY <1>1, <1>2, <1>7, <2>1, <2>3 DEF KeptOf
<1>12. CASE RemoveFile
  <2>1. UNCHANGED <<phase, running>> /\ gc'.todo = gc.todo /\ gc'.cid = None
    BY <1>2, <1>12 DEF RemoveFile
  <2> QED BY <1>1, <1>2, <1>3, <1>6, <1>7, <2>1 DEF KeptOf
<1>13. CASE CleanUpDone \/ DockerError
  <2>1. UNCHANGED <<file, phase, running>> /\ gc'.cid = gc.cid /\ gc'.todo \subseteq gc.todo
    BY <1>2, <1>13 DEF CleanUpDone, DockerError
  <2> QED BY <1>1, <1>2, <1>7, <2>1 DEF KeptOf
<1> QED BY <1>8, <1>9, <1>10, <1>11, <1>12, <1>13 DEF Others, CleanUp

LEMMA StepKept ==
  ASSUME OneEach, Typed, Kept, [Next]_vars
  PROVE  Kept'
<1>1. DOMAIN gc' = {"pc", "todo", "ip", "cid"}
  <2>1. CASE UNCHANGED gc BY <2>1 DEF Kept
  <2>2. CASE CleanUp \/ DockerError
    BY <2>2 DEF Kept, CleanUp, ListFiles, AskDocker, RemoveFile, CleanUpDone, DockerError
  <2>3. ASSUME NEW c \in Container, Start(c) \/ Stop(c) PROVE UNCHANGED gc
    BY <2>3 DEF Start, Stop
  <2> QED BY <2>1, <2>2, <2>3, PlugAlone, NextKinds DEF Others, vars
<1>2. ASSUME NEW d \in Att PROVE KeptOf(d)'
  <2>1. CASE UNCHANGED vars BY <2>1 DEF vars, Kept, KeptOf, Uphold
  <2>2. CASE Others BY <2>2, OthersKept
  <2>3. ASSUME NEW a \in Att, PlugStep(a) PROVE KeptOf(d)'
    <3>1. CASE a = d BY <2>3, <3>1, OwnKept
    <3>2. CASE a # d BY <2>3, <3>2, PlugKept
    <3> QED BY <3>1, <3>2
  <2> QED BY <2>1, <2>2, <2>3, NextKinds
<1> QED BY <1>1, <1>2 DEF Kept

(* An address that an attachment was given stays reserved for it as long   *)
(* as its container runs and no DEL was asked for, whatever searches,      *)
(* roll-backs, releases, kills and clean-ups go on beside it.  With one    *)
(* attachment of a container: releases go by the container, and by the     *)
(* beginning of the interface's name; and without allocGW, which removes   *)
(* files that it takes for those of other gateways.                        *)
THEOREM InUseStaysReserved == OneEach => (Spec => []InUseReserved)
<1> SUFFICES ASSUME OneEach PROVE Spec => []InUseReserved OBVIOUS
<1>1. Init => Kept
  <2> SUFFICES ASSUME Init PROVE Kept OBVIOUS
  <2>1. ASSUME NEW a \in Att PROVE KeptOf(a)
    <3>1. Cid[a] # None BY ConstantsAssumption
    <3>2. \A ip \in DOMAIN file : file[ip].cid # Cid[a] BY ConstantsAssumption DEF Init
    <3> QED BY <3>1, <3>2 DEF Init, KeptOf
  <2> QED BY <2>1 DEF Init, Kept
<1>2. Typed /\ Kept /\ [Next]_vars => Kept' BY StepKept
<1>3. Kept => InUseReserved BY DEF Kept, KeptOf, InUseReserved, InUse, Uphold
<1> QED BY <1>1, <1>2, <1>3, AlwaysTyped, PTL DEF Spec

-----------------------------------------------------------------------------
(* One gateway.  The files of gateways, and those of them that plugins of  *)
(* this node have made.                                                    *)

Gws == OfContainer(GatewayId)

Fresh == \A ip \in Gws : ip \in Addr /\ file[ip] = Owner(GatewayId, GatewayId, 1)

(* The plugin allocates an address for a gateway.                          *)
ForGW(a) == job[a].pc \in AddPCs /\ job[a].who = GatewayId

(* The address a plugin takes for the gateway's is the first of them, and  *)
(* those it will release are not.  Who allocates one has found none: there *)
(* is none while it searches, and its own alone when it is done.           *)
GwOf(a) ==
  /\ gw[a] # NoIP => Gws # {} /\ gw[a] = First(Gws)
  /\ \A ip \in job[a].gws : ip \in Nat /\ Gws # {} /\ First(Gws) < ip
  /\ ForGW(a) \/ (At(a, "gw") /\ gw[a] = NoIP) => Fresh
  /\ ForGW(a) /\ At(a, "search") => Gws = {}
  /\ ForGW(a) /\ At(a, "got") => Gws = {Head(job[a].got)}

(* One address per attachment, and no block left that etcd could grant.    *)
Single == Num = 1 /\ ToSet(Cached) = Blocks

(* So every search is for the first address, in all the blocks.            *)
InCached(a) ==
  /\ job[a].pc \in {"get", "search"} => job[a].rs = Cached
  /\ job[a].pc \in {"get", "search", "apply"} => job[a].got = << >>
  /\ At(a, "got") => Len(job[a].got) = 1
  /\ At(a, "fail") => job[a].left = 0
  /\ job[a].pc \notin {"append", "flash"}

Settled ==
  /\ cache = Cached /\ granted = Blocks
  /\ \A a \in Att : InCached(a)

GcSafe ==
  /\ DOMAIN gc = {"pc", "todo", "ip", "cid"}
  /\ gc.cid # GatewayId /\ \A e \in gc.todo : e[2] # GatewayId

OneGw == DOMAIN gw = Att /\ \A a \in Att : GwOf(a)

LEMMA FilesNumbered ==
  ASSUME Typed
  PROVE  Gws \subseteq Nat /\ NoIP \notin Gws
<1>1. Addr \subseteq Nat /\ NoIP \notin Addr BY ConstantsAssumption DEF Addr
<1>2. \A f \in Filed : \A ip \in DOMAIN f : ip \in Nat /\ ip # NoIP
  BY ConstantsAssumption
<1>3. DOMAIN file \subseteq Addr \cup UNION {DOMAIN f : f \in Filed} BY DEF Typed, TypeOK
<1> QED BY <1>1, <1>2, <1>3 DEF Gws, OfContainer

LEMMA FirstIs ==
  ASSUME NEW S \in SUBSET Nat, S # {}
  PROVE  /\ First(S) \in S /\ \A ip \in S : First(S) <= ip
         /\ \A ip \in S : (\A other \in S : ip <= other) => ip = First(S)
<1>1. First(S) \in S /\ \A ip \in S : First(S) <= ip BY LeastNat DEF First
<1>2. \A ip, other \in Nat : ip <= other /\ other <= ip => ip = other OBVIOUS
<1> QED BY <1>1, <1>2

(* Without the other addresses the first remains the first.                *)
LEMMA FirstStays ==
  ASSUME NEW S \in SUBSET Nat, S # {}, NEW x \in Nat, First(S) < x
  PROVE  S \ {x} # {} /\ First(S \ {x}) = First(S)
<1>1. First(S) \in S /\ \A ip \in S : First(S) <= ip BY FirstIs
<1>2. \A y \in Nat : y < x => y # x OBVIOUS
<1>3. First(S) \in S \ {x} /\ \A ip \in S \ {x} : First(S) <= ip BY <1>1, <1>2
<1> QED BY <1>3, FirstIs

(* What does not happen then.                                              *)
LEMMA Closed ==
  ASSUME Single, Settled, NEW a \in Att
  PROVE  ~RollBack(a) /\ ~ApplyBlock(a) /\ ~AppendLoad(a) /\ ~AppendFlash(a) /\ ~NextAddress(a)
<1>1. InCached(a) /\ granted = Blocks BY DEF Settled
<1>2. ~ApplyBlock(a) BY <1>1 DEF ApplyBlock
<1>3. ~AppendLoad(a) /\ ~AppendFlash(a)
  BY <1>1 DEF AppendLoad, AppendFlash, InCached, At
<1>4. ~NextAddress(a) BY <1>1 DEF NextAddress, InCached, At, Single
<1>5. ~RollBack(a) BY <1>1 DEF RollBack, InCached, At
<1> QED BY <1>2, <1>3, <1>4, <1>5

LEMMA OwnInCached ==
  ASSUME Single, Typed, Settled, NEW a \in Att, PlugStep(a)
  PROVE  InCached(a)' /\ UNCHANGED <<cache, granted>>
<1> PICK j : j = job[a] OBVIOUS
<1>1. /\ DOMAIN j = DOMAIN Idle /\ DOMAIN job = Att /\ j.got \in Seq(Addr)
      /\ InCached(a) /\ cache = Cached /\ granted = Blocks
  BY DEF Typed, Job, Settled
<1>2. ~RollBack(a) /\ ~ApplyBlock(a) /\ ~AppendLoad(a) /\ ~AppendFlash(a) /\ ~NextAddress(a)
  BY Closed
<1>3. CASE Add(a) \/ Form(a) \/ AllocateGW(a)
  BY <1>1, <1>3 DEF Add, Form, AllocateGW, InCached, At, Idle
<1>4. CASE NothingCached(a) \/ Exhausted(a) \/ NoBlock(a)
  <2>1. Len(<< >>) = 0 OBVIOUS
  <2> QED BY <1>1, <1>4, <2>1 DEF NothingCached, Exhausted, NoBlock, InCached, At, Idle
<1>5. CASE Get(a)
  <2>1. Len(<< >>) = 0 OBVIOUS
  <2>2. CASE Duplicate(a) BY <1>1, <1>5, <2>1, <2>2 DEF Get, InCached, At, Idle
  <2>3. CASE ~Duplicate(a) BY <1>1, <1>5, <2>3 DEF Get, InCached, At, Idle
  <2> QED BY <2>2, <2>3
<1>6. CASE Skip(a) BY <1>1, <1>6 DEF Skip, InCached, At, Idle
<1>7. CASE Reserve(a) \/ ReserveError(a)
  <2>1. j.got = << >> /\ At(a, "search")
    BY <1>1, <1>7 DEF Reserve, ReserveError, Create, Offered, InCached, At
  <2>2. Len(<< >>) = 0 /\ Len(Append(<< >>, Candidate(a))) = 1 OBVIOUS
  <2>3. CASE Reserve(a) BY <1>1, <2>1, <2>2, <2>3 DEF Reserve, InCached, At, Idle
  <2>4. CASE ReserveError(a) BY <1>1, <2>1, <2>2, <2>4 DEF ReserveError, InCached, At, Idle
  <2> QED BY <1>7, <2>3, <2>4
<1>8. CASE AddFails(a) \/ AddDone(a) \/ DelDone(a)
  BY <1>1, <1>8 DEF AddFails, AddDone, DelDone, InCached, At, Idle
<1>9. CASE Kill(a) BY <1>1, <1>9 DEF Kill, InCached, At, Idle
<1>10. CASE LookForGW(a)
  <2>1. /\ \/ job' = [job EXCEPT ![a].pc = "gw"]
           \/ \E g : job' = [job EXCEPT ![a].pc = "gw", ![a].gws = g]
        /\ UNCHANGED <<cache, granted>>
    BY <1>10 DEF LookForGW
  <2> QED BY <1>1, <2>1 DEF InCached, At, Idle
<1>11. CASE ReleaseRedundant(a) BY <1>1, <1>11 DEF ReleaseRedundant, InCached, At, Idle
<1>12. CASE Delete(a) BY <1>1, <1>12 DEF Delete, InCached, At, Idle
<1>13. CASE Release(a) BY <1>1, <1>13 DEF Release, InCached, At, Idle
<1> QED BY <1>2, <1>3, <1>4, <1>5, <1>6, <1>7, <1>8, <1>9, <1>10,
           <1>11, <1>12, <1>13
        DEF PlugStep, AddStep, DelStep

LEMMA StepSettled ==
  ASSUME Single, Typed, Settled, [Next]_vars
  PROVE  Settled'
<1>1. CASE UNCHANGED vars BY <1>1 DEF vars, Settled, InCached, At
<1>2. CASE Others BY <1>2, OthersTake DEF Settled, InCached, At
<1>3. ASSUME NEW a \in Att, PlugStep(a) PROVE Settled'
  <2>1. InCached(a)' /\ UNCHANGED <<cache, granted>> BY <1>3, OwnInCached
  <2>2. \A d \in Att \ {a} : InCached(d)' BY <1>3, PlugAlone DEF Settled, InCached, At
  <2> QED BY <2>1, <2>2 DEF Settled
<1> QED BY <1>1, <1>2, <1>3, NextKinds

-----------------------------------------------------------------------------
(* What the steps do to the files of gateways.                             *)

Keeps == Gws' = Gws /\ \A ip \in Gws : file'[ip] = file[ip]

LEMMA UnlinkKeeps ==
  ASSUME NEW S, Unlink(S), S \cap Gws = {}
  PROVE  Keeps
BY UnlinkLeaves DEF Keeps, Gws, OfContainer

LEMMA CreateKeeps ==
  ASSUME NEW a \in Att, NEW owner, Create(a, owner), owner.cid # GatewayId
  PROVE  Keeps
BY CreateAdds DEF Keeps, Gws, OfContainer

(* The file of a gateway is made, and there was none.                      *)
Made(a) ==
  /\ ForGW(a) /\ At(a, "search")
  /\ Gws' = {Candidate(a)} /\ Fresh'

LEMMA CreateMakes ==
  ASSUME Single, Typed, Settled, OneGw, NEW a \in Att, Create(a, NewOwner(a)), ForGW(a)
  PROVE  Made(a)
<1>1. At(a, "search") BY DEF Create, Offered
<1>2. Gws = {} BY <1>1 DEF OneGw, GwOf
<1>3. NewOwner(a) = Owner(GatewayId, GatewayId, 1)
  <2>1. job[a].got = << >> /\ Len(<< >>) + 1 = 1 BY <1>1 DEF Settled, InCached, At
  <2> QED BY <2>1 DEF NewOwner, OwnerCid, OwnerIf, ForGW
<1>4. NewOwner(a).cid = GatewayId BY <1>3 DEF Owner
<1>5. Candidate(a) \in Addr BY <1>1, CandidateTyped
<1>6. Gws' = {Candidate(a)} BY <1>2, <1>4, CreateAdds DEF Gws, OfContainer
<1>7. file'[Candidate(a)] = Owner(GatewayId, GatewayId, 1) BY <1>3, CreateAdds
<1>8. Addr' = Addr BY DEF Addr
<1>9. Fresh' BY <1>5, <1>6, <1>7, <1>8 DEF Fresh, Owner
<1> QED BY <1>1, <1>6, <1>9 DEF Made

(* A redundant gateway goes: not the first of them.                        *)
Drops(a) ==
  \E x \in Nat : /\ Gws # {} /\ First(Gws) < x
                 /\ Gws' = Gws \ {x} /\ First(Gws') = First(Gws)
                 /\ \A ip \in Gws' : file'[ip] = file[ip]

LEMMA RedundantDrops ==
  ASSUME Typed, OneGw, NEW a \in Att, ReleaseRedundant(a)
  PROVE  Drops(a)
<1> PICK g : g = job[a].gws OBVIOUS
<1>1. g # {} /\ Unlink({First(g)}) BY DEF ReleaseRedundant
<1>2. \A ip \in g : ip \in Nat /\ Gws # {} /\ First(Gws) < ip BY DEF OneGw, GwOf
<1>3. g \in SUBSET Nat BY <1>2
<1>4. First(g) \in g BY <1>1, <1>3, FirstIs
<1> PICK x : x = First(g) OBVIOUS
<1>5. x \in Nat /\ Gws # {} /\ First(Gws) < x BY <1>2, <1>4
<1>6. Gws' = Gws \ {x} /\ \A ip \in Gws' : file'[ip] = file[ip]
  BY <1>1, UnlinkLeaves DEF Gws, OfContainer
<1>7. First(Gws \ {x}) = First(Gws) BY <1>5, FilesNumbered, FirstStays
<1>8. First(Gws') = First(Gws) BY <1>6, <1>7
<1> QED BY <1>5, <1>6, <1>8 DEF Drops

LEMMA PlugGws ==
  ASSUME Single, Typed, Settled, OneGw, NEW a \in Att, PlugStep(a)
  PROVE  Keeps \/ Made(a) \/ (ReleaseRedundant(a) /\ Drops(a))
<1>1. Cid[a] # GatewayId BY ConstantsAssumption
<1>2. CASE file' = file BY <1>2 DEF Keeps, Gws, OfContainer
<1>3. ~RollBack(a) BY DEF RollBack, Settled, InCached, At
<1>4. CASE Release(a)
  <2>1. ByID(Cid[a], a) \subseteq OfContainer(Cid[a]) BY DEF ByID, OfInterface
  <2>2. ByID(Cid[a], a) \cap Gws = {} BY <1>1, <2>1 DEF OfContainer, Gws
  <2>3. Unlink(ByID(Cid[a], a)) BY <1>4 DEF Release
  <2> QED BY <2>2, <2>3, UnlinkKeeps
<1>5. CASE ReleaseRedundant(a) BY <1>5, RedundantDrops
<1>6. CASE \E owner \in {NewOwner(a), Nobody} : Create(a, owner)
  <2>1. CASE Create(a, Nobody)
    <3>1. Nobody.cid # GatewayId
      BY ConstantsAssumption DEF Nobody, Owner
    <3> QED BY <2>1, <3>1, CreateKeeps
  <2>2. CASE Create(a, NewOwner(a)) /\ ForGW(a) BY <2>2, CreateMakes
  <2>3. CASE Create(a, NewOwner(a)) /\ ~ForGW(a)
    <3>1. At(a, "search") BY <2>3 DEF Create, Offered
    <3>2. job[a].who # GatewayId BY <2>3, <3>1 DEF ForGW, AddPCs, At
    <3>3. NewOwner(a).cid = Cid[a] BY <3>2 DEF NewOwner, OwnerCid, Owner
    <3> QED BY <1>1, <2>3, <3>3, CreateKeeps
  <2> QED BY <1>6, <2>1, <2>2, <2>3
<1> QED BY <1>2, <1>3, <1>4, <1>5, <1>6, PlugFiles

(* What holds of a plugin is not disturbed by another.                     *)
LEMMA GwBeside ==
  ASSUME Typed, OneGw, NEW d \in Att, job'[d] = job[d], gw'[d] = gw[d],
         \/ Keeps
         \/ \E a \in Att \ {d} : Made(a) \/ Drops(a)
  PROVE  GwOf(d)'
<1>1. GwOf(d) BY DEF OneGw
<1>2. Addr' = Addr BY DEF Addr
<1>3. CASE Keeps
  <2>1. Gws' = Gws /\ (Fresh => Fresh') BY <1>2, <1>3 DEF Keeps, Fresh
  <2> QED BY <1>1, <2>1 DEF GwOf, ForGW, At
<1>4. ASSUME NEW a \in Att \ {d}, Made(a) PROVE GwOf(d)'
  <2>1. Gws = {} /\ Fresh' BY <1>4 DEF OneGw, GwOf, Made
  <2>2. ~At(d, "search") BY <1>4 DEF Made, Typed, TypeOK
  <2>3. gw[d] = NoIP /\ (\A ip \in job[d].gws : FALSE) /\ ~(ForGW(d) /\ At(d, "got"))
    BY <1>1, <2>1 DEF GwOf
  <2> QED BY <2>1, <2>2, <2>3 DEF GwOf, ForGW, At
<1>5. ASSUME NEW a \in Att \ {d}, Drops(a) PROVE GwOf(d)'
  <2>1. PICK x \in Nat : /\ Gws # {} /\ First(Gws) < x
                         /\ Gws' = Gws \ {x} /\ First(Gws') = First(Gws)
                         /\ \A ip \in Gws' : file'[ip] = file[ip]
    BY <1>5 DEF Drops
  <2>2. First(Gws) \in Gws /\ First(Gws) \in Nat BY <2>1, FilesNumbered, FirstIs
  <2>3. First(Gws) # x BY <2>1, <2>2
  <2>4. First(Gws) \in Gws' /\ Gws' # {} BY <2>1, <2>2, <2>3
  <2>5. Fresh => Fresh' BY <1>2, <2>1 DEF Fresh
  <2>6. \A y : Gws = {y} => Gws' = Gws BY <2>1, <2>4
  <2> QED BY <1>1, <2>1, <2>4, <2>5, <2>6 DEF GwOf, ForGW, At
<1> QED BY <1>3, <1>4, <1>5

(* The plugin's own step.                                                  *)
LEMMA OwnGw ==
  ASSUME Single, Typed, Settled, OneGw, NEW a \in Att, PlugStep(a)
  PROVE  GwOf(a)' /\ DOMAIN gw' = Att /\ \A d \in Att \ {a} : gw'[d] = gw[d]
<1> PICK j : j = job[a] OBVIOUS
<1>1. /\ DOMAIN j = DOMAIN Idle /\ DOMAIN job = Att /\ DOMAIN gw = Att
      /\ j.got \in Seq(Addr) /\ GwOf(a) /\ InCached(a)
      /\ GatewayId # a /\ GatewayId # None /\ Addr' = Addr
  BY ConstantsAssumption DEF Typed, Job, OneGw, Settled, Addr
<1>2. ~RollBack(a) /\ ~ApplyBlock(a) /\ ~AppendLoad(a) /\ ~AppendFlash(a) /\ ~NextAddress(a)
  BY <1>1, Closed
<1>3. ASSUME file' = file PROVE Gws' = Gws /\ (Fresh' <=> Fresh)
  BY <1>1, <1>3 DEF Gws, OfContainer, Fresh
<1>4. CASE Add(a) \/ Form(a) \/ NothingCached(a) \/ Exhausted(a) \/ NoBlock(a) \/ Skip(a)
  <2>1. file' = file /\ gw' = gw
    BY <1>4 DEF Add, Form, NothingCached, Exhausted, NoBlock, Skip
  <2>2. job'[a].gws = j.gws
    BY <1>1, <1>4 DEF Add, Form, NothingCached, Exhausted, NoBlock, Skip, Idle
  <2>3. job'[a].pc \in {"form", "get", "apply", "fail"} \/ (Skip(a) /\ job'[a].pc = j.pc)
    BY <1>1, <1>4 DEF Add, Form, NothingCached, Exhausted, NoBlock, Skip, Idle
  <2>4. job'[a].who = a \/ (job'[a].who = j.who /\ j.pc \in AddPCs)
    BY <1>1, <1>4 DEF Add, Form, NothingCached, Exhausted, NoBlock, Skip, At, AddPCs, Idle
  <2>5. Skip(a) => At(a, "search") BY DEF Skip
  <2> QED BY <1>1, <1>3, <2>1, <2>2, <2>3, <2>4, <2>5 DEF GwOf, ForGW, At, AddPCs
<1>5. CASE Get(a)
  <2>1. file' = file /\ gw' = gw /\ j.pc = "get" BY <1>5 DEF Get, At
  <2>2. CASE Duplicate(a)
    <3>1. job'[a].pc = "fail" /\ job'[a].gws = j.gws /\ job'[a].who = j.who
      BY <1>1, <1>5, <2>2 DEF Get, Idle
    <3> QED BY <1>1, <1>3, <2>1, <3>1 DEF GwOf, ForGW, At, AddPCs
  <2>3. CASE ~Duplicate(a)
    <3>1. job'[a].pc = "search" /\ job'[a].gws = j.gws /\ job'[a].who = j.who
      BY <1>1, <1>5, <2>3 DEF Get, Idle
    <3>2. ASSUME ForGW(a) PROVE Gws = {}
      <4>1. Fresh BY <1>1, <3>2 DEF GwOf
      <4>2. j.rs = Cached /\ j.got = << >> BY <1>1, <2>1 DEF InCached
      <4>3. OwnerCid(a) = GatewayId /\ OwnerIf(a) = GatewayId /\ Len(j.got) + 1 = 1
        BY <3>2, <4>2 DEF ForGW, OwnerCid, OwnerIf
      <4>4. \A ip \in Addr : Has(Cached, ip)
        <5>1. \A b \in Blocks : \E i \in DOMAIN Cached : Cached[i] = b
          BY DEF Single, ToSet
        <5>2. \A ip \in Addr : \E b \in Blocks : ip \in b.lo..b.hi BY DEF Addr
        <5>3. \A ip, lo, hi : ip \in lo..hi => lo <= ip /\ ip <= hi OBVIOUS
        <5> QED BY <5>1, <5>2, <5>3 DEF Has, InRange
      <4>5. \A ip \in Gws : FALSE
        BY <2>3, <4>1, <4>2, <4>3, <4>4 DEF Duplicate, Fresh, Gws, OfContainer
      <4> QED BY <4>5
    <3> QED BY <1>1, <1>3, <2>1, <3>1, <3>2 DEF GwOf, ForGW, At, AddPCs
  <2> QED BY <2>2, <2>3
<1>6. CASE Reserve(a)
  <2>1. /\ gw' = gw /\ j.pc = "search" /\ job'[a].pc = "got" /\ job'[a].gws = j.gws
        /\ job'[a].who = j.who /\ job'[a].got = Append(j.got, Candidate(a))
    BY <1>1, <1>6 DEF Reserve, Create, Offered, At, Idle
  <2>2. CASE ForGW(a)
    <3>1. Gws' = {Candidate(a)} /\ Fresh'
      BY <1>6, <2>2, CreateMakes DEF Reserve, Made
    <3>2. j.got = << >> BY <1>1, <2>1 DEF InCached
    <3>3. Head(job'[a].got) = Candidate(a) BY <2>1, <3>2
    <3>4. Gws = {} BY <1>1, <2>1, <2>2 DEF GwOf, At
    <3> QED BY <1>1, <2>1, <3>1, <3>3, <3>4 DEF GwOf, ForGW, At
  <2>3. CASE ~ForGW(a)
    <3>1. Keeps \/ Drops(a) \/ Made(a) BY <1>6, PlugGws DEF PlugStep, AddStep
    <3>2. ~Made(a) BY <2>3 DEF Made
    <3>3. ~ReleaseRedundant(a) BY <2>1 DEF ReleaseRedundant, At
    <3>4. Keeps BY <1>6, <3>2, <3>3, PlugGws DEF PlugStep, AddStep
    <3>5. j.who # GatewayId BY <2>1, <2>3 DEF ForGW, AddPCs
    <3> QED BY <1>1, <2>1, <3>4, <3>5 DEF Keeps, GwOf, ForGW, At
  <2> QED BY <1>1, <2>1, <2>2, <2>3
<1>7. CASE ReserveError(a) \/ Kill(a)
  <2>1. /\ gw' = gw /\ job'[a].pc \in {"fail", "idle"}
        /\ (job'[a].gws = j.gws /\ job'[a].who = j.who) \/ job'[a] = Idle
    <3>1. CASE ReserveError(a) BY <1>1, <3>1 DEF ReserveError, Idle
    <3>2. CASE Kill(a)
      <4>1. gw' = gw /\ job' = [job EXCEPT ![a] = Idle] BY <3>2 DEF Kill
      <4> QED BY <1>1, <4>1 DEF Idle
    <3> QED BY <1>7, <3>1, <3>2
  <2>2. ~ReleaseRedundant(a) \/ Keeps
    <3>1. CASE ReserveError(a)
      BY <3>1 DEF ReserveError, Create, Offered, ReleaseRedundant, At
    <3>2. CASE Kill(a) /\ file' = file BY <1>3, <3>2 DEF Keeps
    <3>3. CASE Kill(a) /\ file' # file
      BY <3>3 DEF Kill, Create, Offered, ReleaseRedundant, At
    <3> QED BY <1>7, <3>1, <3>2, <3>3
  <2>3. Keeps \/ Made(a) BY <1>7, <2>2, PlugGws DEF PlugStep
  <2>4. CASE Keeps
    <3>1. Gws' = Gws /\ (Fresh => Fresh') BY <1>1, <2>4 DEF Keeps, Fresh
    <3>2. ForGW(a)' => ForGW(a)
      <4>1. CASE job'[a] = Idle BY <4>1 DEF ForGW, AddPCs, Idle
      <4>2. CASE job'[a] # Idle
        <5>1. ReserveError(a) BY <1>1, <1>7, <4>2 DEF Kill
        <5>2. j.pc = "search" BY <5>1 DEF ReserveError, Create, Offered, At
        <5> QED BY <2>1, <4>2, <5>2 DEF ForGW, AddPCs
      <4> QED BY <4>1, <4>2
    <3> QED BY <1>1, <2>1, <3>1, <3>2 DEF GwOf, At, Idle
  <2>5. CASE Made(a)
    <3>1. Gws = {} /\ Fresh' BY <1>1, <2>5 DEF Made, GwOf
    <3>2. gw[a] = NoIP /\ \A ip \in j.gws : FALSE BY <1>1, <3>1 DEF GwOf
    <3> QED BY <1>1, <2>1, <3>1, <3>2 DEF GwOf, At, Idle
  <2> QED BY <1>1, <2>1, <2>3, <2>4, <2>5
<1>8. CASE AddFails(a) \/ DelDone(a)
  <2>1. file' = file /\ gw' = gw /\ job'[a] = Idle
    BY <1>1, <1>8 DEF AddFails, DelDone
  <2> QED BY <1>1, <1>3, <2>1 DEF GwOf, ForGW, At, AddPCs, Idle
<1>9. CASE AddDone(a)
  <2>1. file' = file /\ job'[a] = Idle BY <1>1, <1>9 DEF AddDone
  <2>2. CASE gw' = gw BY <1>1, <1>3, <2>1, <2>2 DEF GwOf, ForGW, At, AddPCs, Idle
  <2>3. CASE /\ At(a, "got") /\ j.who = GatewayId
             /\ gw' = [gw EXCEPT ![a] = Head(j.got)]
    <3>1. Gws = {Head(j.got)} BY <1>1, <2>3 DEF GwOf, ForGW, At, AddPCs
    <3>2. First(Gws) = Head(j.got) BY <3>1, FilesNumbered, FirstIs
    <3>3. gw'[a] = First(Gws) /\ DOMAIN gw' = Att /\ \A d \in Att \ {a} : gw'[d] = gw[d]
      BY <1>1, <2>3, <3>2
    <3>4. Gws' = Gws /\ Gws # {} BY <1>3, <2>1, <3>1
    <3> QED BY <2>1, <3>3, <3>4 DEF GwOf, ForGW, At, AddPCs, Idle
  <2> QED BY <1>9, <2>2, <2>3 DEF AddDone
<1>10. CASE LookForGW(a)
  <2>1. file' = file /\ j.pc = "got" /\ j.who = a BY <1>10 DEF LookForGW, At
  <2>2. CASE Gws = {}
    <3>1. /\ gw' = gw /\ job'[a].pc = "gw" /\ job'[a].who = j.who /\ job'[a].gws = j.gws
      BY <1>1, <1>10, <2>2 DEF LookForGW, Gws, Idle
    <3>2. Fresh BY <2>2 DEF Fresh
    <3> QED BY <1>1, <1>3, <2>1, <3>1, <3>2 DEF GwOf, ForGW, At
  <2>3. CASE Gws # {}
    <3>1. /\ gw' = [gw EXCEPT ![a] = First(Gws)] /\ job'[a].pc = "gw"
          /\ job'[a].who = j.who /\ job'[a].gws = Gws \ {First(Gws)}
      BY <1>1, <1>10, <2>3 DEF LookForGW, Gws, Idle
    <3>2. Gws \subseteq Nat /\ First(Gws) \in Gws /\ First(Gws) # NoIP
          /\ \A ip \in Gws : First(Gws) <= ip
      BY <2>3, FilesNumbered, FirstIs
    <3>3. \A x, y \in Nat : x <= y /\ x # y => x < y OBVIOUS
    <3>4. \A ip \in Gws \ {First(Gws)} : ip \in Nat /\ First(Gws) < ip BY <3>2, <3>3
    <3> QED BY <1>1, <1>3, <2>1, <2>3, <3>1, <3>2, <3>4 DEF GwOf, ForGW, At
  <2> QED BY <2>2, <2>3
<1>11. CASE ReleaseRedundant(a)
  <2>1. PICK x \in Nat : /\ Gws # {} /\ First(Gws) < x
                         /\ Gws' = Gws \ {x} /\ First(Gws') = First(Gws)
                         /\ \A ip \in Gws' : file'[ip] = file[ip]
    BY <1>11, RedundantDrops DEF Drops
  <2>2. /\ gw' = gw /\ j.pc = "gw" /\ job'[a].pc = j.pc /\ job'[a].who = j.who
        /\ job'[a].gws \subseteq j.gws
    BY <1>1, <1>11 DEF ReleaseRedundant, At, Idle
  <2>3. First(Gws) \in Gws /\ First(Gws) \in Nat BY <2>1, FilesNumbered, FirstIs
  <2>4. First(Gws) # x BY <2>1, <2>3
  <2>5. Gws' # {} BY <2>1, <2>3, <2>4
  <2>6. Fresh => Fresh' BY <1>1, <2>1 DEF Fresh
  <2> QED BY <1>1, <2>1, <2>2, <2>5, <2>6 DEF GwOf, ForGW, At
<1>12. CASE AllocateGW(a)
  <2>1. /\ file' = file /\ gw' = gw /\ j.pc = "gw" /\ gw[a] = NoIP
        /\ job'[a].pc = "form" /\ job'[a].gws = j.gws
    BY <1>1, <1>12 DEF AllocateGW, At, Idle
  <2> QED BY <1>1, <1>3, <2>1 DEF GwOf, ForGW, At
<1>13. CASE Delete(a)
  <2>1. file' = file /\ gw' = gw /\ job'[a].pc = "release" /\ job'[a].gws = j.gws
    BY <1>1, <1>13 DEF Delete, Idle
  <2> QED BY <1>1, <1>3, <2>1 DEF GwOf, ForGW, At, AddPCs
<1>14. CASE Release(a)
  <2>1. /\ gw' = gw /\ j.pc = "release" /\ job'[a].pc = j.pc /\ job'[a].gws = j.gws
    BY <1>1, <1>14 DEF Release, At, Idle
  <2>2. ~Made(a) /\ ~ReleaseRedundant(a) BY <2>1 DEF Made, ReleaseRedundant, At
  <2>3. Keeps BY <1>14, <2>2, PlugGws DEF PlugStep, DelStep
  <2> QED BY <1>1, <2>1, <2>3 DEF Keeps, GwOf, ForGW, At, AddPCs
<1> QED BY <1>2, <1>4, <1>5, <1>6, <1>7, <1>8, <1>9, <1>10, <1>11, <1>12, <1>13, <1>14
        DEF PlugStep, AddStep, DelStep

LEMMA StepGcSafe ==
  ASSUME GcSafe, Typed, [Next]_vars
  PROVE  GcSafe'
<1>1. CASE UNCHANGED gc BY <1>1 DEF GcSafe
<1>2. ASSUME NEW a \in Att, PlugStep(a) PROVE UNCHANGED gc BY <1>2, PlugAlone
<1>3. ASSUME NEW c \in Container, Start(c) \/ Stop(c) PROVE UNCHANGED gc
  BY <1>3 DEF Start, Stop
<1>4. CASE ListFiles BY <1>4 DEF GcSafe, ListFiles
<1>5. CASE AskDocker
  <2>1. PICK e \in gc.todo :
          gc' = IF e[2] \in running
                  THEN [gc EXCEPT !.todo = @ \ {e}]
                  ELSE [gc EXCEPT !.todo = @ \ {e}, !.pc = "remove", !.ip = e[1], !.cid = e[2]]
    BY <1>5 DEF AskDocker
  <2>2. CASE e[2] \in running BY <2>1, <2>2 DEF GcSafe
  <2>3. CASE e[2] \notin running BY <2>1, <2>3 DEF GcSafe
  <2> QED BY <2>2, <2>3
<1>6. CASE RemoveFile BY <1>6, ConstantsAssumption DEF GcSafe, RemoveFile
<1>7. CASE CleanUpDone \/ DockerError BY <1>7 DEF GcSafe, CleanUpDone, DockerError
<1> QED BY <1>1, <1>2, <1>3, <1>4, <1>5, <1>6, <1>7, NextKinds DEF Others, CleanUp, vars

LEMMA OthersGws ==
  ASSUME GcSafe, Others
  PROVE  Keeps /\ UNCHANGED <<gw, job>>
<1>1. UNCHANGED <<gw, job>>
  BY DEF Others, Start, Stop, CleanUp, ListFiles, AskDocker, RemoveFile, CleanUpDone,
         DockerError
<1>2. CASE file' = file BY <1>1, <1>2 DEF Keeps, Gws, OfContainer
<1>3. CASE RemoveFile
  <2>1. Unlink({gc.ip} \cap OfContainer(gc.cid)) BY <1>3 DEF RemoveFile
  <2>2. OfContainer(gc.cid) \cap Gws = {} BY DEF GcSafe, OfContainer, Gws
  <2> QED BY <1>1, <2>1, <2>2, UnlinkKeeps
<1> QED BY <1>1, <1>2, <1>3, OtherFiles

LEMMA StepOneGw ==
  ASSUME Single, Typed, Settled, GcSafe, OneGw, [Next]_vars
  PROVE  OneGw'
<1>1. CASE UNCHANGED vars
  <2>1. Keeps /\ UNCHANGED <<gw, job>> BY <1>1 DEF vars, Keeps, Gws, OfContainer
  <2> QED BY <2>1, GwBeside DEF OneGw
<1>2. CASE Others
  <2>1. Keeps /\ UNCHANGED <<gw, job>> BY <1>2, OthersGws
  <2> QED BY <2>1, GwBeside DEF OneGw
<1>3. ASSUME NEW a \in Att, PlugStep(a) PROVE OneGw'
  <2>1. GwOf(a)' /\ DOMAIN gw' = Att /\ \A d \in Att \ {a} : gw'[d] = gw[d] BY <1>3, OwnGw
  <2>2. Keeps \/ Made(a) \/ Drops(a) BY <1>3, PlugGws
  <2>3. ASSUME NEW d \in Att \ {a} PROVE GwOf(d)'
    <3>1. job'[d] = job[d] BY <1>3, PlugAlone
    <3> QED BY <2>1, <2>2, <3>1, GwBeside
  <2> QED BY <2>1, <2>3 DEF OneGw
<1> QED BY <1>1, <1>2, <1>3, NextKinds

(* Attachments that are given a gateway's address are given the same one,  *)
(* however many plugins look for it, release redundant ones and allocate   *)
(* it at a time, die or fail: Get refuses a second address to `gateway',   *)
(* and no plugin releases the first of the files.  For one address per     *)
(* attachment (a roll-back of several takes away an address that another   *)
(* plugin has seen), and when etcd has no further block for the node       *)
(* (plugins that search different blocks each find one:                    *)
(* LocalIPAMGateways).                                                     *)
THEOREM SameGateway == Single => (Spec => []OneGateway)
<1> SUFFICES ASSUME Single PROVE Spec => []OneGateway OBVIOUS
<1>1. Init => Settled /\ GcSafe /\ OneGw
  <2> SUFFICES ASSUME Init PROVE Settled /\ GcSafe /\ OneGw OBVIOUS
  <2>1. \A a \in Att : job[a] = Idle /\ gw[a] = NoIP BY DEF Init
  <2>2. Settled BY <2>1 DEF Init, Single, Settled, InCached, At, Idle
  <2>3. GcSafe BY ConstantsAssumption DEF Init, GcSafe
  <2>4. OneGw BY <2>1 DEF Init, OneGw, GwOf, ForGW, At, AddPCs, Idle
  <2> QED BY <2>2, <2>3, <2>4
<1>2. Typed /\ Settled /\ GcSafe /\ OneGw /\ [Next]_vars => (Settled /\ GcSafe /\ OneGw)'
  BY StepSettled, StepGcSafe, StepOneGw
<1>3. OneGw => OneGateway BY DEF OneGw, GwOf, OneGateway
<1> QED BY <1>1, <1>2, <1>3, AlwaysTyped, PTL DEF Spec

-----------------------------------------------------------------------------
(* A gateway that was there at the start: no plugin allocates another.     *)

GatewayFiled == \A f \in Filed : \E ip \in DOMAIN f : f[ip].cid = GatewayId

FindsOne(a) == job[a].who # GatewayId /\ (At(a, "gw") => gw[a] # NoIP)

GwStays == OneGw /\ Gws # {} /\ \A a \in Att : FindsOne(a)

LEMMA PlugLeaves ==
  ASSUME Typed, GwStays, NEW a \in Att, PlugStep(a)
  PROVE  Keeps \/ (ReleaseRedundant(a) /\ Drops(a))
<1>1. Cid[a] # GatewayId BY ConstantsAssumption
<1>2. job[a].who # GatewayId BY DEF GwStays, FindsOne
<1>3. OwnerCid(a) = Cid[a] BY <1>2 DEF OwnerCid
<1>4. CASE file' = file BY <1>4 DEF Keeps, Gws, OfContainer
<1>5. ASSUME NEW ifn, Unlink(ByID(Cid[a], ifn)) PROVE Keeps
  <2>1. ByID(Cid[a], ifn) \subseteq OfContainer(Cid[a]) BY DEF ByID, OfInterface
  <2>2. ByID(Cid[a], ifn) \cap Gws = {} BY <1>1, <2>1 DEF OfContainer, Gws
  <2> QED BY <1>5, <2>2, UnlinkKeeps
<1>6. CASE RollBack(a) \/ Release(a) BY <1>3, <1>5, <1>6 DEF RollBack, Release
<1>7. CASE ReleaseRedundant(a) BY <1>7, RedundantDrops DEF GwStays
<1>8. CASE \E owner \in {NewOwner(a), Nobody} : Create(a, owner)
  <2>1. Nobody.cid # GatewayId BY ConstantsAssumption DEF Nobody, Owner
  <2>2. NewOwner(a).cid # GatewayId BY <1>1, <1>3 DEF NewOwner, Owner
  <2> QED BY <1>8, <2>1, <2>2, CreateKeeps
<1> QED BY <1>4, <1>6, <1>7, <1>8, PlugFiles

(* Only the look for a gateway chooses one.                                *)
LEMMA NoOtherLook ==
  ASSUME Typed, GwStays, NEW a \in Att, PlugStep(a), ~LookForGW(a), ~ReleaseRedundant(a)
  PROVE  /\ gw' = gw /\ job'[a].pc # "gw" /\ job'[a].who # GatewayId
         /\ job'[a].gws \subseteq job[a].gws
<1> PICK j : j = job[a] OBVIOUS
<1>1. /\ DOMAIN j = DOMAIN Idle /\ DOMAIN job = Att /\ j.who # GatewayId
      /\ GatewayId # a /\ GatewayId # None /\ (j.pc = "gw" => gw[a] # NoIP)
  BY ConstantsAssumption DEF Typed, Job, GwStays, FindsOne, At
<1>2. CASE Add(a) \/ Form(a) \/ NothingCached(a) \/ Exhausted(a) \/ NoBlock(a)
           \/ AppendLoad(a) \/ AppendFlash(a) \/ NextAddress(a)
  BY <1>1, <1>2 DEF Add, Form, NothingCached, Exhausted, NoBlock, AppendLoad, AppendFlash,
                    NextAddress, Idle
<1>3. CASE Skip(a) \/ RollBack(a) \/ Release(a)
  BY <1>1, <1>3 DEF Skip, RollBack, Release, At, Idle
<1>4. CASE Get(a)
  <2>1. CASE Duplicate(a) BY <1>1, <1>4, <2>1 DEF Get, Idle
  <2>2. CASE ~Duplicate(a) BY <1>1, <1>4, <2>2 DEF Get, Idle
  <2> QED BY <2>1, <2>2
<1>5. CASE Reserve(a) BY <1>1, <1>5 DEF Reserve, Idle
<1>6. CASE ReserveError(a) BY <1>1, <1>6 DEF ReserveError, Idle
<1>7. CASE ApplyBlock(a) BY <1>1, <1>7 DEF ApplyBlock, Idle
<1>8. CASE AddFails(a) \/ DelDone(a) \/ Kill(a)
  <2>1. gw' = gw /\ job' = [job EXCEPT ![a] = Idle] BY <1>8 DEF AddFails, DelDone, Kill
  <2> QED BY <1>1, <2>1 DEF Idle
<1>9. CASE AddDone(a)
  <2>1. gw' = gw BY <1>1, <1>9 DEF AddDone
  <2>2. job' = [job EXCEPT ![a] = Idle] BY <1>9 DEF AddDone
  <2> QED BY <1>1, <2>1, <2>2 DEF Idle
<1>10. CASE Delete(a) BY <1>1, <1>10 DEF Delete, Idle
<1>11. ~AllocateGW(a) BY <1>1 DEF AllocateGW, At
<1> QED BY <1>2, <1>3, <1>4, <1>5, <1>6, <1>7, <1>8, <1>9, <1>10, <1>11
        DEF PlugStep, AddStep, DelStep

LEMMA OwnStays ==
  ASSUME Typed, GwStays, NEW a \in Att, PlugStep(a)
  PROVE  /\ GwOf(a)' /\ FindsOne(a)' /\ Gws' # {}
         /\ DOMAIN gw' = Att /\ \A d \in Att \ {a} : gw'[d] = gw[d]
<1> PICK j : j = job[a] OBVIOUS
<1>1. /\ DOMAIN j = DOMAIN Idle /\ DOMAIN job = Att /\ DOMAIN gw = Att
      /\ GwOf(a) /\ FindsOne(a) /\ Gws # {}
  BY DEF Typed, Job, GwStays, OneGw
<1>2. CASE ~LookForGW(a) /\ ~ReleaseRedundant(a)
  <2>1. /\ gw' = gw /\ job'[a].pc # "gw" /\ job'[a].who # GatewayId
        /\ job'[a].gws \subseteq j.gws
    BY <1>2, NoOtherLook
  <2>2. Keeps BY <1>2, PlugLeaves
  <2> QED BY <1>1, <2>1, <2>2 DEF Keeps, GwOf, FindsOne, ForGW, At
<1>3. CASE LookForGW(a)
  <2>1. file' = file BY <1>3 DEF LookForGW
  <2>2. Gws' = Gws BY <2>1 DEF Gws, OfContainer
  <2>3. /\ gw' = [gw EXCEPT ![a] = First(Gws)] /\ job'[a].pc = "gw"
        /\ job'[a].who = j.who /\ job'[a].gws = Gws \ {First(Gws)}
    BY <1>1, <1>3 DEF LookForGW, Gws, Idle
  <2>4. Gws \subseteq Nat /\ First(Gws) # NoIP /\ \A ip \in Gws : First(Gws) <= ip
        /\ First(Gws) \in Gws
    BY <1>1, FilesNumbered, FirstIs
  <2>5. \A x, y \in Nat : x <= y /\ x # y => x < y OBVIOUS
  <2>6. \A ip \in Gws \ {First(Gws)} : ip \in Nat /\ First(Gws) < ip BY <2>4, <2>5
  <2>7. j.who # GatewayId BY <1>1 DEF FindsOne
  <2> QED BY <1>1, <2>2, <2>3, <2>4, <2>6, <2>7 DEF GwOf, FindsOne, ForGW, At
<1>4. CASE ReleaseRedundant(a)
  <2>1. PICK x \in Nat : /\ Gws # {} /\ First(Gws) < x
                         /\ Gws' = Gws \ {x} /\ First(Gws') = First(Gws)
                         /\ \A ip \in Gws' : file'[ip] = file[ip]
    BY <1>4, RedundantDrops DEF GwStays, Drops
  <2>2. /\ gw' = gw /\ job'[a].pc = j.pc /\ job'[a].who = j.who
        /\ job'[a].gws \subseteq j.gws
    BY <1>1, <1>4 DEF ReleaseRedundant, Idle
  <2>3. First(Gws) \in Gws /\ First(Gws) \in Nat BY <2>1, FilesNumbered, FirstIs
  <2>4. First(Gws) # x BY <2>1, <2>3
  <2>5. Gws' # {} BY <2>1, <2>3, <2>4
  <2> QED BY <1>1, <2>1, <2>2, <2>5 DEF GwOf, FindsOne, ForGW, At
<1> QED BY <1>2, <1>3, <1>4

LEMMA StepStays ==
  ASSUME Typed, GcSafe, GwStays, [Next]_vars
  PROVE  GwStays'
<1>1. ASSUME Keeps, UNCHANGED <<gw, job>> PROVE GwStays'
  <2>1. OneGw' BY <1>1, GwBeside DEF OneGw, GwStays
  <2> QED BY <1>1, <2>1 DEF GwStays, Keeps, FindsOne, At
<1>2. CASE UNCHANGED vars
  <2>1. Keeps /\ UNCHANGED <<gw, job>> BY <1>2 DEF vars, Keeps, Gws, OfContainer
  <2> QED BY <1>1, <2>1
<1>3. CASE Others BY <1>1, <1>3, OthersGws
<1>4. ASSUME NEW a \in Att, PlugStep(a) PROVE GwStays'
  <2>1. /\ GwOf(a)' /\ FindsOne(a)' /\ Gws' # {}
        /\ DOMAIN gw' = Att /\ \A d \in Att \ {a} : gw'[d] = gw[d]
    BY <1>4, OwnStays
  <2>2. Keeps \/ Drops(a) BY <1>4, PlugLeaves
  <2>3. ASSUME NEW d \in Att \ {a} PROVE GwOf(d)' /\ FindsOne(d)'
    <3>1. job'[d] = job[d] BY <1>4, PlugAlone
    <3>2. GwOf(d)' BY <2>1, <2>2, <3>1, GwBeside DEF GwStays
    <3> QED BY <2>1, <3>1, <3>2 DEF GwStays, FindsOne, At
  <2> QED BY <2>1, <2>3 DEF GwStays, OneGw
<1> QED BY <1>2, <1>3, <1>4, NextKinds

(* On a node that has a gateway's address, one or several, every           *)
(* attachment that is given one is given the same, for any number of       *)
(* addresses and blocks: the first of the files is found by every plugin   *)
(* and released by none.                                                   *)
THEOREM GatewayRemains == GatewayFiled => (Spec => []OneGateway)
<1> SUFFICES ASSUME GatewayFiled PROVE Spec => []OneGateway OBVIOUS
<1>1. Init => GcSafe /\ GwStays
  <2> SUFFICES ASSUME Init PROVE GcSafe /\ GwStays OBVIOUS
  <2>1. \A a \in Att : job[a] = Idle /\ gw[a] = NoIP BY DEF Init
  <2>2. GcSafe BY ConstantsAssumption DEF Init, GcSafe
  <2>3. OneGw BY <2>1 DEF Init, OneGw, GwOf, ForGW, At, AddPCs, Idle
  <2>4. Gws # {} BY DEF Init, GatewayFiled, Gws, OfContainer
  <2>5. \A a \in Att : FindsOne(a) BY <2>1, ConstantsAssumption DEF FindsOne, At, Idle
  <2> QED BY <2>2, <2>3, <2>4, <2>5 DEF GwStays
<1>2. Typed /\ GcSafe /\ GwStays /\ [Next]_vars => (GcSafe /\ GwStays)'
  BY StepGcSafe, StepStays
<1>3. GwStays => OneGateway BY DEF GwStays, OneGw, GwOf, OneGateway
<1> QED BY <1>1, <1>2, <1>3, AlwaysTyped, PTL DEF Spec

=============================================================================
