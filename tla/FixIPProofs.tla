----------------------------- MODULE FixIPProofs ------------------------------
(***************************************************************************)
(* What holds of fixed addresses for any pods, networks, ranges and number *)
(* of addresses, over plugins that die, answers of etcd that are lost and  *)
(* a controller that deletes keys without the mutex of the plugins.        *)
(***************************************************************************)
EXTENDS FixIP, WellFoundedInduction, TLAPS

(* No network's name begins with the name of another.                      *)
NoNested == \A n \in Net : Longer[n] = {}

(* What was in etcd before has one key for an address too.                 *)
StaleOneKey == \A f \in Stale : OneKeyIn(f)

-----------------------------------------------------------------------------
(* The walk.                                                               *)

(* A set of natural numbers that is not empty has a least element.         *)
LEMMA LeastNat ==
  ASSUME NEW T \in SUBSET Nat, T # {}
  PROVE  \E x \in T : \A y \in T : x <= y
<1> DEFINE Less == {ss \in Nat \X Nat : ss[1] < ss[2]}
<1>1. IsWellFoundedOn(Less, Nat)
  BY NatLessThanWellFounded DEF OpToRel
<1>2. \A x, y \in Nat : <<y, x>> \in Less \/ x <= y
  OBVIOUS
<1> HIDE DEF Less
<1>3. PICK x \in T : \A y \in T : <<y, x>> \notin Less
  BY <1>1, WFMin
<1> QED BY <1>2, <1>3

(* In one network the walk has a last key.                                 *)
LEMMA LastOfWalk ==
  ASSUME NoNested, NEW n \in Net, NEW S, S \subseteq Walked(n), S # {}
  PROVE  \E k \in S : \A l \in S : ~Before(k, l)
<1> USE FixIPAssumption DEF Key
<1>1. \A k \in S : k \in Key /\ k[1] = n /\ k[2] \in Nat /\ k[2] <= Range[n].hi
  BY DEF Walked, Scan, Inside, NoNested
<1> DEFINE T == {Range[n].hi - k[2] : k \in S}
<1>2. Range[n].hi \in Nat /\ Rank[n] \in Nat
  OBVIOUS
<1>3. T \in SUBSET Nat /\ T # {}
  BY <1>1, <1>2
<1> HIDE DEF T
<1>4. PICK x \in T : \A y \in T : x <= y
  BY <1>3, LeastNat
<1>5. PICK k \in S : Range[n].hi - k[2] = x
  BY DEF T
<1>6. \A l \in S : l[2] <= k[2]
  <2>1. \A l \in S : Range[n].hi - k[2] <= Range[n].hi - l[2]
    BY <1>4, <1>5 DEF T
  <2> QED BY <1>1, <1>2, <2>1
<1>7. \A l \in S : ~Before(k, l)
  BY <1>1, <1>2, <1>6 DEF Before
<1> QED BY <1>7

(* What is behind a part of the walk is behind each of its keys, and in    *)
(* the range or above it.                                                  *)
LEMMA BehindAll ==
  ASSUME NoNested, NEW n \in Net, NEW S, S \subseteq Walked(n)
  PROVE  /\ Behind(n, S) \in Nat /\ Behind(n, S) >= Range[n].lo
         /\ \A k \in S : k[2] < Behind(n, S)
<1> USE FixIPAssumption DEF Key
<1>1. Range[n].lo \in Nat /\ Range[n].subnet \in Nat /\ Rank[n] \in Nat
  OBVIOUS
<1>2. CASE S = {}
  BY <1>1, <1>2 DEF Behind, Lowest
<1>3. CASE S # {}
  <2> DEFINE last == CHOOSE k \in S : \A l \in S : ~Before(k, l)
  <2>1. last \in S /\ \A l \in S : ~Before(last, l)
    BY <1>3, LastOfWalk
  <2>2. Behind(n, S) = last[2] + 1
    BY <1>3 DEF Behind
  <2> HIDE DEF last
  <2>3. \A k \in S : k[1] = n /\ k[2] \in Nat /\ k[2] >= Range[n].lo
    BY DEF Walked, Scan, Inside, NoNested
  <2>4. \A k \in S : k[2] <= last[2]
    BY <1>1, <2>1, <2>3 DEF Before
  <2> QED BY <1>1, <2>1, <2>2, <2>3, <2>4
<1> QED BY <1>2, <1>3

(* A free address is in the range and has no key.                          *)
LEMMA FreeIsFree ==
  ASSUME NoNested, NEW n \in Net, NEW x \in Free(n)
  PROVE  /\ <<n, x>> \in Key /\ Inside(n, <<n, x>>)
         /\ fix[<<n, x>>] = None
<1> USE FixIPAssumption DEF Key
<1>1. x \in Addr /\ x \in Nat /\ <<n, x>> \in Key
  BY DEF Free
<1>2. Range[n].lo \in Nat /\ Range[n].hi \in Nat
  OBVIOUS
<1>3. ASSUME <<n, x>> \in Key, Inside(n, <<n, x>>), fix[<<n, x>>] # None
      PROVE  <<n, x>> \in Walked(n)
  BY <1>3 DEF Walked, Scan
<1>4. CASE \E k \in Walked(n) :
             Behind(n, {l \in Walked(n) : Before(l, k)}) <= x /\ x < k[2]
  <2>1. PICK k \in Walked(n) :
             Behind(n, {l \in Walked(n) : Before(l, k)}) <= x /\ x < k[2]
    BY <1>4
  <2> DEFINE S == {l \in Walked(n) : Before(l, k)}
  <2>2. /\ Behind(n, S) \in Nat /\ Behind(n, S) >= Range[n].lo
        /\ \A l \in S : l[2] < Behind(n, S)
    BY BehindAll
  <2>3. k[1] = n /\ k[2] \in Nat /\ k[2] <= Range[n].hi
    BY DEF Walked, Scan, Inside, NoNested
  <2>4. Inside(n, <<n, x>>)
    BY <1>1, <1>2, <2>1, <2>2, <2>3 DEF Inside
  <2>5. <<n, x>> \in Walked(n) => <<n, x>> \in S
    BY <2>1, <2>3 DEF Before
  <2>6. <<n, x>> \notin S
    BY <1>1, <2>1, <2>2
  <2> QED BY <1>1, <1>3, <2>4, <2>5, <2>6
<1>5. CASE Behind(n, Walked(n)) <= x /\ x <= Range[n].hi
  <2>1. /\ Behind(n, Walked(n)) \in Nat /\ Behind(n, Walked(n)) >= Range[n].lo
        /\ \A l \in Walked(n) : l[2] < Behind(n, Walked(n))
    BY BehindAll
  <2>2. Inside(n, <<n, x>>)
    BY <1>1, <1>2, <1>5, <2>1 DEF Inside
  <2>3. <<n, x>> \notin Walked(n)
    BY <1>1, <1>5, <2>1
  <2> QED BY <1>1, <1>3, <2>2, <2>3
<1> QED BY <1>4, <1>5 DEF Free

(* What a plugin chooses is in the range, and has no key or its own.       *)
LEMMA ChoiceFree ==
  ASSUME NoNested, NEW n \in Net, NEW info, NEW x \in Choices(n, info)
  PROVE  <<n, x>> \in Key /\ Inside(n, <<n, x>>) /\ fix[<<n, x>>] \in {None, info}
<1> USE FixIPAssumption DEF Key
<1>1. CASE Found(n, info) # {}
  <2>1. PICK k \in Found(n, info) : x = k[2]
    BY <1>1 DEF Choices
  <2>2. k \in Key /\ k[1] = n /\ Inside(n, k) /\ fix[k] = info
    BY DEF Found, Own, Scan, NoNested
  <2>3. k = <<n, x>>
    BY <2>1, <2>2
  <2> QED BY <2>2, <2>3
<1>2. CASE Found(n, info) = {}
  BY <1>2, FreeIsFree DEF Choices
<1> QED BY <1>1, <1>2

(* If a pod has one key for an address, what it chooses is that key, or    *)
(* there is none in the range.                                             *)
LEMMA ChoiceSound ==
  ASSUME NoNested, OneKey, NEW n \in Net, NEW info, info # None,
         NEW x \in Choices(n, info), NEW k \in Key, k[1] = n, Inside(n, k), fix[k] = info
  PROVE  k = <<n, x>>
<1> USE FixIPAssumption DEF Key
<1>1. k \in Own(n, info)
  BY DEF Own, Scan
<1>2. \A l \in Own(n, info) : l \in Key /\ l[1] = n /\ fix[l] = info
  BY DEF Own, Scan, NoNested
<1>3. \A l \in Own(n, info) : Inside(n, l) => l = k
  BY <1>2 DEF OneKey, OneKeyIn
<1>4. ~Before(k, k)
  <2>1. k[2] \in Nat /\ Rank[k[1]] \in Nat
    OBVIOUS
  <2> QED BY <2>1 DEF Before
<1>5. k \in Found(n, info)
  BY <1>1, <1>3, <1>4 DEF Found
<1>6. \A l \in Found(n, info) : l = k
  BY <1>3 DEF Found
<1>7. x = k[2]
  BY <1>5, <1>6 DEF Choices
<1> QED BY <1>7

-----------------------------------------------------------------------------
(* Types.                                                                  *)

(* The addresses of an attachment, and the mutex, by where its plugin is.  *)
TypeInv ==
  /\ TypeOK
  /\ \A a \in Att : pc[a] = "down" => ips[a] = << >>
  /\ cpc # "ask" => left = {}

LEMMA TypeInit == Init => TypeInv
<1> SUFFICES ASSUME Init PROVE TypeInv
  OBVIOUS
<1> USE FixIPAssumption DEF Init
<1>1. fix \in [Key -> Info \cup {None}]
  OBVIOUS
<1>2. \A a \in Att : Num[a] \in Nat \ {0}
  OBVIOUS
<1>3. \A a \in Att : dirLock[a[2]] = None /\ None # a
  OBVIOUS
<1> QED BY <1>1, <1>2, <1>3 DEF TypeInv, TypeOK

(* What an attachment may become while the mutexes of the others stay.     *)
LEMMA AttType ==
  ASSUME NEW a \in Att
  PROVE  a[1] \in Pod /\ a[2] \in Net /\ a # None /\ a # Orphan /\ Num[a] \in Nat \ {0}
  BY FixIPAssumption

LEMMA AttPair ==
  ASSUME NEW a \in Att, NEW b \in Att, a[1] = b[1], a[2] = b[2]
  PROVE  a = b
<1>1. a \in Pod \X Net /\ b \in Pod \X Net
  BY FixIPAssumption
<1> QED BY <1>1

LEMMA AskedType ==
  ASSUME TypeOK, NEW a \in Att
  PROVE  Asked(a) \in Info /\ Asked(a) # None
<1>1. Len(ips[a]) + 1 \in Nat \ {0}
  BY DEF TypeOK
<1> QED BY <1>1, FixIPAssumption, AttType DEF Asked, Info

LEMMA ChoiceType ==
  ASSUME NEW n \in Net, NEW info, NEW x \in Choices(n, info)
  PROVE  x \in Addr /\ x # None
<1>1. CASE Found(n, info) # {}
  BY <1>1, FixIPAssumption DEF Choices, Found, Own, Scan, Key
<1>2. CASE Found(n, info) = {}
  BY <1>2, FixIPAssumption DEF Choices, Free
<1> QED BY <1>1, <1>2

(* A plugin goes to q with addresses s and the next one w, and the mutex   *)
(* to m.                                                                   *)
Becomes(a, q, s, w, m) ==
  /\ q \in {"down", "lock", "read", "put", "close", "up"}
  /\ s \in Seq(Addr) /\ w \in Addr \cup {None} /\ m \in Att \cup {None, Orphan}
  /\ fix' \in [Key -> Info \cup {None}]
  /\ UNCHANGED <<pods, controlVars>>
  /\ pc' = [pc EXCEPT ![a] = q]
  /\ ips' = [ips EXCEPT ![a] = s]
  /\ want' = [want EXCEPT ![a] = w]
  /\ dirLock' = [dirLock EXCEPT ![a[2]] = m]
  /\ Len(s) <= Num[a] /\ (Len(s) = Num[a] <=> q = "up")
  /\ q = "put" => w # None
  /\ q = "down" => s = << >>
  /\ m = a <=> q \in {"read", "put", "close"}
  /\ \A b \in Att \ {a} : b[2] = a[2] => (m = b <=> dirLock[a[2]] = b)

LEMMA TypeBecomes ==
  ASSUME TypeInv, NEW a \in Att, NEW q, NEW s, NEW w, NEW m, Becomes(a, q, s, w, m)
  PROVE  TypeInv'
<1> USE AttType DEF TypeInv, TypeOK, controlVars, Becomes
<1>1. /\ dirLock' \in [Net -> Att \cup {None, Orphan}]
      /\ pc' \in [Att -> {"down", "lock", "read", "put", "close", "up"}]
      /\ ips' \in [Att -> Seq(Addr)] /\ want' \in [Att -> Addr \cup {None}]
  OBVIOUS
<1>2. \A b \in Att : /\ Len(ips'[b]) <= Num[b] /\ (Len(ips'[b]) = Num[b] <=> pc'[b] = "up")
                     /\ pc'[b] = "put" => want'[b] # None
                     /\ pc'[b] = "down" => ips'[b] = << >>
  OBVIOUS
<1>3. \A b \in Att : dirLock'[b[2]] = b <=> pc'[b] \in {"read", "put", "close"}
  <2> TAKE b \in Att
  <2>1. CASE b = a
    BY <2>1
  <2>2. CASE b # a /\ b[2] = a[2]
    BY <2>2
  <2>3. CASE b # a /\ b[2] # a[2]
    BY <2>3
  <2> QED BY <2>1, <2>2, <2>3
<1> QED BY <1>1, <1>2, <1>3

(* A step of a plugin.                                                     *)
LEMMA TypePlugin ==
  ASSUME TypeInv, NEW a \in Att,
         \/ Add(a) \/ LockDir(a) \/ Read(a) \/ PutKey(a) \/ Close(a) \/ Del(a)
         \/ LockError(a) \/ PutError(a) \/ Crash(a)
  PROVE  TypeInv'
<1>a. /\ a[2] \in Net /\ a # None /\ a # Orphan /\ Num[a] \in Nat \ {0}
      /\ fix \in [Key -> Info \cup {None}]
      /\ dirLock \in [Net -> Att \cup {None, Orphan}]
      /\ pc \in [Att -> {"down", "lock", "read", "put", "close", "up"}]
      /\ ips \in [Att -> Seq(Addr)] /\ want \in [Att -> Addr \cup {None}]
      /\ Len(ips[a]) \in Nat /\ Len(ips[a]) <= Num[a]
      /\ Len(ips[a]) = Num[a] <=> pc[a] = "up"
      /\ pc[a] = "down" => ips[a] = << >>
      /\ dirLock[a[2]] = a <=> pc[a] \in {"read", "put", "close"}
      /\ Asked(a) \in Info
  BY AttType, AskedType DEF TypeInv, TypeOK
<1>b. << >> \in Seq(Addr) /\ Len(<< >>) = 0 /\ None # Orphan /\ \A b \in Att : b # None
  BY FixIPAssumption
<1>1. CASE Add(a)
  <2>1. Becomes(a, "lock", ips[a], want[a], dirLock[a[2]])
    BY <1>1, <1>a, <1>b DEF Add, Goto, Becomes
  <2> QED BY <2>1, TypeBecomes
<1>2. CASE LockDir(a)
  <2>1. Becomes(a, "read", ips[a], want[a], a)
    BY <1>2, <1>a, <1>b DEF LockDir, Goto, Becomes
  <2> QED BY <2>1, TypeBecomes
<1>3. CASE Read(a)
  <2>1. fix' \in [Key -> Info \cup {None}]
    BY <1>3, <1>a DEF Read
  <2>2. ASSUME NEW x \in Choices(a[2], Asked(a)), want' = [want EXCEPT ![a] = x], Goto(a, "put")
        PROVE  TypeInv'
    <3>1. x \in Addr /\ x # None
      BY ChoiceType, <1>a
    <3>2. Becomes(a, "put", ips[a], x, a)
      BY <1>3, <1>a, <1>b, <2>1, <2>2, <3>1 DEF Read, Goto, Becomes
    <3> QED BY <3>2, TypeBecomes
  <2>3. CASE Goto(a, "close") /\ UNCHANGED want
    <3>1. Becomes(a, "close", ips[a], want[a], a)
      BY <1>3, <1>a, <1>b, <2>1, <2>3 DEF Read, Goto, Becomes
    <3> QED BY <3>1, TypeBecomes
  <2> QED BY <1>3, <2>2, <2>3 DEF Read
<1>4. CASE PutKey(a) \/ PutError(a)
  <2>1. fix' \in [Key -> Info \cup {None}]
    BY <1>4, <1>a DEF PutKey, PutError
  <2>2. PICK w \in Addr \cup {None} : want' = [want EXCEPT ![a] = w]
    <3>1. want = [want EXCEPT ![a] = want[a]]
      BY <1>a
    <3> QED BY <1>4, <1>a, <3>1 DEF PutKey, PutError
  <2>3. Becomes(a, "close", ips[a], w, a)
    BY <1>4, <1>a, <1>b, <2>1, <2>2 DEF PutKey, PutError, Goto, Becomes
  <2> QED BY <2>3, TypeBecomes
<1>5. ASSUME UNCHANGED <<fix, pods, controlVars>>, Down(a),
             NEW m \in Att \cup {None, Orphan}, m # a,
             dirLock' = [dirLock EXCEPT ![a[2]] = m],
             \A b \in Att \ {a} : b[2] = a[2] => (m = b <=> dirLock[a[2]] = b)
      PROVE  TypeInv'
  <2>1. Becomes(a, "down", << >>, None, m)
    BY <1>5, <1>a, <1>b DEF Down, Goto, Becomes
  <2> QED BY <2>1, TypeBecomes
<1>6. CASE Close(a)
  <2>1. /\ pc[a] = "close" /\ dirLock[a[2]] = a
        /\ dirLock' = [dirLock EXCEPT ![a[2]] = None]
        /\ UNCHANGED <<fix, pods, controlVars>>
    BY <1>6, <1>a DEF Close
  <2>2. \A b \in Att \ {a} : b[2] = a[2] => (None = b <=> dirLock[a[2]] = b)
    BY <2>1, AttType
  <2>3. CASE want[a] = None
    <3>1. Down(a)
      BY <1>6, <2>3 DEF Close
    <3>2. None \in Att \cup {None, Orphan} /\ None # a
      BY <1>b
    <3> QED BY <1>5, <2>1, <2>2, <3>1, <3>2
  <2>4. CASE want[a] # None
    <3> DEFINE s == Append(ips[a], want[a])
               q == IF Len(ips[a]) + 1 = Num[a] THEN "up" ELSE "lock"
    <3>1. want[a] \in Addr /\ ips[a] \in Seq(Addr)
      BY <1>a, <2>4
    <3>2. Len(s) = Len(ips[a]) + 1 /\ s \in Seq(Addr)
      BY <3>1
    <3>3. /\ ips' = [ips EXCEPT ![a] = s]
          /\ want' = [want EXCEPT ![a] = None]
          /\ pc' = [pc EXCEPT ![a] = q]
      BY <1>6, <2>4, <1>a DEF Close, Got, Goto
    <3>4. q \in {"up", "lock"} /\ (q = "up" <=> Len(s) = Num[a]) /\ Len(s) <= Num[a]
      BY <1>a, <2>1, <3>2
    <3> HIDE DEF s, q
    <3>5. Becomes(a, q, s, None, None)
      BY <1>a, <2>1, <2>2, <3>2, <3>3, <3>4 DEF Becomes
    <3> QED BY <3>5, TypeBecomes
  <2> QED BY <2>3, <2>4
<1>7. CASE Del(a) \/ LockError(a)
  <2>1. dirLock' = [dirLock EXCEPT ![a[2]] = dirLock[a[2]]] /\ dirLock[a[2]] # a
    BY <1>7, <1>a DEF Del, LockError
  <2>2. dirLock[a[2]] \in Att \cup {None, Orphan}
    BY <1>a
  <2> QED BY <1>5, <1>7, <2>1, <2>2 DEF Del, LockError
<1>8. CASE Crash(a)
  <2>1. CASE dirLock[a[2]] = a
    <3>1. \A b \in Att \ {a} : b[2] = a[2] => (Orphan = b <=> dirLock[a[2]] = b)
      BY <2>1, AttType
    <3> QED BY <1>5, <1>8, <1>a, <2>1, <3>1 DEF Crash
  <2>2. CASE dirLock[a[2]] # a
    <3>1. dirLock' = [dirLock EXCEPT ![a[2]] = dirLock[a[2]]]
      BY <1>8, <1>a, <2>2 DEF Crash
    <3>2. dirLock[a[2]] \in Att \cup {None, Orphan}
      BY <1>a
    <3> QED BY <1>5, <1>8, <2>2, <3>1, <3>2 DEF Crash
  <2> QED BY <2>1, <2>2
<1> QED BY <1>1, <1>2, <1>3, <1>4, <1>6, <1>7, <1>8

(* Any other step.                                                         *)
LEMMA TypeOther ==
  ASSUME TypeInv,
         \/ \E n \in Net : SessionExpires(n)
         \/ ControlStep \/ ControlFault
         \/ \E k \in Key : TimePasses(k)
         \/ \E p \in Pod : PodGoes(p) \/ PodComes(p)
         \/ UNCHANGED vars
  PROVE  TypeInv'
<1> USE AttType DEF TypeInv, TypeOK, pluginVars, controlVars
<1>1. ASSUME NEW n \in Net, SessionExpires(n) PROVE TypeInv'
  BY <1>1, FixIPAssumption DEF SessionExpires
<1>2. CASE CheckFixIP
  <2>1. left' \subseteq Key \X Info
    BY <1>2 DEF CheckFixIP
  <2> QED BY <1>2, <2>1 DEF CheckFixIP
<1>3. ASSUME NEW e \in left, PodFound(e) PROVE TypeInv'
  BY <1>3 DEF PodFound, IsNext
<1>4. ASSUME NEW e \in left, PodMissing(e) PROVE TypeInv'
  BY <1>4 DEF PodMissing, IsNext
<1>5. CASE EndAsk
  BY <1>5 DEF EndAsk
<1>6. ASSUME NEW k \in Key, DelKey(k) PROVE TypeInv'
  BY <1>6 DEF DelKey, ToDelete
<1>7. ASSUME NEW k \in Key, DelKeyError(k) PROVE TypeInv'
  BY <1>7 DEF DelKeyError, ToDelete
<1>8. CASE Restart
  BY <1>8 DEF Restart, Forget
<1>9. ASSUME NEW k \in Key, DelKeyLockError(k) PROVE TypeInv'
  BY <1>9 DEF DelKeyLockError, Forget, ToDelete
<1>10. ASSUME NEW k \in Key, TimePasses(k) PROVE TypeInv'
  BY <1>10 DEF TimePasses
<1>11. ASSUME NEW p \in Pod, PodGoes(p) PROVE TypeInv'
  BY <1>11 DEF PodGoes
<1>12. ASSUME NEW p \in Pod, PodComes(p) PROVE TypeInv'
  BY <1>12 DEF PodComes
<1>13. CASE UNCHANGED vars
  BY <1>13 DEF vars
<1> QED
  BY <1>1, <1>2, <1>3, <1>4, <1>5, <1>6, <1>7, <1>8, <1>9, <1>10, <1>11, <1>12, <1>13
  DEF ControlStep, ControlFault

(* Every variable keeps its type, and the mutex of a network is held by    *)
(* the plugin between LockDir and Close and by nobody else, over crashes,  *)
(* errors of etcd, and restarts of the controller.                         *)
THEOREM FixTypeCorrect == Spec => []TypeOK
<1>1. TypeInv /\ [Next]_vars => TypeInv'
  BY TypePlugin, TypeOther DEF Next
<1>2. TypeInv => TypeOK
  BY DEF TypeInv
<1> QED BY TypeInit, <1>1, <1>2, PTL DEF Spec

-----------------------------------------------------------------------------
(* One key for an address.                                                 *)

(* A key a plugin is about to put is in the range, and the only one the    *)
(* walk could have found for the address.                                  *)
OnlyWanted(a) ==
  pc[a] = "put" =>
    /\ Inside(a[2], Wanted(a))
    /\ \A k \in Key : k[1] = a[2] /\ Inside(a[2], k) /\ fix[k] = Asked(a) => k = Wanted(a)

(* The inductive invariant of OneKey.                                      *)
KeyInv ==
  /\ TypeInv
  /\ OneKey
  /\ \A a \in Att : OnlyWanted(a)

(* A step that puts no key and takes no plugin to put.                     *)
LEMMA KeyStay ==
  ASSUME KeyInv, TypeInv', \A k \in Key : fix'[k] \in {None, fix[k]},
         \A a \in Att : pc'[a] = "put" =>
           pc[a] = "put" /\ want'[a] = want[a] /\ ips'[a] = ips[a]
  PROVE  KeyInv'
<1>1. OneKey'
  BY DEF KeyInv, OneKey, OneKeyIn
<1>2. ASSUME NEW a \in Att, pc'[a] = "put"
      PROVE  /\ Inside(a[2], Wanted(a)')
             /\ \A k \in Key : k[1] = a[2] /\ Inside(a[2], k) /\ fix'[k] = Asked(a)'
                                 => k = Wanted(a)'
  <2>1. pc[a] = "put" /\ Wanted(a)' = Wanted(a) /\ Asked(a)' = Asked(a)
    BY <1>2 DEF Wanted, Asked
  <2>2. Asked(a) # None
    BY AskedType DEF KeyInv, TypeInv
  <2>3. OnlyWanted(a)
    BY DEF KeyInv
  <2> QED BY <2>1, <2>2, <2>3 DEF OnlyWanted
<1> QED BY <1>1, <1>2 DEF KeyInv, OnlyWanted

(* The plugins of one network are not in the mutex together.               *)
LEMMA Alone ==
  ASSUME TypeInv, NEW a \in Att, NEW b \in Att, a # b,
         pc[a] \in {"read", "put", "close"}, pc[b] \in {"read", "put", "close"}
  PROVE  a[2] # b[2]
<1>1. dirLock[a[2]] = a /\ dirLock[b[2]] = b
  BY DEF TypeInv, TypeOK
<1> QED BY <1>1

(* The walk ends with an address to put.                                   *)
LEMMA KeyRead ==
  ASSUME NoNested, KeyInv, TypeInv', NEW a \in Att, Read(a)
  PROVE  KeyInv'
<1>1. \A k \in Key : fix'[k] \in {None, fix[k]}
  BY DEF Read
<1>2. \A b \in Att : b # a => pc'[b] = pc[b] /\ want'[b] = want[b]
  BY DEF Read, Goto, KeyInv, TypeInv, TypeOK
<1>3. CASE pc'[a] # "put"
  BY <1>1, <1>2, <1>3, KeyStay DEF Read
<1>4. CASE pc'[a] = "put"
  <2>1. PICK x \in Choices(a[2], Asked(a)) : want'[a] = x
    BY <1>4 DEF Read, Goto, KeyInv, TypeInv, TypeOK
  <2>2. a[2] \in Net /\ Asked(a) # None
    BY AttType, AskedType DEF KeyInv, TypeInv
  <2>3. Asked(a)' = Asked(a) /\ Wanted(a)' = <<a[2], x>>
    BY <2>1 DEF Read, Asked, Wanted
  <2>4. OneKey'
    BY <1>1 DEF KeyInv, OneKey, OneKeyIn
  <2>5. ASSUME NEW k \in Key, k[1] = a[2], Inside(a[2], k), fix'[k] = Asked(a)
        PROVE  k = <<a[2], x>>
    <3>1. fix[k] = Asked(a)
      BY <1>1, <2>2, <2>5
    <3> QED BY <2>2, <2>5, <3>1, ChoiceSound DEF KeyInv
  <2>6. Inside(a[2], <<a[2], x>>)
    BY <2>2, ChoiceFree
  <2>7. OnlyWanted(a)'
    BY <2>3, <2>5, <2>6 DEF OnlyWanted
  <2>8. ASSUME NEW b \in Att, b # a PROVE OnlyWanted(b)'
    <3>1. OnlyWanted(b) /\ Asked(b) # None
      BY AskedType DEF KeyInv, TypeInv
    <3>2. Asked(b)' = Asked(b) /\ Wanted(b)' = Wanted(b) /\ pc'[b] = pc[b]
      BY <1>2, <2>8 DEF Asked, Wanted, Read
    <3> QED BY <1>1, <3>1, <3>2 DEF OnlyWanted
  <2> QED BY <2>4, <2>7, <2>8 DEF KeyInv
<1> QED BY <1>3, <1>4

(* A key is put, and its plugin is the only one in the network to do so.   *)
LEMMA KeyPut ==
  ASSUME KeyInv, TypeInv', NEW a \in Att, PutKey(a) \/ PutError(a),
         fix' = [fix EXCEPT ![Wanted(a)] = Asked(a)]
  PROVE  KeyInv'
<1>1. /\ pc[a] = "put" /\ pc' = [pc EXCEPT ![a] = "close"] /\ ips' = ips
      /\ \A b \in Att \ {a} : want'[b] = want[b]
  BY DEF PutKey, PutError, Goto, KeyInv, TypeInv, TypeOK
<1>2. \A k \in Key : fix'[k] = IF k = Wanted(a) THEN Asked(a) ELSE fix[k]
  BY DEF KeyInv, TypeInv, TypeOK
<1>3. \A k \in Key : k[1] = a[2] /\ Inside(a[2], k) /\ fix[k] = Asked(a) => k = Wanted(a)
  BY <1>1 DEF KeyInv, OnlyWanted
<1>4. Wanted(a)[1] = a[2]
  BY DEF Wanted
<1>5. OneKey'
  <2> SUFFICES ASSUME NEW k \in Key, NEW l \in Key, k[1] = l[1],
                      Inside(k[1], k), Inside(l[1], l), fix'[k] = fix'[l], fix'[k] # None
               PROVE  k = l
    BY DEF OneKey, OneKeyIn
  <2>1. CASE k = Wanted(a) /\ l # Wanted(a)
    BY <1>2, <1>3, <1>4, <2>1
  <2>2. CASE k # Wanted(a) /\ l = Wanted(a)
    BY <1>2, <1>3, <1>4, <2>2
  <2>3. CASE k # Wanted(a) /\ l # Wanted(a)
    BY <1>2, <2>3 DEF KeyInv, OneKey, OneKeyIn
  <2> QED BY <2>1, <2>2, <2>3
<1>6. ASSUME NEW b \in Att, pc'[b] = "put" PROVE OnlyWanted(b)'
  <2>1. b # a /\ pc[b] = "put"
    BY <1>1, <1>6 DEF KeyInv, TypeInv, TypeOK
  <2>2. b[2] # a[2]
    BY <1>1, <2>1, Alone DEF KeyInv
  <2>3. OnlyWanted(b) /\ Asked(b)' = Asked(b) /\ Wanted(b)' = Wanted(b)
    BY <1>1, <2>1 DEF KeyInv, Asked, Wanted
  <2>4. \A k \in Key : k[1] = b[2] => fix'[k] = fix[k]
    BY <1>2, <1>4, <2>2
  <2> QED BY <2>1, <2>3, <2>4 DEF OnlyWanted
<1>7. \A b \in Att : OnlyWanted(b)'
  BY <1>6 DEF OnlyWanted
<1> QED BY <1>5, <1>7 DEF KeyInv

LEMMA KeyStep == ASSUME NoNested, KeyInv, [Next]_vars PROVE KeyInv'
<1>1. TypeInv'
  BY TypePlugin, TypeOther DEF Next, KeyInv
<1>2. fix \in [Key -> Info \cup {None}] /\ pc \in [Att -> {"down", "lock", "read", "put", "close", "up"}]
  BY DEF KeyInv, TypeInv, TypeOK
<1>3. ASSUME \A k \in Key : fix'[k] \in {None, fix[k]}, UNCHANGED <<pc, want, ips>>
      PROVE  KeyInv'
  BY <1>1, <1>3, KeyStay
<1>4. ASSUME NEW a \in Att, UNCHANGED fix, NEW q, q # "put", Goto(a, q),
             \A b \in Att \ {a} : want'[b] = want[b] /\ ips'[b] = ips[b]
      PROVE  KeyInv'
  <2>1. \A b \in Att : pc'[b] = "put" => pc[b] = "put" /\ b # a
    BY <1>2, <1>4 DEF Goto
  <2> QED BY <1>1, <1>4, <2>1, KeyStay
<1>5. \A a \in Att : Down(a) => \A b \in Att \ {a} : want'[b] = want[b] /\ ips'[b] = ips[b]
  BY DEF Down, KeyInv, TypeInv, TypeOK
<1>6. ASSUME NEW a \in Att, Add(a) \/ LockDir(a) PROVE KeyInv'
  BY <1>4, <1>6 DEF Add, LockDir
<1>7. ASSUME NEW a \in Att, LockError(a) \/ Crash(a) \/ Del(a) PROVE KeyInv'
  <2>1. Goto(a, "down") /\ UNCHANGED fix /\ Down(a)
    BY <1>7 DEF LockError, Crash, Del, Down
  <2> QED BY <1>4, <1>5, <2>1
<1>8. ASSUME NEW a \in Att, Close(a) PROVE KeyInv'
  <2>1. CASE want[a] = None
    <3>1. Goto(a, "down") /\ UNCHANGED fix /\ Down(a)
      BY <1>8, <2>1 DEF Close, Down
    <3> QED BY <1>4, <1>5, <3>1
  <2>2. CASE want[a] # None
    <3>1. PICK q \in {"up", "lock"} : Goto(a, q)
      BY <1>8, <2>2 DEF Close, Got
    <3>2. UNCHANGED fix /\ \A b \in Att \ {a} : want'[b] = want[b] /\ ips'[b] = ips[b]
      BY <1>8, <2>2 DEF Close, Got, KeyInv, TypeInv, TypeOK
    <3> QED BY <1>4, <3>1, <3>2
  <2> QED BY <2>1, <2>2
<1>9. ASSUME NEW a \in Att, Read(a) PROVE KeyInv'
  BY <1>1, <1>9, KeyRead
<1>10. ASSUME NEW a \in Att, PutKey(a) \/ PutError(a) PROVE KeyInv'
  <2>1. CASE UNCHANGED fix
    <3>1. Goto(a, "close") /\ \A b \in Att \ {a} : want'[b] = want[b] /\ ips'[b] = ips[b]
      BY <1>10 DEF PutKey, PutError, KeyInv, TypeInv, TypeOK
    <3> QED BY <1>4, <2>1, <3>1
  <2>2. CASE fix' = [fix EXCEPT ![Wanted(a)] = Asked(a)]
    BY <1>1, <1>10, <2>2, KeyPut
  <2> QED BY <1>10, <2>1, <2>2 DEF PutKey, PutError
<1>11. ASSUME NEW n \in Net, SessionExpires(n) PROVE KeyInv'
  BY <1>3, <1>11 DEF SessionExpires, pluginVars
<1>12. ASSUME NEW k \in Key, DelKey(k) \/ DelKeyLockError(k) PROVE KeyInv'
  BY <1>2, <1>3, <1>12 DEF DelKey, DelKeyLockError, pluginVars
<1>13. ASSUME NEW k \in Key, DelKeyError(k) \/ TimePasses(k) PROVE KeyInv'
  BY <1>3, <1>13 DEF DelKeyError, TimePasses, pluginVars
<1>14. CASE CheckFixIP \/ EndAsk \/ Restart \/ UNCHANGED vars
  BY <1>3, <1>14 DEF CheckFixIP, EndAsk, Restart, vars, pluginVars
<1>15. ASSUME NEW e \in left, PodFound(e) \/ PodMissing(e) PROVE KeyInv'
  BY <1>3, <1>15 DEF PodFound, PodMissing, pluginVars
<1>16. ASSUME NEW p \in Pod, PodGoes(p) \/ PodComes(p) PROVE KeyInv'
  BY <1>3, <1>16 DEF PodGoes, PodComes, pluginVars
<1> QED
  BY <1>6, <1>7, <1>8, <1>9, <1>10, <1>11, <1>12, <1>13, <1>14, <1>15, <1>16
  DEF Next, ControlStep, ControlFault

(* A pod never has two keys in the range for one of its addresses, however *)
(* its ADDs ended and whatever the API server and the controller did: the  *)
(* key it finds when it comes back is the one it had.                      *)
THEOREM KeysStay == ASSUME NoNested, StaleOneKey PROVE Spec => []OneKey
<1>1. Init => KeyInv
  <2> SUFFICES ASSUME Init PROVE KeyInv
    OBVIOUS
  <2>1. OneKey
    BY DEF Init, OneKey, StaleOneKey
  <2>2. \A a \in Att : pc[a] # "put"
    BY DEF Init
  <2> QED BY <2>1, <2>2, TypeInit DEF KeyInv, OnlyWanted
<1>2. KeyInv /\ [Next]_vars => KeyInv'
  BY KeyStep
<1>3. KeyInv => OneKey
  BY DEF KeyInv
<1> QED BY <1>1, <1>2, <1>3, PTL DEF Spec

-----------------------------------------------------------------------------
(* No address for two.                                                     *)

(* What is in etcd for an address an attachment has, is about to put, or   *)
(* has put.                                                                *)
Held(a) == \A i \in 1..Len(ips[a]) : fix[<<a[2], ips[a][i]>>] = <<a[1], i>>

Putting(a) ==
  pc[a] = "put" => Inside(a[2], Wanted(a)) /\ fix[Wanted(a)] \in {None, Asked(a)}

Put(a) == pc[a] = "close" /\ want[a] # None => fix[Wanted(a)] = Asked(a)

(* No address is in hand but between Read and Close.                       *)
Idle(a) == pc[a] \notin {"put", "close"} => want[a] = None

(* A key out of the range that a plugin has deleted is not put again.      *)
Gone(k) == fix[k] = None /\ ~Inside(k[1], k)

(* What the controller has read is still so, and the pods of the keys it   *)
(* will delete are not there.                                              *)
Current(e) == fix[e[1]] = e[2] \/ Gone(e[1])

Dead(k) == (fix[k] # None /\ PodOf(fix[k]) \notin pods) \/ Gone(k)

(* The inductive invariant of Exclusive.                                   *)
HeldInv ==
  /\ TypeInv
  /\ \A a \in Att : pc[a] # "down" => a[1] \in pods
  /\ \A a \in Att : Held(a) /\ Putting(a) /\ Put(a) /\ Idle(a)
  /\ \A e \in left : Current(e)
  /\ \A k \in doomed : Dead(k)

(* Etcd and what the controller goes by stay, and each plugin stays, or    *)
(* gives its addresses up, or goes on with them and no key in hand.        *)
LEMMA HeldQuiet ==
  ASSUME HeldInv, TypeInv', UNCHANGED <<fix, pods, left, doomed>>,
         \A a \in Att :
           \/ pc'[a] = pc[a] /\ ips'[a] = ips[a] /\ want'[a] = want[a]
           \/ pc'[a] = "down" /\ want'[a] = None
           \/ /\ pc'[a] \in {"lock", "read", "close"} /\ ips'[a] = ips[a]
              /\ want'[a] = None /\ a[1] \in pods
  PROVE  HeldInv'
<1>1. ASSUME NEW a \in Att
      PROVE  (pc'[a] # "down" => a[1] \in pods) /\ Held(a)' /\ Putting(a)' /\ Put(a)' /\ Idle(a)'
  <2>1. Held(a) /\ Putting(a) /\ Put(a) /\ Idle(a) /\ (pc[a] # "down" => a[1] \in pods)
    BY DEF HeldInv
  <2>2. CASE pc'[a] = pc[a] /\ ips'[a] = ips[a] /\ want'[a] = want[a]
    BY <2>1, <2>2 DEF Held, Putting, Put, Idle, Wanted, Asked
  <2>3. CASE pc'[a] = "down" /\ want'[a] = None
    <3>1. ips'[a] = << >>
      BY <2>3 DEF TypeInv
    <3> QED BY <2>3, <3>1 DEF Held, Putting, Put, Idle
  <2>4. CASE /\ pc'[a] \in {"lock", "read", "close"} /\ ips'[a] = ips[a]
             /\ want'[a] = None /\ a[1] \in pods
    BY <2>1, <2>4 DEF Held, Putting, Put, Idle
  <2> QED BY <2>2, <2>3, <2>4
<1>2. (\A e \in left' : Current(e)') /\ \A k \in doomed' : Dead(k)'
  BY DEF HeldInv, Current, Dead, Gone
<1> QED BY <1>1, <1>2 DEF HeldInv

(* What an attachment has stays so when the keys it stands on do.          *)
LEMMA HeldKeep ==
  ASSUME HeldInv, NEW a \in Att, pc'[a] = pc[a], ips'[a] = ips[a], want'[a] = want[a],
         \A i \in 1..Len(ips[a]) : fix'[<<a[2], ips[a][i]>>] = <<a[1], i>>,
         pc[a] = "put" => fix'[Wanted(a)] \in {None, fix[Wanted(a)]},
         pc[a] = "close" /\ want[a] # None => fix'[Wanted(a)] = fix[Wanted(a)]
  PROVE  Held(a)' /\ Putting(a)' /\ Put(a)' /\ Idle(a)'
<1>1. Held(a) /\ Putting(a) /\ Put(a) /\ Idle(a)
  BY DEF HeldInv
<1>2. Wanted(a)' = Wanted(a) /\ Asked(a)' = Asked(a)
  BY DEF Wanted, Asked
<1> QED BY <1>1, <1>2 DEF Held, Putting, Put, Idle

(* The key of an address that is held.                                     *)
LEMMA HeldKey ==
  ASSUME HeldInv, NEW a \in Att, NEW i \in 1..Len(ips[a])
  PROVE  /\ <<a[2], ips[a][i]>> \in Key /\ fix[<<a[2], ips[a][i]>>] = <<a[1], i>>
         /\ <<a[1], i>> \in Info /\ <<a[1], i>> # None /\ a[1] \in pods
<1>1. a[1] \in Pod /\ a[2] \in Net /\ ips[a] \in Seq(Addr) /\ Len(ips[a]) \in Nat
  BY AttType DEF HeldInv, TypeInv, TypeOK
<1>2. <<a[1], i>> \in Info
  BY <1>1 DEF Info
<1>3. ips[a] # << >>
  BY <1>1
<1>4. pc[a] # "down"
  BY <1>3 DEF HeldInv, TypeInv
<1>5. a[1] \in pods /\ fix[<<a[2], ips[a][i]>>] = <<a[1], i>>
  BY <1>4 DEF HeldInv, Held
<1>6. <<a[2], ips[a][i]>> \in Key
  BY <1>1 DEF Key
<1> QED BY <1>2, <1>5, <1>6, FixIPAssumption

(* The key that is in hand.                                                *)
LEMMA WantedKey ==
  ASSUME HeldInv, NEW a \in Att, pc[a] = "put" \/ (pc[a] = "close" /\ want[a] # None)
  PROVE  /\ Wanted(a) \in Key /\ Wanted(a)[1] = a[2]
         /\ Asked(a) \in Info /\ Asked(a) # None /\ PodOf(Asked(a)) = a[1] /\ a[1] \in pods
<1>1. want[a] \in Addr
  BY DEF HeldInv, TypeInv, TypeOK
<1> QED BY <1>1, AttType, AskedType DEF HeldInv, TypeInv, Wanted, Key, Asked, PodOf

(* The deletes of the walk take keys that are nobody's, and the address it *)
(* ends with is free or the pod's.                                         *)
LEMMA HeldRead ==
  ASSUME NoNested, HeldInv, TypeInv', NEW a \in Att, Read(a)
  PROVE  HeldInv'
<1>1. PICK D \in SUBSET Outside(a[2], Asked(a)) :
           fix' = [k \in Key |-> IF k \in D THEN None ELSE fix[k]]
  BY DEF Read
<1>2. /\ a[2] \in Net /\ Asked(a) \in Info /\ Asked(a) # None
      /\ pc[a] = "read" /\ UNCHANGED <<pods, ips, left, doomed>>
      /\ \A b \in Att : b # a => pc'[b] = pc[b] /\ want'[b] = want[b]
  BY AttType, AskedType DEF Read, Goto, HeldInv, TypeInv, TypeOK, controlVars
<1>3. \A k \in D : k \in Key /\ k[1] = a[2] /\ fix[k] = Asked(a) /\ ~Inside(k[1], k)
  BY <1>2 DEF Outside, Own, Scan, NoNested
<1>4. \A k \in Key : fix'[k] = IF k \in D THEN None ELSE fix[k]
  BY <1>1
<1>5. ASSUME NEW b \in Att, NEW i \in 1..Len(ips[b]) PROVE fix'[<<b[2], ips[b][i]>>] = <<b[1], i>>
  <2> DEFINE k == <<b[2], ips[b][i]>>
  <2>1. k \in Key /\ fix[k] = <<b[1], i>>
    BY HeldKey
  <2>2. k \notin D
    <3> SUFFICES ASSUME k \in D PROVE FALSE
      OBVIOUS
    <3>1. b[2] = a[2] /\ <<b[1], i>> = <<a[1], Len(ips[a]) + 1>>
      BY <1>3, <2>1 DEF Asked
    <3>2. b[1] = a[1] /\ i = Len(ips[a]) + 1
      BY <3>1
    <3>3. b = a
      BY <3>1, <3>2, AttPair
    <3>4. Len(ips[a]) \in Nat
      BY DEF HeldInv, TypeInv, TypeOK
    <3> QED BY <3>2, <3>3, <3>4
  <2> QED BY <1>4, <2>1, <2>2
<1>6. ASSUME NEW b \in Att, b # a PROVE Held(b)' /\ Putting(b)' /\ Put(b)' /\ Idle(b)'
  <2>1. ASSUME pc[b] = "put" \/ (pc[b] = "close" /\ want[b] # None)
        PROVE  fix'[Wanted(b)] = fix[Wanted(b)]
    <3>1. b[2] # a[2]
      BY <1>2, <1>6, <2>1, Alone DEF HeldInv
    <3>2. Wanted(b) \in Key /\ Wanted(b)[1] = b[2]
      BY <2>1, WantedKey
    <3> QED BY <1>3, <1>4, <3>1, <3>2
  <2> QED BY <1>2, <1>5, <1>6, <2>1, HeldKeep
<1>7. Held(a)' /\ Putting(a)' /\ Put(a)' /\ Idle(a)'
  <2>1. Held(a)' /\ want[a] = None
    BY <1>2, <1>5 DEF Held, HeldInv, Idle
  <2>2. CASE pc'[a] = "close" /\ want' = want
    BY <2>1, <2>2 DEF Putting, Put, Idle
  <2>3. ASSUME NEW x \in Choices(a[2], Asked(a)), want'[a] = x, pc'[a] = "put"
        PROVE  Putting(a)'
    <3>1. /\ <<a[2], x>> \in Key /\ Inside(a[2], <<a[2], x>>)
          /\ fix[<<a[2], x>>] \in {None, Asked(a)}
      BY <1>2, ChoiceFree
    <3>2. fix'[<<a[2], x>>] \in {None, Asked(a)}
      BY <1>4, <3>1
    <3>3. Wanted(a)' = <<a[2], x>> /\ Asked(a)' = Asked(a)
      BY <1>2, <2>3 DEF Wanted, Asked
    <3> QED BY <3>1, <3>2, <3>3 DEF Putting
  <2>4. \/ pc'[a] = "close" /\ want' = want
        \/ pc'[a] = "put" /\ want'[a] \in Choices(a[2], Asked(a))
    BY DEF Read, Goto, HeldInv, TypeInv, TypeOK
  <2>5. CASE pc'[a] = "put" /\ want'[a] \in Choices(a[2], Asked(a))
    BY <2>1, <2>3, <2>5 DEF Put, Idle
  <2> QED BY <2>1, <2>2, <2>4, <2>5
<1>8. ASSUME NEW k \in Key, Gone(k) PROVE Gone(k)'
  BY <1>4, <1>8 DEF Gone
<1>9. ASSUME NEW k \in Key PROVE fix'[k] = fix[k] \/ Gone(k)'
  BY <1>3, <1>4 DEF Gone
<1>10. \A e \in left' : Current(e)'
  BY <1>2, <1>8, <1>9 DEF HeldInv, TypeInv, TypeOK, Current
<1>11. \A k \in doomed' : Dead(k)'
  BY <1>2, <1>8, <1>9 DEF HeldInv, TypeInv, TypeOK, Dead
<1>12. \A b \in Att : pc'[b] # "down" => b[1] \in pods'
  BY <1>2 DEF HeldInv
<1> QED BY <1>6, <1>7, <1>10, <1>11, <1>12 DEF HeldInv

(* The key that is put had nobody's value, and is not one the controller   *)
(* will delete.                                                            *)
LEMMA HeldPut ==
  ASSUME HeldInv, TypeInv', NEW a \in Att, PutKey(a) \/ PutError(a),
         fix' = [fix EXCEPT ![Wanted(a)] = Asked(a)]
  PROVE  HeldInv'
<1>1. /\ pc[a] = "put" /\ pc'[a] = "close" /\ want'[a] \in {want[a], None}
      /\ UNCHANGED <<pods, ips, left, doomed>>
      /\ \A b \in Att : b # a => pc'[b] = pc[b] /\ want'[b] = want[b]
  BY DEF PutKey, PutError, Goto, HeldInv, TypeInv, TypeOK, controlVars
<1> DEFINE w == Wanted(a)
<1>2. /\ w \in Key /\ w[1] = a[2] /\ Asked(a) # None
      /\ PodOf(Asked(a)) = a[1] /\ a[1] \in pods
  BY <1>1, WantedKey
<1>3. Inside(w[1], w) /\ fix[w] \in {None, Asked(a)}
  BY <1>1, <1>2 DEF HeldInv, Putting
<1>4. \A k \in Key : fix'[k] = IF k = w THEN Asked(a) ELSE fix[k]
  BY DEF HeldInv, TypeInv, TypeOK
<1> HIDE DEF w
<1>5. \A k \in Key : fix[k] # None => fix'[k] = fix[k]
  BY <1>3, <1>4
<1>6. \A b \in Att : \A i \in 1..Len(ips[b]) : fix'[<<b[2], ips[b][i]>>] = <<b[1], i>>
  BY <1>5, HeldKey
<1>7. ASSUME NEW b \in Att, b # a PROVE Held(b)' /\ Putting(b)' /\ Put(b)' /\ Idle(b)'
  <2>1. ASSUME pc[b] = "put" \/ (pc[b] = "close" /\ want[b] # None)
        PROVE  fix'[Wanted(b)] = fix[Wanted(b)]
    <3>1. b[2] # a[2]
      BY <1>1, <1>7, <2>1, Alone DEF HeldInv
    <3>2. Wanted(b) \in Key /\ Wanted(b)[1] = b[2]
      BY <2>1, WantedKey
    <3> QED BY <1>2, <1>4, <3>1, <3>2
  <2> QED BY <1>1, <1>6, <1>7, <2>1, HeldKeep
<1>8. Held(a)' /\ Putting(a)' /\ Put(a)' /\ Idle(a)'
  <2>1. Held(a)'
    BY <1>1, <1>6 DEF Held
  <2>2. want'[a] = want[a] => Wanted(a)' = w /\ Asked(a)' = Asked(a)
    BY <1>1 DEF Wanted, Asked, w
  <2> QED BY <1>1, <1>2, <1>4, <2>1, <2>2 DEF Putting, Put, Idle
<1>9. \A k \in Key : Gone(k) => Gone(k)'
  BY <1>3, <1>4 DEF Gone
<1>10. ASSUME NEW e \in left PROVE Current(e)'
  <2>1. e[1] \in Key /\ e[2] # None /\ Current(e)
    BY FixIPAssumption DEF HeldInv, TypeInv, TypeOK
  <2> QED BY <1>5, <1>9, <2>1 DEF Current
<1>11. ASSUME NEW k \in doomed PROVE Dead(k)'
  <2>1. k \in Key /\ Dead(k)
    BY DEF HeldInv, TypeInv, TypeOK
  <2> QED BY <1>1, <1>5, <1>9, <2>1 DEF Dead
<1>12. \A b \in Att : pc'[b] # "down" => b[1] \in pods'
  BY <1>1 DEF HeldInv
<1> QED BY <1>1, <1>7, <1>8, <1>10, <1>11, <1>12 DEF HeldInv

(* What was put becomes an address of the attachment.                      *)
LEMMA HeldGot ==
  ASSUME HeldInv, TypeInv', NEW a \in Att, Close(a), want[a] # None
  PROVE  HeldInv'
<1>1. /\ pc[a] = "close" /\ UNCHANGED <<fix, pods, left, doomed>>
      /\ ips'[a] = Append(ips[a], want[a]) /\ want'[a] = None /\ pc'[a] \in {"up", "lock"}
      /\ \A b \in Att : b # a => pc'[b] = pc[b] /\ ips'[b] = ips[b] /\ want'[b] = want[b]
  BY DEF Close, Got, Goto, HeldInv, TypeInv, TypeOK, controlVars
<1>2. ips[a] \in Seq(Addr) /\ Len(ips[a]) \in Nat /\ want[a] \in Addr
  BY DEF HeldInv, TypeInv, TypeOK
<1>3. Held(a)'
  <2>1. Len(ips'[a]) = Len(ips[a]) + 1
    BY <1>1, <1>2
  <2>2. ASSUME NEW i \in 1..Len(ips'[a]) PROVE fix[<<a[2], ips'[a][i]>>] = <<a[1], i>>
    <3>1. CASE i \in 1..Len(ips[a])
      <4>1. ips'[a][i] = ips[a][i]
        BY <1>1, <1>2, <3>1
      <4> QED BY <3>1, <4>1 DEF HeldInv, Held
    <3>2. CASE i = Len(ips[a]) + 1
      <4>1. ips'[a][i] = want[a]
        BY <1>1, <1>2, <3>2
      <4>2. fix[Wanted(a)] = Asked(a)
        BY <1>1 DEF HeldInv, Put
      <4> QED BY <3>2, <4>1, <4>2 DEF Wanted, Asked
    <3>3. i \in 1..Len(ips[a]) \/ i = Len(ips[a]) + 1
      BY <1>2, <2>1
    <3> QED BY <3>1, <3>2, <3>3
  <2> QED BY <1>1, <2>2 DEF Held
<1>4. Putting(a)' /\ Put(a)' /\ Idle(a)'
  BY <1>1 DEF Putting, Put, Idle
<1>5. ASSUME NEW b \in Att, b # a PROVE Held(b)' /\ Putting(b)' /\ Put(b)' /\ Idle(b)'
  BY <1>1, <1>5, HeldKey, HeldKeep
<1>6. (\A e \in left' : Current(e)') /\ \A k \in doomed' : Dead(k)'
  BY <1>1 DEF HeldInv, Current, Dead, Gone
<1>7. \A b \in Att : pc'[b] # "down" => b[1] \in pods'
  BY <1>1 DEF HeldInv
<1> QED BY <1>3, <1>4, <1>5, <1>6, <1>7 DEF HeldInv

(* The controller reads and waits; what it goes by stays true.             *)
LEMMA HeldControl ==
  ASSUME HeldInv, TypeInv', UNCHANGED <<fix, pods, pc, ips, want>>,
         \A e \in left' : Current(e), \A k \in doomed' : Dead(k)
  PROVE  HeldInv'
<1>1. ASSUME NEW a \in Att
      PROVE  Held(a)' /\ Putting(a)' /\ Put(a)' /\ Idle(a)'
  BY <1>1, HeldKey, HeldKeep
<1>2. (\A e \in left' : Current(e)') /\ \A k \in doomed' : Dead(k)'
  BY DEF Current, Dead, Gone
<1>3. \A a \in Att : pc'[a] # "down" => a[1] \in pods'
  BY DEF HeldInv
<1> QED BY <1>1, <1>2, <1>3 DEF HeldInv

(* A missing pod is missing when its key joins the others: what was read   *)
(* of the key is still so.                                                 *)
LEMMA HeldMissing ==
  ASSUME ~Outages, HeldInv, TypeInv', NEW e \in left, PodMissing(e)
  PROVE  HeldInv'
<1>1. /\ UNCHANGED <<fix, pods, pc, ips, want>> /\ left' \subseteq left
      /\ doomed' \subseteq doomed \cup {e[1]} /\ PodOf(e[2]) \notin pods
  BY DEF PodMissing, pluginVars
<1>2. e[2] # None
  BY FixIPAssumption DEF HeldInv, TypeInv, TypeOK
<1>3. Current(e)
  BY DEF HeldInv
<1>4. Dead(e[1])
  BY <1>1, <1>2, <1>3 DEF Current, Dead
<1>5. (\A f \in left' : Current(f)) /\ \A k \in doomed' : Dead(k)
  BY <1>1, <1>4 DEF HeldInv
<1> QED BY <1>1, <1>5, HeldControl

(* The key that the controller deletes is nobody's.                        *)
LEMMA HeldDelete ==
  ASSUME HeldInv, TypeInv', NEW k \in Key, DelKey(k) \/ DelKeyLockError(k)
  PROVE  HeldInv'
<1>1. /\ k \in doomed /\ cpc = "delete" /\ UNCHANGED <<pods, pc, ips, want>>
      /\ left' \subseteq left /\ doomed' \subseteq doomed \ {k}
  BY DEF DelKey, DelKeyLockError, ToDelete, Forget, pluginVars
<1>2. \A l \in Key : fix'[l] = IF l = k THEN None ELSE fix[l]
  BY DEF DelKey, DelKeyLockError, HeldInv, TypeInv, TypeOK
<1>3. Dead(k)
  BY <1>1 DEF HeldInv
<1>4. ASSUME NEW a \in Att PROVE Held(a)' /\ Putting(a)' /\ Put(a)' /\ Idle(a)'
  <2>1. ASSUME NEW i \in 1..Len(ips[a]) PROVE fix'[<<a[2], ips[a][i]>>] = <<a[1], i>>
    <3>1. /\ <<a[2], ips[a][i]>> \in Key /\ fix[<<a[2], ips[a][i]>>] = <<a[1], i>>
          /\ <<a[1], i>> # None /\ a[1] \in pods
      BY HeldKey
    <3>2. <<a[2], ips[a][i]>> # k
      BY <1>3, <3>1 DEF Dead, Gone, PodOf
    <3> QED BY <1>2, <3>1, <3>2
  <2>2. ASSUME pc[a] = "put" PROVE fix'[Wanted(a)] \in {None, fix[Wanted(a)]}
    BY <1>2, <2>2, WantedKey
  <2>3. ASSUME pc[a] = "close", want[a] # None PROVE fix'[Wanted(a)] = fix[Wanted(a)]
    <3>1. /\ Wanted(a) \in Key /\ Asked(a) # None /\ PodOf(Asked(a)) = a[1] /\ a[1] \in pods
      BY <2>3, WantedKey
    <3>2. fix[Wanted(a)] = Asked(a)
      BY <2>3 DEF HeldInv, Put
    <3>3. Wanted(a) # k
      BY <1>3, <3>1, <3>2 DEF Dead, Gone
    <3> QED BY <1>2, <3>1, <3>3
  <2> QED BY <1>1, <2>1, <2>2, <2>3, HeldKeep
<1>5. left' = {}
  BY <1>1 DEF HeldInv, TypeInv
<1>6. ASSUME NEW l \in doomed' PROVE Dead(l)'
  <2>1. l \in Key /\ Dead(l) /\ l # k
    BY <1>1 DEF HeldInv, TypeInv, TypeOK
  <2> QED BY <1>1, <1>2, <2>1 DEF Dead, Gone
<1>7. \A a \in Att : pc'[a] # "down" => a[1] \in pods'
  BY <1>1 DEF HeldInv
<1> QED BY <1>4, <1>5, <1>6, <1>7 DEF HeldInv

(* A pod goes when it has no plugin, and comes back when none of its keys  *)
(* is about to be deleted.                                                 *)
LEMMA HeldPods ==
  ASSUME ~Returns, HeldInv, TypeInv', NEW p \in Pod, PodGoes(p) \/ PodComes(p)
  PROVE  HeldInv'
<1>1. UNCHANGED <<fix, pc, ips, want, left, doomed>>
  BY DEF PodGoes, PodComes, pluginVars, controlVars
<1>2. ASSUME NEW a \in Att PROVE Held(a)' /\ Putting(a)' /\ Put(a)' /\ Idle(a)'
  BY <1>1, <1>2, HeldKey, HeldKeep
<1>3. \A a \in Att : pc'[a] # "down" => a[1] \in pods'
  BY <1>1 DEF HeldInv, PodGoes, PodComes
<1>4. \A e \in left' : Current(e)'
  BY <1>1 DEF HeldInv, Current, Gone
<1>5. ASSUME NEW k \in doomed PROVE Dead(k)'
  <2>1. Dead(k)
    BY DEF HeldInv
  <2>2. fix[k] # None /\ PodOf(fix[k]) \notin pods => PodOf(fix[k]) \notin pods'
    BY DEF PodGoes, PodComes, Condemned
  <2> QED BY <1>1, <2>1, <2>2 DEF Dead, Gone
<1> QED BY <1>1, <1>2, <1>3, <1>4, <1>5 DEF HeldInv

LEMMA HeldStep ==
  ASSUME NoNested, ~Outages, ~Returns, HeldInv, [Next]_vars
  PROVE  HeldInv'
<1>1. TypeInv'
  BY TypePlugin, TypeOther DEF Next, HeldInv
<1>2. /\ fix \in [Key -> Info \cup {None}]
      /\ pc \in [Att -> {"down", "lock", "read", "put", "close", "up"}]
      /\ ips \in [Att -> Seq(Addr)] /\ want \in [Att -> Addr \cup {None}]
  BY DEF HeldInv, TypeInv, TypeOK
<1>3. \A a \in Att : /\ pc[a] # "down" => a[1] \in pods
                     /\ pc[a] \notin {"put", "close"} => want[a] = None
  BY DEF HeldInv, Idle
<1>4. ASSUME NEW a \in Att, Add(a) \/ LockDir(a) PROVE HeldInv'
  <2>1. UNCHANGED <<fix, pods, left, doomed, ips, want>>
    BY <1>4 DEF Add, LockDir, controlVars
  <2>2. want[a] = None /\ a[1] \in pods /\ pc'[a] \in {"lock", "read"}
    BY <1>2, <1>3, <1>4 DEF Add, LockDir, Goto
  <2>3. \A b \in Att : b # a => pc'[b] = pc[b]
    BY <1>2, <1>4 DEF Add, LockDir, Goto
  <2> QED BY <1>1, <2>1, <2>2, <2>3, HeldQuiet
<1>5. ASSUME NEW a \in Att, Down(a), UNCHANGED <<fix, pods, left, doomed>> PROVE HeldInv'
  <2>1. /\ pc'[a] = "down" /\ want'[a] = None
        /\ \A b \in Att : b # a => pc'[b] = pc[b] /\ ips'[b] = ips[b] /\ want'[b] = want[b]
    BY <1>2, <1>5 DEF Down, Goto
  <2> QED BY <1>1, <1>5, <2>1, HeldQuiet
<1>6. ASSUME NEW a \in Att, LockError(a) \/ Crash(a) \/ Del(a) PROVE HeldInv'
  BY <1>5, <1>6 DEF LockError, Crash, Del, controlVars
<1>7. ASSUME NEW a \in Att, Close(a) PROVE HeldInv'
  <2>1. CASE want[a] = None
    BY <1>5, <1>7, <2>1 DEF Close, controlVars
  <2>2. CASE want[a] # None
    BY <1>1, <1>7, <2>2, HeldGot
  <2> QED BY <2>1, <2>2
<1>8. ASSUME NEW a \in Att, Read(a) PROVE HeldInv'
  BY <1>1, <1>8, HeldRead
<1>9. ASSUME NEW a \in Att, PutKey(a) \/ PutError(a) PROVE HeldInv'
  <2>1. CASE fix' = [fix EXCEPT ![Wanted(a)] = Asked(a)]
    BY <1>1, <1>9, <2>1, HeldPut
  <2>2. CASE PutError(a) /\ UNCHANGED fix
    <3>1. /\ UNCHANGED <<fix, pods, left, doomed, ips>> /\ pc'[a] = "close" /\ want'[a] = None
          /\ \A b \in Att : b # a => pc'[b] = pc[b] /\ want'[b] = want[b]
      BY <1>2, <2>2 DEF PutError, Goto, controlVars
    <3>2. a[1] \in pods
      BY <1>3, <2>2 DEF PutError
    <3> QED BY <1>1, <3>1, <3>2, HeldQuiet
  <2> QED BY <1>9, <2>1, <2>2 DEF PutKey, PutError
<1>10. ASSUME UNCHANGED <<fix, pods, pc, ips, want>>, left' \subseteq left, doomed' \subseteq doomed
       PROVE  HeldInv'
  <2>1. (\A e \in left' : Current(e)) /\ \A k \in doomed' : Dead(k)
    BY <1>10 DEF HeldInv
  <2> QED BY <1>1, <1>10, <2>1, HeldControl
<1>11. ASSUME NEW n \in Net, SessionExpires(n) PROVE HeldInv'
  BY <1>10, <1>11 DEF SessionExpires, pluginVars, controlVars
<1>12. ASSUME NEW k \in Key, DelKeyError(k) \/ TimePasses(k) PROVE HeldInv'
  BY <1>10, <1>12 DEF DelKeyError, TimePasses, pluginVars
<1>13. CASE EndAsk \/ Restart \/ UNCHANGED vars
  BY <1>10, <1>13 DEF EndAsk, Restart, Forget, vars, pluginVars, controlVars
<1>14. ASSUME NEW e \in left, PodFound(e) PROVE HeldInv'
  BY <1>10, <1>14 DEF PodFound, pluginVars
<1>15. CASE CheckFixIP
  <2>1. \A e \in left' : Current(e)
    BY <1>15 DEF CheckFixIP, Current
  <2>2. UNCHANGED <<fix, pods, pc, ips, want>> /\ \A k \in doomed' : Dead(k)
    BY <1>15 DEF CheckFixIP, pluginVars, HeldInv
  <2> QED BY <1>1, <2>1, <2>2, HeldControl
<1>16. ASSUME NEW e \in left, PodMissing(e) PROVE HeldInv'
  BY <1>1, <1>16, HeldMissing
<1>17. ASSUME NEW k \in Key, DelKey(k) \/ DelKeyLockError(k) PROVE HeldInv'
  BY <1>1, <1>17, HeldDelete
<1>18. ASSUME NEW p \in Pod, PodGoes(p) \/ PodComes(p) PROVE HeldInv'
  BY <1>1, <1>18, HeldPods
<1> QED
  BY <1>4, <1>6, <1>7, <1>8, <1>9, <1>11, <1>12, <1>13, <1>14, <1>15, <1>16, <1>17, <1>18
  DEF Next, ControlStep, ControlFault

(* If the API server answers whenever it is asked, and no pod comes back   *)
(* between being found missing and the delete of its keys, no two          *)
(* attachments to a network ever have an address in common: although the   *)
(* controller reads, waits and deletes without the mutex of the plugins,   *)
(* and plugins die, and puts take effect whose answer is lost.             *)
THEOREM NoAddressTwice ==
  ASSUME NoNested, ~Outages, ~Returns
  PROVE  Spec => []Exclusive
<1>1. Init => HeldInv
  <2> SUFFICES ASSUME Init PROVE HeldInv
    OBVIOUS
  <2>1. /\ left = {} /\ doomed = {}
        /\ \A a \in Att : pc[a] = "down" /\ ips[a] = << >> /\ want[a] = None
    BY DEF Init
  <2>2. \A a \in Att : Held(a) /\ Putting(a) /\ Put(a) /\ Idle(a)
    BY <2>1 DEF Held, Putting, Put, Idle
  <2> QED BY <2>1, <2>2, TypeInit DEF HeldInv
<1>2. HeldInv /\ [Next]_vars => HeldInv'
  BY HeldStep
<1>3. HeldInv => Exclusive
  <2> SUFFICES ASSUME HeldInv, NEW a \in Att, NEW b \in Att, a[2] = b[2],
                      NEW i \in 1..Len(ips[a]), NEW j \in 1..Len(ips[b]), ips[a][i] = ips[b][j]
               PROVE  a = b /\ i = j
    BY DEF Exclusive
  <2>1. fix[<<a[2], ips[a][i]>>] = <<a[1], i>> /\ fix[<<b[2], ips[b][j]>>] = <<b[1], j>>
    BY HeldKey
  <2>2. <<a[1], i>> = <<b[1], j>>
    BY <2>1
  <2>3. a[1] = b[1] /\ i = j
    BY <2>2
  <2> QED BY <2>3, AttPair
<1> QED BY <1>1, <1>2, <1>3, PTL DEF Spec
=============================================================================
