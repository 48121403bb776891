--------------------------- MODULE RangeLeaseProofs --------------------------
(***************************************************************************)
(* Type correctness of RangeLease, what leasing under the mutex of the     *)
(* directory guarantees when no daemon checks etcd at the same time, and   *)
(* what remains of it, in the caches and in etcd, when one does.           *)
(***************************************************************************)
EXTENDS RangeLease, FreeRangeProofs

-----------------------------------------------------------------------------
(* Operators on sequences and tables.                                      *)

(* The least element of a set of numbers is one of them.                   *)
LEMMA MinIn ==
  ASSUME NEW S \in SUBSET Nat, S # {}
  PROVE  Min(S) \in S
<1>1. \E x \in S : \A y \in S : x <= y
  BY LeastNat
<1> QED BY <1>1 DEF Min

(* Removing an element leaves a sequence over the same set.                *)
LEMMA RemoveAtType ==
  ASSUME NEW T, NEW s \in Seq(T), NEW i \in 1..Len(s)
  PROVE  RemoveAt(s, i) \in Seq(T)
<1>1. SubSeq(s, 1, i - 1) \in Seq(T)
  OBVIOUS
<1>2. SubSeq(s, i + 1, Len(s)) \in Seq(T)
  OBVIOUS
<1> QED BY <1>1, <1>2 DEF RemoveAt

(* Flashing blocks changes none of them.                                   *)
LEMMA FlashSame ==
  ASSUME NEW s \in Seq(Block)
  PROVE  Flash(s) = s
<1>1. \A i \in 1..Len(s) : Canonicalize(s[i]) = s[i]
  BY BlockKey
<1>2. Flash(s) = [i \in 1..Len(s) |-> s[i]]
  BY <1>1 DEF Flash
<1>3. s = [i \in 1..Len(s) |-> s[i]]
  OBVIOUS
<1> QED BY <1>2, <1>3

(* What a process that dies in FlashCache leaves is a sequence of blocks.  *)
LEMMA TornType ==
  ASSUME NEW s \in Seq(Block), NEW t \in Torn(s)
  PROVE  /\ t \in Seq(Block)
         /\ \A i \in 1..Len(t) : t[i] \in {s[j] : j \in 1..Len(s)}
<1>1. PICK i \in 0..Len(s) : t = SubSeq(s, 1, i)
  BY FlashSame DEF Torn
<1> QED BY <1>1

(* DeleteCache leaves a sequence of blocks.                                *)
LEMMA DropFirstType ==
  ASSUME NEW s \in Seq(Block), NEW r
  PROVE  DropFirst(s, r) \in Seq(Block)
<1> DEFINE hit == {i \in 1..Len(s) : Overlaps(s[i], r)}
<1>1. CASE hit = {}
  BY <1>1 DEF DropFirst
<1>2. CASE hit # {}
  <2>1. hit \in SUBSET Nat /\ hit \in SUBSET (1..Len(s))
    OBVIOUS
  <2>2. Min(hit) \in 1..Len(s)
    BY <1>2, <2>1, MinIn
  <2>3. RemoveAt(s, Min(hit)) \in Seq(Block)
    BY <2>2, RemoveAtType
  <2> QED BY <1>2, <2>3 DEF DropFirst
<1> QED BY <1>1, <1>2

(* A put adds its key to a table, with its value, and changes no other.    *)
LEMMA PutType ==
  ASSUME NEW R, NEW t, t \in [DOMAIN t -> R], DOMAIN t \subseteq LeaseKey,
         NEW k \in LeaseKey, NEW v \in R
  PROVE  /\ Put(t, k, v) \in [DOMAIN Put(t, k, v) -> R]
         /\ DOMAIN Put(t, k, v) = DOMAIN t \cup {k}
         /\ Put(t, k, v)[k] = v
         /\ \A j \in DOMAIN t : j # k => Put(t, k, v)[j] = t[j]
BY DEF Put

(* A delete removes its key from a table and changes no other.             *)
LEMMA DelType ==
  ASSUME NEW R, NEW t, t \in [DOMAIN t -> R], DOMAIN t \subseteq LeaseKey, NEW k
  PROVE  /\ Del(t, k) \in [DOMAIN Del(t, k) -> R]
         /\ DOMAIN Del(t, k) = DOMAIN t \ {k}
         /\ \A j \in DOMAIN t : j # k => Del(t, k)[j] = t[j]
BY DEF Del

(* The range of the network and its block size are what FreeRange takes.   *)
LEMMA ConfFacts ==
  /\ conf \in Conf
  /\ Bits \in 0..(W - 1)
  /\ NoBlock \in Block
<1>1. conf \in Conf /\ Bits \in 0..(W - 1)
  BY ConstantsAssumption DEF conf, Conf
<1>2. 0 \in 0..(W - 1) /\ 0 \in 0..W /\ W \in 0..W
  BY <1>1, WidthAssumption
<1>3. 0 \in Address
  BY MFacts
<1> DEFINE z == [start |-> 0, bits |-> 0]
<1>4. z \in LeaseKey
  BY <1>2, <1>3 DEF LeaseKey
<1>5. 2^0 = 1
  OBVIOUS
<1>6. Minus(Plus(0, 2^0), 1) = 0
  <2>1. 1 < M
    <3>1. 0 < W
      BY <1>2, WidthAssumption
    <3>2. 2 * 2^0 <= M
      BY <3>1, <1>2, WidthAssumption DEF M
    <3> QED BY <3>2, <1>5, MFacts
  <2>2. 0 + 1 \in Address /\ 1 - 1 \in Address
    BY <2>1, MFacts
  <2>3. Plus(0, 1) = 1
    BY <2>2, PlusMinus
  <2>4. Minus(1, 1) = 0
    BY <2>2, PlusMinus
  <2> QED BY <2>3, <2>4, <1>5
<1>7. NoBlock = KeyRange(z)
  BY <1>6 DEF NoBlock, KeyRange
<1> QED BY <1>1, <1>4, <1>7 DEF Block

-----------------------------------------------------------------------------
(* Types.                                                                  *)

(* The controller never runs out of keys before it goes idle: what makes   *)
(* TypeOK inductive.                                                       *)
CtlBusy == cpc # "idle" => ctodo # {}

TypeInv == TypeOK /\ CtlBusy

(* The initial state has the right types.                                  *)
LEMMA InitTypes ==
  Init => TypeInv
<1> SUFFICES ASSUME Init PROVE TypeInv
  OBVIOUS
<1> USE DEF Init
<1>1. lease \in [DOMAIN lease -> Node] /\ DOMAIN lease \subseteq LeaseKey
  OBVIOUS
<1>2. /\ keyLock \in [DOMAIN keyLock -> Node \cup {Controller, Orphan}]
      /\ DOMAIN keyLock \subseteq LeaseKey
  OBVIOUS
<1>3. << >> \in Seq(Block) /\ NoBlock \in Block /\ Leftover \in [Node -> Seq(Block)]
  BY ConfFacts, ConstantsAssumption
<1> QED BY <1>1, <1>2, <1>3 DEF TypeInv, TypeOK, CtlBusy

(* Every step of a plugin, a failure included, keeps the types.            *)
LEMMA WorkerTypes ==
  ASSUME TypeInv, NEW w \in Worker, Apply(w) \/ WorkerStep(w) \/ WorkerFails(w)
  PROVE  TypeInv'
<1> USE DEF TypeInv, TypeOK, CtlBusy, etcdVars, workerVars, daemonVars, ctlVars
<1>n. NodeOf[w] \in Node
  BY ConstantsAssumption
<1>b. << >> \in Seq(Block) /\ NoBlock \in Block
  BY ConfFacts
<1>k. RangeKey(grant[w]) \in LeaseKey
  BY BlockKey
<1>p. /\ Put(lease, RangeKey(grant[w]), NodeOf[w])
           \in [DOMAIN Put(lease, RangeKey(grant[w]), NodeOf[w]) -> Node]
      /\ DOMAIN Put(lease, RangeKey(grant[w]), NodeOf[w]) \subseteq LeaseKey
  BY <1>n, <1>k DEF Put
<1>a. Append(wimg[w], grant[w]) \in Seq(Block)
  OBVIOUS
<1>1. CASE Apply(w)
  BY <1>1 DEF Apply
<1>2. CASE LockDir(w)
  BY <1>2 DEF LockDir
<1>3. CASE FindRange(w)
  <2>1. FreeBlock(DOMAIN lease, conf, Bits) \in Block
    BY ConfFacts, FreeBlockIsBlock
  <2> QED BY <1>3, <2>1 DEF FindRange
<1>4. CASE PutLease(w)
  BY <1>4, <1>p DEF PutLease
<1>5. CASE ApplyError(w)
  BY <1>5, <1>p DEF ApplyError
<1>6. CASE UnlockDir(w)
  <2>1. CASE wpc[w] = "leased"
    BY <1>6, <2>1 DEF UnlockDir
  <2>2. CASE wpc[w] = "failed"
    <3>1. /\ wpc' = [wpc EXCEPT ![w] = "idle"] /\ grant' = [grant EXCEPT ![w] = NoBlock]
          /\ wimg' = [wimg EXCEPT ![w] = << >>] /\ dirLock' = None
          /\ UNCHANGED <<lease, keyLock, cache, daemonVars, ctlVars>>
      BY <1>6, <2>2 DEF UnlockDir, EndWorker
    <3> QED BY <1>b, <3>1
  <2> QED BY <1>6, <2>1, <2>2 DEF UnlockDir
<1>7. CASE AppendLoad(w)
  <2>1. cache[NodeOf[w]] \in Seq(Block)
    BY <1>n
  <2>2. CASE OverlapsCache(cache[NodeOf[w]], grant[w])
    BY <1>7, <2>2, <1>b DEF AppendLoad, EndWorker
  <2>3. CASE ~OverlapsCache(cache[NodeOf[w]], grant[w])
    BY <1>7, <2>1, <2>3 DEF AppendLoad
  <2> QED BY <2>2, <2>3
<1>8. CASE AppendFlash(w)
  <2>1. Flash(Append(wimg[w], grant[w])) \in Seq(Block)
    BY <1>a, FlashSame
  <2> QED BY <1>8, <1>b, <1>n, <2>1 DEF AppendFlash, EndWorker
<1>9. CASE CrashWorker(w)
  <2>1. \A s \in Torn(Append(wimg[w], grant[w])) : s \in Seq(Block)
    BY <1>a, TornType
  <2>2. cache' \in [Node -> Seq(Block)]
    BY <1>9, <1>n, <2>1 DEF CrashWorker
  <2> QED BY <1>9, <1>b, <2>2 DEF CrashWorker, EndWorker
<1>10. CASE LockError(w)
  BY <1>10, <1>b DEF LockError, EndWorker
<1> QED BY <1>1, <1>2, <1>3, <1>4, <1>5, <1>6, <1>7, <1>8, <1>9, <1>10
        DEF WorkerStep, WorkerFails

(* Every step of a daemon, a failure included, keeps the types.            *)
LEMMA DaemonTypes ==
  ASSUME TypeInv, NEW n \in Node, DaemonStep(n) \/ DaemonFails(n)
  PROVE  TypeInv'
<1> USE DEF TypeInv, TypeOK, CtlBusy, etcdVars, workerVars, ctlVars
<1>b. << >> \in Seq(Block) /\ NoBlock \in Block /\ {} \in SUBSET LeaseKey
  BY ConfFacts
<1>k. RangeKey(target[n]) \in LeaseKey
  BY BlockKey
<1>c. todo[n] # {} => Current(n) \in Block
  BY FirstKeyExists DEF Current, Block
<1>h. Hits(n) # {} => Min(Hits(n)) \in 1..Len(img[n])
  <2>1. Hits(n) \in SUBSET Nat /\ Hits(n) \in SUBSET (1..Len(img[n]))
    BY DEF Hits
  <2> QED BY <2>1, MinIn
<1>u. Unleased(n) # {} => Min(Unleased(n)) \in 1..Len(img[n])
  <2>1. Unleased(n) \in SUBSET Nat /\ Unleased(n) \in SUBSET (1..Len(img[n]))
    BY DEF Unleased
  <2> QED BY <2>1, MinIn
<1>l. FirstKey(todo[n]) \in LeaseKey => todo[n] \ {FirstKey(todo[n])} \in SUBSET LeaseKey
  OBVIOUS
<1>p. /\ Put(lease, RangeKey(target[n]), n)
           \in [DOMAIN Put(lease, RangeKey(target[n]), n) -> Node]
      /\ DOMAIN Put(lease, RangeKey(target[n]), n) \subseteq LeaseKey
  BY <1>k DEF Put
<1>d. \A k : /\ Del(lease, k) \in [DOMAIN Del(lease, k) -> Node]
             /\ DOMAIN Del(lease, k) \subseteq LeaseKey
  BY DEF Del
<1>q. \A k : /\ Del(keyLock, k) \in [DOMAIN Del(keyLock, k) -> Node \cup {Controller, Orphan}]
             /\ DOMAIN Del(keyLock, k) \subseteq LeaseKey
  BY DEF Del
<1>r. \A k \in LeaseKey :
         /\ Put(keyLock, k, n)
              \in [DOMAIN Put(keyLock, k, n) -> Node \cup {Controller, Orphan}]
         /\ DOMAIN Put(keyLock, k, n) \subseteq LeaseKey
  BY DEF Put
<1>1. CASE Snapshot(n)
  <2>1. KeysOf(n) \in SUBSET LeaseKey
    BY DEF KeysOf
  <2> QED BY <1>1, <2>1 DEF Snapshot
<1>2. CASE LoadCache(n)
  BY <1>2 DEF LoadCache
<1>3. CASE Found(n)
  BY <1>3 DEF Found, NextLease
<1>4. CASE Clash(n)
  <2>1. Min(Hits(n)) \in Nat /\ img[n][Min(Hits(n))] \in Block /\ cache[n] \in Seq(Block)
    BY <1>4, <1>h DEF Clash
  <2> QED BY <1>4, <2>1 DEF Clash
<1>5. CASE Missing(n)
  <2>1. Current(n) \in Block /\ cache[n] \in Seq(Block)
    BY <1>5, <1>c DEF Missing
  <2> QED BY <1>5, <2>1 DEF Missing
<1>6. CASE SyncFlash(n)
  <2>1. Append(dimg[n], target[n]) \in Seq(Block)
    OBVIOUS
  <2>2. Flash(Append(dimg[n], target[n])) \in Seq(Block)
    BY <2>1, FlashSame
  <2> QED BY <1>6, <1>b, <2>2 DEF SyncFlash, NextLease, Return
<1>7. CASE DeleteFlash(n)
  <2>1. Flash(DropFirst(dimg[n], target[n])) \in Seq(Block)
    BY DropFirstType, FlashSame
  <2> QED BY <1>7, <1>b, <2>1 DEF DeleteFlash, Return
<1>8. CASE UnleaseLock(n)
  BY <1>8, <1>k, <1>r DEF UnleaseLock
<1>9. CASE UnleaseDelete(n)
  BY <1>9, <1>b, <1>d, <1>q DEF UnleaseDelete, NextLease, Return
<1>10. CASE Reload(n)
  BY <1>10 DEF Reload
<1>11. CASE CheckDone(n)
  BY <1>11, <1>b DEF CheckDone, EndCheck, Return
<1>12. CASE RestoreLock(n)
  <2>1. /\ Min(Unleased(n)) \in Nat /\ img[n][Min(Unleased(n))] \in Block
        /\ RangeKey(img[n][Min(Unleased(n))]) \in LeaseKey
    BY <1>12, <1>u, BlockKey DEF RestoreLock
  <2> QED BY <1>12, <2>1, <1>r DEF RestoreLock
<1>13. CASE RestoreGet(n)
  <2>1. CASE RangeKey(target[n]) \in DOMAIN lease
    <3>1. /\ keyLock' \in [DOMAIN keyLock' -> Node \cup {Controller, Orphan}]
          /\ DOMAIN keyLock' \subseteq LeaseKey
      BY <1>13, <2>1, <1>q DEF RestoreGet
    <3>2. dpc' = [dpc EXCEPT ![n] = "drop"]
      BY <1>13, <2>1 DEF RestoreGet
    <3> QED BY <1>13, <3>1, <3>2 DEF RestoreGet
  <2>2. CASE RangeKey(target[n]) \notin DOMAIN lease
    BY <1>13, <2>2 DEF RestoreGet
  <2> QED BY <2>1, <2>2
<1>14. CASE RestorePut(n)
  BY <1>14, <1>b, <1>p, <1>q DEF RestorePut, Return
<1>15. CASE RestoreError(n)
  <2>1. lease' \in [DOMAIN lease' -> Node] /\ DOMAIN lease' \subseteq LeaseKey
    BY <1>15, <1>p DEF RestoreError
  <2>2. /\ keyLock' \in [DOMAIN keyLock' -> Node \cup {Controller, Orphan}]
        /\ DOMAIN keyLock' \subseteq LeaseKey
    BY <1>15, <1>q DEF RestoreError
  <2> QED BY <1>15, <2>1, <2>2 DEF RestoreError
<1>16. CASE Drop(n)
  BY <1>16 DEF Drop
<1>17. CASE CrashDaemon(n)
  <2>1. /\ \A s \in Torn(Append(dimg[n], target[n])) : s \in Seq(Block)
        /\ \A s \in Torn(DropFirst(dimg[n], target[n])) : s \in Seq(Block)
    <3>1. Append(dimg[n], target[n]) \in Seq(Block) /\ dimg[n] \in Seq(Block)
      OBVIOUS
    <3>2. DropFirst(dimg[n], target[n]) \in Seq(Block)
      BY <3>1, DropFirstType
    <3> HIDE DEF TypeInv, TypeOK
    <3> QED BY <3>1, <3>2, TornType
  <2>2. cache' \in [Node -> Seq(Block)]
    BY <1>17, <2>1 DEF CrashDaemon
  <2>3. /\ keyLock' \in [DOMAIN keyLock' -> Node \cup {Controller, Orphan}]
        /\ DOMAIN keyLock' \subseteq LeaseKey
    BY <1>17 DEF CrashDaemon
  <2> QED BY <1>17, <1>b, <2>2, <2>3 DEF CrashDaemon, EndCheck, Return
<1>18. CASE UnleaseLockError(n)
  BY <1>18, <1>b, <1>d DEF UnleaseLockError, EndCheck, Return
<1>19. CASE RestoreLockError(n)
  <2>1. Min(Unleased(n)) \in Nat /\ img[n][Min(Unleased(n))] \in Block
    BY <1>19, <1>u DEF RestoreLockError
  <2> QED BY <1>19, <2>1 DEF RestoreLockError
<1> QED BY <1>1, <1>2, <1>3, <1>4, <1>5, <1>6, <1>7, <1>8, <1>9, <1>10, <1>11,
           <1>12, <1>13, <1>14, <1>15, <1>16, <1>17, <1>18, <1>19
        DEF DaemonStep, DaemonFails

(* So does every step of the controller and the end of a session.          *)
LEMMA ControllerTypes ==
  ASSUME TypeInv,
         \/ \E n \in Node : NodeDeleted(n)
         \/ ControllerStep
         \/ DelKeyLockError
         \/ SessionExpires
  PROVE  TypeInv'
<1> USE DEF TypeInv, TypeOK, CtlBusy, etcdVars, workerVars, daemonVars, ctlVars
<1>n. ctodo # {} => NextKey \in LeaseKey
  BY FirstKeyExists DEF NextKey
<1>d. \A k : /\ Del(lease, k) \in [DOMAIN Del(lease, k) -> Node]
             /\ DOMAIN Del(lease, k) \subseteq LeaseKey
  BY DEF Del
<1>q. \A k : /\ Del(keyLock, k) \in [DOMAIN Del(keyLock, k) -> Node \cup {Controller, Orphan}]
             /\ DOMAIN Del(keyLock, k) \subseteq LeaseKey
  BY DEF Del
<1>1. CASE \E n \in Node : NodeDeleted(n)
  <2>1. PICK n \in Node : NodeDeleted(n)
    BY <1>1
  <2>2. KeysOf(n) \in SUBSET LeaseKey
    BY DEF KeysOf
  <2> QED BY <2>1, <2>2 DEF NodeDeleted
<1>2. CASE DelKeyLock
  <2>1. NextKey \in LeaseKey
    BY <1>2, <1>n DEF DelKeyLock
  <2>2. /\ keyLock' \in [DOMAIN keyLock' -> Node \cup {Controller, Orphan}]
        /\ DOMAIN keyLock' \subseteq LeaseKey
    BY <1>2, <2>1 DEF DelKeyLock, Put
  <2> QED BY <1>2, <2>2 DEF DelKeyLock
<1>3. CASE DelKey
  BY <1>3, <1>d, <1>q DEF DelKey
<1>4. CASE SessionExpires
  BY <1>4, <1>q DEF SessionExpires, DirSessionExpires, KeySessionExpires
<1>5. CASE DelKeyLockError
  BY <1>5, <1>d DEF DelKeyLockError
<1> QED BY <1>1, <1>2, <1>3, <1>4, <1>5 DEF ControllerStep

(* TypeInv is inductive.                                                   *)
LEMMA NextTypes ==
  TypeInv /\ [Next]_vars => TypeInv'
<1> SUFFICES ASSUME TypeInv, [Next]_vars PROVE TypeInv'
  OBVIOUS
<1>1. CASE UNCHANGED vars
  BY <1>1 DEF TypeInv, TypeOK, CtlBusy, vars, etcdVars, workerVars, daemonVars, ctlVars
<1>2. CASE Next
  BY <1>2, WorkerTypes, DaemonTypes, ControllerTypes DEF Next
<1> QED BY <1>1, <1>2

(* Every variable keeps its type and every range in a cache, in a local    *)
(* copy of one or in a grant is a block a lease key names, for every width *)
(* of addresses, range of the network and set of nodes and workers,        *)
(* crashes, daemons and departing nodes included: no ADD and no check ever *)
(* writes a range to the cache file that reads back as another one.        *)
THEOREM TypeCorrect == Spec => []TypeOK
<1>1. Init => TypeInv
  BY InitTypes
<1>2. TypeInv /\ [Next]_vars => TypeInv'
  BY NextTypes
<1>3. TypeInv => TypeOK
  BY DEF TypeInv
<1> QED BY <1>1, <1>2, <1>3, PTL DEF Spec

-----------------------------------------------------------------------------
(* Leasing without a daemon that checks etcd.  The theorems assume:        *)

(* the range of the network has an address, and not address 0, which the   *)
(* code uses for "no address",                                             *)
RangeOK == 0 < FirstUsable(conf) /\ FirstUsable(conf) <= RangeEnd

(* and it cannot be filled exactly by blocks: with such a range the walk   *)
(* wraps around once it is full.                                           *)
NoExactFill == \A i \in Nat : FirstUsable(conf) + i * Num # RangeEnd + 1

(* The keys an ADD can write: of blocks side by side from the first usable *)
(* address on, that end before the last address of the range.              *)
Grid ==
  {k \in LeaseKey : /\ k.bits = Bits
                    /\ KeyRange(k).hi = k.start + Num - 1
                    /\ KeyRange(k).hi < RangeEnd
                    /\ \E i \in Nat : k.start = FirstUsable(conf) + i * Num}

(* The size of a block and the ends of the range are numbers.              *)
LEMMA NumFacts ==
  /\ Num \in Nat /\ Num >= 1
  /\ FirstUsable(conf) \in Nat /\ RangeEnd \in Nat
  /\ conf.rangeEnd = RangeEnd
<1>1. conf.rangeEnd = RangeEnd
  BY DEF conf
<1>2. FirstUsable(conf) \in Address /\ conf.rangeEnd \in Address
  BY ConfFacts, ConfType
<1> QED BY <1>1, <1>2, ConfFacts, BlockSize, MFacts DEF Num

(* A key of the grid names a range that starts at its address.             *)
LEMMA GridFacts ==
  ASSUME NEW k \in Grid
  PROVE  /\ k \in LeaseKey
         /\ k.start \in Nat
         /\ KeyRange(k).lo = k.start
         /\ KeyRange(k).hi \in Nat
         /\ FirstUsable(conf) <= k.start
         /\ k.start <= KeyRange(k).hi
<1>1. k \in LeaseKey /\ KeyRange(k).hi = k.start + Num - 1
  BY DEF Grid
<1>2. KeyRange(k).lo = k.start /\ k.start \in Nat /\ KeyRange(k).hi \in Nat
  BY <1>1, KeyRangeType, MFacts DEF SimpleRange
<1>3. PICK i \in Nat : k.start = FirstUsable(conf) + i * Num
  BY DEF Grid
<1>4. i * Num \in Nat
  BY NumFacts
<1> QED BY <1>1, <1>2, <1>3, <1>4, NumFacts

(* Two keys of the grid are one key or name disjoint blocks.               *)
LEMMA GridDisjoint ==
  ASSUME NEW j \in Grid, NEW k \in Grid, j # k
  PROVE  Disjoint(KeyRange(j), KeyRange(k))
<1>1. PICK a \in Nat : j.start = FirstUsable(conf) + a * Num
  BY DEF Grid
<1>2. PICK b \in Nat : k.start = FirstUsable(conf) + b * Num
  BY DEF Grid
<1>3. j.bits = k.bits /\ j \in LeaseKey /\ k \in LeaseKey
  BY DEF Grid
<1>4. j.start # k.start
  BY <1>3 DEF LeaseKey
<1>5. a # b
  BY <1>1, <1>2, <1>4
<1>6. ASSUME NEW x \in Nat, NEW y \in Nat, NEW n \in Nat, n >= 1, x < y
      PROVE  x * n \in Nat /\ y * n \in Nat /\ x * n + n <= y * n
  <2>1. x * n \in Nat /\ y * n \in Nat
    OBVIOUS
  <2>2. x * n + n <= y * n
    <3> DEFINE d == y - (x + 1)
    <3>1. d \in Nat /\ y = x + 1 + d
      BY <1>6
    <3> HIDE DEF d
    <3>2. (x + 1 + d) * n = x * n + n + d * n
      BY <3>1, <1>6
    <3>3. d * n \in Nat
      BY <3>1
    <3>4. y * n = x * n + n + d * n
      BY <3>1, <3>2
    <3> QED BY <3>3, <3>4, <2>1
  <2> QED BY <2>1, <2>2
<1>7. CASE a < b
  <2>1. a * Num \in Nat /\ b * Num \in Nat /\ a * Num + Num <= b * Num
    BY <1>6, <1>7, NumFacts
  <2>2. KeyRange(j).hi = j.start + Num - 1
    BY DEF Grid
  <2>3. KeyRange(j).hi < KeyRange(k).lo
    BY <1>1, <1>2, <2>1, <2>2, NumFacts, GridFacts
  <2> QED BY <2>3 DEF Disjoint
<1>8. CASE b < a
  <2>1. a * Num \in Nat /\ b * Num \in Nat /\ b * Num + Num <= a * Num
    BY <1>6, <1>8, NumFacts
  <2>2. KeyRange(k).hi = k.start + Num - 1
    BY DEF Grid
  <2>3. KeyRange(k).hi < KeyRange(j).lo
    BY <1>1, <1>2, <2>1, <2>2, NumFacts, GridFacts
  <2> QED BY <2>3 DEF Disjoint
<1> QED BY <1>5, <1>7, <1>8

(* A table of keys of the grid is well-formed.                             *)
LEMMA GridSound ==
  ASSUME RangeOK, NEW L \in SUBSET Grid
  PROVE  Sound(L, conf, Bits)
<1>1. L \in SUBSET LeaseKey
  BY DEF Grid
<1>2. \A k \in L : KeyRange(k).hi < conf.rangeEnd
  BY NumFacts DEF Grid
<1>3. \A k \in L : KeyRange(k).lo <= KeyRange(k).hi /\ FirstUsable(conf) <= k.start
  BY GridFacts
<1>4. 0 \notin {k.start : k \in L}
  BY <1>3, NumFacts, GridFacts DEF RangeOK
<1>5. \A j, k \in L : j # k => Disjoint(KeyRange(j), KeyRange(k))
  BY GridDisjoint
<1> QED BY <1>1, <1>2, <1>3, <1>4, <1>5, ConfFacts, NumFacts
        DEF Sound, WellFormed, RangeOK, Considered

(* The block the walk finds in a table of keys of the grid has a key of    *)
(* the grid that is not in the table.                                      *)
LEMMA GridGrows ==
  ASSUME RangeOK, NoExactFill, NEW L \in SUBSET Grid, Fits(L, conf, Bits)
  PROVE  /\ RangeKey(FreeBlock(L, conf, Bits)) \in Grid
         /\ RangeKey(FreeBlock(L, conf, Bits)) \notin L
<1> DEFINE S == Walked(L, conf, Bits)
           last == FreeStart(L, conf, Bits)
           b == FreeBlock(L, conf, Bits)
           k == [start |-> last, bits |-> Bits]
<1>1. Sound(L, conf, Bits)
  BY GridSound
<1>2. k \in LeaseKey /\ b = KeyRange(k)
  BY <1>1, FreeBlockIsBlock DEF Sound
<1>3. RangeKey(b) = k
  BY <1>2, KeyRoundTrip
<1>4. /\ b.hi = b.lo + Num - 1
      /\ Inside(b, conf)
      /\ \A j \in L : Disjoint(b, KeyRange(j))
  BY <1>1, GrantSound DEF Num
<1>5. b.lo = last /\ b.lo \in Nat /\ b.hi \in Nat
  BY <1>2, KeyRangeType, MFacts DEF SimpleRange
<1>6. \E i \in Nat : last = FirstUsable(conf) + i * Num
  <2>1. CASE S = {}
    <3>1. last = FirstUsable(conf) + 0 * Num
      BY <2>1, NumFacts DEF FreeStart, After
    <3> QED BY <3>1
  <2>2. CASE S # {}
    <3>1. S \in SUBSET Considered(L, conf) /\ S \in SUBSET Grid /\ S \in SUBSET LeaseKey
      BY DEF Walked, Considered, Grid
    <3>2. LastKey(S) \in Grid
      BY <2>2, <3>1, LastKeyExists
    <3>3. last = KeyRange(LastKey(S)).hi + 1
      BY <1>1, <2>2, <3>1, AfterFacts DEF FreeStart
    <3>4. PICK i \in Nat : LastKey(S).start = FirstUsable(conf) + i * Num
      BY <3>2 DEF Grid
    <3>5. KeyRange(LastKey(S)).hi = LastKey(S).start + Num - 1
      BY <3>2 DEF Grid
    <3>6. (i + 1) * Num = i * Num + Num /\ i * Num \in Nat
      BY NumFacts
    <3>7. last = FirstUsable(conf) + (i + 1) * Num
      <4> HIDE DEF last, S
      <4> QED BY <3>3, <3>4, <3>5, <3>6, NumFacts
    <3> QED BY <3>7
  <2> QED BY <2>1, <2>2
<1>7. b.hi < RangeEnd
  <2>1. b.hi <= RangeEnd
    BY <1>4, NumFacts DEF Inside
  <2>2. b.hi # RangeEnd
    <3>1. PICK i \in Nat : last = FirstUsable(conf) + i * Num
      BY <1>6
    <3>2. (i + 1) * Num = i * Num + Num /\ i * Num \in Nat /\ i + 1 \in Nat
      BY NumFacts
    <3>3. b.hi + 1 = FirstUsable(conf) + (i + 1) * Num
      <4> HIDE DEF last, b
      <4> QED BY <3>1, <3>2, <1>4, <1>5, NumFacts
    <3>4. FirstUsable(conf) + (i + 1) * Num # RangeEnd + 1
      BY <3>2 DEF NoExactFill
    <3> QED BY <3>3, <3>4
  <2> QED BY <2>1, <2>2, <1>5, NumFacts
<1>8. k \in Grid
  <2> HIDE DEF last, b
  <2>1. k.start = last /\ k.bits = Bits
    OBVIOUS
  <2> HIDE DEF k
  <2> QED BY <2>1, <1>2, <1>4, <1>5, <1>6, <1>7 DEF Grid
<1>9. k \notin L
  <2> HIDE DEF last, k
  <2>1. SUFFICES ASSUME k \in L PROVE FALSE
    OBVIOUS
  <2>2. Disjoint(b, b)
    BY <2>1, <1>2, <1>4
  <2>3. b.lo <= b.hi
    BY <1>4 DEF Inside
  <2> HIDE DEF b
  <2> QED BY <2>2, <2>3, <1>5 DEF Disjoint
<1> QED BY <1>3, <1>8, <1>9

-----------------------------------------------------------------------------
(* The inductive invariant of leasing without a daemon: whoever is between *)
(* LockDir and UnlockDir holds the mutex, every key is on the grid, and a  *)
(* block that has been chosen is on the grid and has no key yet.           *)
Locked == {"locked", "found", "leased", "failed"}

AddInv ==
  /\ TypeInv
  /\ \A n \in Node : dpc[n] = "idle"
  /\ \A w \in Worker : wpc[w] \in Locked => dirLock = w
  /\ DOMAIN lease \subseteq Grid
  /\ \A w \in Worker : wpc[w] = "found" =>
       /\ RangeKey(grant[w]) \in Grid
       /\ RangeKey(grant[w]) \notin DOMAIN lease

(* The invariant holds initially.                                          *)
LEMMA InitAdd ==
  Init => AddInv
<1>1. Init => DOMAIN lease = {}
  BY DEF Init
<1> QED BY <1>1, InitTypes DEF Init, AddInv, Locked

(* What AddInv says of types, for one worker.                              *)
LEMMA AddTypes ==
  ASSUME AddInv, NEW w \in Worker
  PROVE  /\ NodeOf[w] \in Node
         /\ grant[w] \in Block
         /\ wimg[w] \in Seq(Block)
         /\ cache[NodeOf[w]] \in Seq(Block)
         /\ w # None /\ w # Orphan
         /\ DOMAIN wpc = Worker /\ DOMAIN grant = Worker
BY ConstantsAssumption DEF AddInv, TypeInv, TypeOK

(* The steps of a plugin keep it: one proof step for each action.          *)
LEMMA WorkerAdd ==
  ASSUME AddInv, TypeInv', RangeOK, NoExactFill,
         NEW w \in Worker, Apply(w) \/ WorkerStep(w) \/ WorkerFails(w)
  PROVE  AddInv'
<1> USE DEF etcdVars, workerVars, daemonVars, ctlVars
<1>t. /\ \A v \in Worker : v # None /\ v # Orphan
      /\ DOMAIN wpc = Worker /\ DOMAIN grant = Worker
  BY AddTypes
<1>d. \A n \in Node : dpc'[n] = "idle"
  BY DEF AddInv, Apply, WorkerStep, WorkerFails, CrashWorker, LockError, LockDir,
         FindRange, PutLease, ApplyError, UnlockDir, AppendLoad, AppendFlash
<1>s. SUFFICES /\ \A v \in Worker : wpc'[v] \in Locked => dirLock' = v
               /\ DOMAIN lease' \subseteq Grid
               /\ \A v \in Worker : wpc'[v] = "found" =>
                     /\ RangeKey(grant'[v]) \in Grid
                     /\ RangeKey(grant'[v]) \notin DOMAIN lease'
  <2>1. Grid = Grid'
    OBVIOUS
  <2> QED BY <1>d, <2>1 DEF AddInv
<1>1. CASE Apply(w)
  BY <1>1, <1>t DEF AddInv, Apply, Locked
<1>2. CASE LockDir(w)
  BY <1>2, <1>t DEF AddInv, LockDir, Locked
<1>3. CASE FindRange(w)
  <2>1. Fits(DOMAIN lease, conf, Bits) =>
          /\ RangeKey(FreeBlock(DOMAIN lease, conf, Bits)) \in Grid
          /\ RangeKey(FreeBlock(DOMAIN lease, conf, Bits)) \notin DOMAIN lease
    BY GridGrows DEF AddInv
  <2> QED BY <1>3, <1>t, <2>1 DEF AddInv, FindRange, Locked
<1>p. ASSUME wpc[w] = "found", lease' = Put(lease, RangeKey(grant[w]), NodeOf[w])
      PROVE  DOMAIN lease' \subseteq Grid
  BY <1>p DEF AddInv, Put
<1>f. ASSUME wpc[w] \in Locked
      PROVE  \A v \in Worker : v # w => wpc[v] \notin Locked
  BY <1>f DEF AddInv
<1>4. CASE PutLease(w)
  <2>1. \A v \in Worker : v # w => wpc[v] \notin Locked
    BY <1>4, <1>f DEF PutLease, Locked
  <2> QED BY <1>4, <1>t, <1>p, <2>1 DEF AddInv, PutLease, Locked
<1>5. CASE ApplyError(w)
  <2>1. \A v \in Worker : v # w => wpc[v] \notin Locked
    BY <1>5, <1>f DEF ApplyError, Locked
  <2>2. DOMAIN lease' \subseteq Grid
    BY <1>5, <1>p DEF AddInv, ApplyError
  <2> QED BY <1>5, <1>t, <2>1, <2>2 DEF AddInv, ApplyError, Locked
<1>6. CASE UnlockDir(w)
  <2>1. \A v \in Worker : v # w => wpc[v] \notin Locked
    BY <1>6, <1>f DEF UnlockDir, Locked
  <2> QED BY <1>6, <1>t, <2>1 DEF AddInv, UnlockDir, EndWorker, Locked
<1>7. CASE AppendLoad(w)
  BY <1>7, <1>t DEF AddInv, AppendLoad, EndWorker, Locked
<1>8. CASE AppendFlash(w)
  BY <1>8, <1>t DEF AddInv, AppendFlash, EndWorker, Locked
<1>9. CASE CrashWorker(w)
  BY <1>9, <1>t DEF AddInv, CrashWorker, EndWorker, Locked
<1>10. CASE LockError(w)
  BY <1>10, <1>t DEF AddInv, LockError, EndWorker, Locked
<1> QED BY <1>1, <1>2, <1>3, <1>4, <1>5, <1>6, <1>7, <1>8, <1>9, <1>10
        DEF WorkerStep, WorkerFails

(* The other programs: with Daemons empty no daemon takes a step, and the  *)
(* controller only deletes keys.                                           *)
LEMMA OthersAdd ==
  ASSUME AddInv, TypeInv', Daemons = {},
         \/ \E n \in Node : DaemonStep(n) \/ DaemonFails(n) \/ NodeDeleted(n)
         \/ ControllerStep \/ DelKeyLockError \/ SessionExpires
  PROVE  AddInv' /\ UNCHANGED <<cache, workerVars, dpc>> /\ DOMAIN lease' \subseteq DOMAIN lease
<1> USE DEF etcdVars, workerVars, daemonVars, ctlVars
<1>g. Grid = Grid'
  OBVIOUS
<1>0. \A n \in Node : ~DaemonStep(n) /\ ~DaemonFails(n)
  BY DEF AddInv, DaemonStep, Snapshot, LoadCache, Found, Clash, Missing,
         SyncFlash, DeleteFlash, UnleaseLock, UnleaseDelete, Reload, CheckDone,
         RestoreLock, RestoreGet, RestorePut, RestoreError, Drop,
     DaemonFails, CrashDaemon, UnleaseLockError, RestoreLockError
<1>1. CASE \E n \in Node : NodeDeleted(n)
  BY <1>1, <1>g DEF AddInv, NodeDeleted
<1>2. CASE DelKeyLock
  BY <1>2, <1>g DEF AddInv, DelKeyLock
<1>3. CASE DelKey
  BY <1>3, <1>g DEF AddInv, DelKey, Del
<1>4. CASE \E k \in DOMAIN keyLock : KeySessionExpires(k)
  BY <1>4, <1>g DEF AddInv, KeySessionExpires
<1>5. CASE DirSessionExpires
  <2>1. \A w \in Worker : w # Orphan
    BY AddTypes
  <2>2. \A w \in Worker : wpc[w] \notin Locked
    BY <1>5, <2>1 DEF AddInv, DirSessionExpires
  <2> QED BY <1>5, <1>g, <2>2 DEF AddInv, DirSessionExpires
<1>6. CASE DelKeyLockError
  BY <1>6, <1>g DEF AddInv, DelKeyLockError, Del
<1> QED BY <1>0, <1>1, <1>2, <1>3, <1>4, <1>5, <1>6 DEF ControllerStep, SessionExpires

(* So does a step that changes nothing.                                    *)
LEMMA StutterAdd ==
  AddInv /\ UNCHANGED vars => AddInv'
<1>1. Grid = Grid'
  OBVIOUS
<1> QED BY <1>1 DEF AddInv, TypeInv, TypeOK, CtlBusy, vars, etcdVars, workerVars,
        daemonVars, ctlVars

(* The invariant is inductive, under the assumptions of the theorems.      *)
LEMMA StepAdd ==
  ASSUME Daemons = {}, RangeOK, NoExactFill, AddInv, [Next]_vars
  PROVE  AddInv'
<1>1. TypeInv'
  BY NextTypes DEF AddInv
<1> QED BY <1>1, WorkerAdd, OthersAdd, StutterAdd DEF Next

-----------------------------------------------------------------------------
(* What follows from the invariant.                                        *)

(* A range that a key of the grid names is that of the key, so blocks are  *)
(* disjoint when their keys are different.                                 *)
LEMMA GridBlocks ==
  ASSUME NEW r \in Block, NEW s \in Block,
         RangeKey(r) \in Grid, RangeKey(s) \in Grid, RangeKey(r) # RangeKey(s)
  PROVE  Disjoint(r, s)
<1>1. Disjoint(KeyRange(RangeKey(r)), KeyRange(RangeKey(s)))
  BY GridDisjoint
<1> QED BY <1>1, BlockKey

(* The invariant implies that a chosen block is free,                      *)
LEMMA GrantFreeAdd ==
  ASSUME AddInv PROVE GrantFree
<1> SUFFICES ASSUME NEW w \in Worker, wpc[w] = "found"
             PROVE  /\ Inside(grant[w], conf)
                    /\ \A k \in DOMAIN lease : Disjoint(grant[w], KeyRange(k))
  BY DEF GrantFree
<1> DEFINE g == RangeKey(grant[w])
<1>1. g \in Grid /\ g \notin DOMAIN lease /\ DOMAIN lease \subseteq Grid
  BY DEF AddInv
<1>2. KeyRange(g) = grant[w]
  BY AddTypes, BlockKey
<1>3. Inside(grant[w], conf)
  <2>1. KeyRange(g).hi < RangeEnd
    BY <1>1 DEF Grid
  <2> HIDE DEF g
  <2> QED BY <1>1, <1>2, <2>1, GridFacts, NumFacts DEF Inside
<1>4. \A k \in DOMAIN lease : Disjoint(grant[w], KeyRange(k))
  BY <1>1, <1>2, GridDisjoint
<1> QED BY <1>3, <1>4

(* and that leases are disjoint.                                           *)
LEMMA LeasesDisjointAdd ==
  ASSUME AddInv PROVE LeasesDisjoint
BY GridDisjoint DEF AddInv, LeasesDisjoint

(* Without a daemon that checks etcd, whatever the interleaving of ADDs    *)
(* and deletions of departed nodes and whoever crashes or loses an answer, *)
(* the block ipamGetFreeIPRange chose is still free when its key is put.   *)
(* This holds for every number of nodes and plugins and every block size,  *)
(* for ranges that blocks cannot fill exactly.                             *)
THEOREM GrantsFree ==
  ASSUME Daemons = {}, RangeOK, NoExactFill
  PROVE  Spec => []GrantFree
<1>1. Init => AddInv
  BY InitAdd
<1>2. AddInv /\ [Next]_vars => AddInv'
  BY StepAdd
<1>3. AddInv => GrantFree
  BY GrantFreeAdd
<1> QED BY <1>1, <1>2, <1>3, PTL DEF Spec

(* And no two leases of a network ever overlap: IPAMApplyIPRange puts      *)
(* blocks side by side, in the gaps that deleted leases leave as well.     *)
THEOREM LeasesStayDisjoint ==
  ASSUME Daemons = {}, RangeOK, NoExactFill
  PROVE  Spec => []LeasesDisjoint
<1>1. Init => AddInv
  BY InitAdd
<1>2. AddInv /\ [Next]_vars => AddInv'
  BY StepAdd
<1>3. AddInv => LeasesDisjoint
  BY LeasesDisjointAdd
<1> QED BY <1>1, <1>2, <1>3, PTL DEF Spec

(* A worker changes the table of leases only by adding, for its own node,  *)
(* the key of its block, which no lease has.                               *)
LEMMA WorkerLeases ==
  ASSUME AddInv, NEW w \in Worker, Apply(w) \/ WorkerStep(w) \/ WorkerFails(w)
  PROVE  /\ DOMAIN lease \subseteq DOMAIN lease'
         /\ \A k \in DOMAIN lease : lease'[k] = lease[k]
<1> USE DEF etcdVars
<1>1. \/ UNCHANGED lease
      \/ wpc[w] = "found" /\ lease' = Put(lease, RangeKey(grant[w]), NodeOf[w])
  BY DEF Apply, WorkerStep, WorkerFails, CrashWorker, LockError, LockDir,
         FindRange, PutLease, ApplyError, UnlockDir, AppendLoad, AppendFlash
<1>2. CASE UNCHANGED lease
  BY <1>2
<1>3. CASE wpc[w] = "found" /\ lease' = Put(lease, RangeKey(grant[w]), NodeOf[w])
  <2>1. RangeKey(grant[w]) \notin DOMAIN lease
    BY <1>3 DEF AddInv
  <2> QED BY <1>3, <2>1 DEF Put
<1> QED BY <1>1, <1>2, <1>3

(* Under the same assumptions, no lease passes from one node to another    *)
(* without being deleted first: a Put never overwrites a key.              *)
THEOREM NoLeaseTakenOver ==
  ASSUME Daemons = {}, RangeOK, NoExactFill
  PROVE  Spec => NoTakeover
<1> DEFINE Kept == \A k \in DOMAIN lease \cap DOMAIN lease' : lease'[k] = lease[k]
<1>1. Init => AddInv
  BY InitAdd
<1>2. AddInv /\ [Next]_vars => AddInv'
  BY StepAdd
<1>3. AddInv /\ [Next]_vars => [Kept]_vars
  <2> SUFFICES ASSUME AddInv, Next PROVE Kept
    OBVIOUS
  <2>1. CASE \E w \in Worker : Apply(w) \/ WorkerStep(w) \/ WorkerFails(w)
    BY <2>1, WorkerLeases
  <2>2. CASE \E n \in Node : DaemonStep(n) \/ DaemonFails(n)
    BY <2>2 DEF AddInv, DaemonStep, Snapshot, LoadCache, Found, Clash,
       Missing, SyncFlash, DeleteFlash, UnleaseLock, UnleaseDelete, Reload, CheckDone,
       RestoreLock, RestoreGet, RestorePut, RestoreError, Drop,
     DaemonFails, CrashDaemon, UnleaseLockError, RestoreLockError
  <2>3. CASE (\E n \in Node : NodeDeleted(n)) \/ ControllerStep \/ DelKeyLockError \/ SessionExpires
    BY <2>3 DEF NodeDeleted, ControllerStep, DelKeyLockError, DelKeyLock, DelKey, Del, SessionExpires,
       DirSessionExpires, KeySessionExpires, etcdVars
  <2> QED BY <2>1, <2>2, <2>3 DEF Next
<1> QED BY <1>1, <1>2, <1>3, PTL DEF Spec, NoTakeover

-----------------------------------------------------------------------------
(* The controller deletes what its snapshot says: nobody else deletes, and *)
(* a Put overwrites nothing, so the keys still to go stay with the node    *)
(* that left.                                                              *)
DepartInv ==
  /\ AddInv
  /\ \A k \in ctodo : k \in DOMAIN lease /\ lease[k] \in Departing

(* The controller has no keys to delete initially.                         *)
LEMMA InitDepart ==
  Init => DepartInv
BY InitAdd DEF Init, DepartInv

(* Without daemons there are these steps.                                  *)
LEMMA StepsThere ==
  ASSUME Daemons = {}, AddInv, Next
  PROVE  \/ \E w \in Worker : Apply(w) \/ WorkerStep(w) \/ WorkerFails(w)
         \/ \E n \in Node : NodeDeleted(n)
         \/ ControllerStep \/ DelKeyLockError \/ SessionExpires
<1>1. \A n \in Node : ~DaemonStep(n) /\ ~DaemonFails(n)
  BY DEF AddInv, DaemonStep, Snapshot, LoadCache, Found, Clash, Missing,
         SyncFlash, DeleteFlash, UnleaseLock, UnleaseDelete, Reload, CheckDone,
         RestoreLock, RestoreGet, RestorePut, RestoreError, Drop,
         DaemonFails, CrashDaemon, UnleaseLockError, RestoreLockError
<1> QED BY <1>1 DEF Next

(* A key that goes was one of those the controller had to delete.          *)
LEMMA GoneKeys ==
  ASSUME Daemons = {}, DepartInv, Next
  PROVE  /\ \A k \in DOMAIN lease \ DOMAIN lease' : k \in ctodo /\ cpc # "idle"
         /\ \A k \in DOMAIN lease \cap DOMAIN lease' : lease'[k] = lease[k]
         /\ \/ \A k \in ctodo' : k \in ctodo /\ (k \in DOMAIN lease => k \in DOMAIN lease')
            \/ lease' = lease /\ \E n \in Departing : ctodo' = KeysOf(n)
<1> USE DEF etcdVars, ctlVars
<1>t. /\ AddInv /\ CtlBusy /\ ctodo \in SUBSET LeaseKey
      /\ \A k \in ctodo : k \in DOMAIN lease
  BY DEF DepartInv, AddInv, TypeInv, TypeOK
<1>n. cpc # "idle" => NextKey \in ctodo
  BY <1>t, FirstKeyExists DEF CtlBusy, NextKey
<1>1. ASSUME NEW w \in Worker, Apply(w) \/ WorkerStep(w) \/ WorkerFails(w)
      PROVE  /\ DOMAIN lease \subseteq DOMAIN lease' /\ ctodo' = ctodo
             /\ \A k \in DOMAIN lease : lease'[k] = lease[k]
  <2>1. ctodo' = ctodo
    BY <1>1 DEF Apply, WorkerStep, WorkerFails, CrashWorker, LockError, LockDir,
                FindRange, PutLease, ApplyError, UnlockDir, AppendLoad, AppendFlash
  <2> QED BY <1>1, <1>t, <2>1, WorkerLeases
<1>2. ASSUME NEW n \in Node, NodeDeleted(n)
      PROVE  lease' = lease /\ n \in Departing /\ ctodo' = KeysOf(n)
  BY <1>2 DEF NodeDeleted
<1>3. CASE DelKeyLock \/ SessionExpires
  BY <1>3 DEF DelKeyLock, SessionExpires, DirSessionExpires, KeySessionExpires
<1>4. CASE DelKey
  BY <1>4, <1>n DEF DelKey, Del
<1>5. CASE DelKeyLockError
  BY <1>5, <1>n DEF DelKeyLockError, Del
<1> QED BY <1>t, <1>1, <1>2, <1>3, <1>4, <1>5, StepsThere DEF ControllerStep

(* DepartInv is inductive.                                                 *)
LEMMA StepDepart ==
  ASSUME Daemons = {}, RangeOK, NoExactFill, DepartInv, [Next]_vars
  PROVE  DepartInv'
<1>1. AddInv'
  BY StepAdd DEF DepartInv
<1>2. CASE UNCHANGED vars
  BY <1>1, <1>2 DEF DepartInv, vars, etcdVars, ctlVars
<1>3. CASE Next
  BY <1>1, <1>3, GoneKeys DEF DepartInv, KeysOf
<1> QED BY <1>2, <1>3

(* Without daemons a lease is deleted only for a node that departed, and   *)
(* only while it is still that node's: keys are deleted one by one, long   *)
(* after the controller has read them, and none of them can have passed to *)
(* another node meanwhile.                                                 *)
THEOREM OnlyDepartedDeleted ==
  ASSUME Daemons = {}, RangeOK, NoExactFill
  PROVE  Spec => OnlyOwnDeleted
<1> DEFINE Own == \A k \in DOMAIN lease \ DOMAIN lease' :
                    \/ dpc[lease[k]] \in {"unlease", "unleaseLocked"}
                    \/ lease[k] \in Departing /\ cpc # "idle"
<1>1. Init => DepartInv
  BY InitDepart
<1>2. DepartInv /\ [Next]_vars => DepartInv'
  BY StepDepart
<1>3. DepartInv /\ [Next]_vars => [Own]_vars
  <2> SUFFICES ASSUME DepartInv, Next PROVE Own
    OBVIOUS
  <2> QED BY GoneKeys DEF DepartInv
<1> QED BY <1>1, <1>2, <1>3, PTL DEF Spec, OnlyOwnDeleted

-----------------------------------------------------------------------------
(* While no node departs, leases are never lost, and what the nodes hold   *)
(* is leased to them.                                                      *)
Owned(n) == {r \in Block : RangeKey(r) \in KeysOf(n)}

Holding == {"leased", "append", "flash"}

HeldInv ==
  /\ AddInv
  /\ cpc = "idle"
  /\ \A w \in Worker : wpc[w] \in Holding => grant[w] \in Owned(NodeOf[w])
  /\ \A n \in Node : cache[n] \in Seq(Owned(n))
  /\ \A w \in Worker : wpc[w] = "flash" => wimg[w] \in Seq(Owned(NodeOf[w]))

(* The caches are empty at the start.                                      *)
NoLeftover == Leftover = [n \in Node |-> << >>]

(* No node holds anything initially.                                       *)
LEMMA InitHeld ==
  ASSUME NoLeftover
  PROVE  Init => HeldInv
<1> SUFFICES ASSUME Init PROVE HeldInv
  OBVIOUS
<1>1. AddInv
  BY InitAdd
<1>2. \A n \in Node : cache[n] \in Seq(Owned(n))
  BY DEF Init, NoLeftover
<1>3. \A w \in Worker : wpc[w] = "idle"
  BY DEF Init
<1> QED BY <1>1, <1>2, <1>3 DEF Init, HeldInv, Holding

(* A sequence over a set is one over a larger set.                         *)
LEMMA SeqMono ==
  ASSUME NEW S, NEW T, S \subseteq T, NEW s \in Seq(S)
  PROVE  s \in Seq(T)
<1>1. s \in [1..Len(s) -> T] /\ Len(s) \in Nat
  OBVIOUS
<1> QED BY <1>1

(* The steps of a plugin keep what the nodes hold leased to them.          *)
LEMMA WorkerHeld ==
  ASSUME HeldInv, AddInv', NEW w \in Worker,
         Apply(w) \/ WorkerStep(w) \/ WorkerFails(w)
  PROVE  HeldInv'
<1> USE DEF etcdVars, workerVars, daemonVars, ctlVars
<1> DEFINE m == NodeOf[w]
<1>t. /\ m \in Node /\ NodeOf \in [Worker -> Node]
      /\ DOMAIN wpc = Worker /\ DOMAIN grant = Worker /\ DOMAIN wimg = Worker
      /\ DOMAIN cache = Node
      /\ \A n \in Node : cache[n] \in Seq(Block)
  BY ConstantsAssumption DEF HeldInv, AddInv, TypeInv, TypeOK
<1>l. /\ DOMAIN lease \subseteq DOMAIN lease'
      /\ \A k \in DOMAIN lease : lease'[k] = lease[k]
  BY WorkerLeases DEF HeldInv
<1>m. \A n \in Node : Owned(n) \subseteq Owned(n)'
  BY <1>l DEF Owned, KeysOf
<1>g. \A v \in Worker : wpc[v] \in Holding => grant[v] \in Owned(NodeOf[v])'
  BY <1>m, <1>t DEF HeldInv
<1>c. \A n \in Node : cache[n] \in Seq(Owned(n)')
  BY <1>m, SeqMono DEF HeldInv
<1>i. \A v \in Worker : wpc[v] = "flash" => wimg[v] \in Seq(Owned(NodeOf[v])')
  BY <1>m, <1>t, SeqMono DEF HeldInv
<1>x. cpc' = "idle"
  BY DEF HeldInv, Apply, WorkerStep, WorkerFails, CrashWorker, LockError, LockDir,
         FindRange, PutLease, ApplyError, UnlockDir, AppendLoad, AppendFlash
<1>s. SUFFICES
        /\ \A v \in Worker : wpc'[v] \in Holding => grant'[v] \in Owned(NodeOf[v])'
        /\ \A n \in Node : cache'[n] \in Seq(Owned(n)')
        /\ \A v \in Worker : wpc'[v] = "flash" => wimg'[v] \in Seq(Owned(NodeOf[v])')
  BY <1>x DEF HeldInv
<1>1. CASE Apply(w) \/ LockDir(w) \/ FindRange(w)
  BY <1>1, <1>t, <1>g, <1>c, <1>i DEF Apply, LockDir, FindRange, Holding
<1>2. CASE PutLease(w)
  <2>1. grant[w] \in Owned(m)'
    <3>1. grant[w] \in Block /\ RangeKey(grant[w]) \in LeaseKey
      BY AddTypes, BlockKey DEF HeldInv
    <3>2. RangeKey(grant[w]) \in KeysOf(m)'
      BY <1>2 DEF PutLease, Put, KeysOf
    <3> QED BY <3>1, <3>2 DEF Owned
  <2> QED BY <1>2, <1>t, <1>g, <1>c, <1>i, <2>1 DEF PutLease, Holding
<1>3. CASE ApplyError(w)
  BY <1>3, <1>t, <1>g, <1>c, <1>i DEF ApplyError, Holding
<1>4. CASE UnlockDir(w)
  BY <1>4, <1>t, <1>g, <1>c, <1>i DEF UnlockDir, EndWorker, Holding
<1>5. CASE AppendLoad(w)
  BY <1>5, <1>t, <1>g, <1>c, <1>i DEF AppendLoad, EndWorker, Holding
<1>6. CASE AppendFlash(w)
  <2>1. wimg[w] \in Seq(Block) /\ wimg[w] \in Seq(Owned(m)') /\ grant[w] \in Owned(m)'
    BY <1>6, <1>g, <1>i, AddTypes DEF AppendFlash, HeldInv, Holding
  <2>2. Append(wimg[w], grant[w]) \in Seq(Owned(m)')
    BY <2>1
  <2>3. Append(wimg[w], grant[w]) \in Seq(Block)
    BY <2>1, AddTypes DEF HeldInv
  <2>4. Flash(Append(wimg[w], grant[w])) \in Seq(Owned(m)')
    BY <2>2, <2>3, FlashSame
  <2>5. \A n \in Node : cache'[n] \in Seq(Owned(n)')
    BY <1>6, <1>t, <1>c, <2>4 DEF AppendFlash
  <2> QED BY <1>6, <1>t, <1>g, <1>i, <2>5 DEF AppendFlash, EndWorker, Holding
<1>7. CASE CrashWorker(w)
  <2>1. ASSUME NEW s, wpc[w] = "flash", s \in Torn(Append(wimg[w], grant[w]))
        PROVE  s \in Seq(Owned(m)')
    <3>1. wimg[w] \in Seq(Block) /\ wimg[w] \in Seq(Owned(m)') /\ grant[w] \in Owned(m)'
      BY <2>1, <1>g, <1>i, AddTypes DEF HeldInv, Holding
    <3>2. Append(wimg[w], grant[w]) \in Seq(Owned(m)')
      BY <3>1
    <3>3. Append(wimg[w], grant[w]) \in Seq(Block)
      BY <3>1, AddTypes DEF HeldInv
    <3>4. PICK i \in 0..Len(Append(wimg[w], grant[w])) :
            s = SubSeq(Append(wimg[w], grant[w]), 1, i)
      BY <2>1, <3>3, FlashSame DEF Torn
    <3> QED BY <3>2, <3>4
  <2>2. \A n \in Node : cache'[n] \in Seq(Owned(n)')
    BY <1>7, <1>t, <1>c, <2>1 DEF CrashWorker
  <2> QED BY <1>7, <1>t, <1>g, <1>i, <2>2 DEF CrashWorker, EndWorker, Holding
<1>8. CASE LockError(w)
  BY <1>8, <1>t, <1>g, <1>c, <1>i DEF LockError, EndWorker, Holding
<1> QED BY <1>1, <1>2, <1>3, <1>4, <1>5, <1>6, <1>7, <1>8 DEF WorkerStep, WorkerFails

(* The other programs change neither the leases nor what nodes hold.       *)
LEMMA OthersHeld ==
  ASSUME HeldInv, AddInv', Daemons = {}, Departing = {},
         \/ \E n \in Node : DaemonStep(n) \/ DaemonFails(n) \/ NodeDeleted(n)
         \/ ControllerStep \/ DelKeyLockError \/ SessionExpires
  PROVE  HeldInv'
<1>1. UNCHANGED <<cache, workerVars, dpc>>
  <2>1. AddInv /\ TypeInv'
    BY DEF HeldInv, AddInv
  <2> QED BY <2>1, OthersAdd
<1>2. UNCHANGED <<lease, cpc>>
  BY DEF HeldInv, AddInv, NodeDeleted, ControllerStep, DelKeyLockError, DelKeyLock, DelKey,
     SessionExpires, DirSessionExpires, KeySessionExpires, etcdVars,
     DaemonStep, Snapshot, LoadCache, Found, Clash,
     Missing, SyncFlash, DeleteFlash, UnleaseLock, UnleaseDelete, Reload, CheckDone,
     RestoreLock, RestoreGet, RestorePut, RestoreError, Drop,
     DaemonFails, CrashDaemon, UnleaseLockError, RestoreLockError, ctlVars
<1>3. \A n \in Node : Owned(n)' = Owned(n)
  BY <1>2 DEF Owned, KeysOf
<1> QED BY <1>1, <1>2, <1>3, ConstantsAssumption DEF HeldInv, workerVars

(* HeldInv is inductive.                                                   *)
LEMMA StepHeld ==
  ASSUME Daemons = {}, Departing = {}, RangeOK, NoExactFill, HeldInv, [Next]_vars
  PROVE  HeldInv'
<1>1. AddInv'
  BY StepAdd DEF HeldInv
<1>2. CASE UNCHANGED vars
  <2>1. \A n \in Node : Owned(n)' = Owned(n)
    BY <1>2 DEF Owned, KeysOf, vars, etcdVars
  <2> QED BY <1>1, <1>2, <2>1, ConstantsAssumption
      DEF HeldInv, vars, etcdVars, workerVars, ctlVars
<1>3. CASE Next
  BY <1>1, <1>3, WorkerHeld, OthersHeld DEF Next
<1> QED BY <1>2, <1>3

(* What a node holds is leased to it.                                      *)
UsesOwn == \A n \in Node : Held(n) \subseteq Owned(n)

LEMMA HeldOwned ==
  HeldInv => UsesOwn
<1> SUFFICES ASSUME HeldInv, NEW n \in Node, NEW r \in Held(n)
             PROVE  r \in Owned(n)
  BY DEF UsesOwn
<1>1. cache[n] \in Seq(Owned(n))
  BY DEF HeldInv
<1>2. ToSet(cache[n]) \subseteq Owned(n)
  BY <1>1 DEF ToSet
<1>3. CASE r \in ToSet(cache[n])
  BY <1>2, <1>3
<1>4. CASE \E w \in Worker : NodeOf[w] = n /\ wpc[w] \in Holding /\ r = grant[w]
  BY <1>4 DEF HeldInv
<1> QED BY <1>3, <1>4 DEF Held, Adding, Holding

(* While no node departs and no daemon checks etcd, and when the caches    *)
(* were empty at the start, every range a node holds, in its cache file or *)
(* on the way there, is leased to it in etcd, so no address can be handed  *)
(* out by two nodes: crashed ADDs, torn cache files and lost answers of    *)
(* etcd lose addresses, and never share one.                               *)
THEOREM HeldExclusively ==
  ASSUME NoLeftover, Daemons = {}, Departing = {}, RangeOK, NoExactFill
  PROVE  Spec => [](HeldIsLeased /\ Exclusive)
<1>1. Init => HeldInv
  BY InitHeld
<1>2. HeldInv /\ [Next]_vars => HeldInv'
  BY StepHeld
<1>3. ASSUME HeldInv, NEW n \in Node, NEW r \in Held(n) PROVE r \in Owned(n)
  BY <1>3, HeldOwned DEF UsesOwn
<1>4. HeldInv => HeldIsLeased
  BY <1>3 DEF HeldIsLeased, Owned
<1>5. HeldInv => Exclusive
  <2> SUFFICES ASSUME HeldInv, NEW m \in Node, NEW n \in Node, m # n,
                      NEW r \in Held(m), NEW s \in Held(n)
               PROVE  Disjoint(r, s)
    BY DEF Exclusive
  <2>1. r \in Owned(m) /\ s \in Owned(n)
    BY <1>3
  <2>2. RangeKey(r) \in KeysOf(m) /\ RangeKey(s) \in KeysOf(n)
    BY <2>1 DEF Owned
  <2>3. RangeKey(r) # RangeKey(s) /\ RangeKey(r) \in Grid /\ RangeKey(s) \in Grid
    BY <2>2 DEF KeysOf, HeldInv, AddInv
  <2> QED BY <2>1, <2>3, GridBlocks DEF Owned
<1> QED BY <1>1, <1>2, <1>4, <1>5, PTL DEF Spec

-----------------------------------------------------------------------------
(* The cache of a node, with everything under way: daemons that check      *)
(* etcd, nodes that leave and come back with the cache they had, processes *)
(* that die.  What keeps the cached ranges apart is AppendCache alone,     *)
(* which compares a range with the cache before it adds it.  It compares   *)
(* by Overlaps, which misses a cached range that surrounds the new one, so *)
(* the theorem is about a set P of ranges for which Overlaps is enough,    *)
(* which the caches start with and which the walk does not leave.          *)
Named(P) == {k \in LeaseKey : KeyRange(k) \in P}

Proper(P, s) == s \in Seq(P) /\ \A i, j \in 1..Len(s) : i # j => Disjoint(s[i], s[j])

InPlay(P) ==
  /\ P \subseteq Block
  /\ \A r, s \in P : Overlaps(r, s) \/ Disjoint(r, s)
  /\ \A n \in Node : Proper(P, Leftover[n])
  /\ \A L \in SUBSET Named(P) : Fits(L, conf, Bits) => FreeBlock(L, conf, Bits) \in P

(* What plugin and daemon know of the copy they are about to write back:   *)
(* the range they add to it overlaps none of it, whatever has happened to  *)
(* the file since.                                                         *)
PlayWorker(P, w) ==
  /\ Proper(P, wimg[w])
  /\ wpc[w] \in {"found", "leased", "append", "flash"} => grant[w] \in P
  /\ wpc[w] = "flash" => ~OverlapsCache(wimg[w], grant[w])

PlayDaemon(P, n) ==
  /\ Proper(P, dimg[n]) /\ img[n] \in Seq(P)
  /\ snap[n] \subseteq Named(P) /\ todo[n] \subseteq Named(P)
  /\ dpc[n] \in {"syncFlash", "restoreGet", "restorePut"} => target[n] \in P
  /\ dpc[n] = "syncFlash" => ~OverlapsCache(dimg[n], target[n])

PlayInv(P) ==
  /\ TypeInv
  /\ DOMAIN lease \subseteq Named(P)
  /\ \A n \in Node : Proper(P, cache[n])
  /\ \A w \in Worker : PlayWorker(P, w)
  /\ \A n \in Node : PlayDaemon(P, n)

(* A proper sequence is what FlashCache writes it as.                      *)
LEMMA ProperFlash ==
  ASSUME NEW P, InPlay(P), NEW s, Proper(P, s)
  PROVE  s \in Seq(Block) /\ Flash(s) = s
<1>1. s \in Seq(Block)
  BY SeqMono DEF InPlay, Proper
<1> QED BY <1>1, FlashSame

LEMMA ProperEmpty ==
  ASSUME NEW P
  PROVE  Proper(P, << >>)
BY DEF Proper

(* AppendCache adds a range that overlaps none of the copy it has loaded.  *)
LEMMA ProperAppend ==
  ASSUME NEW P, InPlay(P), NEW s, Proper(P, s), NEW r \in P, ~OverlapsCache(s, r)
  PROVE  Proper(P, Append(s, r))
<1>1. /\ s \in Seq(P) /\ Append(s, r) \in Seq(P) /\ Len(s) \in Nat
      /\ Len(Append(s, r)) = Len(s) + 1
      /\ Append(s, r)[Len(s) + 1] = r
      /\ \A i \in 1..Len(s) : Append(s, r)[i] = s[i]
  BY DEF Proper
<1>2. ASSUME NEW i \in 1..Len(s) PROVE Disjoint(s[i], r) /\ Disjoint(r, s[i])
  <2>1. s[i] \in P /\ ~Overlaps(s[i], r)
    BY <1>1 DEF OverlapsCache
  <2>2. Disjoint(s[i], r)
    BY <2>1 DEF InPlay
  <2> QED BY <2>2 DEF Disjoint
<1>3. ASSUME NEW i \in 1..(Len(s) + 1), NEW j \in 1..(Len(s) + 1), i # j
      PROVE  Disjoint(Append(s, r)[i], Append(s, r)[j])
  <2>1. i \in 1..Len(s) \/ i = Len(s) + 1
    BY <1>1
  <2>2. j \in 1..Len(s) \/ j = Len(s) + 1
    BY <1>1
  <2> QED BY <1>1, <1>2, <1>3, <2>1, <2>2 DEF Proper
<1> QED BY <1>1, <1>3 DEF Proper

(* What a process that dies in FlashCache leaves.                          *)
LEMMA ProperTorn ==
  ASSUME NEW P, InPlay(P), NEW s, Proper(P, s), NEW t \in Torn(s)
  PROVE  Proper(P, t)
<1>1. PICK i \in 0..Len(s) : t = SubSeq(s, 1, i)
  BY ProperFlash DEF Torn
<1>2. s \in Seq(P) /\ Len(s) \in Nat
  BY DEF Proper
<1>3. /\ t \in Seq(P) /\ Len(t) = i /\ 1..i \subseteq 1..Len(s)
      /\ \A j \in 1..i : t[j] = s[j]
  BY <1>1, <1>2
<1> QED BY <1>3 DEF Proper

(* What one sequence after another is.                                     *)
LEMMA ConcatIs ==
  ASSUME NEW T, NEW s \in Seq(T), NEW t \in Seq(T)
  PROVE  /\ Len(s \o t) = Len(s) + Len(t)
         /\ \A i \in 1..(Len(s) + Len(t)) :
              (s \o t)[i] = IF i <= Len(s) THEN s[i] ELSE t[i - Len(s)]
OBVIOUS

(* DeleteCache drops one range or none.                                    *)
LEMMA ProperDrop ==
  ASSUME NEW P, NEW s, Proper(P, s), NEW r
  PROVE  Proper(P, DropFirst(s, r))
<1> DEFINE hit == {i \in 1..Len(s) : Overlaps(s[i], r)}
<1>s. s \in Seq(P) /\ Len(s) \in Nat
  BY DEF Proper
<1>1. CASE hit = {}
  BY <1>1 DEF DropFirst
<1>2. ASSUME NEW i \in 1..Len(s) PROVE Proper(P, RemoveAt(s, i))
  <2> DEFINE t == RemoveAt(s, i)
             Of(j) == IF j < i THEN j ELSE j + 1
  <2>1. t \in Seq(P)
    BY <1>s, RemoveAtType
  <2>2. PICK a : a = SubSeq(s, 1, i - 1)
    OBVIOUS
  <2>3. PICK b : b = SubSeq(s, i + 1, Len(s))
    OBVIOUS
  <2>a. /\ a \in Seq(P) /\ Len(a) = i - 1
        /\ \A j \in 1..(i - 1) : a[j] = s[j]
    BY <1>s, <2>2
  <2>b. /\ b \in Seq(P) /\ Len(b) = Len(s) - i
        /\ \A j \in 1..(Len(s) - i) : b[j] = s[i + j]
    BY <1>s, <2>3
  <2>t. t = a \o b
    BY <2>2, <2>3 DEF RemoveAt
  <2> HIDE DEF t
  <2>l. /\ Len(t) = Len(s) - 1
        /\ \A j \in 1..(Len(s) - 1) : t[j] = IF j < i THEN a[j] ELSE b[j - (i - 1)]
    <3>1. /\ Len(t) = Len(a) + Len(b)
          /\ \A j \in 1..(Len(a) + Len(b)) :
               t[j] = IF j <= Len(a) THEN a[j] ELSE b[j - Len(a)]
      BY <2>a, <2>b, <2>t, ConcatIs
    <3>2. Len(a) = i - 1 /\ Len(a) + Len(b) = Len(s) - 1
      BY <1>s, <2>a, <2>b
    <3>3. \A j \in 1..(Len(s) - 1) : (j <= i - 1) <=> (j < i)
      BY <1>s
    <3> QED BY <3>1, <3>2, <3>3
  <2>4. ASSUME NEW j \in 1..(Len(s) - 1) PROVE t[j] = s[Of(j)] /\ Of(j) \in 1..Len(s)
    <3>1. CASE j < i
      BY <3>1, <1>s, <2>a, <2>l
    <3>2. CASE ~(j < i)
      <4>1. j - (i - 1) \in 1..(Len(s) - i) /\ i + (j - (i - 1)) = j + 1
        BY <3>2, <1>s
      <4>2. t[j] = b[j - (i - 1)] /\ b[j - (i - 1)] = s[j + 1]
        BY <3>2, <4>1, <2>b, <2>l
      <4> QED BY <3>2, <4>2, <1>s
    <3> QED BY <3>1, <3>2
  <2>5. \A j, k \in 1..(Len(s) - 1) : j # k => Of(j) # Of(k)
    OBVIOUS
  <2> HIDE DEF Of
  <2>6. ASSUME NEW j \in 1..Len(t), NEW k \in 1..Len(t), j # k PROVE Disjoint(t[j], t[k])
    BY <2>l, <2>4, <2>5, <2>6 DEF Proper
  <2>7. Proper(P, t)
    BY <2>1, <2>6 DEF Proper
  <2> QED BY <2>7 DEF t
<1>3. CASE hit # {}
  <2>1. hit \in SUBSET Nat /\ hit \in SUBSET (1..Len(s))
    OBVIOUS
  <2>2. Min(hit) \in 1..Len(s)
    BY <1>3, <2>1, MinIn
  <2>3. Proper(P, RemoveAt(s, Min(hit)))
    BY <1>2, <2>2
  <2> QED BY <1>3, <2>3 DEF DropFirst
<1> QED BY <1>1, <1>3

(* The key of a range in play names it.                                    *)
LEMMA NamedKeys ==
  ASSUME NEW P, InPlay(P)
  PROVE  /\ \A r \in P : RangeKey(r) \in Named(P)
         /\ \A k \in Named(P) : KeyRange(k) \in P
BY BlockKey DEF Named, InPlay
(* A delete takes keys away, a put adds one in play.                       *)
LEMMA PlayTable ==
  ASSUME NEW P, InPlay(P), NEW t, t \in [DOMAIN t -> Node], DOMAIN t \subseteq Named(P),
         NEW k, NEW v \in Node
  PROVE  /\ DOMAIN Del(t, k) \subseteq Named(P)
         /\ k \in Named(P) => DOMAIN Put(t, k, v) \subseteq Named(P)
BY DEF Put, Del

(* The steps of a plugin.                                                  *)
LEMMA WorkerPlay ==
  ASSUME NEW P, InPlay(P), PlayInv(P), NEW w \in Worker,
         Apply(w) \/ WorkerStep(w) \/ WorkerFails(w)
  PROVE  PlayInv(P)'
<1> USE DEF etcdVars, workerVars, daemonVars, ctlVars
<1>t. /\ NodeOf[w] \in Node /\ DOMAIN wpc = Worker /\ DOMAIN grant = Worker
      /\ DOMAIN wimg = Worker /\ DOMAIN cache = Node /\ lease \in [DOMAIN lease -> Node]
  BY ConstantsAssumption DEF PlayInv, TypeInv, TypeOK
<1>T. TypeInv'
  BY WorkerTypes DEF PlayInv
<1>d. UNCHANGED daemonVars
  BY DEF Apply, WorkerStep, WorkerFails, LockDir, FindRange, PutLease, UnlockDir,
     AppendLoad, AppendFlash, LockError, ApplyError, CrashWorker
<1>e. \A n \in Node : PlayDaemon(P, n)'
  BY <1>d DEF PlayInv, PlayDaemon
<1>o. \A v \in Worker \ {w} :
        wpc'[v] = wpc[v] /\ grant'[v] = grant[v] /\ wimg'[v] = wimg[v]
  BY <1>t DEF Apply, WorkerStep, WorkerFails, LockDir, FindRange, PutLease, UnlockDir,
     AppendLoad, AppendFlash, LockError, ApplyError, CrashWorker, EndWorker
<1>p. \A v \in Worker \ {w} : PlayWorker(P, v)'
  BY <1>o DEF PlayInv, PlayWorker
<1>w. PlayWorker(P, w) /\ \A n \in Node : Proper(P, cache[n])
  BY DEF PlayInv
(* The table of leases.                                                    *)
<1>l. DOMAIN lease' \subseteq Named(P)
  <2>1. CASE UNCHANGED lease
    BY <2>1 DEF PlayInv
  <2>2. CASE wpc[w] = "found" /\ lease' = Put(lease, RangeKey(grant[w]), NodeOf[w])
    <3>1. RangeKey(grant[w]) \in Named(P)
      BY <2>2, <1>w, NamedKeys DEF PlayWorker
    <3> QED BY <2>2, <3>1, <1>t, PlayTable DEF PlayInv
  <2>3. UNCHANGED lease \/ (wpc[w] = "found" /\ lease' = Put(lease, RangeKey(grant[w]), NodeOf[w]))
    BY DEF Apply, WorkerStep, WorkerFails, LockDir, FindRange, PutLease, UnlockDir,
       AppendLoad, AppendFlash, LockError, ApplyError, CrashWorker
  <2> QED BY <2>1, <2>2, <2>3
(* The cache files.                                                        *)
<1>a. wpc[w] = "flash" => Proper(P, Append(wimg[w], grant[w]))
  BY <1>w, ProperAppend DEF PlayWorker
<1>c. \A n \in Node : Proper(P, cache'[n])
  <2>1. CASE UNCHANGED cache
    BY <1>w, <2>1
  <2>2. ASSUME NEW s, cache' = [cache EXCEPT ![NodeOf[w]] = s], Proper(P, s)
        PROVE  \A n \in Node : Proper(P, cache'[n])
    BY <1>w, <1>t, <2>2
  <2>3. CASE AppendFlash(w)
    BY <1>a, <2>2, <2>3, ProperFlash DEF AppendFlash
  <2>4. CASE CrashWorker(w) /\ cache' # cache
    <3>1. /\ wpc[w] = "flash"
          /\ \E s \in Torn(Append(wimg[w], grant[w])) : cache' = [cache EXCEPT ![NodeOf[w]] = s]
      BY <2>4 DEF CrashWorker
    <3> QED BY <1>a, <2>2, <3>1, ProperTorn
  <2>5. UNCHANGED cache \/ AppendFlash(w) \/ CrashWorker(w)
    BY DEF Apply, WorkerStep, WorkerFails, LockDir, FindRange, PutLease, UnlockDir,
       AppendLoad, LockError, ApplyError
  <2> QED BY <2>1, <2>3, <2>4, <2>5
(* What it remembers.                                                      *)
<1>q. PlayWorker(P, w)'
  <2>1. CASE FindRange(w) /\ Fits(DOMAIN lease, conf, Bits)
    <3>1. FreeBlock(DOMAIN lease, conf, Bits) \in P
      BY <2>1 DEF PlayInv, InPlay
    <3>2. wpc'[w] = "found" /\ grant'[w] = FreeBlock(DOMAIN lease, conf, Bits)
          /\ wimg'[w] = wimg[w]
      BY <2>1, <1>t DEF FindRange
    <3> QED BY <1>w, <3>1, <3>2 DEF PlayWorker
  <2>2. CASE AppendLoad(w) /\ ~OverlapsCache(cache[NodeOf[w]], grant[w])
    <3>1. /\ wpc[w] = "append" /\ wpc'[w] = "flash" /\ grant'[w] = grant[w]
          /\ wimg'[w] = cache[NodeOf[w]]
      BY <2>2, <1>t DEF AppendLoad
    <3> QED BY <2>2, <1>w, <1>t, <3>1 DEF PlayWorker
  <2>3. CASE EndWorker(w)
    <3>1. wpc'[w] = "idle" /\ wimg'[w] = << >>
      BY <2>3, <1>t DEF EndWorker
    <3> QED BY <3>1, ProperEmpty DEF PlayWorker
  <2>4. CASE /\ wimg'[w] = wimg[w] /\ grant'[w] = grant[w]
             /\ \/ wpc'[w] \in {"waiting", "locked", "failed"}
                \/ wpc[w] = "found" /\ wpc'[w] = "leased"
                \/ wpc[w] = "leased" /\ wpc'[w] = "append"
    BY <2>4, <1>w DEF PlayWorker
  <2>5. CASE Apply(w) \/ LockDir(w)
    BY <2>4, <2>5, <1>t DEF Apply, LockDir
  <2>6. CASE FindRange(w) /\ ~Fits(DOMAIN lease, conf, Bits)
    BY <2>4, <2>6, <1>t DEF FindRange
  <2>7. CASE PutLease(w) \/ ApplyError(w)
    BY <2>4, <2>7, <1>t DEF PutLease, ApplyError
  <2>8. CASE UnlockDir(w)
    BY <2>3, <2>4, <2>8, <1>t DEF UnlockDir
  <2>9. CASE LockError(w) \/ CrashWorker(w) \/ AppendFlash(w)
    BY <2>3, <2>9 DEF LockError, CrashWorker, AppendFlash
  <2>10. CASE AppendLoad(w) /\ OverlapsCache(cache[NodeOf[w]], grant[w])
    BY <2>3, <2>10 DEF AppendLoad
  <2> QED BY <2>1, <2>2, <2>5, <2>6, <2>7, <2>8, <2>9, <2>10 DEF WorkerStep, WorkerFails
<1> QED BY <1>T, <1>e, <1>p, <1>l, <1>c, <1>q DEF PlayInv

(* The steps of a daemon.                                                  *)
LEMMA DaemonPlay ==
  ASSUME NEW P, InPlay(P), PlayInv(P), NEW n \in Node, DaemonStep(n) \/ DaemonFails(n)
  PROVE  PlayInv(P)'
<1> USE DEF etcdVars, workerVars, ctlVars
<1>t. /\ DOMAIN dpc = Node /\ DOMAIN snap = Node /\ DOMAIN todo = Node /\ DOMAIN img = Node
      /\ DOMAIN target = Node /\ DOMAIN dimg = Node /\ DOMAIN cache = Node
      /\ lease \in [DOMAIN lease -> Node]
      /\ todo[n] \in SUBSET LeaseKey
  BY DEF PlayInv, TypeInv, TypeOK
<1>T. TypeInv'
  BY DaemonTypes DEF PlayInv
<1>d. UNCHANGED workerVars
  BY DEF DaemonStep, DaemonFails, Snapshot, LoadCache, Found, Clash, Missing, SyncFlash,
     DeleteFlash, UnleaseLock, UnleaseDelete, Reload, CheckDone, RestoreLock, RestoreGet,
     RestorePut, Drop, UnleaseLockError, RestoreLockError, RestoreError, CrashDaemon
<1>e. \A w \in Worker : PlayWorker(P, w)'
  BY <1>d DEF PlayInv, PlayWorker
<1>w. PlayDaemon(P, n) /\ \A m \in Node : Proper(P, cache[m])
  BY DEF PlayInv
<1>o. \A m \in Node \ {n} : /\ dpc'[m] = dpc[m] /\ snap'[m] = snap[m] /\ todo'[m] = todo[m]
                            /\ img'[m] = img[m] /\ target'[m] = target[m]
                            /\ dimg'[m] = dimg[m]
  BY <1>t DEF DaemonStep, DaemonFails, Snapshot, LoadCache, Found, Clash, Missing, SyncFlash,
     DeleteFlash, UnleaseLock, UnleaseDelete, Reload, CheckDone, RestoreLock, RestoreGet,
     RestorePut, Drop, UnleaseLockError, RestoreLockError, RestoreError, CrashDaemon,
     NextLease, Return, EndCheck
<1>p. \A m \in Node \ {n} : PlayDaemon(P, m)'
  BY <1>o DEF PlayInv, PlayDaemon
(* The table of leases.                                                    *)
<1>l. DOMAIN lease' \subseteq Named(P)
  <2>1. CASE UNCHANGED lease
    BY <2>1 DEF PlayInv
  <2>2. CASE \E k : lease' = Del(lease, k)
    BY <2>2, <1>t, PlayTable DEF PlayInv
  <2>3. CASE dpc[n] = "restorePut" /\ lease' = Put(lease, RangeKey(target[n]), n)
    <3>1. RangeKey(target[n]) \in Named(P)
      BY <2>3, <1>w, NamedKeys DEF PlayDaemon
    <3> QED BY <2>3, <3>1, <1>t, PlayTable DEF PlayInv
  <2>4. CASE UnleaseDelete(n) \/ UnleaseLockError(n)
    BY <2>1, <2>2, <2>4 DEF UnleaseDelete, UnleaseLockError
  <2>5. CASE RestorePut(n) \/ RestoreError(n)
    BY <2>1, <2>3, <2>5 DEF RestorePut, RestoreError
  <2>6. UNCHANGED lease \/ UnleaseDelete(n) \/ UnleaseLockError(n) \/ RestorePut(n)
          \/ RestoreError(n)
    BY DEF DaemonStep, DaemonFails, Snapshot, LoadCache, Found, Clash, Missing, SyncFlash,
       DeleteFlash, UnleaseLock, Reload, CheckDone, RestoreLock, RestoreGet, Drop,
       RestoreLockError, CrashDaemon
  <2> QED BY <2>1, <2>4, <2>5, <2>6
(* The cache file.                                                         *)
<1>a. /\ dpc[n] = "syncFlash" => Proper(P, Append(dimg[n], target[n]))
      /\ Proper(P, DropFirst(dimg[n], target[n]))
  BY <1>w, ProperAppend, ProperDrop DEF PlayDaemon
<1>c. \A m \in Node : Proper(P, cache'[m])
  <2>1. CASE UNCHANGED cache
    BY <1>w, <2>1
  <2>2. ASSUME NEW s, cache' = [cache EXCEPT ![n] = s], Proper(P, s)
        PROVE  \A m \in Node : Proper(P, cache'[m])
    BY <1>w, <1>t, <2>2
  <2>3. CASE SyncFlash(n)
    BY <1>a, <2>2, <2>3, ProperFlash DEF SyncFlash
  <2>4. CASE DeleteFlash(n)
    BY <1>a, <2>2, <2>4, ProperFlash DEF DeleteFlash
  <2>5. CASE CrashDaemon(n) /\ cache' # cache
    <3>1. \/ /\ dpc[n] = "syncFlash"
             /\ \E s \in Torn(Append(dimg[n], target[n])) : cache' = [cache EXCEPT ![n] = s]
          \/ \E s \in Torn(DropFirst(dimg[n], target[n])) : cache' = [cache EXCEPT ![n] = s]
      BY <2>5 DEF CrashDaemon
    <3> QED BY <1>a, <2>2, <3>1, ProperTorn
  <2>6. UNCHANGED cache \/ SyncFlash(n) \/ DeleteFlash(n) \/ CrashDaemon(n)
    BY DEF DaemonStep, DaemonFails, Snapshot, LoadCache, Found, Clash, Missing, UnleaseLock,
       UnleaseDelete, Reload, CheckDone, RestoreLock, RestoreGet, RestorePut, Drop,
       UnleaseLockError, RestoreLockError, RestoreError
  <2> QED BY <2>1, <2>3, <2>4, <2>5, <2>6
(* What it remembers.                                                      *)
<1>k. KeysOf(n) \subseteq Named(P) /\ cache[n] \in Seq(P)
  BY <1>w DEF KeysOf, PlayInv, Proper
<1>q. PlayDaemon(P, n)'
  <2>1. CASE Snapshot(n)
    BY <2>1, <1>k, <1>t, <1>w DEF Snapshot, PlayDaemon
  <2>2. CASE LoadCache(n)
    BY <2>2, <1>k, <1>t, <1>w DEF LoadCache, PlayDaemon
  <2>3. CASE Found(n)
    BY <2>3, <1>t, <1>w DEF Found, NextLease, PlayDaemon
  <2>4. CASE Clash(n)
    BY <2>4, <1>t, <1>w DEF Clash, PlayDaemon
  <2>5. CASE Missing(n)
    <3>1. Current(n) \in P
      BY <2>5, <1>t, <1>w, FirstKeyExists, NamedKeys DEF Missing, Current, PlayDaemon
    <3>2. /\ target'[n] = Current(n) /\ dimg'[n] = cache[n]
          /\ dpc'[n] = IF OverlapsCache(cache[n], Current(n)) THEN "unlease" ELSE "syncFlash"
          /\ snap'[n] = snap[n] /\ todo'[n] = todo[n] /\ img'[n] = img[n]
      BY <2>5, <1>t DEF Missing
    <3> QED BY <1>w, <3>1, <3>2 DEF PlayDaemon
  <2>6. CASE SyncFlash(n)
    BY <2>6, <1>t, <1>w, ProperEmpty DEF SyncFlash, NextLease, Return, PlayDaemon
  <2>7. CASE DeleteFlash(n)
    BY <2>7, <1>t, <1>w, ProperEmpty DEF DeleteFlash, Return, PlayDaemon
  <2>8. CASE UnleaseLock(n)
    BY <2>8, <1>t, <1>w DEF UnleaseLock, PlayDaemon
  <2>9. CASE UnleaseDelete(n)
    BY <2>9, <1>t, <1>w, ProperEmpty DEF UnleaseDelete, NextLease, Return, PlayDaemon
  <2>10. CASE Reload(n)
    BY <2>10, <1>k, <1>t, <1>w DEF Reload, PlayDaemon
  <2>11. CASE EndCheck(n)
    <3>1. /\ dpc'[n] = "idle" /\ snap'[n] = {} /\ todo'[n] = {} /\ img'[n] = << >>
          /\ dimg'[n] = << >>
      BY <2>11, <1>t DEF EndCheck, Return
    <3>2. << >> \in Seq(P)
      OBVIOUS
    <3> QED BY <3>1, <3>2, ProperEmpty DEF PlayDaemon
  <2>12. CASE RestoreLock(n) \/ RestoreLockError(n)
    <3>1. Unleased(n) # {} /\ Unleased(n) \in SUBSET Nat /\ Unleased(n) \in SUBSET (1..Len(img[n]))
      <4>1. pos[n] \in Nat /\ Len(img[n]) \in Nat
        BY <1>w DEF PlayInv, TypeInv, TypeOK, PlayDaemon
      <4> QED BY <2>12, <4>1 DEF RestoreLock, RestoreLockError, Unleased
    <3>2. Min(Unleased(n)) \in 1..Len(img[n])
      BY <3>1, MinIn
    <3>3. img[n][Min(Unleased(n))] \in P
      BY <3>2, <1>w DEF PlayDaemon
    <3>4. /\ target'[n] = img[n][Min(Unleased(n))] /\ dpc'[n] \in {"restoreGet", "drop"}
          /\ snap'[n] = snap[n] /\ todo'[n] = todo[n] /\ img'[n] = img[n]
          /\ dimg'[n] = dimg[n]
      BY <2>12, <1>t DEF RestoreLock, RestoreLockError
    <3> QED BY <1>w, <3>3, <3>4 DEF PlayDaemon
  <2>13. CASE RestoreGet(n)
    BY <2>13, <1>t, <1>w DEF RestoreGet, PlayDaemon
  <2>14. CASE RestorePut(n)
    BY <2>14, <1>t, <1>w, ProperEmpty DEF RestorePut, Return, PlayDaemon
  <2>15. CASE RestoreError(n)
    BY <2>15, <1>t, <1>w DEF RestoreError, PlayDaemon
  <2>16. CASE Drop(n)
    BY <2>16, <1>t, <1>w DEF Drop, PlayDaemon
  <2>17. CASE CheckDone(n) \/ UnleaseLockError(n) \/ CrashDaemon(n)
    BY <2>11, <2>17 DEF CheckDone, UnleaseLockError, CrashDaemon
  <2> QED BY <2>1, <2>2, <2>3, <2>4, <2>5, <2>6, <2>7, <2>8, <2>9, <2>10, <2>12, <2>13,
             <2>14, <2>15, <2>16, <2>17 DEF DaemonStep, DaemonFails
<1> QED BY <1>T, <1>e, <1>p, <1>l, <1>c, <1>q DEF PlayInv

(* The controller and the sessions change the table only by deletes.       *)
LEMMA OthersPlay ==
  ASSUME NEW P, InPlay(P), PlayInv(P), [Next]_vars,
         \/ \E n \in Node : NodeDeleted(n)
         \/ ControllerStep \/ DelKeyLockError \/ SessionExpires
         \/ UNCHANGED vars
  PROVE  PlayInv(P)'
<1>1. TypeInv'
  BY NextTypes DEF PlayInv
<1>2. UNCHANGED <<cache, wpc, grant, wimg, dpc, snap, todo, img, pos, target, dimg>>
  BY DEF NodeDeleted, ControllerStep, DelKeyLock, DelKey, DelKeyLockError, SessionExpires,
     DirSessionExpires, KeySessionExpires, vars, etcdVars, workerVars, daemonVars
<1>3. UNCHANGED lease \/ \E k : lease' = Del(lease, k)
  BY DEF NodeDeleted, ControllerStep, DelKeyLock, DelKey, DelKeyLockError, SessionExpires,
     DirSessionExpires, KeySessionExpires, vars, etcdVars
<1>4. DOMAIN lease' \subseteq Named(P)
  BY <1>3 DEF PlayInv, Del
<1> QED BY <1>1, <1>2, <1>4 DEF PlayInv, PlayWorker, PlayDaemon

LEMMA AlwaysPlay ==
  ASSUME NEW P, InPlay(P)
  PROVE  Spec => []PlayInv(P)
<1>1. Init => PlayInv(P)
  <2> SUFFICES ASSUME Init PROVE PlayInv(P)
    OBVIOUS
  <2>1. TypeInv /\ DOMAIN lease = {} /\ cache = Leftover
    BY InitTypes DEF Init
  <2>2. \A n \in Node : Proper(P, cache[n])
    BY <2>1 DEF InPlay
  <2>3. \A w \in Worker : PlayWorker(P, w)
    BY ProperEmpty DEF Init, PlayWorker
  <2>4. \A n \in Node : PlayDaemon(P, n)
    <3>1. << >> \in Seq(P)
      OBVIOUS
    <3> QED BY <3>1, ProperEmpty DEF Init, PlayDaemon
  <2> QED BY <2>1, <2>2, <2>3, <2>4 DEF PlayInv
<1>2. PlayInv(P) /\ [Next]_vars => PlayInv(P)'
  <2> SUFFICES ASSUME PlayInv(P), [Next]_vars PROVE PlayInv(P)'
    OBVIOUS
  <2> QED BY WorkerPlay, DaemonPlay, OthersPlay DEF Next
<1> QED BY <1>1, <1>2, PTL DEF Spec

(* The ranges in the cache of a node do not overlap: with daemons that     *)
(* check etcd from copies of their own, with nodes that depart and come    *)
(* back, with processes that are killed while they write the file, and     *)
(* although AppendCache and DeleteCache let go of the file lock between    *)
(* their load and their flash.  What others have added in between is lost, *)
(* and never doubled.                                                      *)
THEOREM CachesStayDisjoint ==
  ASSUME NEW P, InPlay(P)
  PROVE  Spec => []CacheDisjoint
<1>1. PlayInv(P) => CacheDisjoint
  BY DEF PlayInv, Proper, CacheDisjoint
<1> QED BY <1>1, AlwaysPlay, PTL

(* An instance of it: when applyUnit has not changed since the caches were *)
(* written and the range ends well before the last address there is, all   *)
(* ranges have one size, and Overlaps tells all that is to be told.        *)
UnitBlocks == {r \in Block : r.hi = r.lo + Num - 1}

SameUnit == \A n \in Node : Proper(UnitBlocks, Leftover[n])

RoomAbove == FirstUsable(conf) <= RangeEnd /\ RangeEnd + Num < M

LEMMA UnitInPlay ==
  ASSUME SameUnit, RoomAbove
  PROVE  InPlay(UnitBlocks)
<1>n. Num \in Nat /\ Num >= 1 /\ FirstUsable(conf) \in Nat /\ RangeEnd \in Nat /\ M \in Nat
  BY NumFacts, MFacts
<1>1. ASSUME NEW r \in UnitBlocks, NEW s \in UnitBlocks
      PROVE  Overlaps(r, s) \/ Disjoint(r, s)
  <2>1. /\ r.lo \in Int /\ r.hi = r.lo + Num - 1
        /\ s.lo \in Int /\ s.hi = s.lo + Num - 1
    BY KeyRangeType, MFacts DEF UnitBlocks, Block, SimpleRange
  <2> QED BY <1>n, <2>1 DEF Overlaps, Disjoint
<1>2. ASSUME NEW L \in SUBSET Named(UnitBlocks) PROVE FreeBlock(L, conf, Bits) \in UnitBlocks
  <2> DEFINE S == Walked(L, conf, Bits)
             last == FreeStart(L, conf, Bits)
  <2>1. L \in SUBSET LeaseKey /\ S \in SUBSET LeaseKey
    BY DEF Named, Walked, Considered
  <2>2. last \in Nat /\ last <= RangeEnd + 1
    <3>1. CASE S = {}
      BY <1>n, <3>1 DEF RoomAbove, FreeStart, After
    <3>2. CASE S # {}
      <4>1. LastKey(S) \in LeaseKey
        BY <2>1, <3>2, LastKeyExists
      <4>2. KeyRange(LastKey(S)).hi \in Nat
        BY <4>1, KeyRangeType, MFacts DEF SimpleRange
      <4>3. PICK e : e = Smaller(KeyRange(LastKey(S)).hi, RangeEnd)
        OBVIOUS
      <4>4. e \in Nat /\ e <= RangeEnd
        BY <1>n, <4>2, <4>3 DEF Smaller
      <4>5. e + 1 \in Address
        BY <1>n, <4>4, MFacts DEF RoomAbove
      <4>6. last = Plus(e, 1)
        BY <3>2, <4>3, NumFacts DEF FreeStart, After
      <4>7. last = e + 1
        BY <4>4, <4>5, <4>6, PlusMinus
      <4> QED BY <1>n, <4>4, <4>7
    <3> QED BY <3>1, <3>2
  <2> HIDE DEF last
  <2>3. last + (Num - 1) \in Address
    BY <1>n, <2>2, MFacts DEF RoomAbove
  <2>4. Plus(last, Num - 1) = last + (Num - 1)
    BY <1>n, <2>2, <2>3, PlusMinus
  <2>5. FreeBlock(L, conf, Bits) = [lo |-> last, hi |-> Plus(last, Num - 1)]
    BY DEF FreeBlock, Num, last
  <2>6. FreeBlock(L, conf, Bits) \in Block
    BY <2>1, ConfFacts, FreeBlockIsBlock
  <2> QED BY <1>n, <2>2, <2>4, <2>5, <2>6 DEF UnitBlocks
<1> QED BY <1>1, <1>2 DEF InPlay, SameUnit, UnitBlocks

(* With one block size, and a range that does not end at the last          *)
(* addresses there are, the cached ranges of a node never overlap.         *)
THEOREM UnitCachesStayDisjoint ==
  ASSUME SameUnit, RoomAbove
  PROVE  Spec => []CacheDisjoint
BY UnitInPlay, CachesStayDisjoint

(* Another instance: caches of blocks that an ADD could have leased.  With *)
(* these the daemons' checks, too, put and cache such blocks alone.        *)
OnGrid == {KeyRange(k) : k \in Grid}

CachesOnGrid == \A n \in Node : Proper(OnGrid, Leftover[n])

LEMMA GridNamed ==
  Named(OnGrid) = Grid
<1>1. Grid \subseteq LeaseKey
  BY DEF Grid
<1>2. ASSUME NEW k \in LeaseKey, NEW g \in Grid, KeyRange(k) = KeyRange(g) PROVE k \in Grid
  BY <1>1, <1>2, KeyRoundTrip
<1> QED BY <1>1, <1>2 DEF Named, OnGrid

LEMMA GridInPlay ==
  ASSUME RangeOK, NoExactFill, CachesOnGrid
  PROVE  InPlay(OnGrid)
<1>1. OnGrid \subseteq Block
  BY DEF OnGrid, Grid, Block
<1>2. ASSUME NEW r \in OnGrid, NEW s \in OnGrid
      PROVE  Overlaps(r, s) \/ Disjoint(r, s)
  <2>1. PICK j \in Grid : r = KeyRange(j)
    BY DEF OnGrid
  <2>2. PICK k \in Grid : s = KeyRange(k)
    BY DEF OnGrid
  <2>3. CASE j = k
    <3>1. r = s /\ r.lo \in Nat /\ r.hi \in Nat /\ r.lo <= r.hi
      BY <2>1, <2>2, <2>3, GridFacts
    <3> QED BY <3>1 DEF Overlaps
  <2>4. CASE j # k
    BY <2>1, <2>2, <2>4, GridDisjoint
  <2> QED BY <2>3, <2>4
<1>3. ASSUME NEW L \in SUBSET Named(OnGrid), Fits(L, conf, Bits)
      PROVE  FreeBlock(L, conf, Bits) \in OnGrid
  <2>1. L \in SUBSET Grid
    BY GridNamed
  <2>2. L \in SUBSET LeaseKey
    BY <2>1 DEF Grid
  <2>3. PICK b : b = FreeBlock(L, conf, Bits)
    OBVIOUS
  <2>4. RangeKey(b) \in Grid
    BY <1>3, <2>1, <2>3, GridGrows
  <2>5. b \in Block
    BY <2>2, <2>3, ConfFacts, FreeBlockIsBlock
  <2>6. b = KeyRange(RangeKey(b))
    BY <2>5, BlockKey
  <2> QED BY <2>3, <2>4, <2>6 DEF OnGrid
<1> QED BY <1>1, <1>2, <1>3 DEF InPlay, CachesOnGrid

LEMMA LeasesInPlay ==
  ASSUME NEW P, InPlay(P),
         \A j, k \in Named(P) : j # k => Disjoint(KeyRange(j), KeyRange(k))
  PROVE  Spec => []LeasesDisjoint
<1>1. PlayInv(P) => LeasesDisjoint
  BY DEF PlayInv, LeasesDisjoint
<1> QED BY <1>1, AlwaysPlay, PTL

(* No two leases of a network ever overlap, with daemons that check etcd   *)
(* too, which delete leases that their cache contradicts and lease what    *)
(* only their cache has, each under a mutex that no plugin takes: what     *)
(* they put is a block that some plugin was once granted.                  *)
THEOREM LeasesApartWithDaemons ==
  ASSUME RangeOK, NoExactFill, CachesOnGrid
  PROVE  Spec => []LeasesDisjoint
<1>1. \A j, k \in Named(OnGrid) : j # k => Disjoint(KeyRange(j), KeyRange(k))
  BY GridNamed, GridDisjoint
<1> QED BY <1>1, GridInPlay, LeasesInPlay

-----------------------------------------------------------------------------
(* Leasing implements LeaseTable.  The table changes in two steps only:    *)
(* the Put that succeeds, and the one whose answer is lost.                *)
LEMMA TableSteps ==
  ASSUME Daemons = {}, Departing = {}, HeldInv, Next
  PROVE  \/ UNCHANGED lease
         \/ \E w \in Worker : /\ wpc[w] = "found"
                              /\ lease' = Put(lease, RangeKey(grant[w]), NodeOf[w])
<1>1. CASE \E w \in Worker : Apply(w) \/ WorkerStep(w) \/ WorkerFails(w)
  BY <1>1 DEF Apply, WorkerStep, WorkerFails, CrashWorker, LockError, LockDir,
     FindRange, PutLease, ApplyError, UnlockDir, AppendLoad, AppendFlash, etcdVars
<1>2. CASE \E n \in Node : DaemonStep(n) \/ DaemonFails(n) \/ NodeDeleted(n)
  BY <1>2 DEF HeldInv, AddInv, NodeDeleted, DaemonStep, Snapshot, LoadCache, Found, Clash,
     Missing, SyncFlash, DeleteFlash, UnleaseLock, UnleaseDelete, Reload, CheckDone,
     RestoreLock, RestoreGet, RestorePut, RestoreError, Drop,
     DaemonFails, CrashDaemon, UnleaseLockError, RestoreLockError
<1>3. CASE ControllerStep \/ DelKeyLockError \/ SessionExpires
  BY <1>3 DEF HeldInv, ControllerStep, DelKeyLockError, DelKeyLock, DelKey,
     SessionExpires, DirSessionExpires, KeySessionExpires
<1> QED BY <1>1, <1>2, <1>3 DEF Next

(* Every step of leasing is a step of LeaseTable or changes nothing there. *)
LEMMA StepTable ==
  ASSUME Daemons = {}, Departing = {}, HeldInv, HeldInv', [Next]_vars
  PROVE  [Table!Next]_(Table!tableVars)
<1>u. UsesOwn'
  BY HeldOwned, PTL
<1>k. DOMAIN lease \subseteq LeaseKey /\ DOMAIN lease' \subseteq LeaseKey
  BY DEF HeldInv, AddInv, TypeInv, TypeOK
<1>1. ASSUME NEW n \in Node, NEW r \in Held(n)'
      PROVE  r \in Block /\ \E k \in DOMAIN lease' : <<r, n>> = <<KeyRange(k), lease'[k]>>
  <2>1. r \in Owned(n)'
    BY <1>1, <1>u DEF UsesOwn
  <2>2. r \in Block /\ RangeKey(r) \in DOMAIN lease' /\ lease'[RangeKey(r)] = n
    BY <2>1 DEF Owned, KeysOf
  <2> QED BY <2>2, BlockKey
<1>2. Table!Use
  <2>1. [n \in Node |-> Held(n)]' \in [Node -> SUBSET Block]
    BY <1>1
  <2> QED BY <1>1, <2>1 DEF Table!Use
<1>3. CASE UNCHANGED lease
  BY <1>2, <1>3 DEF Table!Next, Table!Change
<1>4. ASSUME NEW w \in Worker, wpc[w] = "found",
             lease' = Put(lease, RangeKey(grant[w]), NodeOf[w])
      PROVE  Table!Next
  <2> DEFINE g == grant[w]
  <2>1. NodeOf[w] \in Node /\ g \in Block /\ KeyRange(RangeKey(g)) = g
    BY AddTypes, BlockKey DEF HeldInv
  <2>2. \A k \in DOMAIN lease : Table!Apart(g, KeyRange(k))
    BY <1>4, GrantFreeAdd DEF HeldInv, GrantFree, Disjoint, Table!Apart
  <2>3. RangeKey(g) \notin DOMAIN lease
    BY <1>4 DEF HeldInv, AddInv
  <2>4. {<<KeyRange(k), lease'[k]>> : k \in DOMAIN lease'}
          = {<<KeyRange(k), lease[k]>> : k \in DOMAIN lease} \cup {<<g, NodeOf[w]>>}
    <3> HIDE DEF g
    <3>1. /\ DOMAIN lease' = DOMAIN lease \cup {RangeKey(g)}
          /\ lease'[RangeKey(g)] = NodeOf[w]
          /\ \A k \in DOMAIN lease : lease'[k] = lease[k]
      BY <1>4, <2>3 DEF Put, g
    <3> QED BY <2>1, <3>1
  <2>5. Table!Grant(NodeOf[w], g)
    BY <1>2, <2>2, <2>4 DEF Table!Grant
  <2> HIDE DEF g
  <2> QED BY <2>1, <2>5 DEF Table!Next, Table!Grant
<1>5. CASE UNCHANGED vars
  BY <1>3, <1>5 DEF vars, etcdVars
<1>6. CASE Next
  BY <1>3, <1>4, <1>6, TableSteps
<1> QED BY <1>5, <1>6

(* Leasing keeps the promise of LeaseTable, for every number of nodes and  *)
(* plugins, every range that blocks cannot fill exactly and every size of  *)
(* blocks: whatever processes are killed and answers lost, the steps of    *)
(* plugins and sessions amount to grants of free blocks, and nodes use     *)
(* what they have been granted and nothing else.                           *)
THEOREM LeasingImplementsTable ==
  ASSUME NoLeftover, Daemons = {}, Departing = {}, RangeOK, NoExactFill
  PROVE  Spec => ImplementsTable
<1>1. Init => HeldInv
  BY InitHeld
<1>2. HeldInv /\ [Next]_vars => HeldInv'
  BY StepHeld
<1>3. Init => Table!Init
  <2> SUFFICES ASSUME Init PROVE Table!Init
    OBVIOUS
  <2>1. \A n \in Node : Held(n) = {}
    BY DEF Init, NoLeftover, Held, Adding, ToSet
  <2> QED BY <2>1 DEF Init, Table!Init
<1>4. HeldInv /\ HeldInv' /\ [Next]_vars => [Table!Next]_(Table!tableVars)
  BY StepTable
<1> QED BY <1>1, <1>2, <1>3, <1>4, PTL DEF Spec, ImplementsTable, Table!Spec

=============================================================================
