----------------------------- MODULE RangeLease ------------------------------
(***************************************************************************)
(* Leasing blocks of addresses of one network to nodes.                    *)
(*                                                                         *)
(* etcd holds the lease table (key: a block, value: the node it is leased  *)
(* to) and the mutexes; every node keeps the blocks it may allocate from   *)
(* in a cache file.  Three programs change them:                           *)
(*   - a CNI ADD that runs out of addresses leases one more block, under   *)
(*     the mutex of the network's directory (IPAMApplyIPRange), and then   *)
(*     appends it to the cache (AppendCache);                              *)
(*   - the daemon of a node compares its leases with its cache at start    *)
(*     and on a ticker (IPAMCheckEtcd), under mutexes named after single   *)
(*     keys (TransPutKey, TransDelKey);                                    *)
(*   - the controller deletes the leases of a node that left the cluster   *)
(*     (handleNodeDelEvent), under the same per-key mutexes.               *)
(***************************************************************************)
EXTENDS FreeRange, SequencesExt

CONSTANTS
  Node,             \* node ids, the values of the lease keys
  Worker,           \* invocations of the IPAM plugin that can be under way
  NodeOf,           \* the node each worker runs on
  Daemons,          \* the nodes whose daemon checks etcd
  Departing,        \* the nodes whose deletion the controller may see
  Leftover,         \* what the cache files hold from an earlier life of the nodes
  Mortal,           \* the workers, and the nodes whose daemon, that may be killed
  RangeStart, RangeEnd, Subnet,   \* the range of the network
  Bits,             \* applyUnit: a block has 2^Bits addresses
  None,             \* no process
  Orphan,           \* a process that died holding a mutex
  Controller        \* the controller process

ASSUME ConstantsAssumption ==
  /\ NodeOf \in [Worker -> Node]
  /\ Daemons \subseteq Node
  /\ Departing \subseteq Node
  /\ Leftover \in [Node -> Seq(Block)]
  /\ Mortal \subseteq Worker \cup Node
  /\ {RangeStart, RangeEnd, Subnet} \subseteq Address
  /\ Bits \in 0..(W - 1)
  /\ None \notin Worker \cup Node
  /\ Orphan \notin Worker \cup Node \cup {None, Controller}
  /\ Controller \notin Node

VARIABLES
  lease,            \* etcd: the lease keys and the node each is leased to
  dirLock,          \* etcd: holder of the mutex of the network's directory
  keyLock,          \* etcd: the per-key mutexes that are held, and by whom
  cache,            \* the cache file of every node, a sequence of ranges
  wpc, grant, wimg, \* worker: where it is, its block, the cache it has read
  dpc, snap, todo,  \* daemon: where it is, the keys it has read, those left,
  img, pos,         \*   the cache it goes through and how far it has got,
  target, dimg,     \*   the range it works on, the cache DeleteCache has read
  cpc, ctodo        \* controller: where it is, the keys left to delete

etcdVars   == <<lease, dirLock, keyLock>>
workerVars == <<wpc, grant, wimg>>
daemonVars == <<dpc, snap, todo, img, pos, target, dimg>>
ctlVars    == <<cpc, ctodo>>
vars == <<etcdVars, cache, workerVars, daemonVars, ctlVars>>

conf == [rangeStart |-> RangeStart, rangeEnd |-> RangeEnd, subnet |-> Subnet]
Num  == 2^Bits
NoBlock == [lo |-> 0, hi |-> 0]

-----------------------------------------------------------------------------
(* etcd: a put and a delete of one key of a table of keys.                 *)

Put(t, k, v) == [x \in DOMAIN t \cup {k} |-> IF x = k THEN v ELSE t[x]]
Del(t, k)    == [x \in DOMAIN t \ {k} |-> t[x]]

(* Mutant: the value of a key is not compared with the node.               *)
KeysOf_Any(n) == DOMAIN lease

KeysOf(n) == {k \in DOMAIN lease : lease[k] = n}

(* The cache file.  FlashCache truncates it and writes the ranges one by   *)
(* one, each made canonical, so a process that dies in it leaves a prefix. *)
Flash(s) == [i \in 1..Len(s) |-> Canonicalize(s[i])]

Torn(s) == {SubSeq(Flash(s), 1, i) : i \in 0..Len(s)}

(* Mutant: AppendCache does not compare the range with the cache.          *)
OverlapsCache_Never(s, r) == FALSE

OverlapsCache(s, r) == \E i \in 1..Len(s) : Overlaps(s[i], r)

(* DeleteCache drops the first range that overlaps r.                      *)
DropFirst(s, r) ==
  LET hit == {i \in 1..Len(s) : Overlaps(s[i], r)}
  IN  IF hit = {} THEN s ELSE RemoveAt(s, Min(hit))

(* Leases are deleted when a node leaves the cluster and its cache file is *)
(* not, so that a node that comes back may find blocks in its cache that   *)
(* are not leased, and of another size when applyUnit was changed.         *)
Init ==
  /\ lease = << >>
  /\ dirLock = None
  /\ keyLock = << >>
  /\ cache = Leftover
  /\ wpc   = [w \in Worker |-> "idle"]
  /\ grant = [w \in Worker |-> NoBlock]
  /\ wimg  = [w \in Worker |-> << >>]
  /\ dpc   = [n \in Node |-> "idle"]
  /\ snap   = [n \in Node |-> {}]
  /\ todo   = [n \in Node |-> {}]
  /\ img    = [n \in Node |-> << >>]
  /\ pos    = [n \in Node |-> 0]
  /\ target = [n \in Node |-> NoBlock]
  /\ dimg   = [n \in Node |-> << >>]
  /\ cpc = "idle"
  /\ ctodo = {}

-----------------------------------------------------------------------------
(* A worker: the range set of its node is exhausted, and it asks for one   *)
(* more block (allocateIP, IPAMApplyIPRange).                              *)

(* The invocation ends, and its variables with it.                         *)
EndWorker(w) ==
  /\ wpc' = [wpc EXCEPT ![w] = "idle"]
  /\ grant' = [grant EXCEPT ![w] = NoBlock]
  /\ wimg' = [wimg EXCEPT ![w] = << >>]

Apply(w) ==
  /\ wpc[w] = "idle"
  /\ wpc' = [wpc EXCEPT ![w] = "waiting"]
  /\ UNCHANGED <<etcdVars, cache, grant, wimg, daemonVars, ctlVars>>

(* Mutants: the plugin does not wait for the mutex; it notes the wrong     *)
(* owner.                                                                  *)
LockDir_NoWait(w) ==
  /\ wpc[w] = "waiting"
  /\ dirLock' = w
  /\ wpc' = [wpc EXCEPT ![w] = "locked"]
  /\ UNCHANGED <<lease, keyLock, cache, grant, wimg, daemonVars, ctlVars>>

LockDir_ByNode(w) ==
  /\ wpc[w] = "waiting"
  /\ dirLock = None
  /\ dirLock' = NodeOf[w]
  /\ wpc' = [wpc EXCEPT ![w] = "locked"]
  /\ UNCHANGED <<lease, keyLock, cache, grant, wimg, daemonVars, ctlVars>>

LockDir(w) ==
  /\ wpc[w] = "waiting"
  /\ dirLock = None
  /\ dirLock' = w
  /\ wpc' = [wpc EXCEPT ![w] = "locked"]
  /\ UNCHANGED <<lease, keyLock, cache, grant, wimg, daemonVars, ctlVars>>

(* ipamGetFreeIPRange: read the keys of the network and choose a block.    *)
FindRange(w) ==
  /\ wpc[w] = "locked"
  /\ IF Fits(DOMAIN lease, conf, Bits)
       THEN /\ grant' = [grant EXCEPT ![w] = FreeBlock(DOMAIN lease, conf, Bits)]
            /\ wpc' = [wpc EXCEPT ![w] = "found"]
       ELSE /\ wpc' = [wpc EXCEPT ![w] = "failed"]
            /\ UNCHANGED grant
  /\ UNCHANGED <<etcdVars, cache, wimg, daemonVars, ctlVars>>

(* Mutant: the block is used without a key of its own.                     *)
PutLease_Forgotten(w) ==
  /\ wpc[w] = "found"
  /\ wpc' = [wpc EXCEPT ![w] = "leased"]
  /\ UNCHANGED <<etcdVars, cache, grant, wimg, daemonVars, ctlVars>>

PutLease(w) ==
  /\ wpc[w] = "found"
  /\ lease' = Put(lease, RangeKey(grant[w]), NodeOf[w])
  /\ wpc' = [wpc EXCEPT ![w] = "leased"]
  /\ UNCHANGED <<dirLock, keyLock, cache, grant, wimg, daemonVars, ctlVars>>

(* etcd fails the call that waits for the mutex.                           *)
LockError(w) ==
  /\ wpc[w] = "waiting"
  /\ EndWorker(w)
  /\ UNCHANGED <<etcdVars, cache, daemonVars, ctlVars>>

(* etcd answers the Get or the Put with an error; the Put may have taken   *)
(* effect all the same.                                                    *)
ApplyError(w) ==
  /\ wpc[w] \in {"locked", "found"}
  /\ \/ UNCHANGED lease
     \/ /\ wpc[w] = "found"
        /\ lease' = Put(lease, RangeKey(grant[w]), NodeOf[w])
  /\ wpc' = [wpc EXCEPT ![w] = "failed"]
  /\ UNCHANGED <<dirLock, keyLock, cache, grant, wimg, daemonVars, ctlVars>>

(* Mutants: the error of the Put is ignored; the mutex is not released on  *)
(* an error.                                                               *)
UnlockDir_ErrorIgnored(w) ==
  /\ wpc[w] \in {"leased", "failed"}
  /\ wpc' = [wpc EXCEPT ![w] = "append"]
  /\ dirLock' = None
  /\ UNCHANGED <<lease, keyLock, cache, grant, wimg, daemonVars, ctlVars>>

UnlockDir_LeakOnError(w) ==
  /\ \/ /\ wpc[w] = "leased"
        /\ wpc' = [wpc EXCEPT ![w] = "append"]
        /\ dirLock' = None
        /\ UNCHANGED <<grant, wimg>>
     \/ /\ wpc[w] = "failed"
        /\ EndWorker(w)
        /\ UNCHANGED dirLock
  /\ UNCHANGED <<lease, keyLock, cache, daemonVars, ctlVars>>

UnlockDir(w) ==
  /\ \/ /\ wpc[w] = "leased"
        /\ wpc' = [wpc EXCEPT ![w] = "append"]
        /\ UNCHANGED <<grant, wimg>>
     \/ /\ wpc[w] = "failed"
        /\ EndWorker(w)
  /\ dirLock' = None
  /\ UNCHANGED <<lease, keyLock, cache, daemonVars, ctlVars>>

(* AppendCache loads the cache and flashes it under the file lock, but     *)
(* lets go of the lock in between.  Its error is ignored.                  *)
AppendLoad(w) ==
  /\ wpc[w] = "append"
  /\ IF OverlapsCache(cache[NodeOf[w]], grant[w])
       THEN EndWorker(w)
       ELSE /\ wimg' = [wimg EXCEPT ![w] = cache[NodeOf[w]]]
            /\ wpc' = [wpc EXCEPT ![w] = "flash"]
            /\ UNCHANGED grant
  /\ UNCHANGED <<etcdVars, cache, daemonVars, ctlVars>>

AppendFlash(w) ==
  /\ wpc[w] = "flash"
  /\ cache' = [cache EXCEPT ![NodeOf[w]] = Flash(Append(wimg[w], grant[w]))]
  /\ EndWorker(w)
  /\ UNCHANGED <<etcdVars, daemonVars, ctlVars>>

(* The plugin is killed.  Its mutex stays until its session expires.       *)
CrashWorker(w) ==
  /\ w \in Mortal
  /\ wpc[w] # "idle"
  /\ EndWorker(w)
  /\ dirLock' = IF dirLock = w THEN Orphan ELSE dirLock
  /\ \/ UNCHANGED cache
     \/ /\ wpc[w] = "flash"
        /\ \E s \in Torn(Append(wimg[w], grant[w])) :
              cache' = [cache EXCEPT ![NodeOf[w]] = s]
  /\ UNCHANGED <<lease, keyLock, daemonVars, ctlVars>>

DirSessionExpires ==
  /\ dirLock = Orphan
  /\ dirLock' = None
  /\ UNCHANGED <<lease, keyLock, cache, workerVars, daemonVars, ctlVars>>

-----------------------------------------------------------------------------
(* The daemon of a node: IPAMCheckEtcd, ipamCheckNet.  The first loop goes *)
(* through the leases of the node and, for each, through the cache; the    *)
(* second through the cache alone.  All it compares are local copies.      *)

(* IPAMGetAllLease: all leases of the node are read before anything else.  *)
Snapshot(n) ==
  /\ n \in Daemons
  /\ dpc[n] = "idle"
  /\ snap' = [snap EXCEPT ![n] = KeysOf(n)]
  /\ dpc' = [dpc EXCEPT ![n] = "load"]
  /\ UNCHANGED <<etcdVars, cache, workerVars, todo, img, pos, target, dimg, ctlVars>>

LoadCache(n) ==
  /\ dpc[n] = "load"
  /\ img' = [img EXCEPT ![n] = cache[n]]
  /\ todo' = [todo EXCEPT ![n] = snap[n]]
  /\ dpc' = [dpc EXCEPT ![n] = "sync"]
  /\ UNCHANGED <<etcdVars, cache, workerVars, snap, pos, target, dimg, ctlVars>>

(* The lease the first loop is at, and the cached ranges it has yet to     *)
(* compare with it that overlap it.                                        *)
Current(n) == KeyRange(FirstKey(todo[n]))
Hits(n) == {i \in (pos[n] + 1)..Len(img[n]) : Overlaps(img[n][i], Current(n))}

NextLease(n) ==
  /\ todo' = [todo EXCEPT ![n] = @ \ {FirstKey(@)}]
  /\ pos' = [pos EXCEPT ![n] = 0]

(* A call to the disk store or to etcd returns, and its variables are gone. *)
Return(n) ==
  /\ target' = [target EXCEPT ![n] = NoBlock]
  /\ dimg' = [dimg EXCEPT ![n] = << >>]

Found(n) ==
  /\ dpc[n] = "sync" /\ todo[n] # {}
  /\ Hits(n) # {} /\ Match(img[n][Min(Hits(n))], Current(n))
  /\ NextLease(n)
  /\ UNCHANGED <<etcdVars, cache, workerVars, dpc, snap, img, target, dimg, ctlVars>>

(* A cached range that overlaps the lease without matching it: DeleteCache *)
(* loads the cache here and flashes it in DeleteFlash, and lets go of the  *)
(* file lock in between.                                                   *)
Clash(n) ==
  /\ dpc[n] = "sync" /\ todo[n] # {}
  /\ Hits(n) # {} /\ ~Match(img[n][Min(Hits(n))], Current(n))
  /\ pos' = [pos EXCEPT ![n] = Min(Hits(n))]
  /\ target' = [target EXCEPT ![n] = img[n][Min(Hits(n))]]
  /\ dimg' = [dimg EXCEPT ![n] = cache[n]]
  /\ dpc' = [dpc EXCEPT ![n] = "deleteFlash"]
  /\ UNCHANGED <<etcdVars, cache, workerVars, snap, todo, img, ctlVars>>

DeleteFlash(n) ==
  /\ dpc[n] = "deleteFlash"
  /\ cache' = [cache EXCEPT ![n] = Flash(DropFirst(dimg[n], target[n]))]
  /\ dpc' = [dpc EXCEPT ![n] = IF todo[n] = {} THEN "restore" ELSE "sync"]
  /\ Return(n)
  /\ UNCHANGED <<etcdVars, workerVars, snap, todo, img, pos, ctlVars>>

(* Mutant: a lease that is not in the cache is left alone.                 *)
Missing_Skipped(n) ==
  /\ dpc[n] = "sync" /\ todo[n] # {}
  /\ Hits(n) = {}
  /\ NextLease(n)
  /\ UNCHANGED <<etcdVars, cache, workerVars, dpc, snap, img, target, dimg, ctlVars>>

(* A lease that is not in the cache: AppendCache, and when it fails the    *)
(* lease is deleted from etcd.                                             *)
Missing(n) ==
  /\ dpc[n] = "sync" /\ todo[n] # {}
  /\ Hits(n) = {}
  /\ target' = [target EXCEPT ![n] = Current(n)]
  /\ dimg' = [dimg EXCEPT ![n] = cache[n]]
  /\ dpc' = [dpc EXCEPT ![n] =
               IF OverlapsCache(cache[n], Current(n)) THEN "unlease" ELSE "syncFlash"]
  /\ UNCHANGED <<etcdVars, cache, workerVars, snap, todo, img, pos, ctlVars>>

SyncFlash(n) ==
  /\ dpc[n] = "syncFlash"
  /\ cache' = [cache EXCEPT ![n] = Flash(Append(dimg[n], target[n]))]
  /\ NextLease(n)
  /\ dpc' = [dpc EXCEPT ![n] = "sync"]
  /\ Return(n)
  /\ UNCHANGED <<etcdVars, workerVars, snap, img, ctlVars>>

(* TransDelKey: lock the key's own mutex, delete, unlock.                  *)
UnleaseLock(n) ==
  LET k == RangeKey(target[n]) IN
  /\ dpc[n] = "unlease"
  /\ k \notin DOMAIN keyLock
  /\ keyLock' = Put(keyLock, k, n)
  /\ dpc' = [dpc EXCEPT ![n] = "unleaseLocked"]
  /\ UNCHANGED <<lease, dirLock, cache, workerVars, snap, todo, img, pos, target, dimg,
                 ctlVars>>

(* An error of the Delete is ignored; it may have taken effect.            *)
UnleaseDelete(n) ==
  LET k == RangeKey(target[n]) IN
  /\ dpc[n] = "unleaseLocked"
  /\ lease' = Del(lease, k) \/ UNCHANGED lease
  /\ keyLock' = Del(keyLock, k)
  /\ NextLease(n)
  /\ dpc' = [dpc EXCEPT ![n] = "sync"]
  /\ Return(n)
  /\ UNCHANGED <<dirLock, cache, workerVars, snap, img, ctlVars>>

EndCheck(n) ==
  /\ dpc' = [dpc EXCEPT ![n] = "idle"]
  /\ snap' = [snap EXCEPT ![n] = {}]
  /\ todo' = [todo EXCEPT ![n] = {}]
  /\ img' = [img EXCEPT ![n] = << >>]
  /\ pos' = [pos EXCEPT ![n] = 0]
  /\ Return(n)

(* TransDelKey goes on when it does not get the mutex, deletes the key,    *)
(* and then panics when it closes the mutex it has not got: the daemon is  *)
(* started again.                                                          *)
UnleaseLockError(n) ==
  /\ dpc[n] = "unlease"
  /\ lease' = Del(lease, RangeKey(target[n])) \/ UNCHANGED lease
  /\ EndCheck(n)
  /\ UNCHANGED <<dirLock, keyLock, cache, workerVars, ctlVars>>

(* The second loop reads the cache again.                                  *)
Reload(n) ==
  /\ dpc[n] = "sync" /\ todo[n] = {}
  /\ img' = [img EXCEPT ![n] = cache[n]]
  /\ pos' = [pos EXCEPT ![n] = 0]
  /\ dpc' = [dpc EXCEPT ![n] = "restore"]
  /\ UNCHANGED <<etcdVars, cache, workerVars, snap, todo, target, dimg, ctlVars>>

(* The cached ranges still to come that match no lease of the snapshot.    *)
Unleased(n) ==
  {i \in (pos[n] + 1)..Len(img[n]) : \A k \in snap[n] : ~Match(img[n][i], KeyRange(k))}

CheckDone(n) ==
  /\ dpc[n] = "restore"
  /\ Unleased(n) = {}
  /\ EndCheck(n)
  /\ UNCHANGED <<etcdVars, cache, workerVars, ctlVars>>

(* TransPutKey with noExist: lock the key's own mutex, look, put.          *)
RestoreLock(n) ==
  LET i == Min(Unleased(n))
      k == RangeKey(img[n][i])
  IN
  /\ dpc[n] = "restore"
  /\ Unleased(n) # {}
  /\ k \notin DOMAIN keyLock
  /\ keyLock' = Put(keyLock, k, n)
  /\ pos' = [pos EXCEPT ![n] = i]
  /\ target' = [target EXCEPT ![n] = img[n][i]]
  /\ dpc' = [dpc EXCEPT ![n] = "restoreGet"]
  /\ UNCHANGED <<lease, dirLock, cache, workerVars, snap, todo, img, dimg, ctlVars>>

RestoreGet(n) ==
  LET k == RangeKey(target[n]) IN
  /\ dpc[n] = "restoreGet"
  /\ IF k \in DOMAIN lease
       THEN /\ keyLock' = Del(keyLock, k)
            /\ dpc' = [dpc EXCEPT ![n] = "drop"]
       ELSE /\ dpc' = [dpc EXCEPT ![n] = "restorePut"]
            /\ UNCHANGED keyLock
  /\ UNCHANGED <<lease, dirLock, cache, workerVars, snap, todo, img, pos, target, dimg,
                 ctlVars>>

RestorePut(n) ==
  LET k == RangeKey(target[n]) IN
  /\ dpc[n] = "restorePut"
  /\ lease' = Put(lease, k, n)
  /\ keyLock' = Del(keyLock, k)
  /\ dpc' = [dpc EXCEPT ![n] = "restore"]
  /\ Return(n)
  /\ UNCHANGED <<dirLock, cache, workerVars, snap, todo, img, pos, ctlVars>>

(* No mutex, or an error of etcd further down: the cached range is         *)
(* deleted, even when the Put has taken effect.                            *)
RestoreLockError(n) ==
  LET i == Min(Unleased(n)) IN
  /\ dpc[n] = "restore"
  /\ Unleased(n) # {}
  /\ pos' = [pos EXCEPT ![n] = i]
  /\ target' = [target EXCEPT ![n] = img[n][i]]
  /\ dpc' = [dpc EXCEPT ![n] = "drop"]
  /\ UNCHANGED <<etcdVars, cache, workerVars, snap, todo, img, dimg, ctlVars>>

RestoreError(n) ==
  LET k == RangeKey(target[n]) IN
  /\ dpc[n] \in {"restoreGet", "restorePut"}
  /\ \/ UNCHANGED lease
     \/ dpc[n] = "restorePut" /\ lease' = Put(lease, k, n)
  /\ keyLock' = Del(keyLock, k)
  /\ dpc' = [dpc EXCEPT ![n] = "drop"]
  /\ UNCHANGED <<dirLock, cache, workerVars, snap, todo, img, pos, target, dimg, ctlVars>>

Drop(n) ==
  /\ dpc[n] = "drop"
  /\ dimg' = [dimg EXCEPT ![n] = cache[n]]
  /\ dpc' = [dpc EXCEPT ![n] = "deleteFlash"]
  /\ UNCHANGED <<etcdVars, cache, workerVars, snap, todo, img, pos, target, ctlVars>>

(* The daemon is killed and started again.                                 *)
CrashDaemon(n) ==
  /\ n \in Mortal
  /\ dpc[n] # "idle"
  /\ EndCheck(n)
  /\ keyLock' = [k \in DOMAIN keyLock |-> IF keyLock[k] = n THEN Orphan ELSE keyLock[k]]
  /\ \/ UNCHANGED cache
     \/ /\ dpc[n] = "syncFlash"
        /\ \E s \in Torn(Append(dimg[n], target[n])) : cache' = [cache EXCEPT ![n] = s]
     \/ /\ dpc[n] = "deleteFlash"
        /\ \E s \in Torn(DropFirst(dimg[n], target[n])) : cache' = [cache EXCEPT ![n] = s]
  /\ UNCHANGED <<lease, dirLock, workerVars, ctlVars>>

KeySessionExpires(k) ==
  /\ keyLock[k] = Orphan
  /\ keyLock' = Del(keyLock, k)
  /\ UNCHANGED <<lease, dirLock, cache, workerVars, daemonVars, ctlVars>>

-----------------------------------------------------------------------------
(* The controller: handleNodeDelEvent, TransDelKeys.                       *)

NodeDeleted(n) ==
  /\ n \in Departing
  /\ cpc = "idle"
  /\ KeysOf(n) # {}
  /\ ctodo' = KeysOf(n)
  /\ cpc' = "next"
  /\ UNCHANGED <<etcdVars, cache, workerVars, daemonVars>>

NextKey == FirstKey(ctodo)

DelKeyLock ==
  /\ cpc = "next"
  /\ NextKey \notin DOMAIN keyLock
  /\ keyLock' = Put(keyLock, NextKey, Controller)
  /\ cpc' = "locked"
  /\ UNCHANGED <<lease, dirLock, cache, workerVars, daemonVars, ctodo>>

(* An error of the Delete is ignored; it may have taken effect.            *)
DelKey ==
  /\ cpc = "locked"
  /\ lease' = Del(lease, NextKey) \/ UNCHANGED lease
  /\ keyLock' = Del(keyLock, NextKey)
  /\ ctodo' = ctodo \ {NextKey}
  /\ cpc' = IF ctodo = {NextKey} THEN "idle" ELSE "next"
  /\ UNCHANGED <<dirLock, cache, workerVars, daemonVars>>

(* Without the mutex: TransDelKey deletes the key and panics.              *)
DelKeyLockError ==
  /\ cpc = "next"
  /\ lease' = Del(lease, NextKey) \/ UNCHANGED lease
  /\ ctodo' = {}
  /\ cpc' = "idle"
  /\ UNCHANGED <<dirLock, keyLock, cache, workerVars, daemonVars>>

-----------------------------------------------------------------------------
WorkerStep(w) ==
  \/ LockDir(w) \/ FindRange(w) \/ PutLease(w) \/ UnlockDir(w)
  \/ AppendLoad(w) \/ AppendFlash(w)

DaemonStep(n) ==
  \/ Snapshot(n) \/ LoadCache(n)
  \/ Found(n) \/ Clash(n) \/ Missing(n) \/ SyncFlash(n) \/ DeleteFlash(n)
  \/ UnleaseLock(n) \/ UnleaseDelete(n)
  \/ Reload(n) \/ CheckDone(n)
  \/ RestoreLock(n) \/ RestoreGet(n) \/ RestorePut(n) \/ Drop(n)

ControllerStep == DelKeyLock \/ DelKey

(* What may go wrong: errors of etcd, and processes that die.              *)
WorkerFails(w) == LockError(w) \/ ApplyError(w) \/ CrashWorker(w)

DaemonFails(n) ==
  \/ UnleaseLockError(n) \/ RestoreLockError(n) \/ RestoreError(n) \/ CrashDaemon(n)

SessionExpires == DirSessionExpires \/ \E k \in DOMAIN keyLock : KeySessionExpires(k)

Next ==
  \/ \E w \in Worker : Apply(w) \/ WorkerStep(w) \/ WorkerFails(w)
  \/ \E n \in Node : DaemonStep(n) \/ DaemonFails(n) \/ NodeDeleted(n)
  \/ ControllerStep \/ DelKeyLockError
  \/ SessionExpires

Spec == Init /\ [][Next]_vars

(* Programs that run go on running, the ticker of a daemon keeps ticking   *)
(* and etcd lets the sessions of dead clients expire.  Strong fairness,    *)
(* because the etcd mutexes are queues: whoever waits for one is served.   *)
(* Nothing makes a plugin be invoked, a process die, etcd answer with an   *)
(* error or a node depart.                                                 *)
Fairness ==
  /\ \A w \in Worker : SF_vars(WorkerStep(w))
  /\ \A n \in Node : SF_vars(DaemonStep(n))
  /\ SF_vars(ControllerStep)
  /\ WF_vars(SessionExpires)

FairSpec == Spec /\ Fairness

-----------------------------------------------------------------------------
(* The ranges node n may hand addresses out of: those in its cache, and    *)
(* those a worker of it has leased and is about to add to the cache.       *)
Adding(w) == wpc[w] \in {"leased", "append", "flash"}

Held(n) ==
  ToSet(cache[n]) \cup {grant[w] : w \in {v \in Worker : NodeOf[v] = n /\ Adding(v)}}

(* Types; every range a program holds or a cache file contains is one that *)
(* a lease key can name, so that FlashCache, which makes each range it     *)
(* writes canonical, changes none.                                         *)
TypeOK ==
  /\ lease \in [DOMAIN lease -> Node] /\ DOMAIN lease \subseteq LeaseKey
  /\ dirLock \in Worker \cup {None, Orphan}
  /\ keyLock \in [DOMAIN keyLock -> Node \cup {Controller, Orphan}]
  /\ DOMAIN keyLock \subseteq LeaseKey
  /\ cache \in [Node -> Seq(Block)]
  /\ wpc \in [Worker -> {"idle", "waiting", "locked", "found", "leased",
                         "failed", "append", "flash"}]
  /\ grant \in [Worker -> Block]
  /\ wimg \in [Worker -> Seq(Block)]
  /\ dpc \in [Node -> {"idle", "load", "sync", "syncFlash", "unlease",
                       "unleaseLocked", "restore", "restoreGet", "restorePut",
                       "drop", "deleteFlash"}]
  /\ snap \in [Node -> SUBSET LeaseKey]
  /\ todo \in [Node -> SUBSET LeaseKey]
  /\ img \in [Node -> Seq(Block)]
  /\ pos \in [Node -> Nat]
  /\ target \in [Node -> Block]
  /\ dimg \in [Node -> Seq(Block)]
  /\ cpc \in {"idle", "next", "locked"}
  /\ ctodo \in SUBSET LeaseKey

(* No two leases of the network share an address, whatever the order in    *)
(* which plugins, daemons and controller get at the table.                 *)
LeasesDisjoint ==
  \A j, k \in DOMAIN lease : j # k => Disjoint(KeyRange(j), KeyRange(k))

(* The block ipamGetFreeIPRange chose is still free, and inside the range, *)
(* at the moment IPAMApplyIPRange puts its key.                            *)
GrantFree ==
  \A w \in Worker : wpc[w] = "found" =>
    /\ Inside(grant[w], conf)
    /\ \A k \in DOMAIN lease : Disjoint(grant[w], KeyRange(k))

(* No address can be handed out by two nodes.                              *)
Exclusive ==
  \A m, n \in Node : m # n =>
    \A r \in Held(m), s \in Held(n) : Disjoint(r, s)

(* A node hands out only addresses etcd has leased to it.                  *)
HeldIsLeased ==
  \A n \in Node : \A r \in Held(n) : RangeKey(r) \in KeysOf(n)

(* The ranges in the cache of a node do not overlap, although plugins and  *)
(* daemon replace the file from copies they read earlier.                  *)
CacheDisjoint ==
  \A n \in Node : \A i, j \in 1..Len(cache[n]) :
    i # j => Disjoint(cache[n][i], cache[n][j])

(* A lease passes from one node to another only by being deleted first.    *)
NoTakeover ==
  [][\A k \in DOMAIN lease \cap DOMAIN lease' : lease'[k] = lease[k]]_vars

(* A lease is deleted by the daemon of the node it is leased to, or by the *)
(* controller for a node that left: never a lease another node has got     *)
(* since the deletion was decided.                                         *)
OnlyOwnDeleted ==
  [][\A k \in DOMAIN lease \ DOMAIN lease' :
       \/ dpc[lease[k]] \in {"unlease", "unleaseLocked"}
       \/ lease[k] \in Departing /\ cpc # "idle"]_vars

(* Whoever waits for the directory mutex gets it or dies, holders that     *)
(* crash included.                                                         *)
WaiterServed ==
  \A w \in Worker : wpc[w] = "waiting" ~> wpc[w] # "waiting"

(* Once no worker of a node is under way any more, its cache and its       *)
(* leases agree for good: what crashes left behind is repaired.            *)
WorkersDone(n) == \A w \in Worker : NodeOf[w] = n => wpc[w] = "idle"
Agrees(n) == {RangeKey(r) : r \in ToSet(cache[n])} = KeysOf(n)

CheckConverges ==
  \A n \in Daemons : <>[]WorkersDone(n) => <>[]Agrees(n)

(* The promise of LeaseTable: the keys say what is leased, and a node uses *)
(* what it holds.                                                          *)
Table == INSTANCE LeaseTable WITH
           Ranges <- Block,
           table  <- {<<KeyRange(k), lease[k]>> : k \in DOMAIN lease},
           usable <- [n \in Node |-> Held(n)]

(* Mutexes, caches, plugins that are killed and answers that are lost: the *)
(* plugins of several nodes together do nothing but grant free blocks, and *)
(* use no block before it is granted.                                      *)
ImplementsTable == Table!Spec
=============================================================================
