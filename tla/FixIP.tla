-------------------------------- MODULE FixIP ---------------------------------
(***************************************************************************)
(* Fixed addresses.  A pod that asks for them keeps its addresses of a     *)
(* network while it exists, over restarts and on whatever node: etcd has a *)
(* key for each address, and its value names the pod and which of the      *)
(* pod's addresses it is.                                                  *)
(*                                                                         *)
(* An ADD (allocateFixIP) looks for the pod's key or a free address, under *)
(* the mutex of the network's directory; DEL does nothing.  The controller *)
(* reads all keys on a ticker (CheckFixIP), asks the API server for each   *)
(* pod, and deletes a key whose pod it has found missing for delWaitTime,  *)
(* without that mutex.                                                     *)
(***************************************************************************)
EXTENDS Integers, Sequences

CONSTANTS
  Pod, Net,
  Att,              \* pods with fixed addresses, each with its network
  Num,              \* how many addresses each gets (extEnvNum)
  Addr,             \* the addresses there may be keys for
  Range,            \* the fixRange of each network: lo, hi and subnet
  Longer,           \* the networks whose names begin with the name of a network
  Rank,             \* the order of the networks' directories in etcd
  Stale,            \* what etcd may hold at the start
  Outages,          \* the API server may fail to answer
  Returns,          \* pods may come back when their keys are about to be deleted
  None, Orphan      \* nobody; a plugin that died with a mutex

Key  == Net \X Addr
Info == Pod \X (Nat \ {0})

ASSUME FixIPAssumption ==
  /\ Att \subseteq Pod \X Net
  /\ Num \in [Att -> Nat \ {0}]
  /\ Addr \subseteq Nat
  /\ Range \in [Net -> [lo : Nat, hi : Nat, subnet : Nat]]
  /\ Longer \in [Net -> SUBSET Net]
  /\ Rank \in [Net -> Nat]
  /\ Stale \subseteq [Key -> Info \cup {None}]
  /\ Outages \in BOOLEAN /\ Returns \in BOOLEAN
  /\ None \notin Info \cup Att \cup Addr
  /\ Orphan \notin Att \cup {None}

VARIABLES
  fix,              \* the keys in etcd
  dirLock,          \* the mutex of each network's directory
  pods,             \* the pods the API server has
  pc, ips, want,    \* plugin: where it is, the addresses of the attachment,
                    \*   the one it is about to put
  cpc, left,        \* controller: where it is, the keys it has not looked at,
  missing, doomed,  \*   those whose pod it did not find, those it will delete
  waiting           \* waitDelFixIPs: for how long a key's pod has been missing

pluginVars  == <<pc, ips, want>>
controlVars == <<cpc, left, missing, doomed, waiting>>
vars == <<fix, dirLock, pods, pluginVars, controlVars>>

PodOf(info) == info[1]

Init ==
  /\ fix \in Stale
  /\ dirLock = [n \in Net |-> None]
  /\ pods = {}
  /\ pc = [a \in Att |-> "down"]
  /\ ips = [a \in Att |-> << >>]
  /\ want = [a \in Att |-> None]
  /\ cpc = "idle"
  /\ left = {} /\ missing = {} /\ doomed = {}
  /\ waiting = [k \in Key |-> "no"]

-----------------------------------------------------------------------------
(* IPAMApplyFixIP: the walk over the keys, in the order etcd returns them. *)

Before(k, l) ==
  Rank[k[1]] < Rank[l[1]] \/ (k[1] = l[1] /\ k[2] < l[2])

(* The keys under the directory of the network: the prefix it is read by   *)
(* has no separator at its end.                                            *)
Scan(n) == {k \in Key : fix[k] # None /\ (k[1] = n \/ k[1] \in Longer[n])}

Inside(n, k) == Range[n].lo <= k[2] /\ k[2] <= Range[n].hi

Own(n, info) == {k \in Scan(n) : fix[k] = info}

(* The first key of its own in the range ends the walk.                    *)
Found(n, info) ==
  {k \in Own(n, info) : Inside(n, k) /\
     \A l \in Own(n, info) : Inside(n, l) => ~Before(l, k)}

(* Those out of the range that come before it are deleted.                 *)
Outside(n, info) ==
  {k \in Own(n, info) : ~Inside(n, k) /\ \A l \in Found(n, info) : Before(k, l)}

Walked(n) == {k \in Scan(n) : Inside(n, k)}

(* The first address that may be free (the variable last) behind the keys  *)
(* S: the third of the subnet, the start of the range, or the one after    *)
(* the last of S.                                                          *)
Lowest(n) == IF Range[n].lo < Range[n].subnet + 2 THEN Range[n].subnet + 2 ELSE Range[n].lo

(* Mutant: the address of the key itself is the first.                     *)
Behind_Same(n, S) ==
  IF S = {} THEN Lowest(n) ELSE (CHOOSE k \in S : \A l \in S : ~Before(k, l))[2]

Behind(n, S) ==
  IF S = {} THEN Lowest(n) ELSE (CHOOSE k \in S : \A l \in S : ~Before(k, l))[2] + 1

Free(n) ==
  {x \in Addr :
     \/ \E k \in Walked(n) :
          Behind(n, {l \in Walked(n) : Before(l, k)}) <= x /\ x < k[2]
     \/ Behind(n, Walked(n)) <= x /\ x <= Range[n].hi}

(* Mutant: a pod that comes back gets any address.                         *)
Choices_Any(n, info) == Free(n)

Choices(n, info) ==
  IF Found(n, info) # {} THEN {k[2] : k \in Found(n, info)} ELSE Free(n)

-----------------------------------------------------------------------------
(* The plugin of an attachment.                                            *)

Goto(a, l) == pc' = [pc EXCEPT ![a] = l]

(* The attachment has no addresses (any more), its keys stay.              *)
Down(a) ==
  /\ Goto(a, "down")
  /\ ips' = [ips EXCEPT ![a] = << >>]
  /\ want' = [want EXCEPT ![a] = None]

(* The address the plugin is at, and its key.                              *)
Asked(a) == <<a[1], Len(ips[a]) + 1>>
Wanted(a) == <<a[2], want[a]>>

Add(a) ==
  /\ pc[a] = "down" /\ a[1] \in pods
  /\ Goto(a, "lock")
  /\ UNCHANGED <<fix, dirLock, pods, ips, want, controlVars>>

LockDir(a) ==
  /\ pc[a] = "lock" /\ dirLock[a[2]] = None
  /\ dirLock' = [dirLock EXCEPT ![a[2]] = a]
  /\ Goto(a, "read")
  /\ UNCHANGED <<fix, pods, ips, want, controlVars>>

LockError(a) ==
  /\ pc[a] = "lock"
  /\ Down(a)
  /\ UNCHANGED <<fix, dirLock, pods, controlVars>>

(* Get, the choice, and the deletes of keys out of the range, whose errors *)
(* are not looked at.  Nobody puts or needs such a key in between.         *)
Read(a) ==
  /\ pc[a] = "read"
  /\ \E D \in SUBSET Outside(a[2], Asked(a)) :
       fix' = [k \in Key |-> IF k \in D THEN None ELSE fix[k]]
  /\ \/ \E x \in Choices(a[2], Asked(a)) :
          /\ want' = [want EXCEPT ![a] = x]
          /\ Goto(a, "put")
     \/ /\ Choices(a[2], Asked(a)) = {}
        /\ Goto(a, "close")
        /\ UNCHANGED want
  /\ UNCHANGED <<dirLock, pods, ips, controlVars>>

PutKey(a) ==
  /\ pc[a] = "put"
  /\ fix' = [fix EXCEPT ![Wanted(a)] = Asked(a)]
  /\ Goto(a, "close")
  /\ UNCHANGED <<dirLock, pods, ips, want, controlVars>>

(* The put fails, or took effect although the answer is lost.              *)
PutError(a) ==
  /\ pc[a] = "put"
  /\ fix' = [fix EXCEPT ![Wanted(a)] = Asked(a)] \/ UNCHANGED fix
  /\ want' = [want EXCEPT ![a] = None]
  /\ Goto(a, "close")
  /\ UNCHANGED <<dirLock, pods, ips, controlVars>>

(* The deferred Close of the mutex.  One address less to ask for, or the   *)
(* ADD fails; the keys of the addresses before it stay.                    *)
Got(a) ==
  /\ ips' = [ips EXCEPT ![a] = Append(@, want[a])]
  /\ want' = [want EXCEPT ![a] = None]
  /\ Goto(a, IF Len(ips[a]) + 1 = Num[a] THEN "up" ELSE "lock")

Close(a) ==
  /\ pc[a] = "close"
  /\ dirLock' = [dirLock EXCEPT ![a[2]] = None]
  /\ IF want[a] = None THEN Down(a) ELSE Got(a)
  /\ UNCHANGED <<fix, pods, controlVars>>

(* Mutant: the mutex of a dead plugin is free at once, and of a plugin     *)
(* that waits too.                                                         *)
Crash_Unlocks(a) ==
  /\ pc[a] \in {"lock", "read", "put", "close"}
  /\ dirLock' = [dirLock EXCEPT ![a[2]] = None]
  /\ Down(a)
  /\ UNCHANGED <<fix, pods, controlVars>>

(* The plugin is killed, or panics because the Get has failed and its      *)
(* error is not looked at.  Its session ends, and with it the mutex: some  *)
(* time later if it was killed.                                            *)
Crash(a) ==
  /\ pc[a] \in {"lock", "read", "put", "close"}
  /\ dirLock' = IF dirLock[a[2]] = a THEN [dirLock EXCEPT ![a[2]] = Orphan] ELSE dirLock
  /\ Down(a)
  /\ UNCHANGED <<fix, pods, controlVars>>

SessionExpires(n) ==
  /\ dirLock[n] = Orphan
  /\ dirLock' = [dirLock EXCEPT ![n] = None]
  /\ UNCHANGED <<fix, pods, pluginVars, controlVars>>

(* DEL leaves the keys alone: the sandbox of a pod goes, the pod may stay. *)
Del(a) ==
  /\ pc[a] = "up"
  /\ Down(a)
  /\ UNCHANGED <<fix, dirLock, pods, controlVars>>

-----------------------------------------------------------------------------
(* CheckFixIP                                                              *)

CheckFixIP ==
  /\ cpc = "idle"
  /\ cpc' = "ask"
  /\ left' = {<<k, fix[k]>> : k \in {k \in Key : fix[k] # None}}
  /\ UNCHANGED <<fix, dirLock, pods, pluginVars, missing, doomed, waiting>>

(* The keys are looked at in the order etcd returned them.                 *)
IsNext(e) == e \in left /\ \A f \in left : ~Before(f[1], e[1])

PodFound(e) ==
  /\ IsNext(e) /\ PodOf(e[2]) \in pods
  /\ left' = left \ {e}
  /\ UNCHANGED <<fix, dirLock, pods, pluginVars, cpc, missing, doomed, waiting>>

(* Mutant: the time of the check before is overwritten.                    *)
PodMissing_Reset(e) ==
  /\ IsNext(e)
  /\ PodOf(e[2]) \notin pods \/ Outages
  /\ left' = left \ {e}
  /\ missing' = missing \cup {e[1]}
  /\ waiting' = [waiting EXCEPT ![e[1]] = "short"]
  /\ UNCHANGED <<fix, dirLock, pods, pluginVars, cpc, doomed>>

(* Any error of the API server counts as a pod that is not there.          *)
PodMissing(e) ==
  /\ IsNext(e)
  /\ PodOf(e[2]) \notin pods \/ Outages
  /\ left' = left \ {e}
  /\ missing' = missing \cup {e[1]}
  /\ doomed' = IF waiting[e[1]] = "long" THEN doomed \cup {e[1]} ELSE doomed
  /\ waiting' = [waiting EXCEPT ![e[1]] = IF @ = "no" THEN "short" ELSE @]
  /\ UNCHANGED <<fix, dirLock, pods, pluginVars, cpc>>

EndAsk ==
  /\ cpc = "ask" /\ left = {}
  /\ waiting' = [k \in Key |-> IF k \in missing \ doomed THEN waiting[k] ELSE "no"]
  /\ missing' = {}
  /\ cpc' = IF doomed = {} THEN "idle" ELSE "delete"
  /\ UNCHANGED <<fix, dirLock, pods, pluginVars, left, doomed>>

(* TransDelKeys.  The mutex it takes is named after the address, and only  *)
(* the controller takes it.                                                *)
ToDelete(k) == cpc = "delete" /\ k \in doomed /\ \A l \in doomed : ~Before(l, k)

DelKey(k) ==
  /\ ToDelete(k)
  /\ fix' = [fix EXCEPT ![k] = None]
  /\ doomed' = doomed \ {k}
  /\ cpc' = IF doomed = {k} THEN "idle" ELSE "delete"
  /\ UNCHANGED <<dirLock, pods, pluginVars, left, missing, waiting>>

(* The delete fails and is not tried again before the key has been waiting *)
(* once more.                                                              *)
DelKeyError(k) ==
  /\ ToDelete(k)
  /\ doomed' = doomed \ {k}
  /\ cpc' = IF doomed = {k} THEN "idle" ELSE "delete"
  /\ UNCHANGED <<fix, dirLock, pods, pluginVars, left, missing, waiting>>

(* The controller starts again; it has forgotten who was missing.          *)
Forget ==
  /\ cpc' = "idle"
  /\ left' = {} /\ missing' = {} /\ doomed' = {}
  /\ waiting' = [k \in Key |-> "no"]

Restart ==
  /\ Forget
  /\ UNCHANGED <<fix, dirLock, pods, pluginVars>>

(* TransDelKey does not get the mutex, deletes the key and panics.         *)
DelKeyLockError(k) ==
  /\ ToDelete(k)
  /\ fix' = [fix EXCEPT ![k] = None]
  /\ Forget
  /\ UNCHANGED <<dirLock, pods, pluginVars>>

(* delWaitTime goes by since the pod of a key was first found missing.     *)
TimePasses(k) ==
  /\ waiting[k] = "short"
  /\ waiting' = [waiting EXCEPT ![k] = "long"]
  /\ UNCHANGED <<fix, dirLock, pods, pluginVars, cpc, left, missing, doomed>>

-----------------------------------------------------------------------------
(* Pods.  One that goes has no plugin and no sandbox left.                 *)

PodGoes(p) ==
  /\ p \in pods
  /\ \A a \in Att : a[1] = p => pc[a] = "down"
  /\ pods' = pods \ {p}
  /\ UNCHANGED <<fix, dirLock, pluginVars, controlVars>>

(* The check under way will delete a key of the pod.                       *)
Condemned(p) == \E k \in doomed : fix[k] # None /\ PodOf(fix[k]) = p

PodComes(p) ==
  /\ p \notin pods
  /\ Returns \/ ~Condemned(p)
  /\ pods' = pods \cup {p}
  /\ UNCHANGED <<fix, dirLock, pluginVars, controlVars>>

ControlStep ==
  \/ CheckFixIP
  \/ \E e \in left : PodFound(e) \/ PodMissing(e)
  \/ EndAsk
  \/ \E k \in Key : DelKey(k)

ControlFault == Restart \/ \E k \in Key : DelKeyError(k) \/ DelKeyLockError(k)

Next ==
  \/ \E a \in Att :
       \/ Add(a) \/ LockDir(a) \/ Read(a) \/ PutKey(a) \/ Close(a) \/ Del(a)
       \/ LockError(a) \/ PutError(a) \/ Crash(a)
  \/ \E n \in Net : SessionExpires(n)
  \/ ControlStep \/ ControlFault
  \/ \E k \in Key : TimePasses(k)
  \/ \E p \in Pod : PodGoes(p) \/ PodComes(p)

Spec == Init /\ [][Next]_vars

(* The ticker goes on, time passes, and the controller is not restarted,   *)
(* nor its deletes lost, for ever.                                         *)
FairSpec ==
  /\ Spec
  /\ WF_vars(ControlStep)
  /\ \A k \in Key : WF_vars(TimePasses(k))
  /\ <>[][~ControlFault]_vars

-----------------------------------------------------------------------------
TypeOK ==
  /\ fix \in [Key -> Info \cup {None}]
  /\ dirLock \in [Net -> Att \cup {None, Orphan}]
  /\ pods \subseteq Pod
  /\ pc \in [Att -> {"down", "lock", "read", "put", "close", "up"}]
  /\ ips \in [Att -> Seq(Addr)]
  /\ \A a \in Att : Len(ips[a]) <= Num[a] /\ (Len(ips[a]) = Num[a] <=> pc[a] = "up")
  /\ want \in [Att -> Addr \cup {None}]
  /\ \A a \in Att : pc[a] = "put" => want[a] # None
  /\ \A a \in Att : dirLock[a[2]] = a <=> pc[a] \in {"read", "put", "close"}
  /\ cpc \in {"idle", "ask", "delete"}
  /\ left \subseteq Key \X Info
  /\ missing \subseteq Key /\ doomed \subseteq Key
  /\ waiting \in [Key -> {"no", "short", "long"}]

(* No two attachments to a network have an address in common, and none has *)
(* one twice: not while the controller deletes keys without the mutex, nor *)
(* after plugins that died and answers of etcd that were lost.             *)
Exclusive ==
  \A a, b \in Att : a[2] = b[2] =>
    \A i \in 1..Len(ips[a]), j \in 1..Len(ips[b]) :
      ips[a][i] = ips[b][j] => a = b /\ i = j

(* In the range there is at most one key for each address of a pod: what a *)
(* pod finds when it comes back is what it had, however its ADDs ended.    *)
OneKeyIn(f) ==
  \A k, l \in Key :
    /\ k[1] = l[1] /\ Inside(k[1], k) /\ Inside(l[1], l)
    /\ f[k] = f[l] /\ f[k] # None
    => k = l

OneKey == OneKeyIn(fix)

(* The addresses of a pod that is gone for good become free.               *)
Freed ==
  \A p \in Pod : (<>[](p \notin pods)) =>
    <>(\A k \in Key : fix[k] = None \/ PodOf(fix[k]) # p)
=============================================================================
