------------------------------ MODULE LocalIPAM ------------------------------
(***************************************************************************)
(* The addresses of one network on one node.  The IPAM plugin keeps a file *)
(* per reserved address, named after it and holding its owner, beside the  *)
(* address it reserved last and the cache of blocks leased to the node     *)
(* (multus-ipam/backend/disk).  What changes them:                         *)
(*   - ADD: reserve addresses for an attachment, an interface of a         *)
(*     container; lease blocks when they run out; undo on failure; with    *)
(*     allocGW also look for, clean up and allocate the gateway's address; *)
(*   - DEL: release the addresses of an attachment;                        *)
(*   - the daemon's clean-up: delete the files of containers that docker   *)
(*     does not list (dockercli).                                          *)
(* The cached blocks are taken to lie inside the range of the network: it  *)
(* has not been reconfigured.  Leasing of blocks is RangeLease; here etcd  *)
(* grants any block it has not granted yet.                                *)
(***************************************************************************)
EXTENDS RangeIter, FiniteSets, SequencesExt

CONSTANTS
  Att,              \* attachments; one ADD and any number of DELs each
  Container, Cid,   \* containers, and the container of each attachment
  IfPrefix,         \* <<a, b>>: a's interface name is a prefix of b's
  Blocks,           \* what etcd may grant: disjoint ranges
  Cached,           \* the cache at the start, of blocks that are all different
  Filed,            \* what address files there may be, none of containers still to run
  Num,              \* addresses per attachment (extEnvNum)
  RangeSets,        \* length of `ranges'; only its first range set is used
  AllocGW,          \* allocGW
  Mortal,           \* the attachments whose ADD or DEL may be killed
  Errors,           \* whether writing last_reserved_ip, or asking docker, may fail
  GatewayId,        \* "gateway", the owner of gateways
  None              \* no process, no container

ASSUME ConstantsAssumption ==
  /\ Cid \in [Att -> Container]
  /\ IfPrefix \subseteq Att \X Att
  /\ Num \in Nat \ {0} /\ RangeSets \in Nat \ {0}
  /\ Mortal \subseteq Att
  /\ AllocGW \in BOOLEAN /\ Errors \in BOOLEAN
  /\ GatewayId \notin Container \cup Att /\ None \notin Container \cup Att \cup {GatewayId}
  /\ \A b \in Blocks : b.lo \in Nat /\ b.hi \in Nat /\ b.lo <= b.hi /\ NoIP \notin b.lo..b.hi
  /\ \A b, c \in Blocks : b # c => b.hi < c.lo \/ c.hi < b.lo
  /\ Cached \in Seq(Blocks)
  /\ \A i, j \in DOMAIN Cached : Cached[i] = Cached[j] => i = j
  /\ \A f \in Filed : \A ip \in DOMAIN f :
       /\ ip \in Nat /\ ip # NoIP
       /\ f[ip].cid \in Container \cup {GatewayId, None}
       /\ \A a \in Att : f[ip].cid # Cid[a]

VARIABLES
  file,             \* the address files: their owner, of each address reserved
  last,             \* last_reserved_ip
  lock,             \* who holds the file lock
  cache,            \* rangeset_cache, a sequence of ranges
  granted,          \* the blocks etcd has leased to this node
  running,          \* the containers docker lists
  phase,            \* how far each attachment has got
  ips, gw,          \* the result of its ADD: addresses, gateway
  job,              \* the plugin at work for it
  gc                \* the clean-up of the daemon

vars == <<file, last, lock, cache, granted, running, phase, ips, gw, job, gc>>

(* The local variables of a plugin.  who: for whom allocateIP works; rss:  *)
(* the range set it formed; rs, it: the range set searched and the         *)
(* iterator; tries: blocks asked for; blk, img: the new block, the cache   *)
(* AppendCache has read; got: addresses reserved so far; gws: redundant    *)
(* gateways; left: releases still to do.                                   *)
Idle ==
  [pc |-> "idle", who |-> None, rss |-> << >>, rs |-> << >>,
   it |-> [idx |-> 1, cur |-> NoIP, startIP |-> NoIP, startRange |-> 1],
   tries |-> 0, blk |-> [lo |-> 0, hi |-> 0], img |-> << >>, got |-> << >>,
   gws |-> {}, left |-> 0]

At(a, pc) == job[a].pc = pc

-----------------------------------------------------------------------------
(* The address files.                                                      *)

Owner(cid, ifn, sub) == [cid |-> cid, ifn |-> ifn, sub |-> sub]

(* A file whose writer died before it wrote the owner.                     *)
Nobody == Owner(None, None, 0)

OfContainer(cid) == {ip \in DOMAIN file : file[ip].cid = cid}

(* What ReleaseByKey matches: the text "<container>\r\n<interface>" is     *)
(* a prefix of the file, so a longer interface name matches as well.       *)
OfInterface(cid, ifn) ==
  {ip \in OfContainer(cid) : file[ip].ifn = ifn \/ <<ifn, file[ip].ifn>> \in IfPrefix}

(* ReleaseByID: files with no interface were written by earlier versions,  *)
(* so a release that finds nothing goes by the container alone.            *)
ByID(cid, ifn) ==
  IF OfInterface(cid, ifn) # {} THEN OfInterface(cid, ifn) ELSE OfContainer(cid)

Unlink(S) == file' = [ip \in DOMAIN file \ S |-> file[ip]]

(* Whom an allocateIP reserves for.                                        *)
OwnerCid(a) == IF job[a].who = GatewayId THEN GatewayId ELSE Cid[a]
OwnerIf(a)  == IF job[a].who = GatewayId THEN GatewayId ELSE a

Init ==
  /\ file \in Filed
  /\ last = NoIP
  /\ lock = None
  /\ cache = Cached
  /\ granted = ToSet(Cached)
  /\ running = {}
  /\ phase = [a \in Att |-> "new"]
  /\ ips = [a \in Att |-> << >>]
  /\ gw = [a \in Att |-> NoIP]
  /\ job = [a \in Att |-> Idle]
  /\ gc = [pc |-> "idle", todo |-> {}, ip |-> NoIP, cid |-> None]

-----------------------------------------------------------------------------
(* ADD: cmdAdd and allocateIP.                                             *)

Add(a) ==
  /\ phase[a] = "new" /\ Cid[a] \in running
  /\ phase' = [phase EXCEPT ![a] = "adding"]
  /\ job' = [job EXCEPT ![a].pc = "form", ![a].who = a]
  /\ UNCHANGED <<file, last, lock, cache, granted, running, ips, gw, gc>>

(* formRangeSets.                                                          *)
Form(a) ==
  /\ At(a, "form") /\ lock = None
  /\ job' = [job EXCEPT ![a].rss = cache, ![a].rs = cache, ![a].pc = "get",
                        ![a].tries = 0, ![a].got = << >>]
  /\ UNCHANGED <<file, last, lock, cache, granted, running, phase, ips, gw, gc>>

(* No cached block: there is nothing to search.                            *)
NothingCached(a) ==
  /\ At(a, "get") /\ job[a].rs = << >>
  /\ job' = [job EXCEPT ![a].pc = "apply"]
  /\ UNCHANGED <<file, last, lock, cache, granted, running, phase, ips, gw, gc>>

(* Mutant: no look for an address the owner has already.                   *)
Duplicate_Never(a) == FALSE

(* IPAllocator.Get takes the file lock for the whole search.  It fails     *)
(* when its owner has an address of the range set already.                 *)
Duplicate(a) ==
  \E ip \in DOMAIN file : /\ file[ip] = Owner(OwnerCid(a), OwnerIf(a), Len(job[a].got) + 1)
                          /\ Has(job[a].rs, ip)

Get(a) ==
  /\ At(a, "get") /\ job[a].rs # << >> /\ lock = None
  /\ IF Duplicate(a)
       THEN /\ job' = [job EXCEPT ![a].pc = "fail", ![a].left = Len(job[a].got)]
            /\ UNCHANGED lock
       ELSE /\ lock' = a
            /\ job' = [job EXCEPT ![a].pc = "search", ![a].it = GetIter(job[a].rs, last)]
  /\ UNCHANGED <<file, last, cache, granted, running, phase, ips, gw, gc>>

Candidate(a) == Moved(job[a].rs, job[a].it).cur

(* Next returns an address, or skips one.                                  *)
Offered(a) ==
  /\ At(a, "search")
  /\ ~Looped(job[a].rs, job[a].it)
  /\ ~Skipped(job[a].rs, job[a].it)

Skip(a) ==
  /\ At(a, "search")
  /\ ~Looped(job[a].rs, job[a].it)
  /\ Skipped(job[a].rs, job[a].it) \/ Candidate(a) \in DOMAIN file
  /\ job' = [job EXCEPT ![a].it = Moved(job[a].rs, job[a].it)]
  /\ UNCHANGED <<file, last, lock, cache, granted, running, phase, ips, gw, gc>>

(* Mutant: Reserve opens a file that exists.                               *)
Reserve_NoExcl(a) ==
  /\ Offered(a)
  /\ file' = [ip \in DOMAIN file \cup {Candidate(a)} |->
                IF ip = Candidate(a)
                  THEN Owner(OwnerCid(a), OwnerIf(a), Len(job[a].got) + 1)
                  ELSE file[ip]]
  /\ last' = Candidate(a)
  /\ lock' = None
  /\ job' = [job EXCEPT ![a].got = Append(@, Candidate(a)), ![a].pc = "got"]
  /\ UNCHANGED <<cache, granted, running, phase, ips, gw, gc>>

(* A file is created for the address, unless there is one.                 *)
Create(a, owner) ==
  /\ Offered(a)
  /\ Candidate(a) \notin DOMAIN file
  /\ file' = [ip \in DOMAIN file \cup {Candidate(a)} |->
                IF ip = Candidate(a) THEN owner ELSE file[ip]]

NewOwner(a) == Owner(OwnerCid(a), OwnerIf(a), Len(job[a].got) + 1)

Reserve(a) ==
  /\ Create(a, NewOwner(a))
  /\ last' = Candidate(a)
  /\ lock' = None
  /\ job' = [job EXCEPT ![a].got = Append(@, Candidate(a)), ![a].pc = "got"]
  /\ UNCHANGED <<cache, granted, running, phase, ips, gw, gc>>

(* last_reserved_ip cannot be written: an error, and the file stays.       *)
ReserveError(a) ==
  /\ Errors
  /\ Create(a, NewOwner(a))
  /\ lock' = None
  /\ job' = [job EXCEPT ![a].pc = "fail", ![a].left = Len(job[a].got)]
  /\ UNCHANGED <<last, cache, granted, running, phase, ips, gw, gc>>

(* Mutant: the file lock is not released on this path.                     *)
Exhausted_Locked(a) ==
  /\ At(a, "search")
  /\ Looped(job[a].rs, job[a].it)
  /\ job' = [job EXCEPT ![a].pc = "apply"]
  /\ UNCHANGED <<file, last, lock, cache, granted, running, phase, ips, gw, gc>>

(* The search gives up.                                                    *)
Exhausted(a) ==
  /\ At(a, "search")
  /\ Looped(job[a].rs, job[a].it)
  /\ lock' = None
  /\ job' = [job EXCEPT ![a].pc = "apply"]
  /\ UNCHANGED <<file, last, cache, granted, running, phase, ips, gw, gc>>

(* No free address: a new block, three times at most (IPAMApplyIPRange).   *)
ApplyBlock(a) ==
  /\ At(a, "apply") /\ job[a].tries < 3
  /\ \E b \in Blocks \ granted :
       /\ granted' = granted \cup {b}
       /\ job' = [job EXCEPT ![a].blk = b, ![a].tries = @ + 1, ![a].pc = "append"]
  /\ UNCHANGED <<file, last, lock, cache, running, phase, ips, gw, gc>>

(* The tries are used up, or etcd has no block or cannot be asked.         *)
NoBlock(a) ==
  /\ At(a, "apply")
  /\ job' = [job EXCEPT ![a].pc = "fail", ![a].left = Len(job[a].got)]
  /\ UNCHANGED <<file, last, lock, cache, granted, running, phase, ips, gw, gc>>

(* AppendCache, in two sections under the lock; then Get from the new      *)
(* block alone.  etcd grants disjoint blocks: none overlaps the cache.     *)
AppendLoad(a) ==
  /\ At(a, "append") /\ lock = None
  /\ job' = [job EXCEPT ![a].img = cache, ![a].pc = "flash"]
  /\ UNCHANGED <<file, last, lock, cache, granted, running, phase, ips, gw, gc>>

AppendFlash(a) ==
  /\ At(a, "flash") /\ lock = None
  /\ cache' = Append(job[a].img, job[a].blk)
  /\ job' = [job EXCEPT ![a].rs = <<job[a].blk>>, ![a].img = << >>, ![a].pc = "get"]
  /\ UNCHANGED <<file, last, lock, granted, running, phase, ips, gw, gc>>

(* The next address is searched for in the range set formed at the start.  *)
NextAddress(a) ==
  /\ At(a, "got") /\ Len(job[a].got) < Num
  /\ job' = [job EXCEPT ![a].rs = job[a].rss, ![a].tries = 0, ![a].pc = "get"]
  /\ UNCHANGED <<file, last, lock, cache, granted, running, phase, ips, gw, gc>>

(* Mutant: the addresses reserved before the failure are kept.             *)
RollBack_None(a) ==
  /\ At(a, "fail") /\ job[a].left > 0 /\ lock = None
  /\ job' = [job EXCEPT ![a].left = @ - 1]
  /\ UNCHANGED <<file, last, lock, cache, granted, running, phase, ips, gw, gc>>

(* On failure one release for every address reserved so far.               *)
RollBack(a) ==
  /\ At(a, "fail") /\ job[a].left > 0 /\ lock = None
  /\ Unlink(ByID(OwnerCid(a), OwnerIf(a)))
  /\ job' = [job EXCEPT ![a].left = @ - 1]
  /\ UNCHANGED <<last, lock, cache, granted, running, phase, ips, gw, gc>>

(* The plugin ends, with an error or a result.                             *)
AddFails(a) ==
  /\ At(a, "fail") /\ job[a].left = 0 /\ job[a].who = a
  /\ phase' = [phase EXCEPT ![a] = "failed"]
  /\ job' = [job EXCEPT ![a] = Idle]
  /\ UNCHANGED <<file, last, lock, cache, granted, running, ips, gw, gc>>

AddDone(a) ==
  /\ \/ At(a, "got") /\ job[a].who = a /\ ~AllocGW /\ Len(job[a].got) = Num
        /\ ips' = [ips EXCEPT ![a] = job[a].got]
        /\ UNCHANGED gw
     \/ At(a, "gw") /\ job[a].gws = {} /\ gw[a] # NoIP
        /\ UNCHANGED <<ips, gw>>
     \/ At(a, "got") /\ job[a].who = GatewayId /\ Len(job[a].got) = Num
        /\ gw' = [gw EXCEPT ![a] = Head(job[a].got)]
        /\ UNCHANGED ips
     \/ At(a, "fail") /\ job[a].left = 0 /\ job[a].who = GatewayId
        /\ UNCHANGED <<ips, gw>>
  /\ phase' = [phase EXCEPT ![a] = "up"]
  /\ job' = [job EXCEPT ![a] = Idle]
  /\ UNCHANGED <<file, last, lock, cache, granted, running, gc>>

-----------------------------------------------------------------------------
(* The gateway, when allocGW is set.  GetByID and Release take no lock;    *)
(* the first address found is the gateway, in the order of file names.     *)

(* The address whose file GetByID comes to first.                          *)
First(S) == CHOOSE ip \in S : \A other \in S : ip <= other

LookForGW(a) ==
  /\ At(a, "got") /\ job[a].who = a /\ AllocGW /\ Len(job[a].got) = Num
  /\ LET gws == OfContainer(GatewayId)
     IN  IF gws = {}
           THEN /\ job' = [job EXCEPT ![a].pc = "gw"]
                /\ UNCHANGED gw
           ELSE /\ job' = [job EXCEPT ![a].pc = "gw", ![a].gws = gws \ {First(gws)}]
                /\ gw' = [gw EXCEPT ![a] = First(gws)]
  /\ ips' = [ips EXCEPT ![a] = job[a].got]
  /\ UNCHANGED <<file, last, lock, cache, granted, running, phase, gc>>

ReleaseRedundant(a) ==
  /\ At(a, "gw") /\ job[a].gws # {}
  /\ Unlink({First(job[a].gws)})
  /\ job' = [job EXCEPT ![a].gws = @ \ {First(@)}]
  /\ UNCHANGED <<last, lock, cache, granted, running, phase, ips, gw, gc>>

AllocateGW(a) ==
  /\ At(a, "gw") /\ job[a].gws = {} /\ gw[a] = NoIP
  /\ job' = [job EXCEPT ![a].who = GatewayId, ![a].pc = "form"]
  /\ UNCHANGED <<file, last, lock, cache, granted, running, phase, ips, gw, gc>>

-----------------------------------------------------------------------------
(* DEL: a release for every range set of the configuration.  The runtime   *)
(* asks for it when the pod is torn down, and again when it does not hear  *)
(* of the end of the first.                                                *)

Delete(a) ==
  /\ phase[a] \in {"up", "failed", "killed", "deleted"}
  /\ phase' = [phase EXCEPT ![a] = "deleting"]
  /\ job' = [job EXCEPT ![a].pc = "release", ![a].left = RangeSets]
  /\ UNCHANGED <<file, last, lock, cache, granted, running, ips, gw, gc>>

Release(a) ==
  /\ At(a, "release") /\ job[a].left > 0 /\ lock = None
  /\ Unlink(ByID(Cid[a], a))
  /\ job' = [job EXCEPT ![a].left = @ - 1]
  /\ UNCHANGED <<last, lock, cache, granted, running, phase, ips, gw, gc>>

DelDone(a) ==
  /\ At(a, "release") /\ job[a].left = 0
  /\ phase' = [phase EXCEPT ![a] = "deleted"]
  /\ job' = [job EXCEPT ![a] = Idle]
  /\ UNCHANGED <<file, last, lock, cache, granted, running, ips, gw, gc>>

(* The plugin is killed: its lock is gone, what it wrote stays.            *)
Kill(a) ==
  /\ a \in Mortal /\ ~At(a, "idle")
  /\ phase' = [phase EXCEPT ![a] = "killed"]
  /\ job' = [job EXCEPT ![a] = Idle]
  /\ lock' = IF lock = a THEN None ELSE lock
  /\ \/ UNCHANGED <<file, cache>>
     \/ \E owner \in {NewOwner(a), Nobody} : Create(a, owner) /\ UNCHANGED cache
     \/ /\ At(a, "flash") /\ lock = None
        /\ \E i \in 0..Len(job[a].img) : cache' = SubSeq(job[a].img, 1, i)
        /\ UNCHANGED file
  /\ UNCHANGED <<last, granted, running, ips, gw, gc>>

-----------------------------------------------------------------------------
(* Containers run before their first ADD, and do not run again once they   *)
(* have stopped.                                                           *)
Start(c) ==
  /\ c \notin running
  /\ \A a \in Att : Cid[a] = c => phase[a] = "new"
  /\ running' = running \cup {c}
  /\ UNCHANGED <<file, last, lock, cache, granted, phase, ips, gw, job, gc>>

Stop(c) ==
  /\ c \in running
  /\ running' = running \ {c}
  /\ phase' = [a \in Att |-> IF Cid[a] = c /\ phase[a] = "new" THEN "deleted" ELSE phase[a]]
  /\ UNCHANGED <<file, last, lock, cache, granted, ips, gw, job, gc>>

(* The clean-up of the daemon, IPAMCheckLocalIPs: read all files without   *)
(* the lock, ask docker for each, and look again under the lock.           *)
ListFiles ==
  /\ gc.pc = "idle"
  /\ gc' = [gc EXCEPT !.pc = "next",
              !.todo = {e \in {<<ip, file[ip].cid>> : ip \in DOMAIN file} :
                          e[2] \notin {GatewayId, None}}]
  /\ UNCHANGED <<file, last, lock, cache, granted, running, phase, ips, gw, job>>

AskDocker ==
  /\ gc.pc = "next" /\ gc.todo # {}
  /\ \E e \in gc.todo :
       gc' = IF e[2] \in running
               THEN [gc EXCEPT !.todo = @ \ {e}]
               ELSE [gc EXCEPT !.todo = @ \ {e}, !.pc = "remove", !.ip = e[1], !.cid = e[2]]
  /\ UNCHANGED <<file, last, lock, cache, granted, running, phase, ips, gw, job>>

(* Mutant: the file is removed whoever owns it by now.                     *)
RemoveFile_Unchecked ==
  /\ gc.pc = "remove" /\ lock = None
  /\ Unlink({gc.ip})
  /\ gc' = [gc EXCEPT !.pc = "next", !.ip = NoIP, !.cid = None]
  /\ UNCHANGED <<last, lock, cache, granted, running, phase, ips, gw, job>>

(* Mutant: the owner read again is compared with its line end.             *)
RemoveFile_Never ==
  /\ gc.pc = "remove" /\ lock = None
  /\ gc' = [gc EXCEPT !.pc = "next", !.ip = NoIP, !.cid = None]
  /\ UNCHANGED <<file, last, lock, cache, granted, running, phase, ips, gw, job>>

RemoveFile ==
  /\ gc.pc = "remove" /\ lock = None
  /\ Unlink({gc.ip} \cap OfContainer(gc.cid))
  /\ gc' = [gc EXCEPT !.pc = "next", !.ip = NoIP, !.cid = None]
  /\ UNCHANGED <<last, lock, cache, granted, running, phase, ips, gw, job>>

(* docker does not answer: the file is passed over.                        *)
DockerError ==
  /\ Errors
  /\ gc.pc = "next"
  /\ \E e \in gc.todo : gc' = [gc EXCEPT !.todo = @ \ {e}]
  /\ UNCHANGED <<file, last, lock, cache, granted, running, phase, ips, gw, job>>

CleanUpDone ==
  /\ gc.pc = "next" /\ gc.todo = {}
  /\ gc' = [gc EXCEPT !.pc = "idle"]
  /\ UNCHANGED <<file, last, lock, cache, granted, running, phase, ips, gw, job>>

-----------------------------------------------------------------------------
AddStep(a) ==
  \/ Form(a) \/ NothingCached(a) \/ Get(a) \/ Skip(a) \/ Reserve(a) \/ Exhausted(a)
  \/ ApplyBlock(a) \/ NoBlock(a) \/ AppendLoad(a) \/ AppendFlash(a) \/ NextAddress(a)
  \/ RollBack(a) \/ AddFails(a) \/ AddDone(a)
  \/ LookForGW(a) \/ ReleaseRedundant(a) \/ AllocateGW(a)

DelStep(a) == Release(a) \/ DelDone(a)

CleanUp == ListFiles \/ AskDocker \/ RemoveFile \/ CleanUpDone

Next ==
  \/ \E a \in Att : \/ Add(a) \/ AddStep(a) \/ ReserveError(a) \/ Kill(a)
                   \/ Delete(a) \/ DelStep(a)
  \/ \E c \in Container : Start(c) \/ Stop(c)
  \/ CleanUp \/ DockerError

Spec == Init /\ [][Next]_vars

(* A plugin that runs goes on running, and the daemon cleans up again and  *)
(* again; flock serves who waits, and docker answers in the end.  Nothing  *)
(* makes the runtime call, kill or stop anything.                          *)
Fairness ==
  /\ \A a \in Att : SF_vars(AddStep(a)) /\ SF_vars(DelStep(a))
  /\ SF_vars(CleanUp)
  /\ <>[][~DockerError]_vars

FairSpec == Spec /\ Fairness

-----------------------------------------------------------------------------
InUse(a) == phase[a] = "up" /\ Cid[a] \in running

(* The addresses of the blocks.                                            *)
Addr == UNION {b.lo..b.hi : b \in Blocks}

(* Every variable keeps its type, and the file lock is held during a       *)
(* search and at no other time: allocator.Get releases it on every path.   *)
TypeOK ==
  /\ DOMAIN file \subseteq Addr \cup UNION {DOMAIN f : f \in Filed}
  /\ \A ip \in DOMAIN file : file[ip].cid \in Container \cup {GatewayId, None}
  /\ last \in Addr \cup {NoIP}
  /\ lock \in Att \cup {None}
  /\ cache \in Seq(Blocks) /\ granted \subseteq Blocks
  /\ running \subseteq Container
  /\ phase \in [Att -> {"new", "adding", "up", "failed", "killed", "deleting", "deleted"}]
  /\ \A a \in Att : lock = a <=> At(a, "search")

(* An address that an attachment was given stays reserved for it as long   *)
(* as its container runs and no DEL was asked for, whatever other ADDs,    *)
(* DELs, roll-backs and the clean-up do; so no two attachments share one.  *)
InUseReserved ==
  \A a \in Att : InUse(a) =>
    \A i \in 1..Len(ips[a]) :
      /\ ips[a][i] \in DOMAIN file
      /\ file[ips[a][i]] = Owner(Cid[a], a, i)

(* An ADD that fails leaves no address reserved for its attachment:        *)
(* allocateIP releases what it has reserved.                               *)
FailedKeepsNone ==
  \A a \in Att : phase[a] = "failed" =>
    \A ip \in DOMAIN file : ~(file[ip].cid = Cid[a] /\ file[ip].ifn = a)

(* A search that gives up has met every address of its range set: each has *)
(* an owner, or is the gateway or one of the `reserves'.                   *)
SearchComplete ==
  [][\A a \in Att : Exhausted(a) =>
       Addresses(job[a].rs) \subseteq DOMAIN file \cup {Gateway} \cup Reserves]_vars

(* Round robin (GetIter): the address reserved last is reserved again only *)
(* when every other address of the range set is taken.                     *)
RoundRobin ==
  [][\A a \in Att : Reserve(a) /\ Candidate(a) = last =>
       \A ip \in Addresses(job[a].rs) \ {last, Gateway} : ip \in DOMAIN file]_vars

(* The `reserves' of the configuration are given to nobody: Get refuses    *)
(* one that is asked for by name.                                          *)
ReservesRespected == DOMAIN file \cap Reserves = {}

(* A search for a free address, which holds the file lock, ends            *)
(* (RangeIter.Next).                                                       *)
SearchEnds == \A a \in Att : At(a, "search") ~> ~At(a, "search")

(* The addresses of a container that has stopped are free again in the     *)
(* end, also when the runtime never asks for a DEL (IPAMCheckLocalIPs).    *)
Reclaimed ==
  \A c \in Container :
    <>[](c \notin running /\ \A a \in Att : Cid[a] = c => At(a, "idle"))
      => <>[](OfContainer(c) = {})

(* Pods that are given a gateway's address are given the same one, however *)
(* their ADDs look for it and allocate it (cmdAdd).                        *)
OneGateway ==
  \A a, b \in Att : phase[a] = "up" /\ phase[b] = "up" /\ gw[a] # NoIP /\ gw[b] # NoIP
                     => gw[a] = gw[b]

(* The result of an ADD has an address from every range set (allocateIP).  *)
OnePerRangeSet == \A a \in Att : InUse(a) => Len(ips[a]) >= RangeSets
=============================================================================
