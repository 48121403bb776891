------------------------------ MODULE VxlanFdb --------------------------------
(***************************************************************************)
(* How the nodes of a VXLAN find each other.  The plugin of a node makes   *)
(* the VXLAN interface and records the node's address under the name of    *)
(* the interface in etcd, or in a file of the node when etcd does not      *)
(* answer; multusd puts such files into etcd later, reads the records of   *)
(* the other nodes, watches for new ones, and enters them into the         *)
(* forwarding database (FDB) of the interface.                             *)
(*                                                                         *)
(* The file is written when the put fails.  When there is no client of     *)
(* etcd at all, or the file cannot be written, the ADD goes on without a   *)
(* record, for main.go does not look at what RecVxlan returns.             *)
(*                                                                         *)
(* multusd reads the history first and opens the watch afterwards; records *)
(* for an interface the node does not have are remembered by name only,    *)
(* and read again when one more record of that name comes.                 *)
(***************************************************************************)
EXTENDS Naturals, SequencesExt

CONSTANTS
  Node,
  Watcher,      \* the nodes whose watching is followed: it changes nothing others see
  Vxlan,        \* the names of VXLAN interfaces
  Addr,         \* the addresses nodes may have
  Home,         \* the address of each node at the start
  Failing,      \* the nodes whose RecVxlan and CacheToEtcd may fail
  MaxFaults,    \* bounds ADDs that die, restarts, new addresses, foreign links, deletions
  Foreign,      \* in the place of a source address: the interface is no VXLAN
  Empty,        \* in the place of a cached address: the file has nothing in it
  None

ASSUME VxlanFdbAssumption ==
  /\ MaxFaults \in Nat
  /\ None \notin Addr /\ Foreign \notin Addr \cup {None} /\ Empty \notin Addr \cup {None}
  /\ Watcher \subseteq Node /\ Failing \subseteq Node
  /\ Home \in [Node -> Addr]

VARIABLES
  addr,     \* the address of each node's master interface
  link,     \* the source address of each node's VXLAN interfaces, Foreign or None
  fdb,      \* the remote addresses in each interface's FDB
  adding,   \* the ADDs of each node that have the interface and not yet recorded it
  added,    \* (history) the records of the ADDs that went on past RecVxlan
  lost,     \* (history) records a node last failed to keep, see RecFails
  files,    \* the address cached on each node for an interface, Empty or None
  log,      \* the changes of the records in etcd, in order
  daemon,   \* multusd of each node
  faults,   \* the number of faults there have been
  missed    \* (history) records the multusd of a node was not told of, or has done with

plugin == <<addr, link, fdb, adding, added, lost, files>>
vars == <<addr, link, fdb, adding, added, lost, files, log, daemon, missed, faults>>

(* The keys in etcd are records, and what an empty file is put as: a key   *)
(* one level up, which is read as address v of an interface "vxlan".       *)
Record == Vxlan \X Addr
Key == Vxlan \X (Addr \cup {Empty})
Change(op, r) == [op |-> op, rec |-> r]

(* The keys and the records in etcd after the changes in a log.            *)
Keys ==
  {r \in Key : \E i \in DOMAIN log :
     /\ log[i] = Change("PUT", r)
     /\ \A j \in (i + 1)..Len(log) : log[j].rec # r}
Records == Keys \cap Record

(* multusd starts with the history; todo are the records it has got and    *)
(* not looked at (it takes them by key, here in any order), pos is how far *)
(* it has followed the log.                                                *)
Started == [pc |-> "start", todo |-> {}, pos |-> 0, buf |-> {}]

Init ==
  /\ addr = Home
  /\ link = [n \in Node |-> [v \in Vxlan |-> None]]
  /\ fdb = [n \in Node |-> [v \in Vxlan |-> {}]]
  /\ adding = [n \in Node |-> {}]
  /\ added = [n \in Node |-> {}]
  /\ lost = [n \in Node |-> {}]
  /\ files = [n \in Node |-> [v \in Vxlan |-> None]]
  /\ log = << >>
  /\ daemon = [n \in Node |-> Started]
  /\ missed = [n \in Node |-> {}]
  /\ faults = 0

Fault == faults < MaxFaults /\ faults' = faults + 1

(* A change between the read of the history and the watch is not seen.     *)
Changed(op, r) ==
  /\ log' = Append(log, Change(op, r))
  /\ missed' = [n \in Node |-> IF daemon[n].pc = "history" THEN missed[n] \cup {r}
                               ELSE missed[n]]

-----------------------------------------------------------------------------
(* The plugin                                                              *)

(* ensureLink: an interface that is there is used if its address is right. *)
UseLink(n, v) ==
  /\ link[n][v] = addr[n]
  /\ adding' = [adding EXCEPT ![n] = @ \cup {<<v, addr[n]>>}]
  /\ UNCHANGED <<addr, link, fdb, added, lost, files, log, daemon, missed, faults>>

CreateLink(n, v) ==
  /\ link[n][v] = None
  /\ link' = [link EXCEPT ![n][v] = addr[n]]
  /\ adding' = [adding EXCEPT ![n] = @ \cup {<<v, addr[n]>>}]
  /\ UNCHANGED <<addr, fdb, added, lost, files, log, daemon, missed, faults>>

(* If it is not, it is deleted first, and its FDB goes with it.            *)
DeleteLink(n, v) ==
  /\ link[n][v] \notin {None, addr[n]}
  /\ link' = [link EXCEPT ![n][v] = None]
  /\ fdb' = [fdb EXCEPT ![n][v] = {}]
  /\ missed' = [missed EXCEPT ![n] = @ \cup ({v} \X Addr)]
  /\ UNCHANGED <<addr, adding, added, lost, files, log, daemon, faults>>

(* Between the interface and RecVxlan an ADD fails or is killed.           *)
AddFails(n, r) ==
  /\ r \in adding[n]
  /\ adding' = [adding EXCEPT ![n] = @ \ {r}]
  /\ Fault
  /\ UNCHANGED <<addr, link, fdb, added, lost, files, log, daemon, missed>>

(* RecVxlan is done, and the ADD goes on whatever it returned.             *)
Done(n, r) ==
  /\ r \in adding[n]
  /\ adding' = [adding EXCEPT ![n] = @ \ {r}]
  /\ added' = [added EXCEPT ![n] = @ \cup {r}]
  /\ UNCHANGED <<addr, link, fdb, daemon>>

(* A record that exists is left alone.                                     *)
RecVxlan(n, r) ==
  /\ Done(n, r)
  /\ IF r \in Records THEN UNCHANGED <<log, missed>> ELSE Changed("PUT", r)
  /\ lost' = [lost EXCEPT ![n] = @ \ {r}]
  /\ UNCHANGED <<files, faults>>

(* TransPutKey fails: it may have put the key all the same.                *)
PutUnseen(r) == r \notin Records /\ Changed("PUT", r)
PutFails(r) == UNCHANGED <<log, missed>> \/ PutUnseen(r)

(* There is no client of etcd, or the put fails and the directory or its   *)
(* lock or the file cannot be opened: nothing is cached.                   *)
RecFails(n, r) ==
  /\ Done(n, r)
  /\ PutFails(r)
  /\ lost' = [lost EXCEPT ![n] = @ \cup {r}]
  /\ Fault
  /\ UNCHANGED files

(* There is one file for an interface: what was in it is given up.         *)
InFile(n, v) == {<<v, files[n][v]>>} \cap Record

(* Mutant: when etcd does not answer nothing is cached.                    *)
CacheRec_Not(n, r) ==
  /\ Done(n, r)
  /\ lost' = [lost EXCEPT ![n] = @ \ {r}]
  /\ UNCHANGED <<files, log, missed, faults>>

(* The put fails and the record is cached.  The ADD that writes last may   *)
(* be the older one.  (An etcd that only fails is no fault: the node may   *)
(* cache as often as it likes.)                                            *)
CacheRec(n, r) ==
  /\ Done(n, r)
  /\ \/ UNCHANGED <<log, missed, faults>>
     \/ PutUnseen(r) /\ Fault
  /\ files' = [files EXCEPT ![n][r[1]] = r[2]]
  /\ lost' = [lost EXCEPT ![n] = (@ \cup InFile(n, r[1])) \ {r}]

(* WriteFile empties the file before it writes.                            *)
Truncated(n, r) ==
  /\ PutFails(r)
  /\ files' = [files EXCEPT ![n][r[1]] = Empty]
  /\ lost' = [lost EXCEPT ![n] = @ \cup InFile(n, r[1]) \cup {r}]
  /\ Fault

(* The write fails: the disk is full.                                      *)
CacheRecFails(n, r) == Done(n, r) /\ Truncated(n, r)

(* The plugin is killed before it writes.                                  *)
CacheRecKilled(n, r) ==
  /\ r \in adding[n]
  /\ adding' = [adding EXCEPT ![n] = @ \ {r}]
  /\ Truncated(n, r)
  /\ UNCHANGED <<addr, link, fdb, added, daemon>>

-----------------------------------------------------------------------------
(* multusd, on its ticker.  It holds the lock plugins cache under from the *)
(* read of the files to the last removal.  A file whose key exists stays   *)
(* for ever.                                                               *)
Cached(n, v) == files[n][v] # None /\ <<v, files[n][v]>> \notin Keys

(* Mutant: only the files of interfaces the node has are looked at.        *)
CacheToEtcd_Linked(n, v) ==
  /\ Cached(n, v) /\ link[n][v] # None
  /\ Changed("PUT", <<v, files[n][v]>>)
  /\ files' = [files EXCEPT ![n][v] = None]
  /\ UNCHANGED <<addr, link, fdb, adding, added, lost, daemon, faults>>

CacheToEtcd(n, v) ==
  /\ Cached(n, v)
  /\ Changed("PUT", <<v, files[n][v]>>)
  /\ files' = [files EXCEPT ![n][v] = None]
  /\ UNCHANGED <<addr, link, fdb, adding, added, lost, daemon, faults>>

(* The put is not acknowledged, multusd dies behind it, or the file cannot *)
(* be removed.                                                             *)
CacheStays(n, v) ==
  /\ Cached(n, v)
  /\ Changed("PUT", <<v, files[n][v]>>)
  /\ Fault
  /\ UNCHANGED <<plugin, daemon>>

-----------------------------------------------------------------------------
(* multusd, watching                                                       *)

(* The names of the record's interface: all of them, or the one asked for. *)
History(names) == {r \in Records : r[1] \in names}

ProcHistory(n) ==
  /\ daemon[n].pc = "start"
  /\ daemon' = [daemon EXCEPT ![n].pc = "history", ![n].todo = History(Vxlan)]
  /\ missed' = [missed EXCEPT ![n] = {}]
  /\ UNCHANGED <<plugin, log, faults>>

(* The history cannot be read: the error is not looked at.                 *)
HistoryFails(n) ==
  /\ daemon[n].pc = "start"
  /\ daemon' = [daemon EXCEPT ![n].pc = "history"]
  /\ missed' = [missed EXCEPT ![n] = Record]
  /\ Fault
  /\ UNCHANGED <<plugin, log>>

Watch(n) ==
  /\ daemon[n].pc = "history" /\ daemon[n].todo = {}
  /\ daemon' = [daemon EXCEPT ![n].pc = "watch", ![n].pos = Len(log)]
  /\ UNCHANGED <<plugin, log, missed, faults>>

(* watchedAddSubnet                                                        *)
(* No such interface: its name is remembered.                              *)
BufferName(n, r) ==
  /\ r \in daemon[n].todo /\ link[n][r[1]] = None
  /\ daemon' = [daemon EXCEPT ![n].buf = @ \cup {r[1]}, ![n].todo = @ \ {r}]
  /\ UNCHANGED <<plugin, log, missed, faults>>

(* The name is remembered: everything recorded under it is read again; if  *)
(* that fails the name is forgotten all the same.                          *)
Remembered(n, r) == r \in daemon[n].todo /\ link[n][r[1]] # None /\ r[1] \in daemon[n].buf

(* Mutant: only the record that came is entered.                           *)
Replay_One(n, r) ==
  /\ Remembered(n, r)
  /\ daemon' = [daemon EXCEPT ![n].buf = @ \ {r[1]}]
  /\ UNCHANGED <<plugin, log, missed, faults>>

Replay(n, r) ==
  /\ Remembered(n, r)
  /\ daemon' = [daemon EXCEPT ![n].buf = @ \ {r[1]},
                              ![n].todo = (@ \ {r}) \cup History({r[1]})]
  /\ UNCHANGED <<plugin, log, missed, faults>>

ReplayFails(n, r) ==
  /\ Remembered(n, r)
  /\ daemon' = [daemon EXCEPT ![n].buf = @ \ {r[1]}, ![n].todo = @ \ {r}]
  /\ missed' = [missed EXCEPT ![n] = @ \cup ({r[1]} \X Addr)]
  /\ Fault
  /\ UNCHANGED <<plugin, log>>

(* Mutant: it is not looked at whether the interface is there.             *)
Entered_Blind(n, r) ==
  /\ r \in daemon[n].todo /\ r[1] \notin daemon[n].buf
  /\ daemon' = [daemon EXCEPT ![n].todo = @ \ {r}]
  /\ UNCHANGED <<addr, link, adding, added, lost, files, log>>

Entered(n, r) ==
  /\ r \in daemon[n].todo /\ link[n][r[1]] # None /\ r[1] \notin daemon[n].buf
  /\ daemon' = [daemon EXCEPT ![n].todo = @ \ {r}]
  /\ UNCHANGED <<addr, link, adding, added, lost, files, log>>

AddFDB(n, r) ==
  /\ Entered(n, r) /\ link[n][r[1]] # Foreign
  /\ fdb' = [fdb EXCEPT ![n][r[1]] = IF link[n][r[1]] = r[2] THEN @ ELSE @ \cup {r[2]}]
  /\ UNCHANGED <<missed, faults>>

(* The interface is no VXLAN, or the kernel refuses the entry: the record  *)
(* is dropped and not looked at again.                                     *)
AddFDBFails(n, r) ==
  /\ Entered(n, r)
  /\ \/ link[n][r[1]] = Foreign /\ UNCHANGED faults
     \/ link[n][r[1]] \notin {Foreign, r[2]} /\ Fault
  /\ missed' = [missed EXCEPT ![n] = @ \cup {r}]
  /\ UNCHANGED fdb

(* The next change the watch delivers.                                     *)
NextChange(n) == log[daemon[n].pos + 1]
Watching(n) ==
  daemon[n].pc = "watch" /\ daemon[n].todo = {} /\ daemon[n].pos < Len(log)

WatchedPut(n) ==
  /\ Watching(n) /\ NextChange(n).op = "PUT"
  /\ daemon' = [daemon EXCEPT ![n].pos = @ + 1, ![n].todo = {NextChange(n).rec} \cap Record]
  /\ UNCHANGED <<plugin, log, missed, faults>>

(* watchedDelSubnet: where the interface is not there, no VXLAN or the     *)
(* record's own, and when the kernel refuses, nothing is done.             *)
WatchedDelete(n) ==
  /\ Watching(n) /\ NextChange(n).op = "DELETE"
  /\ LET v == NextChange(n).rec[1]
         a == NextChange(n).rec[2]
     IN  \/ UNCHANGED fdb
         \/ link[n][v] \notin {None, Foreign, a} /\ fdb' = [fdb EXCEPT ![n][v] = @ \ {a}]
  /\ daemon' = [daemon EXCEPT ![n].pos = @ + 1]
  /\ UNCHANGED <<addr, link, adding, added, lost, files, log, missed, faults>>

(* The channel of the watch is closed; multusd starts over.                *)
WatchCloses(n) ==
  /\ daemon[n].pc = "watch" /\ daemon[n].todo = {}
  /\ daemon' = [daemon EXCEPT ![n].pc = "start"]
  /\ Fault
  /\ UNCHANGED <<plugin, log, missed>>

(* multusd is started again, after a crash for one: without an etcd        *)
(* configuration the loop ends in a panic.                                 *)
DaemonRestarts(n) ==
  /\ daemon' = [daemon EXCEPT ![n] = Started]
  /\ Fault
  /\ UNCHANGED <<plugin, log, missed>>

-----------------------------------------------------------------------------
(* The node gets another address, or starts again without its interfaces;  *)
(* someone makes another interface of that name, or deletes a record.      *)

ForeignLink(n, v) ==
  /\ link[n][v] = None
  /\ link' = [link EXCEPT ![n][v] = Foreign]
  /\ Fault
  /\ UNCHANGED <<addr, fdb, adding, added, lost, files, log, daemon, missed>>

Readdress(n, a) ==
  /\ \A m \in Node : addr[m] # a
  /\ addr' = [addr EXCEPT ![n] = a]
  /\ Fault
  /\ UNCHANGED <<link, fdb, adding, added, lost, files, log, daemon, missed>>

Reboot(n) ==
  /\ link' = [link EXCEPT ![n] = [v \in Vxlan |-> None]]
  /\ fdb' = [fdb EXCEPT ![n] = [v \in Vxlan |-> {}]]
  /\ adding' = [adding EXCEPT ![n] = {}]
  /\ daemon' = [daemon EXCEPT ![n] = Started]
  /\ Fault
  /\ UNCHANGED <<addr, added, lost, files, log, missed>>

OperatorDeletes(r) ==
  /\ r \in Records
  /\ Changed("DELETE", r)
  /\ Fault
  /\ UNCHANGED <<plugin, daemon>>

DaemonStep(n) ==
  \/ ProcHistory(n) \/ Watch(n) \/ WatchedPut(n) \/ WatchedDelete(n)
  \/ \E r \in Record : 
       BufferName(n, r) \/ Replay(n, r) \/ AddFDB(n, r) \/ AddFDBFails(n, r)

Next ==
  \/ \E n \in Node :
       \/ \E v \in Vxlan : UseLink(n, v) \/ CreateLink(n, v) \/ DeleteLink(n, v)
       \/ \E r \in Record :
            \/ AddFails(n, r) \/ RecVxlan(n, r) \/ ReplayFails(n, r)
            \/ n \in Failing /\ (\/ RecFails(n, r) \/ CacheRec(n, r)
                                \/ CacheRecFails(n, r) \/ CacheRecKilled(n, r))
       \/ \E v \in Vxlan :
            \/ CacheToEtcd(n, v)
            \/ n \in Failing /\ CacheStays(n, v)
       \/ n \in Watcher /\ (\/ DaemonStep(n) \/ HistoryFails(n)
                           \/ WatchCloses(n) \/ DaemonRestarts(n)
                           \/ \E v \in Vxlan : ForeignLink(n, v))
       \/ \E a \in Addr : Readdress(n, a)
       \/ Reboot(n)
  \/ \E r \in Record : OperatorDeletes(r)

Spec == Init /\ [][Next]_vars

(* The ticker of multusd runs on, and etcd answers it in the end.          *)
FairSpec == Spec /\ \A n \in Node, v \in Vxlan : WF_vars(CacheToEtcd(n, v))

-----------------------------------------------------------------------------
TypeOK ==
  /\ addr \in [Node -> Addr]
  /\ link \in [Node -> [Vxlan -> Addr \cup {None, Foreign}]]
  /\ fdb \in [Node -> [Vxlan -> SUBSET Addr]]
  /\ adding \in [Node -> SUBSET Record]
  /\ added \in [Node -> SUBSET Record] /\ lost \in [Node -> SUBSET Record]
  /\ files \in [Node -> [Vxlan -> Addr \cup {None, Empty}]]
  /\ missed \in [Node -> SUBSET Key]
  /\ log \in Seq([op : {"PUT", "DELETE"}, rec : Key])
  /\ daemon \in [Node -> [pc : {"start", "history", "watch"}, todo : SUBSET Record,
                          pos : Nat, buf : SUBSET Vxlan]]
  /\ faults \in 0..MaxFaults
  /\ \A n \in Node :
       /\ daemon[n].pos <= Len(log)
       /\ \A v \in Vxlan : link[n][v] \in {None, Foreign} => fdb[n][v] = {}

(* What an ADD went on with is in etcd, or in the file multusd will put    *)
(* there, unless an operator deletes it or the node failed to keep it: at  *)
(* the last try there was no client of etcd, or the put failed and so did  *)
(* the file, or a later write of the file emptied it or put another        *)
(* address in its place.  There is no other way to lose it: not between    *)
(* file and etcd, by a put that took effect unseen, or when multusd dies.  *)
AddedIsKept ==
  \A n \in Node : \A r \in added[n] \ lost[n] :
    \/ r \in Records \/ files[n][r[1]] = r[2]
    \/ Change("DELETE", r) \in ToSet(log)

(* That nothing is lost at all does not hold (VxlanFdbLost.cfg).           *)
NothingLost ==
  \A n \in Node : \A r \in added[n] :
    \/ r \in Records \/ files[n][r[1]] = r[2]
    \/ Change("DELETE", r) \in ToSet(log)

(* A record that is not in the FDB of an interface, or of one the node     *)
(* does not have, has a reason: it is the node's own, it is still to come, *)
(* its name is remembered, or multusd has done with it: it fell between    *)
(* history and watch, a read failed, the interface was no VXLAN or the     *)
(* kernel refused when its turn came, or the interface was made anew.      *)
Explained ==
  \A n \in Watcher : \A r \in Records :
    \/ link[n][r[1]] = r[2]
    \/ r[2] \in fdb[n][r[1]]
    \/ daemon[n].pc = "start"
    \/ r \in daemon[n].todo
    \/ daemon[n].pc = "watch" /\ \E i \in (daemon[n].pos + 1)..Len(log) : log[i].rec = r
    \/ r[1] \in daemon[n].buf
    \/ r \in missed[n]

(* A cached record reaches etcd, and the file goes or is of no more use.   *)
CacheReachesEtcd ==
  \A n \in Node, v \in Vxlan :
    files[n][v] # None ~> files[n][v] = None \/ <<v, files[n][v]>> \in Keys
=============================================================================
