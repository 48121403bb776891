---------------------------- MODULE VxlanFdbProofs -----------------------------
(***************************************************************************)
(* What holds of the records of VXLAN interfaces for any nodes, networks   *)
(* and addresses, over failures of etcd, plugins and nodes that die, and   *)
(* addresses that change: the ways a record gets lost are those listed.    *)
(***************************************************************************)
EXTENDS VxlanFdb, TLAPS

Changes == [op : {"PUT", "DELETE"}, rec : Key]

Daemon ==
  [pc : {"start", "history", "watch"}, todo : SUBSET Record, pos : Nat, buf : SUBSET Vxlan]

LEMMA RecordParts ==
  ASSUME NEW r \in Record
  PROVE  /\ r[1] \in Vxlan /\ r[2] \in Addr /\ r = <<r[1], r[2]>>
         /\ r[2] \notin {None, Foreign, Empty} /\ r \in Key
  BY VxlanFdbAssumption DEF Record, Key

LEMMA KeyParts ==
  ASSUME NEW r \in Key
  PROVE  r[1] \in Vxlan /\ r = <<r[1], r[2]>> /\ (r \in Record <=> r[2] \in Addr)
  BY DEF Record, Key

(* What a file of some content is put as.                                  *)
LEMMA FileKey ==
  ASSUME TypeOK, NEW n \in Node, NEW v \in Vxlan, files[n][v] # None
  PROVE  <<v, files[n][v]>> \in Key
  BY DEF TypeOK, Key

-----------------------------------------------------------------------------
(* The log.                                                                *)

(* What a change does to the log: it stays what it was, and has one more.  *)
LEMMA LogGrows ==
  ASSUME NEW l \in Seq(Changes), NEW e \in Changes
  PROVE  /\ Append(l, e) \in Seq(Changes) /\ Len(Append(l, e)) = Len(l) + 1
         /\ Len(l) \in Nat /\ DOMAIN l = 1..Len(l)
         /\ \A i \in 1..Len(l) : Append(l, e)[i] = l[i]
         /\ Append(l, e)[Len(l) + 1] = e
  OBVIOUS

(* A put adds its key and a delete removes it.                             *)
LEMMA KeysChanged ==
  ASSUME log \in Seq(Changes), NEW op \in {"PUT", "DELETE"}, NEW r \in Key, Changed(op, r)
  PROVE  Keys' = IF op = "PUT" THEN Keys \cup {r} ELSE Keys \ {r}
<1> DEFINE e == Change(op, r)
<1>1. e \in Changes /\ e.op = op /\ e.rec = r
  BY DEF Change, Changes
<1>2. log' = Append(log, e)
  BY DEF Changed
<1> HIDE DEF e
<1>3. /\ Len(log') = Len(log) + 1 /\ Len(log) \in Nat
      /\ DOMAIN log = 1..Len(log) /\ DOMAIN log' = 1..(Len(log) + 1)
      /\ \A i \in 1..Len(log) : log'[i] = log[i]
      /\ log'[Len(log) + 1] = e
  BY <1>1, <1>2, LogGrows
<1>4. ASSUME NEW q \in Key, q # r PROVE q \in Keys' <=> q \in Keys
  <2>1. ASSUME q \in Keys PROVE q \in Keys'
    <3>1. PICK i \in DOMAIN log : /\ log[i] = Change("PUT", q)
                                  /\ \A j \in (i + 1)..Len(log) : log[j].rec # q
      BY <2>1 DEF Keys
    <3>2. i \in DOMAIN log' /\ log'[i] = Change("PUT", q)
      BY <1>3, <3>1
    <3>3. ASSUME NEW j \in (i + 1)..Len(log') PROVE log'[j].rec # q
      <4>1. CASE j = Len(log) + 1
        BY <1>1, <1>3, <1>4, <4>1
      <4>2. CASE j # Len(log) + 1
        <5>1. j \in (i + 1)..Len(log) /\ j \in 1..Len(log)
          BY <1>3, <3>1, <3>3, <4>2
        <5> QED BY <1>3, <3>1, <5>1
      <4> QED BY <4>1, <4>2
    <3> QED BY <3>2, <3>3 DEF Keys
  <2>2. ASSUME q \in Keys' PROVE q \in Keys
    <3>1. PICK i \in DOMAIN log' : /\ log'[i] = Change("PUT", q)
                                   /\ \A j \in (i + 1)..Len(log') : log'[j].rec # q
      BY <2>2 DEF Keys
    <3>2. Change("PUT", q).rec = q
      BY DEF Change
    <3>3. i # Len(log) + 1
      BY <1>1, <1>3, <1>4, <3>1, <3>2
    <3>4. i \in DOMAIN log /\ log[i] = Change("PUT", q)
      BY <1>3, <3>1, <3>3
    <3>5. \A j \in (i + 1)..Len(log) : log[j].rec # q
      BY <1>3, <3>1, <3>4
    <3> QED BY <3>4, <3>5 DEF Keys
  <2> QED BY <2>1, <2>2
<1>5. r \in Keys' <=> op = "PUT"
  <2>1. ASSUME op = "PUT" PROVE r \in Keys'
    <3>1. Len(log) + 1 \in DOMAIN log' /\ log'[Len(log) + 1] = Change("PUT", r)
      BY <1>3, <2>1 DEF e
    <3>2. (Len(log) + 1 + 1)..Len(log') = {}
      BY <1>3
    <3> QED BY <3>1, <3>2 DEF Keys
  <2>2. ASSUME r \in Keys' PROVE op = "PUT"
    <3>1. PICK i \in DOMAIN log' : /\ log'[i] = Change("PUT", r)
                                   /\ \A j \in (i + 1)..Len(log') : log'[j].rec # r
      BY <2>2 DEF Keys
    <3>2. i = Len(log) + 1
      BY <1>1, <1>3, <3>1
    <3>3. e.op = "PUT"
      BY <1>3, <3>1, <3>2 DEF Change
    <3> QED BY <1>1, <3>3
  <2> QED BY <2>1, <2>2
<1>6. Keys \subseteq Key /\ Keys' \subseteq Key
  BY DEF Keys
<1> QED BY <1>4, <1>5, <1>6

LEMMA RecordsChanged ==
  ASSUME log \in Seq(Changes), NEW op \in {"PUT", "DELETE"}, NEW r \in Key, Changed(op, r)
  PROVE  Records' = IF op = "PUT" THEN Records \cup ({r} \cap Record) ELSE Records \ {r}
  BY KeysChanged DEF Records

LEMMA RecordsSame ==
  ASSUME UNCHANGED log
  PROVE  Records' = Records
  BY DEF Records, Keys

-----------------------------------------------------------------------------
(* Types                                                                   *)

LEMMA TypeInit == Init => TypeOK
<1> SUFFICES ASSUME Init PROVE TypeOK
  OBVIOUS
<1>1. log = << >> /\ << >> \in Seq(Changes) /\ Len(<< >>) = 0
  BY DEF Init
<1>2. daemon \in [Node -> [pc : {"start", "history", "watch"}, todo : SUBSET Record,
                          pos : Nat, buf : SUBSET Vxlan]]
      /\ \A n \in Node : daemon[n].pos = 0
  BY DEF Init, Started
<1>3. faults \in 0..MaxFaults
  BY VxlanFdbAssumption DEF Init
<1>4. /\ addr \in [Node -> Addr]
      /\ link \in [Node -> [Vxlan -> Addr \cup {None, Foreign}]]
      /\ fdb \in [Node -> [Vxlan -> SUBSET Addr]]
      /\ adding \in [Node -> SUBSET Record]
      /\ added \in [Node -> SUBSET Record] /\ lost \in [Node -> SUBSET Record]
      /\ files \in [Node -> [Vxlan -> Addr \cup {None, Empty}]]
      /\ missed \in [Node -> SUBSET Key]
  BY VxlanFdbAssumption DEF Init
<1>5. \A n \in Node, v \in Vxlan : fdb[n][v] = {}
  BY DEF Init
<1> QED BY <1>1, <1>2, <1>3, <1>4, <1>5 DEF TypeOK, Changes

(* A change of the records keeps the types of what it writes.              *)
LEMMA TypeChanged ==
  ASSUME TypeOK, NEW op \in {"PUT", "DELETE"}, NEW r \in Key, Changed(op, r)
  PROVE  /\ log' \in Seq(Changes) /\ Len(log') = Len(log) + 1
         /\ \A i \in 1..Len(log) : log'[i] = log[i]
         /\ log'[Len(log) + 1] = Change(op, r)
         /\ missed' \in [Node -> SUBSET Key]
         /\ \A n \in Node : /\ missed[n] \subseteq missed'[n]
                            /\ daemon[n].pc = "history" => r \in missed'[n]
                            /\ daemon[n].pos <= Len(log')
<1>1. Change(op, r) \in Changes
  BY DEF Change, Changes
<1>2. log' = Append(log, Change(op, r))
  BY DEF Changed
<1>3. log \in Seq(Changes) /\ Len(log) \in Nat /\ \A n \in Node : daemon[n].pos \in Nat
  BY LogGrows DEF TypeOK, Changes
<1>4. /\ log' \in Seq(Changes) /\ Len(log') = Len(log) + 1
      /\ \A i \in 1..Len(log) : log'[i] = log[i]
      /\ log'[Len(log) + 1] = Change(op, r)
  BY <1>1, <1>2, <1>3, LogGrows
<1>5. /\ missed' \in [Node -> SUBSET Key]
      /\ \A n \in Node : /\ missed[n] \subseteq missed'[n]
                         /\ daemon[n].pc = "history" => r \in missed'[n]
  BY DEF Changed, TypeOK
<1>6. \A n \in Node : daemon[n].pos <= Len(log')
  BY <1>3, <1>4 DEF TypeOK
<1> QED BY <1>4, <1>5, <1>6

(* The next change a watch delivers.                                       *)
LEMMA NextChangeType ==
  ASSUME TypeOK, NEW n \in Node, Watching(n)
  PROVE  /\ NextChange(n).rec \in Key
         /\ daemon[n].pos + 1 \in 1..Len(log)
<1>1. /\ log \in Seq(Changes) /\ Len(log) \in Nat /\ daemon[n].pos \in Nat
      /\ daemon[n].pos < Len(log)
  BY LogGrows DEF TypeOK, Changes, Watching
<1>2. daemon[n].pos + 1 \in 1..Len(log)
  BY <1>1
<1>3. log[daemon[n].pos + 1] \in Changes
  BY <1>1, <1>2
<1> QED BY <1>2, <1>3 DEF NextChange, Changes

LEMMA FaultType ==
  ASSUME TypeOK, Fault
  PROVE  faults' \in 0..MaxFaults
  BY VxlanFdbAssumption DEF TypeOK, Fault

(* A put that may have taken effect.                                       *)
LEMMA PutFailsType ==
  ASSUME TypeOK, NEW r \in Record, PutFails(r)
  PROVE  /\ log' \in Seq(Changes) /\ missed' \in [Node -> SUBSET Key]
         /\ \A m \in Node : daemon[m].pos <= Len(log')
<1>1. CASE UNCHANGED <<log, missed>>
  BY <1>1 DEF TypeOK, Changes
<1>2. CASE PutUnseen(r)
  BY <1>2, RecordParts, TypeChanged DEF PutUnseen
<1> QED BY <1>1, <1>2 DEF PutFails

(* RecVxlan, in whatever way it ends.                                      *)
LEMMA TypeRecorded ==
  ASSUME TypeOK, NEW n \in Node, NEW r \in Record,
         PutFails(r) \/ Changed("PUT", r),
         adding' = [adding EXCEPT ![n] = @ \ {r}], UNCHANGED <<addr, link, fdb, daemon>>,
         added' \in [Node -> SUBSET Record], lost' \in [Node -> SUBSET Record],
         files' \in [Node -> [Vxlan -> Addr \cup {None, Empty}]], faults' \in 0..MaxFaults
  PROVE  TypeOK'
<1>1. /\ log' \in Seq(Changes) /\ missed' \in [Node -> SUBSET Key]
      /\ \A m \in Node : daemon[m].pos <= Len(log')
  BY PutFailsType, RecordParts, TypeChanged
<1>2. adding' \in [Node -> SUBSET Record]
  BY DEF TypeOK
<1> QED BY <1>1, <1>2 DEF TypeOK, Changes

LEMMA TypePlugin ==
  ASSUME TypeOK, NEW n \in Node,
         \/ \E v \in Vxlan : UseLink(n, v) \/ CreateLink(n, v) \/ DeleteLink(n, v)
         \/ \E r \in Record : \/ RecVxlan(n, r) \/ RecFails(n, r) \/ AddFails(n, r)
                              \/ CacheRec(n, r) \/ CacheRecFails(n, r) \/ CacheRecKilled(n, r)
         \/ \E v \in Vxlan : CacheToEtcd(n, v) \/ CacheStays(n, v)
  PROVE  TypeOK'
<1>a. /\ added \in [Node -> SUBSET Record] /\ lost \in [Node -> SUBSET Record]
      /\ files \in [Node -> [Vxlan -> Addr \cup {None, Empty}]] /\ faults \in 0..MaxFaults
      /\ \A r \in Record : r[1] \in Vxlan /\ r[2] \in Addr
      /\ \A v \in Vxlan : InFile(n, v) \subseteq Record
  BY RecordParts DEF TypeOK, InFile
<1>1. ASSUME NEW v \in Vxlan, UseLink(n, v) PROVE TypeOK'
  BY <1>1 DEF TypeOK, UseLink, Record
<1>2. ASSUME NEW v \in Vxlan, CreateLink(n, v) PROVE TypeOK'
  <2>1. addr[n] \notin {None, Foreign}
    BY VxlanFdbAssumption DEF TypeOK
  <2> QED BY <1>2, <2>1 DEF TypeOK, CreateLink, Record
<1>3. ASSUME NEW v \in Vxlan, DeleteLink(n, v) PROVE TypeOK'
  BY <1>3 DEF TypeOK, DeleteLink, Key
<1>4. ASSUME NEW r \in Record, RecVxlan(n, r) PROVE TypeOK'
  <2>1. PutFails(r) \/ Changed("PUT", r)
    BY <1>4 DEF RecVxlan, PutFails
  <2> QED BY <1>4, <1>a, <2>1, TypeRecorded DEF RecVxlan, Done
<1>5. ASSUME NEW r \in Record, RecFails(n, r) PROVE TypeOK'
  BY <1>5, <1>a, FaultType, TypeRecorded DEF RecFails, Done
<1>6. ASSUME NEW r \in Record, AddFails(n, r) PROVE TypeOK'
  BY <1>6, FaultType DEF TypeOK, AddFails
<1>7. ASSUME NEW r \in Record, CacheRec(n, r) PROVE TypeOK'
  <2>1. PutFails(r) /\ faults' \in 0..MaxFaults
    BY <1>7, <1>a, FaultType DEF CacheRec, PutFails
  <2> QED BY <1>7, <1>a, <2>1, TypeRecorded DEF CacheRec, Done
<1>8. ASSUME NEW r \in Record, Truncated(n, r)
      PROVE  /\ PutFails(r) /\ lost' \in [Node -> SUBSET Record] /\ faults' \in 0..MaxFaults
             /\ files' \in [Node -> [Vxlan -> Addr \cup {None, Empty}]]
  BY <1>8, <1>a, FaultType DEF Truncated
<1>9. ASSUME NEW r \in Record, CacheRecFails(n, r) PROVE TypeOK'
  BY <1>8, <1>9, <1>a, TypeRecorded DEF CacheRecFails, Done
<1>10. ASSUME NEW r \in Record, CacheRecKilled(n, r) PROVE TypeOK'
  BY <1>8, <1>10, <1>a, TypeRecorded DEF CacheRecKilled
<1>11. ASSUME NEW v \in Vxlan, CacheToEtcd(n, v) PROVE TypeOK'
  <2>1. <<v, files[n][v]>> \in Key
    BY <1>11, FileKey DEF CacheToEtcd, Cached
  <2> QED BY <1>11, <2>1, TypeChanged DEF TypeOK, CacheToEtcd, Changes
<1>12. ASSUME NEW v \in Vxlan, CacheStays(n, v) PROVE TypeOK'
  <2>1. <<v, files[n][v]>> \in Key
    BY <1>12, FileKey DEF CacheStays, Cached
  <2> QED BY <1>12, <2>1, TypeChanged, FaultType DEF TypeOK, CacheStays, plugin, Changes
<1> QED BY <1>1, <1>2, <1>3, <1>4, <1>5, <1>6, <1>7, <1>9, <1>10, <1>11, <1>12

LEMMA DaemonAt ==
  ASSUME NEW d \in Daemon, NEW p \in Nat
  PROVE  /\ [d EXCEPT !.pos = p] \in Daemon /\ [d EXCEPT !.pos = p].pos = p
         /\ [d EXCEPT !.pc = "watch", !.pos = p] \in Daemon
         /\ [d EXCEPT !.pc = "watch", !.pos = p].pos = p
  BY DEF Daemon

LEMMA DaemonGets ==
  ASSUME NEW d \in Daemon, NEW p \in Nat, NEW t \in SUBSET Record
  PROVE  /\ [d EXCEPT !.pos = p, !.todo = t] \in Daemon
         /\ [d EXCEPT !.pos = p, !.todo = t].pos = p
  BY DEF Daemon

(* A step of multusd that puts d in the place of its state.                *)
LEMMA DaemonBecomes ==
  ASSUME TypeOK, NEW n \in Node, NEW d \in Daemon, d.pos <= Len(log),
         daemon' = [daemon EXCEPT ![n] = d], UNCHANGED <<addr, link, adding, added, lost, files, log>>,
         fdb' \in [Node -> [Vxlan -> SUBSET Addr]],
         \A m \in Node, v \in Vxlan : link[m][v] \in {None, Foreign} => fdb'[m][v] = {},
         missed' \in [Node -> SUBSET Key], faults' \in 0..MaxFaults
  PROVE  TypeOK'
<1>1. daemon' \in [Node -> Daemon]
  BY DEF TypeOK, Daemon
<1>2. \A m \in Node : daemon'[m].pos <= Len(log)
  BY DEF TypeOK
<1> QED BY <1>1, <1>2 DEF TypeOK, Daemon

LEMMA TypeDaemon ==
  ASSUME TypeOK, NEW n \in Node,
         \/ DaemonStep(n) \/ HistoryFails(n) \/ WatchCloses(n) \/ DaemonRestarts(n)
         \/ \E r \in Record : ReplayFails(n, r)
  PROVE  TypeOK'
<1>a. /\ Len(log) \in Nat /\ daemon[n] \in Daemon /\ daemon[n].pos <= Len(log)
      /\ fdb \in [Node -> [Vxlan -> SUBSET Addr]] /\ missed \in [Node -> SUBSET Key]
      /\ faults \in 0..MaxFaults /\ Records \subseteq Record
      /\ \A m \in Node, v \in Vxlan : link[m][v] \in {None, Foreign} => fdb[m][v] = {}
  BY LogGrows DEF TypeOK, Changes, Daemon, Records
<1>b. ASSUME NEW d \in Daemon, d.pos <= Len(log), daemon' = [daemon EXCEPT ![n] = d],
             UNCHANGED <<plugin, log>>,
             missed' \in [Node -> SUBSET Key], faults' \in 0..MaxFaults
      PROVE  TypeOK'
  BY <1>a, <1>b, DaemonBecomes DEF plugin
<1>1. CASE ProcHistory(n)
  <2> DEFINE d == [daemon[n] EXCEPT !.pc = "history", !.todo = History(Vxlan)]
  <2>1. History(Vxlan) \subseteq Record
    BY <1>a DEF History
  <2>2. d \in Daemon /\ d.pos <= Len(log)
    BY <1>a, <2>1 DEF Daemon
  <2>3. daemon' = [daemon EXCEPT ![n] = d]
    BY <1>1 DEF ProcHistory
  <2> HIDE DEF d
  <2> QED BY <1>1, <1>a, <1>b, <2>2, <2>3 DEF ProcHistory
<1>2. CASE Watch(n)
  <2> DEFINE d == [daemon[n] EXCEPT !.pc = "watch", !.pos = Len(log)]
  <2>1. d \in Daemon /\ d.pos <= Len(log)
    <3>1. d \in Daemon /\ d.pos = Len(log)
      BY <1>a, DaemonAt, Zenon
    <3> QED BY <1>a, <3>1
  <2>2. daemon' = [daemon EXCEPT ![n] = d]
    BY <1>2 DEF Watch
  <2> HIDE DEF d
  <2> QED BY <1>2, <1>a, <1>b, <2>1, <2>2 DEF Watch
<1>3. CASE WatchedPut(n)
  <2> DEFINE p == daemon[n].pos + 1
             d == [daemon[n] EXCEPT !.pos = p, !.todo = {NextChange(n).rec} \cap Record]
  <2>1. /\ {NextChange(n).rec} \cap Record \in SUBSET Record
        /\ daemon[n].pos + 1 \in 1..Len(log)
    BY <1>3, NextChangeType DEF WatchedPut
  <2>1a. p \in Nat /\ p <= Len(log)
    BY <1>a, <2>1
  <2>2. d \in Daemon /\ d.pos <= Len(log)
    <3> HIDE DEF p
    <3>1. d \in Daemon /\ d.pos = p
      BY <1>a, <2>1, <2>1a, DaemonGets, Zenon
    <3> QED BY <2>1a, <3>1
  <2>3. daemon' = [daemon EXCEPT ![n] = d]
    BY <1>3 DEF WatchedPut
  <2> HIDE DEF d
  <2> QED BY <1>3, <1>a, <1>b, <2>2, <2>3 DEF WatchedPut
<1>4. CASE WatchedDelete(n)
  <2> DEFINE p == daemon[n].pos + 1
             d == [daemon[n] EXCEPT !.pos = p]
  <2>1. NextChange(n).rec[1] \in Vxlan /\ daemon[n].pos + 1 \in 1..Len(log)
    BY <1>4, NextChangeType, KeyParts DEF WatchedDelete
  <2>1a. p \in Nat /\ p <= Len(log)
    BY <1>a, <2>1
  <2>2. /\ fdb' \in [Node -> [Vxlan -> SUBSET Addr]]
        /\ \A m \in Node, v \in Vxlan : fdb'[m][v] \subseteq fdb[m][v]
    <3> DEFINE v == NextChange(n).rec[1]
               a == NextChange(n).rec[2]
    <3>1. UNCHANGED fdb \/ fdb' = [fdb EXCEPT ![n][v] = @ \ {a}]
      BY <1>4 DEF WatchedDelete
    <3>2. v \in Vxlan
      BY <2>1
    <3> HIDE DEF v, a
    <3>3. CASE UNCHANGED fdb
      BY <1>a, <3>3
    <3>4. CASE fdb' = [fdb EXCEPT ![n][v] = @ \ {a}]
      <4>1. fdb[n][v] \ {a} \in SUBSET Addr
        BY <1>a, <3>2
      <4> QED BY <1>a, <3>2, <3>4, <4>1
    <3> QED BY <3>1, <3>3, <3>4
  <2>3. d \in Daemon /\ d.pos <= Len(log)
    <3> HIDE DEF p
    <3>1. d \in Daemon /\ d.pos = p
      BY <1>a, <2>1a, DaemonAt, Zenon
    <3> QED BY <2>1a, <3>1
  <2>4. daemon' = [daemon EXCEPT ![n] = d]
    BY <1>4 DEF WatchedDelete
  <2>5. \A m \in Node, v \in Vxlan : link[m][v] \in {None, Foreign} => fdb'[m][v] = {}
    BY <1>a, <2>2
  <2> HIDE DEF d
  <2>6. UNCHANGED <<addr, link, adding, added, lost, files, log, missed, faults>>
    BY <1>4 DEF WatchedDelete
  <2>7. missed' \in [Node -> SUBSET Key] /\ faults' \in 0..MaxFaults
    BY <2>6 DEF TypeOK
  <2>8. fdb' \in [Node -> [Vxlan -> SUBSET Addr]]
    BY <2>2
  <2> QED BY <2>3, <2>4, <2>5, <2>6, <2>7, <2>8, DaemonBecomes
<1>5. ASSUME NEW r \in Record, BufferName(n, r) PROVE TypeOK'
  <2> DEFINE d == [daemon[n] EXCEPT !.buf = @ \cup {r[1]}, !.todo = @ \ {r}]
  <2>1. d \in Daemon /\ d.pos <= Len(log)
    BY <1>a, RecordParts DEF Daemon
  <2>2. daemon' = [daemon EXCEPT ![n] = d]
    BY <1>5 DEF BufferName
  <2> HIDE DEF d
  <2> QED BY <1>5, <1>a, <1>b, <2>1, <2>2 DEF BufferName
<1>6. ASSUME NEW r \in Record, Replay(n, r) PROVE TypeOK'
  <2> DEFINE d == [daemon[n] EXCEPT !.buf = @ \ {r[1]}, !.todo = (@ \ {r}) \cup History({r[1]})]
  <2>1. History({r[1]}) \subseteq Record
    BY <1>a DEF History
  <2>2. d \in Daemon /\ d.pos <= Len(log)
    BY <1>a, <2>1 DEF Daemon
  <2>3. daemon' = [daemon EXCEPT ![n] = d]
    BY <1>6 DEF Replay
  <2> HIDE DEF d
  <2> QED BY <1>6, <1>a, <1>b, <2>2, <2>3 DEF Replay
<1>7. ASSUME NEW r \in Record, AddFDB(n, r) PROVE TypeOK'
  <2> DEFINE d == [daemon[n] EXCEPT !.todo = @ \ {r}]
  <2>1. d \in Daemon /\ d.pos <= Len(log)
    BY <1>a DEF Daemon
  <2>2. daemon' = [daemon EXCEPT ![n] = d]
    BY <1>7 DEF AddFDB, Entered
  <2>3. fdb' \in [Node -> [Vxlan -> SUBSET Addr]]
    BY <1>7, <1>a, RecordParts DEF AddFDB
  <2>4. \A m \in Node, v \in Vxlan : link[m][v] \in {None, Foreign} => fdb'[m][v] = {}
    BY <1>7, <1>a, RecordParts DEF AddFDB, Entered
  <2> HIDE DEF d
  <2> QED BY <1>7, <1>a, <2>1, <2>2, <2>3, <2>4, DaemonBecomes DEF AddFDB, Entered
<1>12. ASSUME NEW r \in Record, AddFDBFails(n, r) PROVE TypeOK'
  <2> DEFINE d == [daemon[n] EXCEPT !.todo = @ \ {r}]
  <2>1. d \in Daemon /\ d.pos <= Len(log)
    BY <1>a DEF Daemon
  <2>2. daemon' = [daemon EXCEPT ![n] = d]
    BY <1>12 DEF AddFDBFails, Entered
  <2>3. missed' \in [Node -> SUBSET Key] /\ faults' \in 0..MaxFaults
    BY <1>12, <1>a, RecordParts, FaultType DEF AddFDBFails
  <2> HIDE DEF d
  <2> QED BY <1>12, <1>b, <2>1, <2>2, <2>3 DEF AddFDBFails, Entered, plugin
<1>8. CASE HistoryFails(n)
  <2> DEFINE d == [daemon[n] EXCEPT !.pc = "history"]
  <2>1. d \in Daemon /\ d.pos <= Len(log)
    BY <1>a DEF Daemon
  <2>2. daemon' = [daemon EXCEPT ![n] = d]
    BY <1>8 DEF HistoryFails
  <2> HIDE DEF d
  <2> QED BY <1>8, <1>a, <1>b, <2>1, <2>2, FaultType DEF HistoryFails, Record, Key
<1>9. CASE WatchCloses(n)
  <2> DEFINE d == [daemon[n] EXCEPT !.pc = "start"]
  <2>1. d \in Daemon /\ d.pos <= Len(log)
    BY <1>a DEF Daemon
  <2>2. daemon' = [daemon EXCEPT ![n] = d]
    BY <1>9 DEF WatchCloses
  <2> HIDE DEF d
  <2> QED BY <1>9, <1>a, <1>b, <2>1, <2>2, FaultType DEF WatchCloses
<1>10. CASE DaemonRestarts(n)
  <2>1. Started \in Daemon /\ Started.pos <= Len(log)
    BY <1>a DEF Daemon, Started
  <2> QED BY <1>10, <1>a, <1>b, <2>1, FaultType DEF DaemonRestarts
<1>11. ASSUME NEW r \in Record, ReplayFails(n, r) PROVE TypeOK'
  <2> DEFINE d == [daemon[n] EXCEPT !.buf = @ \ {r[1]}, !.todo = @ \ {r}]
  <2>1. d \in Daemon /\ d.pos <= Len(log)
    BY <1>a DEF Daemon
  <2>2. daemon' = [daemon EXCEPT ![n] = d]
    BY <1>11 DEF ReplayFails
  <2>3. missed' \in [Node -> SUBSET Key]
    BY <1>11, <1>a, RecordParts DEF ReplayFails, Key
  <2> HIDE DEF d
  <2> QED BY <1>11, <1>a, <1>b, <2>1, <2>2, <2>3, FaultType DEF ReplayFails
<1> QED
  BY <1>1, <1>2, <1>3, <1>4, <1>5, <1>6, <1>7, <1>8, <1>9, <1>10, <1>11, <1>12
  DEF DaemonStep

LEMMA TypeOutside ==
  ASSUME TypeOK,
         \/ \E n \in Node : Reboot(n) \/ \E a \in Addr : Readdress(n, a)
         \/ \E n \in Node, v \in Vxlan : ForeignLink(n, v)
         \/ \E r \in Record : OperatorDeletes(r)
         \/ UNCHANGED vars
  PROVE  TypeOK'
<1>0. Len(log) \in Nat
  BY LogGrows DEF TypeOK, Changes
<1>1. ASSUME NEW n \in Node, Reboot(n) PROVE TypeOK'
  BY <1>0, <1>1, FaultType DEF TypeOK, Reboot, Started
<1>2. ASSUME NEW n \in Node, NEW a \in Addr, Readdress(n, a) PROVE TypeOK'
  BY <1>2, FaultType DEF TypeOK, Readdress
<1>3. ASSUME NEW r \in Record, OperatorDeletes(r) PROVE TypeOK'
  BY <1>3, RecordParts, TypeChanged, FaultType DEF TypeOK, OperatorDeletes, plugin, Changes
<1>4. CASE UNCHANGED vars
  BY <1>4 DEF TypeOK, vars
<1>5. ASSUME NEW n \in Node, NEW v \in Vxlan, ForeignLink(n, v) PROVE TypeOK'
  BY <1>5, FaultType, VxlanFdbAssumption DEF TypeOK, ForeignLink
<1> QED BY <1>1, <1>2, <1>3, <1>4, <1>5

LEMMA TypeStep ==
  ASSUME TypeOK, [Next]_vars
  PROVE  TypeOK'
  BY TypePlugin, TypeDaemon, TypeOutside DEF Next

(* Every variable keeps its type, and an interface that is not there has   *)
(* no forwarding table (link, fdb), over failures, restarts and readdress. *)
THEOREM FdbTypeCorrect == Spec => []TypeOK
  BY TypeInit, TypeStep, PTL DEF Spec

-----------------------------------------------------------------------------
(* What ADDs went on with.                                                 *)

Kept(n, r) ==
  r \in Records \/ files[n][r[1]] = r[2] \/ Change("DELETE", r) \in ToSet(log)

(* A step that deletes no record without a mark in the log and changes no  *)
(* file, but may bring records the node has not kept.                      *)
LEMMA KeptStays ==
  ASSUME AddedIsKept, NEW n \in Node, NEW r \in added[n] \ lost[n],
         r \in Records => r \in Records' \/ Change("DELETE", r) \in ToSet(log'),
         ToSet(log) \subseteq ToSet(log'),
         \/ files'[n][r[1]] = files[n][r[1]]
         \/ files[n][r[1]] = r[2] => Kept(n, r)'
  PROVE  Kept(n, r)'
<1>1. Kept(n, r)
  BY DEF AddedIsKept, Kept
<1> QED BY <1>1 DEF Kept

(* The log only grows.                                                     *)
LEMMA LogKeeps ==
  ASSUME TypeOK, NEW op \in {"PUT", "DELETE"}, NEW r \in Key, Changed(op, r)
  PROVE  ToSet(log) \cup {Change(op, r)} \subseteq ToSet(log')
<1>0. log \in Seq(Changes)
  BY DEF TypeOK, Changes
<1>1. /\ Len(log) \in Nat /\ DOMAIN log = 1..Len(log)
      /\ Len(log') = Len(log) + 1 /\ log' \in Seq(Changes)
      /\ \A i \in 1..Len(log) : log'[i] = log[i]
      /\ log'[Len(log) + 1] = Change(op, r)
  BY <1>0, TypeChanged
<1>2. DOMAIN log' = 1..Len(log')
  BY <1>1
<1>3. DOMAIN log \subseteq DOMAIN log' /\ Len(log) + 1 \in DOMAIN log'
  BY <1>1, <1>2
<1> QED BY <1>1, <1>3 DEF ToSet

(* A put removes no record and no mark of one deleted.                     *)
LEMMA PutKeeps ==
  ASSUME TypeOK, NEW r \in Key, Changed("PUT", r)
  PROVE  /\ Records \subseteq Records' /\ ToSet(log) \subseteq ToSet(log')
         /\ r \in Record => r \in Records'
<1>1. log \in Seq(Changes)
  BY DEF TypeOK, Changes
<1>2. Records' = Records \cup ({r} \cap Record)
  BY <1>1, RecordsChanged
<1> QED BY <1>2, LogKeeps

LEMMA PutFailsKeeps ==
  ASSUME TypeOK, NEW r \in Record, PutFails(r)
  PROVE  Records \subseteq Records' /\ ToSet(log) \subseteq ToSet(log')
<1>1. CASE UNCHANGED <<log, missed>>
  BY <1>1, RecordsSame
<1>2. CASE PutUnseen(r)
  BY <1>2, RecordParts, PutKeeps DEF PutUnseen
<1> QED BY <1>1, <1>2 DEF PutFails

(* A step of node n that writes the file of interface v and gives up what  *)
(* was in it: nothing else is lost, whatever happens to record r of it.    *)
LEMMA KeptWrite ==
  ASSUME TypeOK, AddedIsKept, NEW n \in Node, NEW r \in Record, NEW a,
         Records \subseteq Records', ToSet(log) \subseteq ToSet(log'),
         files' = [files EXCEPT ![n][r[1]] = a],
         \A m \in Node : added'[m] \subseteq added[m] \cup (IF m = n THEN {r} ELSE {}),
         \A m \in Node \ {n} : lost'[m] = lost[m],
         (lost[n] \cup InFile(n, r[1])) \ {r} \subseteq lost'[n],
         r \in lost'[n] \/ a = r[2]
  PROVE  AddedIsKept'
<1> SUFFICES ASSUME NEW m \in Node, NEW q \in added'[m] \ lost'[m] PROVE Kept(m, q)'
  BY DEF AddedIsKept, Kept
<1>1. CASE m = n /\ q = r
  <2>1. a = r[2]
    BY <1>1
  <2>2. files'[n][r[1]] = a
    BY RecordParts DEF TypeOK
  <2> QED BY <1>1, <2>1, <2>2 DEF Kept
<1>2. CASE ~(m = n /\ q = r)
  <2>1. q \in added[m] \ lost[m] /\ (m = n => q \notin InFile(n, r[1]))
    BY <1>2
  <2>2. q \in Record /\ q = <<q[1], q[2]>> /\ q[1] \in Vxlan /\ r[1] \in Vxlan
    BY <2>1, RecordParts DEF TypeOK
  <2>3. files'[m][q[1]] = files[m][q[1]] \/ files[m][q[1]] # q[2]
    <3>1. CASE m = n /\ q[1] = r[1]
      BY <2>1, <2>2, <3>1 DEF InFile
    <3>2. CASE ~(m = n /\ q[1] = r[1])
      BY <2>2, <3>2 DEF TypeOK
    <3> QED BY <3>1, <3>2
  <2> QED BY <2>1, <2>3, KeptStays
<1> QED BY <1>1, <1>2

LEMMA KeptPlugin ==
  ASSUME TypeOK, AddedIsKept, NEW n \in Node, NEW r \in Record,
         \/ RecVxlan(n, r) \/ RecFails(n, r) \/ CacheRec(n, r)
         \/ CacheRecFails(n, r) \/ CacheRecKilled(n, r)
  PROVE  AddedIsKept'
<1>a. lost \in [Node -> SUBSET Record] /\ added \in [Node -> SUBSET Record]
  BY DEF TypeOK
<1>1. CASE RecVxlan(n, r)
  <2> SUFFICES ASSUME NEW m \in Node, NEW q \in added'[m] \ lost'[m] PROVE Kept(m, q)'
    BY DEF AddedIsKept, Kept
  <2>1. Records \subseteq Records' /\ r \in Records' /\ ToSet(log) \subseteq ToSet(log')
    <3>1. CASE r \in Records
      BY <1>1, <3>1, RecordsSame DEF RecVxlan
    <3>2. CASE r \notin Records
      BY <1>1, <3>2, RecordParts, PutKeeps DEF RecVxlan
    <3> QED BY <3>1, <3>2
  <2>2. CASE q = r
    BY <2>1, <2>2 DEF Kept
  <2>3. CASE q # r
    <3>1. q \in added[m] \ lost[m] /\ UNCHANGED files
      BY <1>1, <1>a, <2>3 DEF RecVxlan, Done
    <3> QED BY <2>1, <3>1, KeptStays
  <2> QED BY <2>2, <2>3
<1>2. CASE RecFails(n, r)
  <2> SUFFICES ASSUME NEW m \in Node, NEW q \in added'[m] \ lost'[m] PROVE Kept(m, q)'
    BY DEF AddedIsKept, Kept
  <2>1. Records \subseteq Records' /\ ToSet(log) \subseteq ToSet(log')
    BY <1>2, PutFailsKeeps DEF RecFails
  <2>2. q \in added[m] \ lost[m] /\ UNCHANGED files
    BY <1>2, <1>a DEF RecFails, Done
  <2> QED BY <2>1, <2>2, KeptStays
<1>3. CASE CacheRec(n, r)
  <2>1. PutFails(r)
    BY <1>3 DEF CacheRec, PutFails
  <2>2. Records \subseteq Records' /\ ToSet(log) \subseteq ToSet(log')
    BY <2>1, PutFailsKeeps
  <2>3. /\ files' = [files EXCEPT ![n][r[1]] = r[2]]
        /\ added' = [added EXCEPT ![n] = @ \cup {r}]
        /\ lost' = [lost EXCEPT ![n] = (@ \cup InFile(n, r[1])) \ {r}]
    BY <1>3 DEF CacheRec, Done
  <2>4. \A m \in Node : added'[m] \subseteq added[m] \cup (IF m = n THEN {r} ELSE {})
    BY <1>a, <2>3
  <2>5. /\ \A m \in Node \ {n} : lost'[m] = lost[m]
        /\ (lost[n] \cup InFile(n, r[1])) \ {r} \subseteq lost'[n]
    BY <1>a, <2>3
  <2> QED BY <2>2, <2>3, <2>4, <2>5, KeptWrite
<1>4. ASSUME Truncated(n, r),
             added' = [added EXCEPT ![n] = @ \cup {r}] \/ UNCHANGED added
      PROVE  AddedIsKept'
  <2>1. Records \subseteq Records' /\ ToSet(log) \subseteq ToSet(log')
    BY <1>4, PutFailsKeeps DEF Truncated
  <2>2. /\ files' = [files EXCEPT ![n][r[1]] = Empty]
        /\ lost' = [lost EXCEPT ![n] = @ \cup InFile(n, r[1]) \cup {r}]
    BY <1>4 DEF Truncated
  <2> QED BY <1>4, <1>a, <2>1, <2>2, KeptWrite
<1>5. CASE CacheRecFails(n, r)
  BY <1>4, <1>5 DEF CacheRecFails, Done
<1>6. CASE CacheRecKilled(n, r)
  BY <1>4, <1>6 DEF CacheRecKilled
<1> QED BY <1>1, <1>2, <1>3, <1>5, <1>6

LEMMA KeptStep ==
  ASSUME TypeOK, TypeOK', AddedIsKept, [Next]_vars
  PROVE  AddedIsKept'
<1>1. ASSUME UNCHANGED <<added, lost, files, log>> PROVE AddedIsKept'
  BY <1>1, RecordsSame DEF AddedIsKept
<1>2. ASSUME NEW n \in Node, NEW v \in Vxlan, CacheToEtcd(n, v) \/ CacheStays(n, v)
      PROVE  AddedIsKept'
  <2> DEFINE k == <<v, files[n][v]>>
  <2> SUFFICES ASSUME NEW m \in Node, NEW q \in added'[m] \ lost'[m] PROVE Kept(m, q)'
    BY DEF AddedIsKept, Kept
  <2>1. /\ k \in Key /\ Changed("PUT", k) /\ UNCHANGED <<added, lost>>
        /\ files' = [files EXCEPT ![n][v] = None] \/ UNCHANGED files
    BY <1>2, FileKey DEF CacheToEtcd, CacheStays, Cached, plugin
  <2>2. q \in added[m] \ lost[m] /\ q \in Record /\ q = <<q[1], q[2]>> /\ q[1] \in Vxlan
    BY <2>1, RecordParts DEF TypeOK
  <2> HIDE DEF k
  <2>3. /\ Records \subseteq Records' /\ ToSet(log) \subseteq ToSet(log')
        /\ k \in Record => k \in Records'
    BY <2>1, PutKeeps
  <2>4. CASE m = n /\ q = k
    BY <2>2, <2>3, <2>4 DEF Kept
  <2>5. CASE ~(m = n /\ q = k)
    <3>1. files'[m][q[1]] = files[m][q[1]] \/ files[m][q[1]] # q[2]
      BY <2>1, <2>2, <2>5 DEF TypeOK, k
    <3> QED BY <2>2, <2>3, <3>1, KeptStays
  <2> QED BY <2>4, <2>5
<1>3. ASSUME NEW r \in Record, OperatorDeletes(r) PROVE AddedIsKept'
  <2> SUFFICES ASSUME NEW m \in Node, NEW q \in added'[m] \ lost'[m] PROVE Kept(m, q)'
    BY DEF AddedIsKept, Kept
  <2>1. /\ Changed("DELETE", r) /\ UNCHANGED <<added, lost, files>> /\ log \in Seq(Changes)
        /\ r \in Key
    BY <1>3, RecordParts DEF OperatorDeletes, plugin, TypeOK, Changes
  <2>2. Records' = Records \ {r}
    BY <2>1, RecordsChanged
  <2>3. ToSet(log) \cup {Change("DELETE", r)} \subseteq ToSet(log')
    BY <2>1, LogKeeps
  <2>4. q \in Records => q \in Records' \/ Change("DELETE", q) \in ToSet(log')
    BY <2>2, <2>3
  <2> QED BY <2>1, <2>3, <2>4, KeptStays
<1>4. ASSUME NEW n \in Node,
             \/ \E v \in Vxlan : \/ UseLink(n, v) \/ CreateLink(n, v) \/ DeleteLink(n, v)
                                 \/ ForeignLink(n, v)
             \/ \E r \in Record : AddFails(n, r) \/ ReplayFails(n, r)
             \/ \E a \in Addr : Readdress(n, a)
             \/ Reboot(n)
      PROVE  UNCHANGED <<added, lost, files, log>>
  BY <1>4
  DEF UseLink, CreateLink, DeleteLink, ForeignLink, AddFails, ReplayFails, Readdress,
      Reboot, plugin
<1>5. ASSUME NEW n \in Node, HistoryFails(n) \/ WatchCloses(n) \/ DaemonRestarts(n)
      PROVE  UNCHANGED <<added, lost, files, log>>
  BY <1>5 DEF HistoryFails, WatchCloses, DaemonRestarts, plugin
<1>6. ASSUME NEW n \in Node, DaemonStep(n)
      PROVE  UNCHANGED <<added, lost, files, log>>
  BY <1>6
  DEF DaemonStep, ProcHistory, Watch, WatchedPut, WatchedDelete, BufferName, Replay,
      AddFDB, AddFDBFails, Entered, plugin
<1>7. CASE UNCHANGED vars
  BY <1>1, <1>7 DEF vars
<1> QED BY <1>1, <1>2, <1>3, <1>4, <1>5, <1>6, <1>7, KeptPlugin DEF Next

(* The record of an ADD that went on past RecVxlan is lost in no way but   *)
(* those lost stands for: no client of etcd, or a put and a file that both *)
(* fail, or a later write of that file.  On its way from there to etcd it  *)
(* is not, when puts take effect unseen, or plugin and multusd are killed. *)
THEOREM AddedKept == Spec => []AddedIsKept
<1>1. Init => AddedIsKept
  BY DEF Init, AddedIsKept
<1>2. TypeOK /\ TypeOK' /\ AddedIsKept /\ [Next]_vars => AddedIsKept'
  BY KeptStep
<1> QED BY <1>1, <1>2, FdbTypeCorrect, PTL DEF Spec

-----------------------------------------------------------------------------
(* What a forwarding table lacks.                                          *)

(* A change of the record multusd has not got to.                          *)
ToCome(n, r) ==
  daemon[n].pc = "watch" /\ \E i \in (daemon[n].pos + 1)..Len(log) : log[i].rec = r

(* What multusd knows of the record or will be told.                       *)
Known(n, r) ==
  \/ daemon[n].pc = "start" \/ r \in daemon[n].todo \/ ToCome(n, r)
  \/ r[1] \in daemon[n].buf \/ r \in missed[n]

Reason(n, r) == link[n][r[1]] = r[2] \/ r[2] \in fdb[n][r[1]] \/ Known(n, r)

LEMMA ExplainedReason ==
  Explained <=> \A n \in Watcher : \A r \in Records : Reason(n, r)
  BY DEF Explained, Reason, Known, ToCome

(* multusd goes on where nothing touches it.                               *)
LEMMA ReasonStays ==
  ASSUME NEW n \in Node, NEW r \in Record, Reason(n, r), UNCHANGED log,
         daemon'[n] = daemon[n] \/ daemon'[n].pc = "start",
         missed[n] \subseteq missed'[n],
         \/ link'[n][r[1]] = link[n][r[1]] /\ fdb[n][r[1]] \subseteq fdb'[n][r[1]]
         \/ link[n][r[1]] # r[2] /\ fdb[n][r[1]] = {}
         \/ r \in missed'[n] \/ daemon'[n].pc = "start"
  PROVE  Reason(n, r)'
  BY DEF Reason, Known, ToCome

(* A change of another record, or one more of this, is still to come.      *)
LEMMA ReasonChanged ==
  ASSUME TypeOK, NEW n \in Node, NEW q \in Record,
         NEW op \in {"PUT", "DELETE"}, NEW r \in Key, Changed(op, r),
         UNCHANGED <<link, fdb, daemon>>, q = r \/ Reason(n, q)
  PROVE  Reason(n, q)'
<1>0. log \in Seq(Changes) /\ daemon[n].pos \in Nat /\ daemon[n].pos <= Len(log)
      /\ daemon[n].pc \in {"start", "history", "watch"}
  BY DEF TypeOK, Changes
<1>1. /\ Len(log) \in Nat /\ Len(log') = Len(log) + 1
      /\ \A i \in 1..Len(log) : log'[i] = log[i]
      /\ log'[Len(log) + 1].rec = r
      /\ missed[n] \subseteq missed'[n] /\ (daemon[n].pc = "history" => r \in missed'[n])
  <2>1. /\ Len(log') = Len(log) + 1
        /\ \A i \in 1..Len(log) : log'[i] = log[i]
        /\ log'[Len(log) + 1] = Change(op, r)
        /\ missed[n] \subseteq missed'[n] /\ (daemon[n].pc = "history" => r \in missed'[n])
    BY TypeChanged
  <2>2. Change(op, r).rec = r
    BY DEF Change
  <2> QED BY <1>0, <2>1, <2>2
<1>2. CASE q = r
  <2>1. Len(log) + 1 \in (daemon[n].pos + 1)..Len(log')
    BY <1>0, <1>1
  <2>2. daemon[n].pc = "watch" => ToCome(n, r)'
    BY <1>1, <2>1 DEF ToCome
  <2> QED BY <1>0, <1>1, <1>2, <2>2 DEF Reason, Known
<1>3. CASE Reason(n, q)
  <2>1. ASSUME ToCome(n, q) PROVE ToCome(n, q)'
    <3>1. PICK i \in (daemon[n].pos + 1)..Len(log) : log[i].rec = q
      BY <2>1 DEF ToCome
    <3>2. i \in (daemon[n].pos + 1)..Len(log') /\ i \in 1..Len(log)
      BY <1>0, <1>1
    <3> QED BY <1>1, <2>1, <3>1, <3>2 DEF ToCome
  <2> QED BY <1>1, <1>3, <2>1 DEF Reason, Known
<1> QED BY <1>2, <1>3

(* A record a delete in the log is followed by has one more change to come *)
(* behind it.                                                              *)
LEMMA ComesAgain ==
  ASSUME TypeOK, NEW n \in Node, Watching(n), NEW r \in Records,
         NextChange(n).op = "DELETE", NextChange(n).rec = r
  PROVE  \E i \in (daemon[n].pos + 2)..Len(log) : log[i].rec = r
<1>0. log \in Seq(Changes) /\ daemon[n].pos \in Nat
  BY DEF TypeOK, Changes
<1>1. Len(log) \in Nat /\ DOMAIN log = 1..Len(log) /\ daemon[n].pos + 1 \in 1..Len(log)
  BY <1>0, NextChangeType
<1>2. PICK i \in DOMAIN log : /\ log[i] = Change("PUT", r)
                              /\ \A j \in (i + 1)..Len(log) : log[j].rec # r
  BY DEF Records, Keys
<1>3. log[i].rec = r /\ log[i].op = "PUT"
  BY <1>2 DEF Change
<1>4. i # daemon[n].pos + 1
  BY <1>3 DEF NextChange
<1>5. ~(daemon[n].pos + 1 \in (i + 1)..Len(log))
  BY <1>2 DEF NextChange
<1>6. i \in (daemon[n].pos + 2)..Len(log)
  BY <1>0, <1>1, <1>4, <1>5
<1> QED BY <1>3, <1>6

(* What a step of multusd of one node leaves to the others.                *)
LEMMA OneDaemon ==
  ASSUME TypeOK, Explained, NEW n \in Node, NEW d, daemon' = [daemon EXCEPT ![n] = d],
         UNCHANGED <<link, log>>,
         \A m \in Node \ {n} : fdb'[m] = fdb[m] /\ missed[m] \subseteq missed'[m],
         n \in Watcher => \A r \in Records : Reason(n, r)'
  PROVE  Explained'
<1>1. Records' = Records /\ Records \subseteq Record
  BY RecordsSame DEF Records
<1>2. ASSUME NEW m \in Watcher, NEW r \in Records PROVE Reason(m, r)'
  <2>1. CASE m = n
    BY <1>2, <2>1
  <2>2. CASE m # n
    <3>1. m \in Node /\ Reason(m, r) /\ daemon'[m] = daemon[m]
      BY <2>2, ExplainedReason, VxlanFdbAssumption DEF TypeOK
    <3> QED BY <1>1, <2>2, <3>1, ReasonStays
  <2> QED BY <2>1, <2>2
<1>3. Explained' <=> \A m \in Watcher : \A r \in Records' : Reason(m, r)'
  BY DEF Explained, Reason, Known, ToCome
<1> QED BY <1>1, <1>2, <1>3

LEMMA ExplainedDaemon ==
  ASSUME TypeOK, Explained, NEW n \in Node, DaemonStep(n)
  PROVE  Explained'
<1>a. /\ \A r \in Records : r \in Record /\ r[1] \in Vxlan /\ r[2] \in Addr
      /\ n \in Watcher => \A r \in Records : Reason(n, r)
  BY RecordParts, ExplainedReason DEF Records
<1>b. daemon[n] \in Daemon /\ daemon[n].pos \in Nat
  BY DEF TypeOK, Daemon
<1>1. CASE ProcHistory(n)
  <2> DEFINE d == [daemon[n] EXCEPT !.pc = "history", !.todo = History(Vxlan)]
  <2>1. daemon' = [daemon EXCEPT ![n] = d] /\ d.todo = History(Vxlan)
    BY <1>1, <1>b DEF ProcHistory, Daemon
  <2> HIDE DEF d
  <2>2. ASSUME NEW r \in Records PROVE Reason(n, r)'
    BY <1>a, <2>1 DEF TypeOK, History, Reason, Known
  <2> QED BY <1>1, <2>1, <2>2, OneDaemon DEF ProcHistory, plugin, TypeOK
<1>2. CASE Watch(n)
  <2> DEFINE d == [daemon[n] EXCEPT !.pc = "watch", !.pos = Len(log)]
  <2>1. /\ daemon' = [daemon EXCEPT ![n] = d] /\ d.buf = daemon[n].buf
        /\ daemon[n].todo = {} /\ daemon[n].pc = "history"
    BY <1>2, <1>b DEF Watch, Daemon
  <2> HIDE DEF d
  <2>2. daemon'[n] = d
    BY <2>1 DEF TypeOK
  <2>3. ASSUME NEW r \in Records, n \in Watcher PROVE Reason(n, r)'
    BY <1>2, <1>a, <2>1, <2>2, <2>3 DEF Watch, plugin, Reason, Known, ToCome
  <2> QED BY <1>2, <2>1, <2>3, OneDaemon DEF Watch, plugin
<1>3. CASE WatchedPut(n)
  <2> DEFINE c == NextChange(n).rec
             d == [daemon[n] EXCEPT !.pos = @ + 1, !.todo = {c} \cap Record]
  <2>1. /\ daemon' = [daemon EXCEPT ![n] = d] /\ d.buf = daemon[n].buf
        /\ d.todo = {c} \cap Record /\ d.pos = daemon[n].pos + 1 /\ d.pc = "watch"
        /\ daemon[n].todo = {} /\ daemon[n].pc = "watch"
    BY <1>3, <1>b DEF WatchedPut, Watching, Daemon
  <2> HIDE DEF d
  <2>2. daemon'[n] = d
    BY <2>1 DEF TypeOK
  <2>3. ASSUME NEW r \in Records, n \in Watcher PROVE Reason(n, r)'
    <3>1. CASE r = c
      BY <1>a, <2>1, <2>2, <3>1 DEF Reason, Known
    <3>2. CASE r # c
      <4>1. ASSUME ToCome(n, r) PROVE ToCome(n, r)'
        <5>1. PICK i \in (daemon[n].pos + 1)..Len(log) : log[i].rec = r
          BY <4>1 DEF ToCome
        <5>2. i # daemon[n].pos + 1
          BY <3>2, <5>1 DEF NextChange
        <5>3. i \in (d.pos + 1)..Len(log)
          BY <1>b, <2>1, <5>1, <5>2
        <5> QED BY <1>3, <2>1, <2>2, <5>1, <5>3 DEF ToCome, WatchedPut
      <4> QED BY <1>3, <1>a, <2>1, <2>2, <2>3, <4>1 DEF WatchedPut, plugin, Reason, Known
    <3> QED BY <3>1, <3>2
  <2> QED BY <1>3, <2>1, <2>3, OneDaemon DEF WatchedPut, plugin
<1>4. CASE WatchedDelete(n)
  <2> DEFINE c == NextChange(n).rec
             d == [daemon[n] EXCEPT !.pos = @ + 1]
  <2>1. /\ daemon' = [daemon EXCEPT ![n] = d] /\ d.buf = daemon[n].buf
        /\ d.todo = {} /\ d.pos = daemon[n].pos + 1 /\ d.pc = "watch"
        /\ daemon[n].todo = {} /\ daemon[n].pc = "watch"
    BY <1>4, <1>b DEF WatchedDelete, Watching, Daemon
  <2> HIDE DEF d
  <2>2. daemon'[n] = d
    BY <2>1 DEF TypeOK
  <2>3. c[1] \in Vxlan /\ c = <<c[1], c[2]>>
    BY <1>4, NextChangeType, KeyParts DEF WatchedDelete
  <2>4. /\ \A m \in Node \ {n} : fdb'[m] = fdb[m]
        /\ \A r \in Record : r # c => (r[2] \in fdb[n][r[1]] => r[2] \in fdb'[n][r[1]])
    <3>1. \/ fdb' = fdb
          \/ fdb' = [fdb EXCEPT ![n][c[1]] = @ \ {c[2]}]
      BY <1>4 DEF WatchedDelete
    <3>2. \A r \in Record : r # c => r[1] # c[1] \/ r[2] # c[2]
      BY <2>3, RecordParts
    <3>3. fdb \in [Node -> [Vxlan -> SUBSET Addr]] /\ \A r \in Record : r[1] \in Vxlan
      BY RecordParts DEF TypeOK
    <3> HIDE DEF c
    <3> QED BY <2>3, <3>1, <3>2, <3>3
  <2>5. ASSUME NEW r \in Records, n \in Watcher PROVE Reason(n, r)'
    <3>1. ASSUME r = c \/ ToCome(n, r) PROVE ToCome(n, r)'
      <4>1. PICK i \in (daemon[n].pos + 2)..Len(log) : log[i].rec = r
        <5>1. CASE r = c
          BY <1>4, <5>1, ComesAgain DEF WatchedDelete
        <5>2. CASE r # c
          <6>1. PICK i \in (daemon[n].pos + 1)..Len(log) : log[i].rec = r
            BY <3>1, <5>2 DEF ToCome
          <6>2. i # daemon[n].pos + 1
            BY <5>2, <6>1 DEF NextChange
          <6> QED BY <1>b, <6>1, <6>2
        <5> QED BY <5>1, <5>2
      <4>2. i \in (d.pos + 1)..Len(log)
        BY <1>b, <2>1, <4>1
      <4> QED BY <1>4, <2>1, <2>2, <4>1, <4>2 DEF ToCome, WatchedDelete
    <3>2. CASE r = c \/ ToCome(n, r)
      BY <3>1, <3>2 DEF Reason, Known
    <3>3. CASE r # c /\ ~ToCome(n, r)
      BY <1>4, <1>a, <2>1, <2>2, <2>4, <2>5, <3>3 DEF WatchedDelete, Reason, Known
    <3> QED BY <3>2, <3>3
  <2>6. UNCHANGED <<addr, link, adding, added, lost, files, log, missed, faults>>
    BY <1>4 DEF WatchedDelete
  <2> QED BY <2>1, <2>4, <2>5, <2>6, OneDaemon
<1>5. ASSUME NEW q \in Record, BufferName(n, q) PROVE Explained'
  <2> DEFINE d == [daemon[n] EXCEPT !.buf = @ \cup {q[1]}, !.todo = @ \ {q}]
  <2>1. /\ daemon' = [daemon EXCEPT ![n] = d] /\ d.buf = daemon[n].buf \cup {q[1]}
        /\ d.todo = daemon[n].todo \ {q} /\ d.pos = daemon[n].pos /\ d.pc = daemon[n].pc
    BY <1>5, <1>b DEF BufferName, Daemon
  <2> HIDE DEF d
  <2>2. daemon'[n] = d
    BY <2>1 DEF TypeOK
  <2>3. ASSUME NEW r \in Records, n \in Watcher PROVE Reason(n, r)'
    BY <1>5, <1>a, <2>1, <2>2, <2>3 DEF BufferName, plugin, Reason, Known, ToCome
  <2> QED BY <1>5, <2>1, <2>3, OneDaemon DEF BufferName, plugin
<1>6. ASSUME NEW q \in Record, Replay(n, q) PROVE Explained'
  <2> DEFINE h == History({q[1]})
             d == [daemon[n] EXCEPT !.buf = @ \ {q[1]}, !.todo = (@ \ {q}) \cup h]
  <2>1. /\ daemon' = [daemon EXCEPT ![n] = d] /\ d.buf = daemon[n].buf \ {q[1]}
        /\ d.todo = (daemon[n].todo \ {q}) \cup h
        /\ d.pos = daemon[n].pos /\ d.pc = daemon[n].pc
    BY <1>6, <1>b DEF Replay, Daemon
  <2>2. \A r \in Records : r[1] = q[1] => r \in h
    BY DEF History
  <2> HIDE DEF d, h
  <2>3. daemon'[n] = d
    BY <2>1 DEF TypeOK
  <2>4. ASSUME NEW r \in Records, n \in Watcher PROVE Reason(n, r)'
    BY <1>6, <1>a, <2>1, <2>2, <2>3, <2>4 DEF Replay, plugin, Reason, Known, ToCome
  <2> QED BY <1>6, <2>1, <2>4, OneDaemon DEF Replay, plugin
<1>7. ASSUME NEW q \in Record, AddFDB(n, q) PROVE Explained'
  <2> DEFINE d == [daemon[n] EXCEPT !.todo = @ \ {q}]
  <2>1. /\ daemon' = [daemon EXCEPT ![n] = d] /\ d.buf = daemon[n].buf
        /\ d.todo = daemon[n].todo \ {q} /\ d.pos = daemon[n].pos /\ d.pc = daemon[n].pc
    BY <1>7, <1>b DEF AddFDB, Entered, Daemon
  <2> HIDE DEF d
  <2>2. daemon'[n] = d
    BY <2>1 DEF TypeOK
  <2>3. /\ \A m \in Node \ {n} : fdb'[m] = fdb[m]
        /\ \A v \in Vxlan : fdb[n][v] \subseteq fdb'[n][v]
        /\ link[n][q[1]] = q[2] \/ q[2] \in fdb'[n][q[1]]
    BY <1>7, RecordParts DEF AddFDB, TypeOK
  <2>4. ASSUME NEW r \in Records, n \in Watcher PROVE Reason(n, r)'
    <3>1. CASE r = q
      BY <1>7, <2>3, <3>1 DEF AddFDB, Entered, Reason
    <3>2. CASE r # q
      BY <1>7, <1>a, <2>1, <2>2, <2>3, <2>4, <3>2 DEF AddFDB, Entered, Reason, Known, ToCome
    <3> QED BY <3>1, <3>2
  <2>5. UNCHANGED <<link, log, missed>>
    BY <1>7 DEF AddFDB, Entered
  <2> QED BY <2>1, <2>3, <2>4, <2>5, OneDaemon
<1>8. ASSUME NEW q \in Record, AddFDBFails(n, q) PROVE Explained'
  <2> DEFINE d == [daemon[n] EXCEPT !.todo = @ \ {q}]
  <2>1. /\ daemon' = [daemon EXCEPT ![n] = d] /\ d.buf = daemon[n].buf
        /\ d.todo = daemon[n].todo \ {q} /\ d.pos = daemon[n].pos /\ d.pc = daemon[n].pc
    BY <1>8, <1>b DEF AddFDBFails, Entered, Daemon
  <2> HIDE DEF d
  <2>2. /\ daemon'[n] = d /\ UNCHANGED <<link, fdb, log>>
        /\ missed'[n] = missed[n] \cup {q}
        /\ \A m \in Node \ {n} : missed'[m] = missed[m]
    BY <1>8, <2>1 DEF AddFDBFails, Entered, TypeOK
  <2>3. ASSUME NEW r \in Records, n \in Watcher PROVE Reason(n, r)'
    <3>1. CASE r = q
      BY <2>2, <3>1 DEF Reason, Known
    <3>2. CASE r # q
      BY <1>a, <2>1, <2>2, <2>3, <3>2 DEF Reason, Known, ToCome
    <3> QED BY <3>1, <3>2
  <2> QED BY <2>1, <2>2, <2>3, OneDaemon
<1> QED BY <1>1, <1>2, <1>3, <1>4, <1>5, <1>6, <1>7, <1>8 DEF DaemonStep

(* Faults of multusd.                                                      *)
LEMMA ExplainedFault ==
  ASSUME TypeOK, Explained, NEW n \in Node,
         \/ HistoryFails(n) \/ WatchCloses(n) \/ DaemonRestarts(n)
         \/ \E r \in Record : ReplayFails(n, r)
  PROVE  Explained'
<1>a. /\ \A r \in Records : r \in Record /\ r = <<r[1], r[2]>> /\ r[1] \in Vxlan /\ r[2] \in Addr
      /\ n \in Watcher => \A r \in Records : Reason(n, r)
  BY RecordParts, ExplainedReason DEF Records
<1>b. daemon[n] \in Daemon
  BY DEF TypeOK, Daemon
<1>1. CASE HistoryFails(n)
  <2> DEFINE d == [daemon[n] EXCEPT !.pc = "history"]
  <2>1. daemon' = [daemon EXCEPT ![n] = d]
    BY <1>1 DEF HistoryFails
  <2>2. missed' = [missed EXCEPT ![n] = Record] /\ UNCHANGED <<link, fdb, log>>
    BY <1>1 DEF HistoryFails, plugin
  <2>3. ASSUME NEW r \in Records PROVE Reason(n, r)'
    BY <1>a, <2>2 DEF TypeOK, Reason, Known
  <2> HIDE DEF d
  <2> QED BY <2>1, <2>2, <2>3, OneDaemon DEF TypeOK
<1>2. CASE WatchCloses(n)
  <2> DEFINE d == [daemon[n] EXCEPT !.pc = "start"]
  <2>1. daemon' = [daemon EXCEPT ![n] = d] /\ d.pc = "start"
    BY <1>2, <1>b DEF WatchCloses, Daemon
  <2> HIDE DEF d
  <2>2. ASSUME NEW r \in Records PROVE Reason(n, r)'
    BY <2>1 DEF TypeOK, Reason, Known
  <2> QED BY <1>2, <2>1, <2>2, OneDaemon DEF WatchCloses, plugin
<1>3. CASE DaemonRestarts(n)
  <2>1. daemon' = [daemon EXCEPT ![n] = Started] /\ Started.pc = "start"
    BY <1>3 DEF DaemonRestarts, Started
  <2>2. ASSUME NEW r \in Records PROVE Reason(n, r)'
    BY <2>1 DEF TypeOK, Reason, Known
  <2> QED BY <1>3, <2>1, <2>2, OneDaemon DEF DaemonRestarts, plugin
<1>4. ASSUME NEW q \in Record, ReplayFails(n, q) PROVE Explained'
  <2> DEFINE d == [daemon[n] EXCEPT !.buf = @ \ {q[1]}, !.todo = @ \ {q}]
  <2>1. /\ daemon' = [daemon EXCEPT ![n] = d] /\ d.buf = daemon[n].buf \ {q[1]}
        /\ d.todo = daemon[n].todo \ {q} /\ d.pos = daemon[n].pos /\ d.pc = daemon[n].pc
    <3>1. daemon' = [daemon EXCEPT ![n] = d] BY <1>4 DEF ReplayFails
    <3> QED BY <1>b, <3>1 DEF Daemon
  <2> HIDE DEF d
  <2>2. /\ daemon'[n] = d /\ UNCHANGED <<link, fdb, log>>
        /\ missed'[n] = missed[n] \cup ({q[1]} \X Addr)
        /\ \A m \in Node \ {n} : missed'[m] = missed[m]
    <3>1. /\ missed' = [missed EXCEPT ![n] = @ \cup ({q[1]} \X Addr)]
          /\ UNCHANGED <<link, fdb, log>>
      BY <1>4 DEF ReplayFails, plugin
    <3>2. missed \in [Node -> SUBSET Key] /\ n \in DOMAIN daemon
      BY DEF TypeOK
    <3> QED BY <2>1, <3>1, <3>2
  <2>3. ASSUME NEW r \in Records, n \in Watcher PROVE Reason(n, r)'
    <3>1. CASE r[1] = q[1]
      <4>1. r \in {q[1]} \X Addr
        BY <1>a, <3>1
      <4> QED BY <2>2, <4>1 DEF Reason, Known
    <3>2. CASE r[1] # q[1]
      BY <1>a, <2>1, <2>2, <2>3, <3>2 DEF Reason, Known, ToCome
    <3> QED BY <3>1, <3>2
  <2> QED BY <2>1, <2>2, <2>3, OneDaemon
<1> QED BY <1>1, <1>2, <1>3, <1>4

(* A step that leaves the log alone.                                       *)
LEMMA SameLog ==
  ASSUME Explained, UNCHANGED log,
         \A m \in Watcher : \A r \in Records : Reason(m, r) => Reason(m, r)'
  PROVE  Explained'
<1>1. Records' = Records
  BY RecordsSame
<1>2. Explained' <=> \A m \in Watcher : \A r \in Records' : Reason(m, r)'
  BY DEF Explained, Reason, Known, ToCome
<1> QED BY <1>1, <1>2, ExplainedReason

(* A record is put or deleted.                                             *)
LEMMA ExplainedChanged ==
  ASSUME TypeOK, Explained, NEW op \in {"PUT", "DELETE"}, NEW r \in Key, Changed(op, r),
         UNCHANGED <<link, fdb, daemon>>
  PROVE  Explained'
<1>0. log \in Seq(Changes)
  BY DEF TypeOK, Changes
<1>1. Records' \subseteq Records \cup {r}
  BY <1>0, RecordsChanged
<1>2. Records \subseteq Record /\ Records' \subseteq Record
  BY DEF Records
<1>3. ASSUME NEW m \in Watcher, NEW q \in Records' PROVE Reason(m, q)'
  <2>1. m \in Node /\ q \in Record /\ (q = r \/ Reason(m, q))
    BY <1>1, <1>2, ExplainedReason, VxlanFdbAssumption
  <2> QED BY <2>1, ReasonChanged
<1>4. Explained' <=> \A m \in Watcher : \A q \in Records' : Reason(m, q)'
  BY DEF Explained, Reason, Known, ToCome
<1> QED BY <1>3, <1>4

LEMMA ExplainedStep ==
  ASSUME TypeOK, Explained, [Next]_vars
  PROVE  Explained'
<1>a. /\ \A r \in Records : r \in Record /\ r = <<r[1], r[2]>> /\ r[1] \in Vxlan /\ r[2] \in Addr
      /\ \A m \in Watcher : m \in Node
  BY RecordParts, VxlanFdbAssumption DEF Records
<1>1. ASSUME UNCHANGED <<link, fdb, daemon, missed, log>> PROVE Explained'
  BY <1>1, SameLog DEF Reason, Known, ToCome
<1>2. ASSUME NEW n \in Node, NEW v \in Vxlan, CreateLink(n, v) PROVE Explained'
  <2>1. /\ link' = [link EXCEPT ![n][v] = addr[n]] /\ link[n][v] = None
        /\ UNCHANGED <<fdb, daemon, missed, log>>
    BY <1>2 DEF CreateLink
  <2>2. ASSUME NEW m \in Watcher, NEW r \in Records, Reason(m, r) PROVE Reason(m, r)'
    <3>1. CASE m = n /\ r[1] = v
      <4>1. link[m][r[1]] # r[2]
        BY <2>1, <3>1, <1>a, VxlanFdbAssumption
      <4>2. Known(m, r) \/ r[2] \in fdb[m][r[1]]
        BY <2>2, <4>1 DEF Reason
      <4> QED BY <2>1, <4>2 DEF Reason, Known, ToCome
    <3>2. CASE ~(m = n /\ r[1] = v)
      <4>1. link'[m][r[1]] = link[m][r[1]]
        BY <1>a, <2>1, <3>2 DEF TypeOK
      <4> QED BY <2>1, <2>2, <4>1 DEF Reason, Known, ToCome
    <3> QED BY <3>1, <3>2
  <2> QED BY <2>1, <2>2, SameLog
<1>3. ASSUME NEW n \in Node, NEW v \in Vxlan, DeleteLink(n, v) PROVE Explained'
  <2>1. /\ link' = [link EXCEPT ![n][v] = None] /\ fdb' = [fdb EXCEPT ![n][v] = {}]
        /\ missed' = [missed EXCEPT ![n] = @ \cup ({v} \X Addr)]
        /\ UNCHANGED <<daemon, log>>
    BY <1>3 DEF DeleteLink
  <2>2. ASSUME NEW m \in Watcher, NEW r \in Records, Reason(m, r) PROVE Reason(m, r)'
    <3>1. CASE m = n /\ r[1] = v
      <4>1. r \in {v} \X Addr
        BY <1>a, <3>1
      <4>2. r \in missed'[m]
        BY <1>a, <2>1, <3>1, <4>1 DEF TypeOK
      <4> QED BY <4>2 DEF Reason, Known
    <3>2. CASE ~(m = n /\ r[1] = v)
      <4>1. link'[m][r[1]] = link[m][r[1]] /\ fdb'[m][r[1]] = fdb[m][r[1]]
        BY <1>a, <2>1, <3>2 DEF TypeOK
      <4>2. missed[m] \subseteq missed'[m]
        BY <1>a, <2>1 DEF TypeOK
      <4> QED BY <2>1, <2>2, <4>1, <4>2 DEF Reason, Known, ToCome
    <3> QED BY <3>1, <3>2
  <2> QED BY <2>1, <2>2, SameLog
<1>4. ASSUME NEW n \in Node, Reboot(n) PROVE Explained'
  <2>1. /\ link' = [link EXCEPT ![n] = [v \in Vxlan |-> None]]
        /\ fdb' = [fdb EXCEPT ![n] = [v \in Vxlan |-> {}]]
        /\ daemon' = [daemon EXCEPT ![n] = Started] /\ Started.pc = "start"
        /\ UNCHANGED <<missed, log>>
    BY <1>4 DEF Reboot, Started
  <2>2. ASSUME NEW m \in Watcher, NEW r \in Records, Reason(m, r) PROVE Reason(m, r)'
    <3>1. CASE m = n
      BY <1>a, <2>1, <3>1 DEF TypeOK, Reason, Known
    <3>2. CASE m # n
      <4>1. link'[m] = link[m] /\ fdb'[m] = fdb[m] /\ daemon'[m] = daemon[m]
        BY <1>a, <2>1, <3>2 DEF TypeOK
      <4> QED BY <2>1, <2>2, <4>1 DEF Reason, Known, ToCome
    <3> QED BY <3>1, <3>2
  <2> QED BY <2>1, <2>2, SameLog
<1>5. ASSUME NEW n \in Node, NEW v \in Vxlan, ForeignLink(n, v) PROVE Explained'
  <2>1. /\ link' = [link EXCEPT ![n][v] = Foreign] /\ link[n][v] = None
        /\ UNCHANGED <<fdb, daemon, missed, log>>
    BY <1>5 DEF ForeignLink
  <2>2. ASSUME NEW m \in Watcher, NEW r \in Records, Reason(m, r) PROVE Reason(m, r)'
    <3>1. CASE m = n /\ r[1] = v
      <4>1. link[m][r[1]] # r[2]
        BY <2>1, <3>1, <1>a, VxlanFdbAssumption
      <4>2. Known(m, r) \/ r[2] \in fdb[m][r[1]]
        BY <2>2, <4>1 DEF Reason
      <4> QED BY <2>1, <4>2 DEF Reason, Known, ToCome
    <3>2. CASE ~(m = n /\ r[1] = v)
      <4>1. link'[m][r[1]] = link[m][r[1]]
        BY <1>a, <2>1, <3>2 DEF TypeOK
      <4> QED BY <2>1, <2>2, <4>1 DEF Reason, Known, ToCome
    <3> QED BY <3>1, <3>2
  <2> QED BY <2>1, <2>2, SameLog
<1>6. ASSUME NEW n \in Node, NEW r \in Record,
             \/ RecVxlan(n, r) \/ RecFails(n, r) \/ CacheRec(n, r)
             \/ CacheRecFails(n, r) \/ CacheRecKilled(n, r)
      PROVE  Explained'
  <2>1. /\ UNCHANGED <<link, fdb, daemon>>
        /\ UNCHANGED <<log, missed>> \/ Changed("PUT", r)
    BY <1>6
    DEF RecVxlan, RecFails, CacheRec, CacheRecFails, CacheRecKilled, Truncated, Done,
        PutFails, PutUnseen
  <2> QED BY <1>1, <2>1, RecordParts, ExplainedChanged
<1>7. ASSUME NEW n \in Node, NEW v \in Vxlan, CacheToEtcd(n, v) \/ CacheStays(n, v)
      PROVE  Explained'
  <2>1. <<v, files[n][v]>> \in Key
    BY <1>7, FileKey DEF CacheToEtcd, CacheStays, Cached
  <2> QED BY <1>7, <2>1, ExplainedChanged DEF CacheToEtcd, CacheStays, plugin
<1>8. ASSUME NEW r \in Record, OperatorDeletes(r) PROVE Explained'
  BY <1>8, RecordParts, ExplainedChanged DEF OperatorDeletes, plugin
<1>10. ASSUME NEW n \in Node,
             \/ \E v \in Vxlan : UseLink(n, v)
             \/ \E r \in Record : AddFails(n, r)
             \/ \E a \in Addr : Readdress(n, a)
      PROVE  UNCHANGED <<link, fdb, daemon, missed, log>>
  BY <1>10 DEF UseLink, AddFails, Readdress
<1>9. CASE UNCHANGED vars
  BY <1>1, <1>9 DEF vars
<1> QED
  BY <1>1, <1>2, <1>3, <1>4, <1>5, <1>6, <1>7, <1>8, <1>9, <1>10,
     ExplainedDaemon, ExplainedFault
  DEF Next

(* What a forwarding table lacks has one of the reasons the code has: a    *)
(* record behind a delete, in the history, the watch or the names          *)
(* remembered is not passed over while interfaces come and go; what a read *)
(* or the kernel failed, and what met no VXLAN, is in missed.              *)
THEOREM FdbExplained == Spec => []Explained
<1>1. Init => Explained
  BY VxlanFdbAssumption DEF Init, Explained, Started
<1>2. TypeOK /\ Explained /\ [Next]_vars => Explained'
  BY ExplainedStep
<1> QED BY <1>1, <1>2, FdbTypeCorrect, PTL DEF Spec
=============================================================================
