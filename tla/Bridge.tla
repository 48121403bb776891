-------------------------------- MODULE Bridge -------------------------------
(***************************************************************************)
(* The VXLAN plugin (multus-vxlan) on one node.                            *)
(*                                                                         *)
(* An ADD makes sure of the VXLAN interface of the network (setupVxlan)    *)
(* and of its bridge, links the container to the bridge by a veth pair,    *)
(* gets an address from the IPAM plugin, gives the bridge (or a VLAN       *)
(* interface on it) the address of the gateway, and makes the bridge the   *)
(* master of the VXLAN interface.  A DEL releases the address and removes  *)
(* the veth pair; bridge and VXLAN interface stay.  The plugins of several *)
(* containers run at the same time and share the interfaces of the node;   *)
(* nothing but the kernel, one call at a time, comes between them.         *)
(*                                                                         *)
(* One IPv4 address per container.  What RecVxlan does is in VxlanFdb,     *)
(* what the IPAM plugin does in LocalIPAM: here it hands out an address of *)
(* the network nobody has, or fails.                                       *)
(***************************************************************************)
EXTENDS Naturals, Sequences, SequencesExt

CONSTANTS
  Cont, Net, NetOf, \* containers, networks, the network of each container
  Conf,             \* the configuration of each network
  Addr,             \* addresses containers can get
  Faulty,           \* those whose calls may fail, plugin be killed, namespace go
  Checked,          \* those the runtime calls CHECK for
  Changes,          \* bound: how often the address of the node changes
  None              \* no address, no interface

BridgeConf == [name : STRING, brName : STRING, vlan : Nat, isGW : BOOLEAN,
               force : BOOLEAN, l3 : BOOLEAN, masq : BOOLEAN, pool : SUBSET Addr,
               gateway : STRING]

ASSUME BridgeAssumption ==
  /\ NetOf \in [Cont -> Net]
  /\ Conf \in [Net -> BridgeConf]
  /\ \A m, n \in Net : m # n => Conf[m].pool \cap Conf[n].pool = {}
  /\ Faulty \subseteq Cont /\ Checked \subseteq Cont
  /\ Changes \in Nat
  /\ None \notin Addr

VARIABLES
  host,             \* the address of the node: how often it has changed
  link, made,       \* the VXLAN interface of each network; how many were made
  dev,              \* bridges and VLAN interfaces, with the addresses of each
  netns, veth,      \* the containers' namespaces, and interfaces in them
  addr, masq,       \* the addresses of these, and their masquerading rules
  lease,            \* what the IPAM plugin has given to whom
  pc, got,          \* plugin: where it is, and the VXLAN interface as it
                    \*   wants it or has read it
  told,             \* what the runtime knows of the container
  verdict,          \* the result of its last CHECK
  lost              \* ghost: interfaces that went away, their rule left behind

linkVars == <<host, link, made>>
nsVars   == <<netns, veth, addr, masq, lost>>
vars == <<linkVars, dev, nsVars, lease, pc, got, told, verdict>>

Cf(c) == Conf[NetOf[c]]

(* The bridge is named after brName, which loadNetConf sets to the name of *)
(* the master when it is not given; CHECK looks for another name.          *)
BridgeName(c) == <<"mulbr.", Cf(c).brName, "">>
CheckName(c)  == <<"", Cf(c).name, ".br">>

(* Interfaces with addresses, by bridge and VLAN; 0 is the bridge itself.  *)
Bridge(c)    == <<BridgeName(c), 0>>
GatewayIf(c) == <<BridgeName(c), Cf(c).vlan>>

Link(a, i, m) == [src |-> a, id |-> i, master |-> m]
NoLink == Link(0, 0, None)

Exists(n) == link[n] # NoLink

Init ==
  /\ host = 0
  /\ link = [n \in Net |-> NoLink] /\ made = 0
  /\ dev = << >>
  /\ netns = [c \in Cont |-> TRUE]
  /\ veth = [c \in Cont |-> "none"]
  /\ addr = [c \in Cont |-> None]
  /\ masq = {} /\ lost = {}
  /\ lease = [c \in Cont |-> None]
  /\ pc = [c \in Cont |-> "idle"]
  /\ got = [c \in Cont |-> NoLink]
  /\ told = [c \in Cont |-> "new"]
  /\ verdict = [c \in Cont |-> "none"]

Goto(c, l) == pc' = [pc EXCEPT ![c] = l]

Ends(c, result) ==
  /\ Goto(c, "idle")
  /\ told' = [told EXCEPT ![c] = result]
  /\ got' = IF result = "up" THEN got ELSE [got EXCEPT ![c] = NoLink]

Fails(c) == Ends(c, "failed")

-----------------------------------------------------------------------------
(* ADD: setupVxlan and ensureLink.                                         *)

StartAdd(c) ==
  /\ pc[c] = "idle" /\ told[c] = "new"
  /\ got' = [got EXCEPT ![c] = Link(host, 0, None)]
  /\ told' = [told EXCEPT ![c] = "adding"]
  /\ Goto(c, "ensureLink")
  /\ UNCHANGED <<linkVars, dev, nsVars, lease, verdict>>

Create(c) ==
  /\ made' = made + 1
  /\ link' = [link EXCEPT ![NetOf[c]] = Link(got[c].src, made + 1, None)]
  /\ got' = [got EXCEPT ![c] = link'[NetOf[c]]]
  /\ Goto(c, "setupBridge")
  /\ UNCHANGED told

EnsureLink(c) ==
  /\ pc[c] = "ensureLink"
  /\ \/ ~Exists(NetOf[c]) /\ Create(c)
     \/ /\ Exists(NetOf[c])
        /\ Goto(c, "existing")
        /\ UNCHANGED <<link, made, got, told>>
  /\ UNCHANGED <<host, dev, nsVars, lease, verdict>>

(* vxlanLinksIncompat: an interface made when the node had another address *)
(* is deleted, whoever uses it.                                            *)
Incompat(c) == link[NetOf[c]].src # got[c].src

Existing(c) ==
  /\ pc[c] = "existing"
  /\ \/ /\ ~Exists(NetOf[c])
        /\ Fails(c)
        /\ UNCHANGED link
     \/ /\ Exists(NetOf[c]) /\ ~Incompat(c)
        /\ got' = [got EXCEPT ![c] = link[NetOf[c]]]
        /\ Goto(c, "setupBridge")
        /\ UNCHANGED <<link, told>>
     \/ /\ Exists(NetOf[c]) /\ Incompat(c)
        /\ link' = [link EXCEPT ![NetOf[c]] = NoLink]
        /\ Goto(c, "recreate")
        /\ UNCHANGED <<got, told>>
  /\ UNCHANGED <<host, made, dev, nsVars, lease, verdict>>

Recreate(c) ==
  /\ pc[c] = "recreate"
  /\ \/ ~Exists(NetOf[c]) /\ Create(c)
     \/ Exists(NetOf[c]) /\ Fails(c) /\ UNCHANGED <<link, made>>
  /\ UNCHANGED <<host, dev, nsVars, lease, verdict>>

-----------------------------------------------------------------------------
(* ADD: bridgeAdd.                                                         *)

(* An interface that is there already keeps its addresses.                 *)
EnsureIf(i) ==
  [j \in DOMAIN dev \cup {i} |-> IF j \in DOMAIN dev THEN dev[j] ELSE << >>]

(* Mutant: the bridge is taken to be there.                                *)
SetupBridge_Never(c) ==
  /\ pc[c] = "setupBridge"
  /\ Goto(c, "setupVeth")
  /\ UNCHANGED <<linkVars, dev, nsVars, lease, got, told, verdict>>

SetupBridge(c) ==
  /\ pc[c] = "setupBridge"
  /\ dev' = EnsureIf(Bridge(c))
  /\ Goto(c, "setupVeth")
  /\ UNCHANGED <<linkVars, nsVars, lease, got, told, verdict>>

(* Without the namespace there is no interface; when a later call fails    *)
(* the interface stays, linked to the bridge or not.                       *)
SetupVeth(c) ==
  /\ pc[c] = "setupVeth"
  /\ \/ /\ netns[c]
        /\ veth' = [veth EXCEPT ![c] = "linked"]
        /\ Goto(c, IF Cf(c).l3 THEN "ipamAdd" ELSE "attach")
        /\ UNCHANGED <<got, told>>
     \/ ~netns[c] /\ Fails(c) /\ UNCHANGED veth
     \/ /\ c \in Faulty /\ netns[c]
        /\ veth' = [veth EXCEPT ![c] = "unlinked"] \/ UNCHANGED veth
        /\ Fails(c)
  /\ UNCHANGED <<linkVars, dev, netns, addr, masq, lost, lease, verdict>>

FreeAddr(c) == Cf(c).pool \ {lease[d] : d \in Cont}

IpamAdd(c) ==
  /\ pc[c] = "ipamAdd"
  /\ \/ \E a \in FreeAddr(c) :
          /\ lease' = [lease EXCEPT ![c] = a]
          /\ Goto(c, "configure")
          /\ UNCHANGED <<got, told>>
     \/ /\ c \in Faulty \/ FreeAddr(c) = {}
        /\ Fails(c)
        /\ UNCHANGED lease
  /\ UNCHANGED <<linkVars, dev, nsVars, verdict>>

(* Where bridgeAdd goes on behind the gateways.                            *)
Masquerade(c) == IF Cf(c).masq THEN "masq" ELSE "attach"

Configure(c) ==
  /\ pc[c] = "configure"
  /\ \/ /\ addr' = [addr EXCEPT ![c] = lease[c]]
        /\ Goto(c, IF ~Cf(c).isGW THEN Masquerade(c)
                   ELSE IF Cf(c).vlan = 0 THEN "listAddr" ELSE "findVlan")
     \/ c \in Faulty /\ Goto(c, "undo") /\ UNCHANGED addr
  /\ UNCHANGED <<linkVars, dev, netns, veth, masq, lost, lease, got, told, verdict>>

(* ensureVlanInterface looks for the interface, and then makes it.         *)
FindVlan(c) ==
  /\ pc[c] = "findVlan"
  /\ Goto(c, IF GatewayIf(c) \in DOMAIN dev THEN "listAddr" ELSE "makeVlan")
  /\ UNCHANGED <<linkVars, dev, nsVars, lease, got, told, verdict>>

MakeVlan(c) ==
  /\ pc[c] = "makeVlan"
  /\ dev' = EnsureIf(GatewayIf(c))
  /\ Goto(c, IF GatewayIf(c) \in DOMAIN dev THEN "undo" ELSE "listAddr")
  /\ UNCHANGED <<linkVars, nsVars, lease, got, told, verdict>>

(* ensureAddr compares the gateway with the addresses it lists, in order:  *)
(* the first that differs is an error, or deleted with forceAddress.       *)
Kept(s, g) ==
  IF g \in ToSet(s) THEN SubSeq(s, CHOOSE i \in DOMAIN s : s[i] = g, Len(s)) ELSE << >>

Differs(s, g) == s # << >> /\ Head(s) # g

(* Mutant: other addresses are always deleted.                             *)
Forced_Always(c) == TRUE

Forced(c) == Cf(c).force

ListAddr(c) ==
  LET g == Cf(c).gateway  s == dev[GatewayIf(c)] IN
  /\ pc[c] = "listAddr"
  /\ \/ /\ Forced(c) \/ ~Differs(s, g)
        /\ dev' = [dev EXCEPT ![GatewayIf(c)] = Kept(s, g)]
        /\ Goto(c, IF g \in ToSet(s) THEN Masquerade(c) ELSE "addAddr")
     \/ /\ ~Forced(c) /\ Differs(s, g)
        /\ Goto(c, "undo")
        /\ UNCHANGED dev
  /\ UNCHANGED <<linkVars, nsVars, lease, got, told, verdict>>

AddAddr(c) ==
  LET g == Cf(c).gateway IN
  /\ pc[c] = "addAddr"
  /\ dev' = [dev EXCEPT ![GatewayIf(c)] = IF g \in ToSet(@) THEN @ ELSE Append(@, g)]
  /\ Goto(c, Masquerade(c))
  /\ UNCHANGED <<linkVars, nsVars, lease, got, told, verdict>>

(* Mutant: success is not noted.                                           *)
SetupMasq_Undone(c) ==
  /\ pc[c] = "masq"
  /\ masq' = masq \cup {c}
  /\ lease' = [lease EXCEPT ![c] = None]
  /\ Goto(c, "attach")
  /\ UNCHANGED <<linkVars, dev, netns, veth, addr, lost, got, told, verdict>>

(* A failure may leave the rule behind.                                    *)
SetupMasq(c) ==
  /\ pc[c] = "masq"
  /\ \/ masq' = masq \cup {c} /\ Goto(c, "attach")
     \/ /\ c \in Faulty
        /\ masq' = masq \cup {c} \/ UNCHANGED masq
        /\ Goto(c, "undo")
  /\ UNCHANGED <<linkVars, dev, netns, veth, addr, lost, lease, got, told, verdict>>

(* The deferred function runs when bridgeAdd returns: it releases the      *)
(* address when there was an error.  Its own errors are ignored.           *)
Undo(c) ==
  /\ pc[c] = "undo"
  /\ \/ lease' = [lease EXCEPT ![c] = None]
     \/ c \in Faulty /\ UNCHANGED lease
  /\ Fails(c)
  /\ UNCHANGED <<linkVars, dev, nsVars, verdict>>

-----------------------------------------------------------------------------
(* ADD: the VXLAN interface is linked to the bridge.  The plugin goes by   *)
(* the index and the master it read in ensureLink.  From here on nothing   *)
(* releases the address when a call fails.                                 *)

(* Mutant: only an interface just made is linked.                          *)
HasMaster_Old(c) == got[c].id # made

HasMaster(c) == got[c].master = Bridge(c)

Attach(c) ==
  LET l == link[NetOf[c]] IN
  /\ pc[c] = "attach"
  /\ \/ /\ HasMaster(c)
        /\ Goto(c, "linkUp")
        /\ UNCHANGED <<link, got, told>>
     \/ /\ ~HasMaster(c) /\ l.id = got[c].id
        /\ link' = [link EXCEPT ![NetOf[c]].master = Bridge(c)]
        /\ Goto(c, "linkUp")
        /\ UNCHANGED <<got, told>>
     \/ /\ ~HasMaster(c) /\ l.id # got[c].id
        /\ Fails(c) /\ UNCHANGED link
  /\ UNCHANGED <<host, made, dev, nsVars, lease, verdict>>

LinkUp(c) ==
  /\ pc[c] = "linkUp"
  /\ IF link[NetOf[c]].id = got[c].id THEN Ends(c, "up") ELSE Fails(c)
  /\ UNCHANGED <<linkVars, dev, nsVars, lease, verdict>>

-----------------------------------------------------------------------------
(* DEL: the runtime calls it for a container that is up or whose ADD has   *)
(* failed, and again when it fails.                                        *)

(* Mutant: without a namespace nothing is released.                        *)
StartDel_NoNetns(c) ==
  /\ pc[c] = "idle" /\ told[c] \in {"up", "failed"}
  /\ told' = [told EXCEPT ![c] = "deleting"]
  /\ verdict' = [verdict EXCEPT ![c] = "none"]
  /\ got' = [got EXCEPT ![c] = NoLink]
  /\ Goto(c, IF netns[c] /\ Cf(c).l3 THEN "ipamDel" ELSE "delLink")
  /\ UNCHANGED <<linkVars, dev, nsVars, lease>>

StartDel(c) ==
  /\ pc[c] = "idle" /\ told[c] \in {"up", "failed"}
  /\ told' = [told EXCEPT ![c] = "deleting"]
  /\ verdict' = [verdict EXCEPT ![c] = "none"]
  /\ got' = [got EXCEPT ![c] = NoLink]
  /\ Goto(c, IF Cf(c).l3 THEN "ipamDel" ELSE "delLink")
  /\ UNCHANGED <<linkVars, dev, nsVars, lease>>

IpamDel(c) ==
  /\ pc[c] = "ipamDel"
  /\ lease' = [lease EXCEPT ![c] = None]
  /\ Goto(c, "delLink")
  /\ UNCHANGED <<linkVars, dev, nsVars, got, told, verdict>>

IpamDelError(c) ==
  /\ c \in Faulty /\ pc[c] = "ipamDel"
  /\ Fails(c)
  /\ UNCHANGED <<linkVars, dev, nsVars, lease, verdict>>

(* Without a path of the namespace there is nothing to do; a path to       *)
(* nowhere is an error.                                                    *)
NoNetns(c) ==
  /\ pc[c] = "delLink" /\ ~netns[c]
  /\ Ends(c, "deleted") \/ Fails(c)
  /\ UNCHANGED <<linkVars, dev, nsVars, lease, verdict>>

DelLink(c) ==
  /\ pc[c] = "delLink" /\ netns[c]
  /\ veth' = [veth EXCEPT ![c] = "none"]
  /\ addr' = [addr EXCEPT ![c] = None]
  /\ \/ /\ addr[c] # None /\ Cf(c).masq
        /\ Goto(c, "teardown")
        /\ UNCHANGED <<got, told>>
     \/ /\ addr[c] = None \/ ~Cf(c).masq
        /\ Ends(c, "deleted")
  /\ UNCHANGED <<linkVars, dev, netns, masq, lost, lease, verdict>>

(* When this fails the next DEL finds no interface and leaves the rule.    *)
TeardownMasq(c) ==
  /\ pc[c] = "teardown"
  /\ \/ masq' = masq \ {c} /\ Ends(c, "deleted") /\ UNCHANGED lost
     \/ /\ c \in Faulty
        /\ lost' = lost \cup {c}
        /\ Fails(c)
        /\ UNCHANGED masq
  /\ UNCHANGED <<linkVars, dev, netns, veth, addr, lease, verdict>>

-----------------------------------------------------------------------------
(* CHECK: bridgeCheck compares the result of the ADD with what there is.   *)

(* The interfaces are as the ADD left them.                                *)
Intact(c) ==
  /\ netns[c]
  /\ Bridge(c) \in DOMAIN dev
  /\ veth[c] = "linked"
  /\ Cf(c).l3 => addr[c] = lease[c]

(* validateCniBrInterface is given the interface of that name in the       *)
(* result, which the ADD has named after the bridge.                       *)
Check(c) ==
  /\ c \in Checked /\ pc[c] = "idle" /\ told[c] = "up"
  /\ verdict' = [verdict EXCEPT ![c] =
       IF Intact(c) /\ CheckName(c) = BridgeName(c) THEN "ok" ELSE "failed"]
  /\ UNCHANGED <<linkVars, dev, nsVars, lease, pc, got, told>>

-----------------------------------------------------------------------------
(* The node and the containers.                                            *)

Readdress ==
  /\ host < Changes
  /\ host' = host + 1
  /\ UNCHANGED <<link, made, dev, nsVars, lease, pc, got, told, verdict>>

(* A namespace goes away, with the interface in it, unless a plugin has it *)
(* open.                                                                   *)
SandboxDies(c) ==
  /\ c \in Faulty /\ netns[c]
  /\ pc[c] \in {"idle", "ensureLink", "existing", "recreate", "setupBridge",
                "setupVeth", "ipamDel", "delLink"}
  /\ netns' = [netns EXCEPT ![c] = FALSE]
  /\ veth' = [veth EXCEPT ![c] = "none"]
  /\ addr' = [addr EXCEPT ![c] = None]
  /\ lost' = lost \cup {c}
  /\ UNCHANGED <<linkVars, dev, masq, lease, pc, got, told, verdict>>

(* The plugin is killed; the runtime takes the call for failed.            *)
Killed(c) ==
  /\ c \in Faulty /\ pc[c] # "idle"
  /\ Fails(c)
  /\ lost' = IF pc[c] = "teardown" THEN lost \cup {c} ELSE lost
  /\ UNCHANGED <<linkVars, dev, netns, veth, addr, masq, lease, verdict>>

Step(c) ==
  \/ EnsureLink(c) \/ Existing(c) \/ Recreate(c)
  \/ SetupBridge(c) \/ SetupVeth(c) \/ IpamAdd(c) \/ Configure(c)
  \/ FindVlan(c) \/ MakeVlan(c) \/ ListAddr(c) \/ AddAddr(c)
  \/ SetupMasq(c) \/ Undo(c) \/ Attach(c) \/ LinkUp(c)
  \/ StartDel(c) \/ IpamDel(c) \/ NoNetns(c) \/ DelLink(c) \/ TeardownMasq(c)

Next ==
  \/ \E c \in Cont : StartAdd(c) \/ Step(c) \/ IpamDelError(c) \/ Check(c)
  \/ \E c \in Cont : SandboxDies(c) \/ Killed(c)
  \/ Readdress

Spec == Init /\ [][Next]_vars

(* A plugin that runs goes on running, and the runtime calls DEL for every *)
(* container sooner or later, and again until it succeeds.  The IPAM       *)
(* plugin does not fail for ever, nor is the plugin killed for ever.       *)
Fairness ==
  /\ \A c \in Cont : WF_vars(Step(c))
  /\ <>[][\A c \in Cont : ~IpamDelError(c) /\ ~Killed(c)]_vars

FairSpec == Spec /\ Fairness

-----------------------------------------------------------------------------
Up(c) == told[c] = "up"

Ifs == {Bridge(c) : c \in Cont} \cup {GatewayIf(c) : c \in Cont}

Links == [src : Nat, id : Nat, master : {None} \cup Ifs]

AddPCs == {"ensureLink", "existing", "recreate", "setupBridge", "setupVeth",
           "ipamAdd", "configure", "findVlan", "makeVlan", "listAddr", "addAddr",
           "masq", "undo", "attach", "linkUp"}
DelPCs == {"ipamDel", "delLink", "teardown"}

(* What there is, and what a plugin has read, was made before, on bridges  *)
(* that are there.                                                         *)
Known(l) == l.src <= host /\ l.id <= made /\ l.master \in {None} \cup DOMAIN dev

LinksOK ==
  /\ host \in 0..Changes /\ made \in Nat
  /\ link \in [Net -> Links] /\ \A n \in Net : Known(link[n])
  /\ got \in [Cont -> Links] /\ \A c \in Cont : Known(got[c])

CallsOK ==
  /\ pc \in [Cont -> {"idle"} \cup AddPCs \cup DelPCs]
  /\ told \in [Cont -> {"new", "adding", "up", "failed", "deleting", "deleted"}]
  /\ \A c \in Cont : /\ told[c] = "adding" <=> pc[c] \in AddPCs
                     /\ told[c] = "deleting" <=> pc[c] \in DelPCs

TypeOK ==
  /\ LinksOK /\ CallsOK
  /\ DOMAIN dev \subseteq Ifs /\ dev \in [DOMAIN dev -> Seq(STRING)]
  /\ netns \in [Cont -> BOOLEAN]
  /\ veth \in [Cont -> {"none", "unlinked", "linked"}]
  /\ addr \in [Cont -> Addr \cup {None}] /\ lease \in [Cont -> Addr \cup {None}]
  /\ \A c \in Cont : /\ veth[c] = "linked" => Bridge(c) \in DOMAIN dev
                     /\ {addr[c], lease[c]} \subseteq Cf(c).pool \cup {None}
                     /\ addr[c] # None => veth[c] = "linked"
  /\ masq \cup lost \subseteq Cont

(* The address of a container that is up belongs to it until its DEL, and  *)
(* to no other: what the plugin releases for one ADD is never in use.      *)
UpLeased ==
  \A c \in Cont : Up(c) /\ Cf(c).l3 =>
    /\ lease[c] # None
    /\ addr[c] \in {lease[c]} \cup (IF netns[c] THEN {} ELSE {None})
    /\ \A d \in Cont \ {c} : Up(d) => lease[d] # lease[c]

(* The gateway of a container that is up is on the bridge, whatever        *)
(* networks share the bridge, unless forceAddress is set for one of them.  *)
GatewayKept ==
  (\A n \in Net : ~Conf[n].force) =>
    \A c \in Cont : Up(c) /\ Cf(c).l3 /\ Cf(c).isGW =>
      Cf(c).gateway \in ToSet(dev[GatewayIf(c)])

(* The VXLAN interface an ADD has ended with is linked to the bridge of    *)
(* the container for as long as it exists, although the plugin goes by a   *)
(* master it read many steps before.                                       *)
UpConnected ==
  \A c \in Cont : Up(c) /\ link[NetOf[c]].id = got[c].id =>
    link[NetOf[c]].master = Bridge(c)

(* When a DEL has succeeded nothing of the container is left: no address,  *)
(* no interface, and no rule unless its interface was lost before.         *)
CleanDel ==
  \A c \in Cont : told[c] = "deleted" =>
    /\ lease[c] = None /\ veth[c] = "none" /\ addr[c] = None
    /\ c \in masq => c \in lost

(* The address of a container that is gone becomes free in the end, even   *)
(* when its DELs keep failing because the namespace is not there.          *)
AddressFreed ==
  \A c \in Cont : (told[c] \in {"up", "failed"} /\ ~netns[c]) ~> lease[c] = None

(* The gateway's interface has one IPv4 address.                           *)
OneGateway ==
  \A i \in DOMAIN dev : Len(dev[i]) <= 1

(* CHECK of a container whose interfaces are as they were succeeds.        *)
CheckAccepts ==
  [][\A c \in Cont : verdict'[c] # verdict[c] /\ verdict'[c] = "failed" =>
       ~Intact(c)]_vars
=============================================================================
