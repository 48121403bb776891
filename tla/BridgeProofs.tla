----------------------------- MODULE BridgeProofs ----------------------------
(***************************************************************************)
(* What holds of Bridge for any number of containers and networks, any     *)
(* configuration of these, and whatever fails, is killed or goes away.     *)
(***************************************************************************)
EXTENDS Bridge, SequenceTheorems, TLAPS

-----------------------------------------------------------------------------
(* The inductive invariant: where a plugin is tells what it has done.      *)

(* The ADD has an interface in the namespace, linked to the bridge; the    *)
(* namespace stays, the plugin has it open.                                *)
HasVeth == {"ipamAdd", "configure", "findVlan", "makeVlan", "listAddr", "addAddr",
            "masq", "undo", "attach", "linkUp"}

(* It has not given it the address.                                        *)
Before == {"ensureLink", "existing", "recreate", "setupBridge", "setupVeth", "ipamAdd",
           "configure"}

(* It works on the gateway, or on what comes behind it.                    *)
OnGateway == {"findVlan", "makeVlan", "listAddr", "addAddr"}
Behind    == {"masq", "attach", "linkUp"}

Path ==
  \A c \in Cont :
    /\ pc[c] = "setupVeth" => Bridge(c) \in DOMAIN dev
    /\ pc[c] \in HasVeth => netns[c] /\ veth[c] = "linked"
    /\ pc[c] \in {"ipamAdd", "configure", "masq"} \cup OnGateway => Cf(c).l3
    /\ pc[c] \in OnGateway => Cf(c).isGW
    /\ pc[c] \in {"listAddr", "addAddr"} => GatewayIf(c) \in DOMAIN dev
    /\ pc[c] = "masq" => Cf(c).masq
    /\ ~netns[c] => veth[c] = "none" /\ c \in lost
    /\ told[c] = "new" \/ pc[c] \in Before => addr[c] = None

(* An address belongs to one container; the interface of the container     *)
(* has it from "configure" on, and as long as there is a namespace.        *)
Leased ==
  /\ \A c, d \in Cont : c # d /\ lease[c] = lease[d] => lease[c] = None
  /\ \A c \in Cont :
       /\ pc[c] = "configure" => lease[c] # None
       /\ pc[c] \in OnGateway \cup Behind /\ Cf(c).l3 => lease[c] # None /\ addr[c] = lease[c]
       /\ Up(c) /\ Cf(c).l3 => lease[c] # None /\ (addr[c] = lease[c] \/ ~netns[c])

(* The interface a plugin has found or made is the one it knows, or gone;  *)
(* its master never changes once it is the bridge.                         *)
Attached ==
  /\ \A n \in Net : Exists(n) => link[n].id # 0
  /\ \A c \in Cont :
       LET l == link[NetOf[c]] IN
       /\ pc[c] \in AddPCs \ {"ensureLink", "existing", "recreate"} => got[c].id # 0
       /\ Up(c) => got[c].id # 0
       /\ got[c].id # 0 /\ l.id = got[c].id /\
          (got[c].master = Bridge(c) \/ pc[c] = "linkUp" \/ Up(c)) => l.master = Bridge(c)

(* No address is twice on an interface; without forceAddress none goes.    *)
GatewaySet ==
  /\ \A i \in DOMAIN dev : \A j, k \in DOMAIN dev[i] : dev[i][j] = dev[i][k] => j = k
  /\ (\A n \in Net : ~Conf[n].force) =>
       \A c \in Cont : (pc[c] \in Behind \/ Up(c)) /\ Cf(c).l3 /\ Cf(c).isGW =>
         /\ GatewayIf(c) \in DOMAIN dev
         /\ Cf(c).gateway \in ToSet(dev[GatewayIf(c)])

(* A rule is there only with its address, unless it has been lost; a DEL   *)
(* has released the address before it touches the interface.               *)
Released ==
  \A c \in Cont :
    /\ ~Cf(c).l3 => lease[c] = None
    /\ c \in masq => Cf(c).masq
    /\ c \in masq /\ c \notin lost => addr[c] # None \/ pc[c] = "teardown"
    /\ pc[c] \in {"delLink", "teardown"} => lease[c] = None
    /\ pc[c] = "teardown" => veth[c] = "none" /\ addr[c] = None

Inv == TypeOK /\ Path /\ Leased /\ Attached /\ GatewaySet /\ Released /\ CleanDel

-----------------------------------------------------------------------------
(* Configurations, interfaces, and what is done in many places.            *)

LEMMA ConfsTyped ==
  \A c \in Cont :
    /\ NetOf[c] \in Net
    /\ Cf(c).pool \subseteq Addr /\ Cf(c).gateway \in STRING
    /\ Cf(c).l3 \in BOOLEAN /\ Cf(c).masq \in BOOLEAN /\ Cf(c).isGW \in BOOLEAN
    /\ Cf(c).force \in BOOLEAN /\ Cf(c).vlan \in Nat
    /\ None \notin Addr
BY BridgeAssumption DEF Cf, BridgeConf

LEMMA SameBridge ==
  \A c, d \in Cont : NetOf[c] = NetOf[d] => Bridge(c) = Bridge(d) /\ GatewayIf(c) = GatewayIf(d)
BY DEF Bridge, GatewayIf, BridgeName, Cf

LEMMA LinkTyped ==
  ASSUME NEW a \in Nat, NEW i \in Nat, NEW m \in {None} \cup Ifs
  PROVE  /\ Link(a, i, m) \in Links
         /\ Link(a, i, m).src = a /\ Link(a, i, m).id = i /\ Link(a, i, m).master = m
BY DEF Link, Links

LEMMA NoLinkTyped ==
  NoLink \in Links /\ NoLink.src = 0 /\ NoLink.id = 0 /\ NoLink.master = None
BY DEF Link, Links, NoLink

(* The interface of a network, or what a plugin knows of it, is replaced.  *)
LEMMA LinkReplaced ==
  ASSUME LinksOK, NEW n \in Net, NEW l \in Links, Known(l)',
         link' = [link EXCEPT ![n] = l],
         host' = host, made' \in Nat, made' >= made, DOMAIN dev \subseteq DOMAIN dev'
  PROVE  link' \in [Net -> Links] /\ \A m \in Net : Known(link[m])'
<1>1. link' \in [Net -> Links] BY DEF LinksOK
<1>2. \A m \in Net : link'[m] = IF m = n THEN l ELSE link[m] BY DEF LinksOK
<1>3. ASSUME NEW m \in Net, m # n PROVE Known(link[m])'
  <2>1. Known(link[m]) /\ link[m] \in Links BY DEF LinksOK
  <2>2. link[m].id \in Nat /\ made \in Nat BY <2>1 DEF Links, LinksOK
  <2> QED BY <1>2, <1>3, <2>1, <2>2 DEF Known
<1> QED BY <1>1, <1>2, <1>3

LEMMA GotReplaced ==
  ASSUME LinksOK, NEW c \in Cont, NEW l \in Links, Known(l)',
         got' = [got EXCEPT ![c] = l],
         host' = host, made' \in Nat, made' >= made, DOMAIN dev \subseteq DOMAIN dev'
  PROVE  got' \in [Cont -> Links] /\ \A d \in Cont : Known(got[d])'
<1>1. got' \in [Cont -> Links] BY DEF LinksOK
<1>2. \A d \in Cont : got'[d] = IF d = c THEN l ELSE got[d] BY DEF LinksOK
<1>3. ASSUME NEW d \in Cont, d # c PROVE Known(got[d])'
  <2>1. Known(got[d]) /\ got[d] \in Links BY DEF LinksOK
  <2>2. got[d].id \in Nat /\ made \in Nat BY <2>1 DEF Links, LinksOK
  <2> QED BY <1>2, <1>3, <2>1, <2>2 DEF Known
<1> QED BY <1>1, <1>2, <1>3

LEMMA LinksKept ==
  ASSUME LinksOK, UNCHANGED <<host, made, link, got>>, DOMAIN dev \subseteq DOMAIN dev'
  PROVE  LinksOK'
BY DEF LinksOK, Known

LEMMA EndsKeeps ==
  ASSUME TypeOK, NEW c \in Cont, NEW r \in {"up", "failed", "deleted"}, Ends(c, r),
         UNCHANGED <<linkVars, dev>>
  PROVE  LinksOK' /\ CallsOK'
<1>1. CallsOK' BY DEF TypeOK, CallsOK, Ends, Goto, AddPCs, DelPCs
<1>2. CASE r = "up" BY <1>1, <1>2, LinksKept DEF TypeOK, Ends, linkVars
<1>3. CASE r # "up"
  <2>1. got' = [got EXCEPT ![c] = NoLink] BY <1>3 DEF Ends
  <2>2. LinksOK /\ made \in Nat /\ host \in Nat BY DEF TypeOK, LinksOK
  <2>3. Known(NoLink)' BY <2>2, NoLinkTyped DEF Known, linkVars
  <2>4. got' \in [Cont -> Links] /\ \A d \in Cont : Known(got[d])'
    <3>1. UNCHANGED <<host, made, dev>> BY DEF linkVars
    <3>2. made' >= made /\ made' \in Nat /\ DOMAIN dev \subseteq DOMAIN dev' BY <2>2, <3>1
    <3> QED BY <2>1, <2>2, <2>3, <3>1, <3>2, NoLinkTyped, GotReplaced, Zenon
  <2> QED BY <1>1, <2>2, <2>4 DEF LinksOK, Known, linkVars
<1> QED BY <1>2, <1>3

LEMMA CreateKeeps ==
  ASSUME TypeOK, NEW c \in Cont, Create(c), UNCHANGED <<host, dev>>
  PROVE  /\ LinksOK'
         /\ link' = [link EXCEPT ![NetOf[c]] = Link(got[c].src, made + 1, None)]
         /\ got' = [got EXCEPT ![c] = Link(got[c].src, made + 1, None)]
<1> PICK l : l = Link(got[c].src, made + 1, None) OBVIOUS
<1>1. LinksOK /\ got[c] \in Links /\ Known(got[c]) /\ made \in Nat /\ host \in 0..Changes
  BY DEF TypeOK, LinksOK
<1>2. got[c].src \in Nat /\ got[c].src <= host BY <1>1 DEF Links, Known
<1>3. l \in Links /\ l.src = got[c].src /\ l.id = made + 1 /\ l.master = None
  BY <1>1, <1>2, LinkTyped
<1>4. /\ link' = [link EXCEPT ![NetOf[c]] = l]
      /\ made' = made + 1 /\ host' = host /\ dev' = dev
  BY DEF Create
<1>5. got' = [got EXCEPT ![c] = l] BY <1>4, ConfsTyped DEF TypeOK, LinksOK, Create
<1>6. Known(l)' BY <1>1, <1>2, <1>3, <1>4 DEF Known
<1>7. made' \in Nat /\ made' >= made /\ DOMAIN dev \subseteq DOMAIN dev' BY <1>1, <1>4
<1>8. link' \in [Net -> Links] /\ \A m \in Net : Known(link[m])'
  BY <1>1, <1>3, <1>4, <1>6, <1>7, ConfsTyped, LinkReplaced, Zenon
<1>9. got' \in [Cont -> Links] /\ \A d \in Cont : Known(got[d])'
  BY <1>1, <1>3, <1>4, <1>5, <1>6, <1>7, GotReplaced, Zenon
<1> QED BY <1>1, <1>4, <1>5, <1>7, <1>8, <1>9 DEF LinksOK

LEMMA EnsureIfTyped ==
  ASSUME TypeOK, NEW i \in Ifs, dev' = EnsureIf(i)
  PROVE  /\ DOMAIN dev' = DOMAIN dev \cup {i} /\ DOMAIN dev' \subseteq Ifs
         /\ dev' \in [DOMAIN dev' -> Seq(STRING)]
         /\ \A j \in DOMAIN dev : dev'[j] = dev[j]
         /\ i \in DOMAIN dev \/ dev'[i] = << >>
<1>1. \A j \in DOMAIN dev : dev[j] \in Seq(STRING) BY DEF TypeOK
<1>2. << >> \in Seq(STRING) OBVIOUS
<1> QED BY <1>1, <1>2 DEF TypeOK, EnsureIf

(* ensureAddr keeps a part of the list; all of it, when it finds the       *)
(* address first.                                                          *)
LEMMA KeptTyped ==
  ASSUME NEW s \in Seq(STRING), NEW g \in STRING,
         \A j, k \in DOMAIN s : s[j] = s[k] => j = k
  PROVE  LET t == Kept(s, g)
         IN  /\ t \in Seq(STRING)
             /\ \A j, k \in DOMAIN t : t[j] = t[k] => j = k
             /\ g \in ToSet(s) => g \in ToSet(t)
             /\ g \in ToSet(s) /\ ~Differs(s, g) => t = s
<1>1. CASE g \notin ToSet(s)
  <2>1. Kept(s, g) = << >> BY <1>1 DEF Kept
  <2>2. << >> \in Seq(STRING) /\ DOMAIN << >> = {} OBVIOUS
  <2> QED BY <1>1, <2>1, <2>2
<1>2. CASE g \in ToSet(s)
  <2> DEFINE first == CHOOSE i \in DOMAIN s : s[i] = g
  <2>1. first \in DOMAIN s /\ s[first] = g BY <1>2 DEF ToSet
  <2> HIDE DEF first
  <2>2. /\ first \in 1..Len(s) /\ Len(s) \in Nat /\ first \in Nat
        /\ 1 \in 1..Len(s) /\ 1 \in 1..(Len(s) - first + 1)
    BY <2>1
  <2>3. Kept(s, g) = SubSeq(s, first, Len(s)) BY <1>2 DEF Kept, first
  <2> DEFINE t == SubSeq(s, first, Len(s))
  <2>4. t \in Seq(STRING) /\ Len(t) = Len(s) - first + 1 BY <2>2, SubSeqProperties
  <2>5. \A j \in 1..(Len(s) - first + 1) : t[j] = s[first + j - 1] BY <2>2, SubSeqProperties
  <2>6. DOMAIN t = 1..(Len(s) - first + 1) BY <2>4
  <2> HIDE DEF t
  <2>7. ASSUME NEW j \in DOMAIN t, NEW k \in DOMAIN t, t[j] = t[k] PROVE j = k
    <3>1. /\ j \in Nat /\ k \in Nat /\ DOMAIN s = 1..Len(s)
          /\ first + j - 1 \in 1..Len(s) /\ first + k - 1 \in 1..Len(s)
      BY <2>2, <2>6
    <3>2. s[first + j - 1] = s[first + k - 1] BY <2>5, <2>6, <2>7
    <3>3. first + j - 1 = first + k - 1 BY <3>1, <3>2
    <3> QED BY <2>2, <3>1, <3>3
  <2>8. g \in ToSet(t)
    <3>1. 1 \in DOMAIN t BY <2>2, <2>6
    <3>2. t[1] = s[first + 1 - 1] /\ first + 1 - 1 = first BY <2>2, <2>5
    <3> QED BY <2>1, <3>1, <3>2 DEF ToSet
  <2>9. ASSUME ~Differs(s, g) PROVE t = s
    <3>1. s # << >> /\ Head(s) = s[1] /\ DOMAIN s = 1..Len(s) BY <2>2
    <3>2. s[1] = g BY <2>9, <3>1 DEF Differs
    <3>3. first = 1 BY <2>1, <2>2, <3>1, <3>2
    <3> QED BY <2>2, <2>4, <2>5, <2>6, <3>3
  <2> QED BY <2>3, <2>4, <2>7, <2>8, <2>9 DEF t
<1> QED BY <1>1, <1>2

-----------------------------------------------------------------------------
(* ADD: the VXLAN interface.                                               *)

LEMMA StartAddKeeps ==
  ASSUME Inv, NEW c \in Cont, StartAdd(c)
  PROVE  Inv'
<1> USE DEF Inv
<1>1. LinksOK'
  <2> PICK l : l = Link(host, 0, None) OBVIOUS
  <2>1. LinksOK /\ host \in Nat /\ made \in Nat BY DEF TypeOK, LinksOK
  <2>2. l \in Links /\ l.src = host /\ l.id = 0 /\ l.master = None BY <2>1, LinkTyped
  <2>3. got' = [got EXCEPT ![c] = l] /\ UNCHANGED <<host, link, made, dev>>
    BY DEF StartAdd, linkVars
  <2>4. Known(l)' BY <2>1, <2>2, <2>3 DEF Known
  <2>5. made' >= made /\ made' \in Nat /\ DOMAIN dev \subseteq DOMAIN dev' BY <2>1, <2>3
  <2>6. got' \in [Cont -> Links] /\ \A d \in Cont : Known(got[d])'
    BY <2>1, <2>2, <2>3, <2>4, <2>5, GotReplaced, Zenon
  <2> QED BY <2>1, <2>3, <2>6 DEF LinksOK, Known
<1>2. CallsOK' BY DEF StartAdd, Goto, linkVars, TypeOK, CallsOK, AddPCs, DelPCs
<1>3. TypeOK'
  BY <1>1, <1>2, ConfsTyped DEF StartAdd, Goto, linkVars, nsVars, TypeOK,
    Path, HasVeth
<1>4. Path'
  BY ConfsTyped DEF StartAdd, Goto, linkVars, nsVars, TypeOK, CallsOK,
    LinksOK, AddPCs, DelPCs, Path, HasVeth, Before, OnGateway
<1>5. Leased'
  BY ConfsTyped DEF StartAdd, Goto, linkVars, nsVars, TypeOK, CallsOK,
    LinksOK, AddPCs, DelPCs, Path, Leased, OnGateway, Behind, Up
<1>6. Attached'
  <2>1. Link(host, 0, None).id = 0 BY DEF Link
  <2>2. \A d \in Cont : got'[d] = IF d = c THEN Link(host, 0, None) ELSE got[d]
    BY DEF StartAdd, TypeOK, LinksOK
  <2>3. pc' = [pc EXCEPT ![c] = "ensureLink"] /\ told' = [told EXCEPT ![c] = "adding"]
    BY DEF StartAdd, Goto
  <2> QED BY <2>1, <2>2, <2>3 DEF StartAdd, linkVars, TypeOK, CallsOK, Attached, Exists, Up, AddPCs
<1>7. GatewaySet'
  BY ConfsTyped DEF StartAdd, Goto, linkVars, nsVars, TypeOK, CallsOK,
    LinksOK, AddPCs, DelPCs, Path, GatewaySet, OnGateway, Behind, Up
<1>8. Released'
  BY ConfsTyped DEF StartAdd, Goto, linkVars, nsVars, TypeOK, CallsOK,
    LinksOK, AddPCs, DelPCs, Path, Leased, Released
<1>9. CleanDel'
  BY ConfsTyped DEF StartAdd, Goto, linkVars, nsVars, TypeOK, CallsOK,
    LinksOK, AddPCs, DelPCs, Path, Released, CleanDel
<1> QED BY <1>3, <1>4, <1>5, <1>6, <1>7, <1>8, <1>9

LEMMA EnsureLinkKeeps ==
  ASSUME Inv, NEW c \in Cont, EnsureLink(c)
  PROVE  Inv'
<1> USE DEF Inv
<1>1. LinksOK'
  BY CreateKeeps, LinksKept DEF EnsureLink, TypeOK
<1>2. CallsOK'
  <2>1. /\ told' = told /\ pc[c] = "ensureLink"
        /\ \/ pc' = [pc EXCEPT ![c] = "setupBridge"]
           \/ pc' = [pc EXCEPT ![c] = "existing"]
    BY DEF EnsureLink, Create, Goto
  <2>2. CallsOK BY DEF TypeOK
  <2> QED BY <2>1, <2>2 DEF CallsOK, AddPCs, DelPCs
<1>3. TypeOK'
  BY <1>1, <1>2, ConfsTyped DEF EnsureLink, Goto, Exists, linkVars, nsVars,
    TypeOK, Path, HasVeth
<1>4. Path'
  BY ConfsTyped DEF EnsureLink, Goto, Exists, Create, linkVars, nsVars,
    TypeOK, CallsOK, LinksOK, AddPCs, DelPCs, Path, HasVeth, Before, OnGateway
<1>5. Leased'
  BY ConfsTyped DEF EnsureLink, Goto, Exists, Create, linkVars, nsVars,
    TypeOK, CallsOK, LinksOK, AddPCs, DelPCs, Path, Leased, OnGateway, Behind,
    Up
<1>6. Attached'
  <2>1. CASE Create(c)
    <3> PICK l : l = Link(got[c].src, made + 1, None) OBVIOUS
    <3>1. link' = [link EXCEPT ![NetOf[c]] = l] /\ got' = [got EXCEPT ![c] = l]
      BY <2>1, CreateKeeps DEF EnsureLink
    <3>2. got[c].src \in Nat /\ made \in Nat BY DEF TypeOK, LinksOK, Links
    <3>3. l.id = made + 1 /\ l.master = None BY <3>2, LinkTyped
    <3>4. \A d \in Cont : got[d].id \in Nat /\ got[d].id <= made
      BY DEF TypeOK, LinksOK, Known, Links
    <3>5. link \in [Net -> Links] /\ got \in [Cont -> Links] BY DEF TypeOK, LinksOK
    <3>6. pc' = [pc EXCEPT ![c] = "setupBridge"] /\ told' = told /\ pc[c] \in AddPCs
      BY <2>1 DEF Create, Goto, EnsureLink, AddPCs
    <3>7. told[c] # "up" /\ pc \in [Cont -> {"idle"} \cup AddPCs \cup DelPCs]
      BY <3>6 DEF TypeOK, CallsOK
    <3> HIDE DEF Inv
    <3> QED BY <3>1, <3>2, <3>3, <3>4, <3>5, <3>6, <3>7, ConfsTyped, NoLinkTyped DEF Attached, Exists, Up, Inv
  <2>2. CASE ~Create(c)
    BY <2>2 DEF EnsureLink, Goto, TypeOK, CallsOK, Attached, Exists, Up, AddPCs
  <2> QED BY <2>1, <2>2
<1>7. GatewaySet'
  BY ConfsTyped DEF EnsureLink, Goto, Exists, Create, linkVars, nsVars,
    TypeOK, CallsOK, LinksOK, AddPCs, DelPCs, Path, GatewaySet, OnGateway,
    Behind, Up
<1>8. Released'
  BY ConfsTyped DEF EnsureLink, Goto, Exists, Create, linkVars, nsVars,
    TypeOK, CallsOK, LinksOK, AddPCs, DelPCs, Path, Leased, Released
<1>9. CleanDel'
  BY ConfsTyped DEF EnsureLink, Goto, Exists, Create, linkVars, nsVars,
    TypeOK, CallsOK, LinksOK, AddPCs, DelPCs, Path, Released, CleanDel
<1> QED BY <1>3, <1>4, <1>5, <1>6, <1>7, <1>8, <1>9

LEMMA ExistingKeeps ==
  ASSUME Inv, NEW c \in Cont, Existing(c)
  PROVE  Inv'
<1> USE DEF Inv
<1>1. LinksOK'
  <2>1. CASE ~Exists(NetOf[c])
    BY <2>1, EndsKeeps DEF Existing, Fails, linkVars
  <2>2. CASE Exists(NetOf[c]) /\ ~Incompat(c)
    <3> PICK l : l = link[NetOf[c]] OBVIOUS
    <3>1. l \in Links /\ Known(l) /\ LinksOK /\ made \in Nat BY ConfsTyped DEF TypeOK, LinksOK
    <3>2. got' = [got EXCEPT ![c] = l] /\ UNCHANGED <<host, made, link, dev>>
      BY <2>2 DEF Existing
    <3>3. Known(l)' BY <3>1, <3>2 DEF Known
    <3>4. made' >= made /\ made' \in Nat /\ DOMAIN dev \subseteq DOMAIN dev' BY <3>1, <3>2
    <3>5. got' \in [Cont -> Links] /\ \A d \in Cont : Known(got[d])'
      BY <3>1, <3>2, <3>3, <3>4, GotReplaced, Zenon
    <3> QED BY <3>1, <3>2, <3>5 DEF LinksOK, Known
  <2>3. CASE Exists(NetOf[c]) /\ Incompat(c)
    <3>1. link' = [link EXCEPT ![NetOf[c]] = NoLink] /\ UNCHANGED <<host, made, got, dev>>
      BY <2>3 DEF Existing
    <3>2. LinksOK /\ made \in Nat /\ host \in Nat BY DEF TypeOK, LinksOK
    <3>3. Known(NoLink)' BY <3>1, <3>2, NoLinkTyped DEF Known
    <3>4. made' >= made /\ made' \in Nat /\ DOMAIN dev \subseteq DOMAIN dev' BY <3>1, <3>2
    <3>5. link' \in [Net -> Links] /\ \A n \in Net : Known(link[n])'
      BY <3>1, <3>2, <3>3, <3>4, NoLinkTyped, ConfsTyped, LinkReplaced, Zenon
    <3> QED BY <3>1, <3>2, <3>5 DEF LinksOK, Known
  <2> QED BY <2>1, <2>2, <2>3
<1>2. CallsOK'
  <2>1. CASE ~Exists(NetOf[c]) BY <2>1, EndsKeeps DEF Existing, Fails, linkVars
  <2>2. CASE Exists(NetOf[c])
    <3>1. /\ told' = told /\ pc[c] = "existing"
          /\ \/ pc' = [pc EXCEPT ![c] = "setupBridge"]
             \/ pc' = [pc EXCEPT ![c] = "recreate"]
      BY <2>2 DEF Existing, Goto
    <3>2. CallsOK BY DEF TypeOK
    <3> QED BY <3>1, <3>2 DEF CallsOK, AddPCs, DelPCs
  <2> QED BY <2>1, <2>2
<1>3. TypeOK'
  BY <1>1, <1>2, ConfsTyped DEF Existing, Exists, Incompat, Fails, Goto,
    linkVars, nsVars, TypeOK, Path, HasVeth
<1>4. Path'
  BY ConfsTyped DEF Existing, Exists, Incompat, Fails, Goto, Ends, NoLink,
    Link, linkVars, nsVars, TypeOK, CallsOK, LinksOK, AddPCs, DelPCs, Path,
    HasVeth, Before, OnGateway
<1>5. Leased'
  BY ConfsTyped DEF Existing, Exists, Incompat, Fails, Goto, Ends, NoLink,
    Link, linkVars, nsVars, TypeOK, CallsOK, LinksOK, AddPCs, DelPCs, Path,
    Leased, OnGateway, Behind, Up
<1>6. Attached'
  <2> USE ConfsTyped DEF Existing, Goto, TypeOK, CallsOK, LinksOK, Attached, Exists, Up, AddPCs
  <2>1. CASE ~Exists(NetOf[c]) BY <2>1, NoLinkTyped DEF Fails, Ends
  <2>2. CASE Exists(NetOf[c]) /\ ~Incompat(c)
    <3>1. got' = [got EXCEPT ![c] = link[NetOf[c]]] /\ UNCHANGED <<link, told>> BY <2>2
    <3>2. link[NetOf[c]].id # 0 BY <2>2
    <3>3. pc' = [pc EXCEPT ![c] = "setupBridge"] /\ told[c] # "up" BY <2>2
    <3> QED BY <3>1, <3>2, <3>3
  <2>3. CASE Exists(NetOf[c]) /\ Incompat(c)
    <3>1. link' = [link EXCEPT ![NetOf[c]] = NoLink] /\ UNCHANGED <<got, told>> BY <2>3
    <3>2. pc' = [pc EXCEPT ![c] = "recreate"] /\ told[c] # "up" BY <2>3
    <3> QED BY <3>1, <3>2, NoLinkTyped
  <2> QED BY <2>1, <2>2, <2>3
<1>7. GatewaySet'
  BY ConfsTyped DEF Existing, Exists, Incompat, Fails, Goto, Ends, NoLink,
    Link, linkVars, nsVars, TypeOK, CallsOK, LinksOK, AddPCs, DelPCs, Path,
    GatewaySet, OnGateway, Behind, Up
<1>8. Released'
  BY ConfsTyped DEF Existing, Exists, Incompat, Fails, Goto, Ends, NoLink,
    Link, linkVars, nsVars, TypeOK, CallsOK, LinksOK, AddPCs, DelPCs, Path,
    Leased, Released
<1>9. CleanDel'
  BY ConfsTyped DEF Existing, Exists, Incompat, Fails, Goto, Ends, NoLink,
    Link, linkVars, nsVars, TypeOK, CallsOK, LinksOK, AddPCs, DelPCs, Path,
    Released, CleanDel
<1> QED BY <1>3, <1>4, <1>5, <1>6, <1>7, <1>8, <1>9

LEMMA RecreateKeeps ==
  ASSUME Inv, NEW c \in Cont, Recreate(c)
  PROVE  Inv'
<1> USE DEF Inv
<1>1. LinksOK'
  BY CreateKeeps, EndsKeeps DEF Recreate, Fails, linkVars
<1>2. CallsOK'
  <2>1. CASE Create(c)
    BY <2>1 DEF Recreate, Create, Goto, TypeOK, CallsOK, AddPCs, DelPCs
  <2>2. CASE Fails(c) /\ UNCHANGED <<link, made>>
    BY <2>2, EndsKeeps DEF Recreate, Fails, linkVars
  <2> QED BY <2>1, <2>2 DEF Recreate
<1>3. TypeOK'
  BY <1>1, <1>2, ConfsTyped DEF Recreate, Goto, Exists, Fails, linkVars,
    nsVars, TypeOK, Path, HasVeth
<1>4. Path'
  BY ConfsTyped DEF Recreate, Goto, Exists, Fails, Ends, NoLink, Link, Create,
    linkVars, nsVars, TypeOK, CallsOK, LinksOK, AddPCs, DelPCs, Path, HasVeth,
    Before, OnGateway
<1>5. Leased'
  BY ConfsTyped DEF Recreate, Goto, Exists, Fails, Ends, NoLink, Link, Create,
    linkVars, nsVars, TypeOK, CallsOK, LinksOK, AddPCs, DelPCs, Path, Leased,
    OnGateway, Behind, Up
<1>6. Attached'
  <2>1. CASE Create(c)
    <3> PICK l : l = Link(got[c].src, made + 1, None) OBVIOUS
    <3>1. link' = [link EXCEPT ![NetOf[c]] = l] /\ got' = [got EXCEPT ![c] = l]
      BY <2>1, CreateKeeps DEF Recreate
    <3>2. got[c].src \in Nat /\ made \in Nat BY DEF TypeOK, LinksOK, Links
    <3>3. l.id = made + 1 /\ l.master = None BY <3>2, LinkTyped
    <3>4. \A d \in Cont : got[d].id \in Nat /\ got[d].id <= made
      BY DEF TypeOK, LinksOK, Known, Links
    <3>5. link \in [Net -> Links] /\ got \in [Cont -> Links] BY DEF TypeOK, LinksOK
    <3>6. pc' = [pc EXCEPT ![c] = "setupBridge"] /\ told' = told /\ pc[c] \in AddPCs
      BY <2>1 DEF Create, Goto, Recreate, AddPCs
    <3>7. told[c] # "up" /\ pc \in [Cont -> {"idle"} \cup AddPCs \cup DelPCs]
      BY <3>6 DEF TypeOK, CallsOK
    <3> HIDE DEF Inv
    <3> QED BY <3>1, <3>2, <3>3, <3>4, <3>5, <3>6, <3>7, ConfsTyped, NoLinkTyped DEF Attached, Exists, Up, Inv
  <2>2. CASE ~Create(c)
    BY <2>2, NoLinkTyped
    DEF Recreate, Fails, Ends, Goto, TypeOK, CallsOK, LinksOK, Attached, Exists, Up, AddPCs
  <2> QED BY <2>1, <2>2
<1>7. GatewaySet'
  BY ConfsTyped DEF Recreate, Goto, Exists, Fails, Ends, NoLink, Link, Create,
    linkVars, nsVars, TypeOK, CallsOK, LinksOK, AddPCs, DelPCs, Path,
    GatewaySet, OnGateway, Behind, Up
<1>8. Released'
  BY ConfsTyped DEF Recreate, Goto, Exists, Fails, Ends, NoLink, Link, Create,
    linkVars, nsVars, TypeOK, CallsOK, LinksOK, AddPCs, DelPCs, Path, Leased,
    Released
<1>9. CleanDel'
  BY ConfsTyped DEF Recreate, Goto, Exists, Fails, Ends, NoLink, Link, Create,
    linkVars, nsVars, TypeOK, CallsOK, LinksOK, AddPCs, DelPCs, Path,
    Released, CleanDel
<1> QED BY <1>3, <1>4, <1>5, <1>6, <1>7, <1>8, <1>9

-----------------------------------------------------------------------------
(* ADD: bridge, interface of the container, address, gateway.              *)

LEMMA SetupBridgeKeeps ==
  ASSUME Inv, NEW c \in Cont, SetupBridge(c)
  PROVE  Inv'
<1> USE DEF Inv
<1>1. LinksOK'
  <2>1. Bridge(c) \in Ifs /\ dev' = EnsureIf(Bridge(c)) BY DEF SetupBridge, Ifs
  <2>2. DOMAIN dev \subseteq DOMAIN dev' BY <2>1, EnsureIfTyped
  <2> QED BY <2>2, LinksKept DEF SetupBridge, linkVars, TypeOK
<1>2. CallsOK'
  BY DEF SetupBridge, EnsureIf, Goto, linkVars, TypeOK, CallsOK, AddPCs,
    DelPCs
<1>3. TypeOK'
  <2>1. Bridge(c) \in Ifs /\ dev' = EnsureIf(Bridge(c)) BY DEF SetupBridge, Ifs
  <2>2. /\ DOMAIN dev \subseteq DOMAIN dev' /\ DOMAIN dev' \subseteq Ifs
        /\ dev' \in [DOMAIN dev' -> Seq(STRING)]
    BY <2>1, EnsureIfTyped
  <2> QED BY <1>1, <1>2, <2>2 DEF SetupBridge, nsVars, TypeOK
<1>4. Path'
  BY ConfsTyped DEF SetupBridge, EnsureIf, Goto, linkVars, nsVars, TypeOK,
    CallsOK, LinksOK, AddPCs, DelPCs, Path, HasVeth, Before, OnGateway
<1>5. Leased'
  BY ConfsTyped DEF SetupBridge, EnsureIf, Goto, linkVars, nsVars, TypeOK,
    CallsOK, LinksOK, AddPCs, DelPCs, Path, Leased, OnGateway, Behind, Up
<1>6. Attached'
  BY ConfsTyped DEF SetupBridge, EnsureIf, Goto, linkVars, nsVars, TypeOK,
    CallsOK, LinksOK, AddPCs, DelPCs, Attached, Exists, Up
<1>7. GatewaySet'
  BY ConfsTyped DEF SetupBridge, EnsureIf, Goto, linkVars, nsVars, TypeOK,
    CallsOK, LinksOK, AddPCs, DelPCs, Path, GatewaySet, OnGateway, Behind, Up
<1>8. Released'
  BY ConfsTyped DEF SetupBridge, EnsureIf, Goto, linkVars, nsVars, TypeOK,
    CallsOK, LinksOK, AddPCs, DelPCs, Path, Leased, Released
<1>9. CleanDel'
  BY ConfsTyped DEF SetupBridge, EnsureIf, Goto, linkVars, nsVars, TypeOK,
    CallsOK, LinksOK, AddPCs, DelPCs, Path, Released, CleanDel
<1> QED BY <1>3, <1>4, <1>5, <1>6, <1>7, <1>8, <1>9

LEMMA SetupVethKeeps ==
  ASSUME Inv, NEW c \in Cont, SetupVeth(c)
  PROVE  Inv'
<1> USE DEF Inv
<1>1. LinksOK' BY EndsKeeps, LinksKept DEF SetupVeth, Fails, linkVars, TypeOK
<1>2. CallsOK'
  BY EndsKeeps DEF SetupVeth, Fails, Goto, linkVars, TypeOK, CallsOK, AddPCs,
    DelPCs
<1>3. TypeOK'
  <2>1. Bridge(c) \in DOMAIN dev /\ addr[c] = None BY DEF SetupVeth, Path, Before
  <2>2. /\ veth' \in [Cont -> {"none", "unlinked", "linked"}]
        /\ \A d \in Cont : d # c => veth'[d] = veth[d]
    BY DEF SetupVeth, TypeOK
  <2> QED BY <1>1, <1>2, <2>1, <2>2 DEF SetupVeth, TypeOK
<1>4. Path'
  BY ConfsTyped DEF SetupVeth, Fails, Goto, Ends, NoLink, Link, linkVars,
    nsVars, TypeOK, CallsOK, LinksOK, AddPCs, DelPCs, Path, HasVeth, Before,
    OnGateway
<1>5. Leased'
  BY ConfsTyped DEF SetupVeth, Fails, Goto, Ends, NoLink, Link, linkVars,
    nsVars, TypeOK, CallsOK, LinksOK, AddPCs, DelPCs, Path, Leased, OnGateway,
    Behind, Up
<1>6. Attached'
  BY ConfsTyped DEF SetupVeth, Fails, Goto, Ends, NoLink, Link, linkVars,
    nsVars, TypeOK, CallsOK, LinksOK, AddPCs, DelPCs, Attached, Exists, Up
<1>7. GatewaySet'
  BY ConfsTyped DEF SetupVeth, Fails, Goto, Ends, NoLink, Link, linkVars,
    nsVars, TypeOK, CallsOK, LinksOK, AddPCs, DelPCs, Path, GatewaySet,
    OnGateway, Behind, Up
<1>8. Released'
  BY ConfsTyped DEF SetupVeth, Fails, Goto, Ends, NoLink, Link, linkVars,
    nsVars, TypeOK, CallsOK, LinksOK, AddPCs, DelPCs, Path, Leased, Released
<1>9. CleanDel'
  BY ConfsTyped DEF SetupVeth, Fails, Goto, Ends, NoLink, Link, linkVars,
    nsVars, TypeOK, CallsOK, LinksOK, AddPCs, DelPCs, Path, Released, CleanDel
<1> QED BY <1>3, <1>4, <1>5, <1>6, <1>7, <1>8, <1>9

LEMMA IpamAddKeeps ==
  ASSUME Inv, NEW c \in Cont, IpamAdd(c)
  PROVE  Inv'
<1> USE DEF Inv
<1>1. LinksOK'
  BY EndsKeeps, LinksKept DEF IpamAdd, FreeAddr, Fails, linkVars, TypeOK
<1>2. CallsOK'
  <2>1. CASE Fails(c)
    BY <2>1, EndsKeeps DEF IpamAdd, Fails, linkVars
  <2>2. CASE Goto(c, "configure") /\ UNCHANGED told
    BY <2>2 DEF IpamAdd, Goto, TypeOK, CallsOK, AddPCs, DelPCs
  <2> QED BY <2>1, <2>2 DEF IpamAdd
<1>3. TypeOK'
  BY <1>1, <1>2, ConfsTyped DEF IpamAdd, FreeAddr, Fails, Goto, linkVars,
    nsVars, TypeOK, Path, HasVeth
<1>4. Path'
  BY ConfsTyped DEF IpamAdd, FreeAddr, Fails, Goto, Ends, NoLink, Link,
    linkVars, nsVars, TypeOK, CallsOK, LinksOK, AddPCs, DelPCs, Path, HasVeth,
    Before, OnGateway
<1>5. Leased'
  BY ConfsTyped DEF IpamAdd, FreeAddr, Fails, Goto, Ends, NoLink, Link,
    linkVars, nsVars, TypeOK, CallsOK, LinksOK, AddPCs, DelPCs, Path, Leased,
    OnGateway, Behind, Up
<1>6. Attached'
  BY ConfsTyped DEF IpamAdd, FreeAddr, Fails, Goto, Ends, NoLink, Link,
    linkVars, nsVars, TypeOK, CallsOK, LinksOK, AddPCs, DelPCs, Attached,
    Exists, Up
<1>7. GatewaySet'
  BY ConfsTyped DEF IpamAdd, FreeAddr, Fails, Goto, Ends, NoLink, Link,
    linkVars, nsVars, TypeOK, CallsOK, LinksOK, AddPCs, DelPCs, Path,
    GatewaySet, OnGateway, Behind, Up
<1>8. Released'
  BY ConfsTyped DEF IpamAdd, FreeAddr, Fails, Goto, Ends, NoLink, Link,
    linkVars, nsVars, TypeOK, CallsOK, LinksOK, AddPCs, DelPCs, Path, Leased,
    Released
<1>9. CleanDel'
  BY ConfsTyped DEF IpamAdd, FreeAddr, Fails, Goto, Ends, NoLink, Link,
    linkVars, nsVars, TypeOK, CallsOK, LinksOK, AddPCs, DelPCs, Path,
    Released, CleanDel
<1> QED BY <1>3, <1>4, <1>5, <1>6, <1>7, <1>8, <1>9

LEMMA ConfigureKeeps ==
  ASSUME Inv, NEW c \in Cont, Configure(c)
  PROVE  Inv'
<1> USE DEF Inv
<1>1. LinksOK' BY LinksKept DEF Configure, Masquerade, linkVars, TypeOK
<1>2. CallsOK'
  BY DEF Configure, Masquerade, Goto, linkVars, TypeOK, CallsOK, AddPCs,
    DelPCs
<1>3. TypeOK'
  BY <1>1, <1>2, ConfsTyped DEF Configure, Masquerade, Goto, linkVars, nsVars,
    TypeOK, Path, HasVeth
<1>4. Path'
  <2>1. Cf(c).vlan = 0 => GatewayIf(c) = Bridge(c) BY DEF GatewayIf, Bridge
  <2>2. Bridge(c) \in DOMAIN dev BY DEF Configure, TypeOK, Path, HasVeth
  <2> QED BY <2>1, <2>2, ConfsTyped
    DEF Configure, Masquerade, Goto, linkVars, TypeOK, CallsOK, AddPCs, DelPCs,
        Path, HasVeth, Before, OnGateway
<1>5. Leased'
  BY ConfsTyped DEF Configure, Masquerade, Goto, linkVars, nsVars, TypeOK,
    CallsOK, LinksOK, AddPCs, DelPCs, Path, Leased, OnGateway, Behind, Up
<1>6. Attached'
  BY ConfsTyped DEF Configure, Masquerade, Goto, linkVars, nsVars, TypeOK,
    CallsOK, LinksOK, AddPCs, DelPCs, Attached, Exists, Up
<1>7. GatewaySet'
  BY ConfsTyped DEF Configure, Masquerade, Goto, linkVars, nsVars, TypeOK,
    CallsOK, LinksOK, AddPCs, DelPCs, Path, GatewaySet, OnGateway, Behind, Up
<1>8. Released'
  BY ConfsTyped DEF Configure, Masquerade, Goto, linkVars, nsVars, TypeOK,
    CallsOK, LinksOK, AddPCs, DelPCs, Path, Leased, Released
<1>9. CleanDel'
  BY ConfsTyped DEF Configure, Masquerade, Goto, linkVars, nsVars, TypeOK,
    CallsOK, LinksOK, AddPCs, DelPCs, Path, Released, CleanDel
<1> QED BY <1>3, <1>4, <1>5, <1>6, <1>7, <1>8, <1>9

LEMMA FindVlanKeeps ==
  ASSUME Inv, NEW c \in Cont, FindVlan(c)
  PROVE  Inv'
<1> USE DEF Inv
<1>1. LinksOK' BY LinksKept DEF FindVlan, linkVars, TypeOK
<1>2. CallsOK' BY DEF FindVlan, Goto, linkVars, TypeOK, CallsOK, AddPCs, DelPCs
<1>3. TypeOK'
  BY <1>1, <1>2, ConfsTyped DEF FindVlan, Goto, linkVars, nsVars, TypeOK,
    Path, HasVeth
<1>4. Path'
  BY ConfsTyped DEF FindVlan, Goto, linkVars, nsVars, TypeOK, CallsOK,
    LinksOK, AddPCs, DelPCs, Path, HasVeth, Before, OnGateway
<1>5. Leased'
  BY ConfsTyped DEF FindVlan, Goto, linkVars, nsVars, TypeOK, CallsOK,
    LinksOK, AddPCs, DelPCs, Path, Leased, OnGateway, Behind, Up
<1>6. Attached'
  BY ConfsTyped DEF FindVlan, Goto, linkVars, nsVars, TypeOK, CallsOK,
    LinksOK, AddPCs, DelPCs, Attached, Exists, Up
<1>7. GatewaySet'
  BY ConfsTyped DEF FindVlan, Goto, linkVars, nsVars, TypeOK, CallsOK,
    LinksOK, AddPCs, DelPCs, Path, GatewaySet, OnGateway, Behind, Up
<1>8. Released'
  BY ConfsTyped DEF FindVlan, Goto, linkVars, nsVars, TypeOK, CallsOK,
    LinksOK, AddPCs, DelPCs, Path, Leased, Released
<1>9. CleanDel'
  BY ConfsTyped DEF FindVlan, Goto, linkVars, nsVars, TypeOK, CallsOK,
    LinksOK, AddPCs, DelPCs, Path, Released, CleanDel
<1> QED BY <1>3, <1>4, <1>5, <1>6, <1>7, <1>8, <1>9

LEMMA MakeVlanKeeps ==
  ASSUME Inv, NEW c \in Cont, MakeVlan(c)
  PROVE  Inv'
<1> USE DEF Inv
<1>1. LinksOK'
  <2>1. GatewayIf(c) \in Ifs /\ dev' = EnsureIf(GatewayIf(c)) BY DEF MakeVlan, Ifs
  <2>2. DOMAIN dev \subseteq DOMAIN dev' BY <2>1, EnsureIfTyped
  <2> QED BY <2>2, LinksKept DEF MakeVlan, linkVars, TypeOK
<1>2. CallsOK'
  BY DEF MakeVlan, EnsureIf, Goto, linkVars, TypeOK, CallsOK, AddPCs, DelPCs
<1>3. TypeOK'
  <2>1. GatewayIf(c) \in Ifs /\ dev' = EnsureIf(GatewayIf(c)) BY DEF MakeVlan, Ifs
  <2>2. /\ DOMAIN dev \subseteq DOMAIN dev' /\ DOMAIN dev' \subseteq Ifs
        /\ dev' \in [DOMAIN dev' -> Seq(STRING)]
    BY <2>1, EnsureIfTyped
  <2> QED BY <1>1, <1>2, <2>2 DEF MakeVlan, nsVars, TypeOK
<1>4. Path'
  BY ConfsTyped DEF MakeVlan, EnsureIf, Goto, linkVars, nsVars, TypeOK,
    CallsOK, LinksOK, AddPCs, DelPCs, Path, HasVeth, Before, OnGateway
<1>5. Leased'
  BY ConfsTyped DEF MakeVlan, EnsureIf, Goto, linkVars, nsVars, TypeOK,
    CallsOK, LinksOK, AddPCs, DelPCs, Path, Leased, OnGateway, Behind, Up
<1>6. Attached'
  BY ConfsTyped DEF MakeVlan, EnsureIf, Goto, linkVars, nsVars, TypeOK,
    CallsOK, LinksOK, AddPCs, DelPCs, Attached, Exists, Up
<1>7. GatewaySet'
  BY ConfsTyped DEF MakeVlan, EnsureIf, Goto, linkVars, nsVars, TypeOK,
    CallsOK, LinksOK, AddPCs, DelPCs, Path, GatewaySet, OnGateway, Behind, Up
<1>8. Released'
  BY ConfsTyped DEF MakeVlan, EnsureIf, Goto, linkVars, nsVars, TypeOK,
    CallsOK, LinksOK, AddPCs, DelPCs, Path, Leased, Released
<1>9. CleanDel'
  BY ConfsTyped DEF MakeVlan, EnsureIf, Goto, linkVars, nsVars, TypeOK,
    CallsOK, LinksOK, AddPCs, DelPCs, Path, Released, CleanDel
<1> QED BY <1>3, <1>4, <1>5, <1>6, <1>7, <1>8, <1>9

LEMMA ListAddrKeeps ==
  ASSUME Inv, NEW c \in Cont, ListAddr(c)
  PROVE  Inv'
<1> USE DEF Inv
<1>1. LinksOK'
  BY LinksKept DEF ListAddr, Forced, Differs, Masquerade, linkVars, TypeOK
<1>2. CallsOK'
  BY DEF ListAddr, Forced, Differs, Masquerade, Goto, linkVars, TypeOK,
    CallsOK, AddPCs, DelPCs
<1>3. TypeOK'
  <2> DEFINE s == dev[GatewayIf(c)]  t == Kept(s, Cf(c).gateway)
  <2>1. GatewayIf(c) \in DOMAIN dev BY DEF ListAddr, Path
  <2>2. s \in Seq(STRING) BY <2>1 DEF TypeOK
  <2>3. t \in Seq(STRING) BY <2>1, <2>2, ConfsTyped, KeptTyped DEF GatewaySet
  <2> HIDE DEF s, t
  <2>4. dev' = [dev EXCEPT ![GatewayIf(c)] = t] \/ dev' = dev BY DEF ListAddr, s, t
  <2>5. DOMAIN dev' = DOMAIN dev /\ dev' \in [DOMAIN dev' -> Seq(STRING)]
    BY <2>1, <2>3, <2>4 DEF TypeOK
  <2> QED BY <1>1, <1>2, <2>5 DEF ListAddr, nsVars, TypeOK
<1>4. Path'
  BY ConfsTyped DEF ListAddr, Forced, Differs, Masquerade, Goto, linkVars,
    nsVars, TypeOK, CallsOK, LinksOK, AddPCs, DelPCs, Path, HasVeth, Before,
    OnGateway
<1>5. Leased'
  BY ConfsTyped DEF ListAddr, Forced, Differs, Masquerade, Goto, linkVars,
    nsVars, TypeOK, CallsOK, LinksOK, AddPCs, DelPCs, Path, Leased, OnGateway,
    Behind, Up
<1>6. Attached'
  BY ConfsTyped DEF ListAddr, Forced, Differs, Masquerade, Goto, linkVars,
    nsVars, TypeOK, CallsOK, LinksOK, AddPCs, DelPCs, Attached, Exists, Up
<1>7. GatewaySet'
  <2> DEFINE i == GatewayIf(c)  g == Cf(c).gateway
  <2>1. i \in DOMAIN dev /\ dev[i] \in Seq(STRING) BY DEF ListAddr, Path, TypeOK
  <2> PICK t : t = Kept(dev[i], g) OBVIOUS
  <2>2. \A j, k \in DOMAIN dev[i] : dev[i][j] = dev[i][k] => j = k BY <2>1 DEF GatewaySet
  <2>3. /\ \A j, k \in DOMAIN t : t[j] = t[k] => j = k
        /\ g \in ToSet(dev[i]) => g \in ToSet(t)
        /\ g \in ToSet(dev[i]) /\ ~Differs(dev[i], g) => t = dev[i]
    BY <2>1, <2>2, ConfsTyped, KeptTyped
  <2>4. \/ /\ Cf(c).force \/ ~Differs(dev[i], g)
           /\ dev' = [dev EXCEPT ![i] = t]
           /\ Goto(c, IF g \in ToSet(dev[i]) THEN Masquerade(c) ELSE "addAddr")
        \/ Goto(c, "undo") /\ UNCHANGED dev
    BY DEF ListAddr, Forced
  <2> HIDE DEF Inv
  <2>5. g \notin ToSet(dev[i]) /\ ~Differs(dev[i], g) => dev[i] = << >>
    BY <2>1 DEF Differs, ToSet
  <2>6. UNCHANGED told /\ Path /\ GatewaySet /\ pc \in [Cont -> {"idle"} \cup AddPCs \cup DelPCs]
    BY DEF ListAddr, Inv, TypeOK, CallsOK
  <2>7. \A j \in DOMAIN dev : j # i => dev'[j] = dev[j] BY <2>4
  <2>8. DOMAIN dev' = DOMAIN dev BY <2>4
  <2>9. (\A j \in DOMAIN dev : \A k, l \in DOMAIN dev[j] : dev[j][k] = dev[j][l] => k = l)'
    BY <2>1, <2>3, <2>4, <2>6, <2>7, <2>8 DEF GatewaySet
  <2>10. ASSUME \A n \in Net : ~Conf[n].force, NEW j \in DOMAIN dev, NEW a \in ToSet(dev[j])
         PROVE  a \in ToSet(dev'[j])
    <3>1. ~Cf(c).force BY <2>10, ConfsTyped DEF Cf
    <3> QED BY <2>1, <2>3, <2>4, <2>5, <2>7, <2>10, <3>1 DEF ToSet
  <2>11. pc'[c] \in Behind => g \in ToSet(dev'[i])
    BY <2>1, <2>3, <2>4, <2>6 DEF Goto, Behind
  <2>12. \A d \in Cont : d # c => pc'[d] = pc[d] BY <2>4, <2>6 DEF Goto
  <2>13. told[c] # "up" BY DEF Inv, ListAddr, TypeOK, CallsOK, AddPCs
  <2> QED BY <2>1, <2>6, <2>8, <2>9, <2>10, <2>11, <2>12, <2>13 DEF GatewaySet, Up
<1>8. Released'
  BY ConfsTyped DEF ListAddr, Forced, Differs, Masquerade, Goto, linkVars,
    nsVars, TypeOK, CallsOK, LinksOK, AddPCs, DelPCs, Path, Leased, Released
<1>9. CleanDel'
  BY ConfsTyped DEF ListAddr, Forced, Differs, Masquerade, Goto, linkVars,
    nsVars, TypeOK, CallsOK, LinksOK, AddPCs, DelPCs, Path, Released, CleanDel
<1> QED BY <1>3, <1>4, <1>5, <1>6, <1>7, <1>8, <1>9

LEMMA AddAddrKeeps ==
  ASSUME Inv, NEW c \in Cont, AddAddr(c)
  PROVE  Inv'
<1> USE DEF Inv
<1>1. LinksOK' BY LinksKept DEF AddAddr, Masquerade, linkVars, TypeOK
<1>2. CallsOK'
  BY DEF AddAddr, Masquerade, Goto, linkVars, TypeOK, CallsOK, AddPCs, DelPCs
<1>3. TypeOK'
  <2> DEFINE s == dev[GatewayIf(c)]  g == Cf(c).gateway
  <2>1. GatewayIf(c) \in DOMAIN dev /\ s \in Seq(STRING) /\ g \in STRING
    BY ConfsTyped DEF AddAddr, Path, TypeOK
  <2> PICK t : t = IF g \in ToSet(s) THEN s ELSE Append(s, g) OBVIOUS
  <2>2. t \in Seq(STRING)
    <3>1. Append(s, g) \in Seq(STRING) BY <2>1, AppendProperties
    <3> QED BY <2>1, <3>1
  <2>3. dev' = [dev EXCEPT ![GatewayIf(c)] = t] BY <2>1 DEF AddAddr
  <2>4. DOMAIN dev' = DOMAIN dev /\ dev' \in [DOMAIN dev' -> Seq(STRING)]
    BY <2>1, <2>2, <2>3 DEF TypeOK
  <2> QED BY <1>1, <1>2, <2>4 DEF AddAddr, nsVars, TypeOK
<1>4. Path'
  BY ConfsTyped DEF AddAddr, Masquerade, Goto, linkVars, nsVars, TypeOK,
    CallsOK, LinksOK, AddPCs, DelPCs, Path, HasVeth, Before, OnGateway
<1>5. Leased'
  BY ConfsTyped DEF AddAddr, Masquerade, Goto, linkVars, nsVars, TypeOK,
    CallsOK, LinksOK, AddPCs, DelPCs, Path, Leased, OnGateway, Behind, Up
<1>6. Attached'
  BY ConfsTyped DEF AddAddr, Masquerade, Goto, linkVars, nsVars, TypeOK,
    CallsOK, LinksOK, AddPCs, DelPCs, Attached, Exists, Up
<1>7. GatewaySet'
  <2> DEFINE i == GatewayIf(c)  g == Cf(c).gateway
  <2>1. i \in DOMAIN dev /\ dev[i] \in Seq(STRING) /\ g \in STRING
    BY ConfsTyped DEF AddAddr, Path, TypeOK
  <2> PICK t : t = IF g \in ToSet(dev[i]) THEN dev[i] ELSE Append(dev[i], g) OBVIOUS
  <2>2. \A j, k \in DOMAIN dev[i] : dev[i][j] = dev[i][k] => j = k BY <2>1 DEF GatewaySet
  <2>3. /\ \A j, k \in DOMAIN t : t[j] = t[k] => j = k
        /\ g \in ToSet(t) /\ ToSet(dev[i]) \subseteq ToSet(t)
    <3>1. CASE g \in ToSet(dev[i]) BY <2>2, <3>1
    <3>2. CASE g \notin ToSet(dev[i])
      <4>1. /\ t \in Seq(STRING) /\ Len(t) = Len(dev[i]) + 1 /\ t[Len(t)] = g
            /\ \A j \in 1..Len(dev[i]) : t[j] = dev[i][j]
        BY <2>1, <3>2
      <4>2. DOMAIN t = 1..(Len(dev[i]) + 1) /\ DOMAIN dev[i] = 1..Len(dev[i])
            /\ Len(dev[i]) \in Nat
        BY <2>1, <4>1
      <4>3. \A j \in 1..Len(dev[i]) : dev[i][j] # g BY <3>2, <4>2 DEF ToSet
      <4>4. \A j, k \in DOMAIN t : t[j] = t[k] => j = k BY <2>2, <4>1, <4>2, <4>3
      <4>5. DOMAIN dev[i] \subseteq DOMAIN t /\ Len(t) \in DOMAIN t BY <4>1, <4>2
      <4>6. \A j \in DOMAIN dev[i] : dev[i][j] = t[j] BY <4>1, <4>2
      <4>7. ToSet(dev[i]) \subseteq ToSet(t) BY <4>5, <4>6 DEF ToSet
      <4>8. g \in ToSet(t) BY <4>1, <4>5 DEF ToSet
      <4> QED BY <4>4, <4>7, <4>8
    <3> QED BY <3>1, <3>2
  <2>4. /\ dev' = [dev EXCEPT ![i] = t] /\ pc' = [pc EXCEPT ![c] = Masquerade(c)]
        /\ told' = told
    BY <2>1 DEF AddAddr, Goto
  <2>5. told[c] # "up" BY DEF AddAddr, TypeOK, CallsOK, AddPCs
  <2>6. pc \in [Cont -> {"idle"} \cup AddPCs \cup DelPCs] /\ GatewaySet BY DEF TypeOK, CallsOK
  <2> HIDE DEF Inv
  <2>7. /\ DOMAIN dev' = DOMAIN dev /\ dev'[i] = t
        /\ \A j \in DOMAIN dev : j # i => dev'[j] = dev[j]
    BY <2>1, <2>4
  <2>8. \A d \in Cont : d # c => pc'[d] = pc[d] BY <2>4, <2>6
  <2> QED BY <2>1, <2>3, <2>4, <2>5, <2>6, <2>7, <2>8 DEF GatewaySet, Up
<1>8. Released'
  BY ConfsTyped DEF AddAddr, Masquerade, Goto, linkVars, nsVars, TypeOK,
    CallsOK, LinksOK, AddPCs, DelPCs, Path, Leased, Released
<1>9. CleanDel'
  BY ConfsTyped DEF AddAddr, Masquerade, Goto, linkVars, nsVars, TypeOK,
    CallsOK, LinksOK, AddPCs, DelPCs, Path, Released, CleanDel
<1> QED BY <1>3, <1>4, <1>5, <1>6, <1>7, <1>8, <1>9

LEMMA SetupMasqKeeps ==
  ASSUME Inv, NEW c \in Cont, SetupMasq(c)
  PROVE  Inv'
<1> USE DEF Inv
<1>1. LinksOK' BY LinksKept DEF SetupMasq, linkVars, TypeOK
<1>2. CallsOK'
  BY DEF SetupMasq, Goto, linkVars, TypeOK, CallsOK, AddPCs, DelPCs
<1>3. TypeOK'
  BY <1>1, <1>2, ConfsTyped DEF SetupMasq, Goto, linkVars, nsVars, TypeOK,
    Path, HasVeth
<1>4. Path'
  BY ConfsTyped DEF SetupMasq, Goto, linkVars, nsVars, TypeOK, CallsOK,
    LinksOK, AddPCs, DelPCs, Path, HasVeth, Before, OnGateway
<1>5. Leased'
  BY ConfsTyped DEF SetupMasq, Goto, linkVars, nsVars, TypeOK, CallsOK,
    LinksOK, AddPCs, DelPCs, Path, Leased, OnGateway, Behind, Up
<1>6. Attached'
  BY ConfsTyped DEF SetupMasq, Goto, linkVars, nsVars, TypeOK, CallsOK,
    LinksOK, AddPCs, DelPCs, Attached, Exists, Up
<1>7. GatewaySet'
  BY ConfsTyped DEF SetupMasq, Goto, linkVars, nsVars, TypeOK, CallsOK,
    LinksOK, AddPCs, DelPCs, Path, GatewaySet, OnGateway, Behind, Up
<1>8. Released'
  <2>1. pc[c] = "masq" /\ Cf(c).masq /\ Cf(c).l3 BY DEF SetupMasq, Path
  <2>2. addr[c] # None BY <2>1 DEF Leased, Behind
  <2>3. masq' \subseteq masq \cup {c} /\ UNCHANGED <<lease, addr, veth, lost>>
    BY DEF SetupMasq
  <2>4. \A d \in Cont : d # c => pc'[d] = pc[d] BY DEF SetupMasq, Goto, TypeOK, CallsOK
  <2>5. pc'[c] \in {"attach", "undo"} BY DEF SetupMasq, Goto, TypeOK, CallsOK
  <2> QED BY <2>1, <2>2, <2>3, <2>4, <2>5 DEF Released
<1>9. CleanDel'
  BY ConfsTyped DEF SetupMasq, Goto, linkVars, nsVars, TypeOK, CallsOK,
    LinksOK, AddPCs, DelPCs, Path, Released, CleanDel
<1> QED BY <1>3, <1>4, <1>5, <1>6, <1>7, <1>8, <1>9

LEMMA UndoKeeps ==
  ASSUME Inv, NEW c \in Cont, Undo(c)
  PROVE  Inv'
<1> USE DEF Inv
<1>1. LinksOK' BY EndsKeeps, LinksKept DEF Undo, Fails, linkVars, TypeOK
<1>2. CallsOK' BY EndsKeeps DEF Undo, Fails
<1>3. TypeOK'
  <2>1. /\ lease' = lease \/ lease' = [lease EXCEPT ![c] = None]
        /\ UNCHANGED <<dev, nsVars>>
    BY DEF Undo
  <2>2. \A d \in Cont : NetOf[d] \in Net BY ConfsTyped
  <2>3. \A d \in Cont : lease'[d] \in {lease[d], None} BY <2>1 DEF TypeOK
  <2> QED BY <1>1, <1>2, <2>1, <2>2, <2>3 DEF nsVars, TypeOK
<1>4. Path'
  BY ConfsTyped DEF Undo, Fails, Goto, Ends, NoLink, Link, linkVars, nsVars,
    TypeOK, CallsOK, LinksOK, AddPCs, DelPCs, Path, HasVeth, Before, OnGateway
<1>5. Leased'
  BY ConfsTyped DEF Undo, Fails, Goto, Ends, NoLink, Link, linkVars, nsVars,
    TypeOK, CallsOK, LinksOK, AddPCs, DelPCs, Path, Leased, OnGateway, Behind,
    Up
<1>6. Attached'
  BY ConfsTyped DEF Undo, Fails, Goto, Ends, NoLink, Link, linkVars, nsVars,
    TypeOK, CallsOK, LinksOK, AddPCs, DelPCs, Attached, Exists, Up
<1>7. GatewaySet'
  BY ConfsTyped DEF Undo, Fails, Goto, Ends, NoLink, Link, linkVars, nsVars,
    TypeOK, CallsOK, LinksOK, AddPCs, DelPCs, Path, GatewaySet, OnGateway,
    Behind, Up
<1>8. Released'
  BY ConfsTyped DEF Undo, Fails, Goto, Ends, NoLink, Link, linkVars, nsVars,
    TypeOK, CallsOK, LinksOK, AddPCs, DelPCs, Path, Leased, Released
<1>9. CleanDel'
  BY ConfsTyped DEF Undo, Fails, Goto, Ends, NoLink, Link, linkVars, nsVars,
    TypeOK, CallsOK, LinksOK, AddPCs, DelPCs, Path, Released, CleanDel
<1> QED BY <1>3, <1>4, <1>5, <1>6, <1>7, <1>8, <1>9

-----------------------------------------------------------------------------
(* ADD: the VXLAN interface and its bridge.                                *)

LEMMA AttachKeeps ==
  ASSUME Inv, NEW c \in Cont, Attach(c)
  PROVE  Inv'
<1> USE DEF Inv
<1>1. LinksOK'
  <2>1. CASE Fails(c) /\ UNCHANGED link
    BY <2>1, EndsKeeps DEF Attach, Fails, linkVars
  <2>2. CASE UNCHANGED <<link, got>>
    BY <2>2, LinksKept DEF Attach, TypeOK
  <2>3. CASE ~HasMaster(c) /\ link' = [link EXCEPT ![NetOf[c]].master = Bridge(c)] /\ UNCHANGED got
    <3> PICK l : l = [link[NetOf[c]] EXCEPT !.master = Bridge(c)] OBVIOUS
    <3>1. /\ UNCHANGED <<host, made, got, dev>> /\ LinksOK
          /\ Bridge(c) \in DOMAIN dev /\ Bridge(c) \in Ifs
      BY <2>3 DEF Attach, TypeOK, Path, HasVeth, Ifs
    <3>2. link[NetOf[c]] \in Links /\ Known(link[NetOf[c]]) /\ made \in Nat
      BY <3>1, ConfsTyped DEF LinksOK
    <3>3. /\ l \in Links /\ l.src = link[NetOf[c]].src /\ l.id = link[NetOf[c]].id
          /\ l.master = Bridge(c)
      BY <3>1, <3>2 DEF Links
    <3>4. link' = [link EXCEPT ![NetOf[c]] = l] BY <2>3
    <3>5. Known(l)' BY <3>1, <3>2, <3>3 DEF Known
    <3>6. made' >= made /\ made' \in Nat /\ DOMAIN dev \subseteq DOMAIN dev' BY <3>1, <3>2
    <3>7. link' \in [Net -> Links] /\ \A n \in Net : Known(link[n])'
      BY <3>1, <3>3, <3>4, <3>5, <3>6, ConfsTyped, LinkReplaced, Zenon
    <3> QED BY <3>1, <3>7 DEF LinksOK, Known
  <2> QED BY <2>1, <2>2, <2>3 DEF Attach
<1>2. CallsOK'
  BY EndsKeeps DEF Attach, HasMaster, Goto, Fails, linkVars, TypeOK, CallsOK,
    AddPCs, DelPCs
<1>3. TypeOK'
  BY <1>1, <1>2, ConfsTyped DEF Attach, HasMaster, Goto, Fails, linkVars,
    nsVars, TypeOK, Path, HasVeth
<1>4. Path'
  BY ConfsTyped DEF Attach, HasMaster, Goto, Fails, Ends, NoLink, Link,
    linkVars, nsVars, TypeOK, CallsOK, LinksOK, AddPCs, DelPCs, Path, HasVeth,
    Before, OnGateway
<1>5. Leased'
  BY ConfsTyped DEF Attach, HasMaster, Goto, Fails, Ends, NoLink, Link,
    linkVars, nsVars, TypeOK, CallsOK, LinksOK, AddPCs, DelPCs, Path, Leased,
    OnGateway, Behind, Up
<1>6. Attached'
  <2>1. CASE Fails(c) /\ UNCHANGED link
    <3>1. got' = [got EXCEPT ![c] = NoLink] /\ told' = [told EXCEPT ![c] = "failed"]
      BY <2>1 DEF Fails, Ends
    <3>2. pc' = [pc EXCEPT ![c] = "idle"] /\ link' = link BY <2>1 DEF Fails, Ends, Goto
    <3> QED BY <3>1, <3>2, NoLinkTyped, ConfsTyped
      DEF TypeOK, CallsOK, LinksOK, Attached, Exists, Up, AddPCs
  <2>2. CASE HasMaster(c) /\ Goto(c, "linkUp") /\ UNCHANGED <<link, got, told>>
    BY <2>2 DEF Attach, HasMaster, Goto, TypeOK, CallsOK, Attached, Exists, Up, AddPCs
  <2>3. CASE /\ link' = [link EXCEPT ![NetOf[c]].master = Bridge(c)]
             /\ link[NetOf[c]].id = got[c].id
             /\ Goto(c, "linkUp") /\ UNCHANGED <<got, told>>
    <3>1. link \in [Net -> Links] /\ pc \in [Cont -> {"idle"} \cup AddPCs \cup DelPCs]
      BY DEF TypeOK, LinksOK, CallsOK
    <3>2. /\ link'[NetOf[c]].master = Bridge(c) /\ link'[NetOf[c]].id = got[c].id
          /\ \A n \in Net : n # NetOf[c] => link'[n] = link[n]
      BY <2>3, <3>1, ConfsTyped DEF Links
    <3>3. /\ pc[c] = "attach" /\ \A d \in Cont : d # c => pc'[d] = pc[d]
          /\ pc'[c] = "linkUp" /\ got[c].id # 0
      BY <2>3, <3>1 DEF Attach, Goto, Attached, AddPCs
    <3>4. Attached /\ UNCHANGED <<got, told>> BY <2>3
    <3> HIDE DEF Inv
    <3>5. (\A n \in Net : Exists(n) => link[n].id # 0)'
      BY <3>2, <3>3, <3>4, ConfsTyped DEF Attached, Exists
    <3>6. ASSUME NEW d \in Cont, NetOf[d] = NetOf[c] PROVE link'[NetOf[d]].master = Bridge(d)
      BY <3>2, <3>6, SameBridge
    <3> QED BY <3>2, <3>3, <3>4, <3>5, <3>6, ConfsTyped DEF Attached, Up
  <2> QED BY <2>1, <2>2, <2>3 DEF Attach
<1>7. GatewaySet'
  BY ConfsTyped DEF Attach, HasMaster, Goto, Fails, Ends, NoLink, Link,
    linkVars, nsVars, TypeOK, CallsOK, LinksOK, AddPCs, DelPCs, Path,
    GatewaySet, OnGateway, Behind, Up
<1>8. Released'
  BY ConfsTyped DEF Attach, HasMaster, Goto, Fails, Ends, NoLink, Link,
    linkVars, nsVars, TypeOK, CallsOK, LinksOK, AddPCs, DelPCs, Path, Leased,
    Released
<1>9. CleanDel'
  BY ConfsTyped DEF Attach, HasMaster, Goto, Fails, Ends, NoLink, Link,
    linkVars, nsVars, TypeOK, CallsOK, LinksOK, AddPCs, DelPCs, Path,
    Released, CleanDel
<1> QED BY <1>3, <1>4, <1>5, <1>6, <1>7, <1>8, <1>9

LEMMA LinkUpKeeps ==
  ASSUME Inv, NEW c \in Cont, LinkUp(c)
  PROVE  Inv'
<1> USE DEF Inv
<1>1. LinksOK' BY EndsKeeps, LinksKept DEF LinkUp, Fails, linkVars, TypeOK
<1>2. CallsOK'
  BY EndsKeeps DEF LinkUp, Fails, Goto, linkVars, TypeOK, CallsOK, AddPCs,
    DelPCs
<1>3. TypeOK'
  BY <1>1, <1>2, ConfsTyped DEF LinkUp, Fails, Goto, linkVars, nsVars, TypeOK,
    Path, HasVeth
<1>4. Path'
  BY ConfsTyped DEF LinkUp, Fails, Goto, Ends, NoLink, Link, linkVars, nsVars,
    TypeOK, CallsOK, LinksOK, AddPCs, DelPCs, Path, HasVeth, Before, OnGateway
<1>5. Leased'
  BY ConfsTyped DEF LinkUp, Fails, Goto, Ends, NoLink, Link, linkVars, nsVars,
    TypeOK, CallsOK, LinksOK, AddPCs, DelPCs, Path, Leased, OnGateway, Behind,
    Up
<1>6. Attached'
  BY ConfsTyped DEF LinkUp, Fails, Goto, Ends, NoLink, Link, linkVars, nsVars,
    TypeOK, CallsOK, LinksOK, AddPCs, DelPCs, Attached, Exists, Up
<1>7. GatewaySet'
  BY ConfsTyped DEF LinkUp, Fails, Goto, Ends, NoLink, Link, linkVars, nsVars,
    TypeOK, CallsOK, LinksOK, AddPCs, DelPCs, Path, GatewaySet, OnGateway,
    Behind, Up
<1>8. Released'
  BY ConfsTyped DEF LinkUp, Fails, Goto, Ends, NoLink, Link, linkVars, nsVars,
    TypeOK, CallsOK, LinksOK, AddPCs, DelPCs, Path, Leased, Released
<1>9. CleanDel'
  BY ConfsTyped DEF LinkUp, Fails, Goto, Ends, NoLink, Link, linkVars, nsVars,
    TypeOK, CallsOK, LinksOK, AddPCs, DelPCs, Path, Released, CleanDel
<1> QED BY <1>3, <1>4, <1>5, <1>6, <1>7, <1>8, <1>9

-----------------------------------------------------------------------------
(* DEL, CHECK, and what comes from outside.                                *)

LEMMA StartDelKeeps ==
  ASSUME Inv, NEW c \in Cont, StartDel(c)
  PROVE  Inv'
<1> USE DEF Inv
<1>1. LinksOK'
  <2>1. got' = [got EXCEPT ![c] = NoLink] /\ UNCHANGED <<host, made, link, dev>>
    BY DEF StartDel, linkVars
  <2>2. LinksOK /\ made \in Nat /\ host \in Nat BY DEF TypeOK, LinksOK
  <2>3. Known(NoLink)' BY <2>1, <2>2, NoLinkTyped DEF Known
  <2>4. made' >= made /\ made' \in Nat /\ DOMAIN dev \subseteq DOMAIN dev' BY <2>1, <2>2
  <2>5. got' \in [Cont -> Links] /\ \A d \in Cont : Known(got[d])'
    BY <2>1, <2>2, <2>3, <2>4, NoLinkTyped, GotReplaced, Zenon
  <2> QED BY <2>1, <2>2, <2>5 DEF LinksOK, Known
<1>2. CallsOK' BY DEF StartDel, Goto, linkVars, TypeOK, CallsOK, AddPCs, DelPCs
<1>3. TypeOK'
  BY <1>1, <1>2, ConfsTyped DEF StartDel, Goto, linkVars, nsVars, TypeOK,
    Path, HasVeth
<1>4. Path'
  BY ConfsTyped DEF StartDel, Goto, NoLink, Link, linkVars, nsVars, TypeOK,
    CallsOK, LinksOK, AddPCs, DelPCs, Path, HasVeth, Before, OnGateway
<1>5. Leased'
  BY ConfsTyped DEF StartDel, Goto, NoLink, Link, linkVars, nsVars, TypeOK,
    CallsOK, LinksOK, AddPCs, DelPCs, Path, Leased, OnGateway, Behind, Up
<1>6. Attached'
  BY ConfsTyped DEF StartDel, Goto, NoLink, Link, linkVars, nsVars, TypeOK,
    CallsOK, LinksOK, AddPCs, DelPCs, Attached, Exists, Up
<1>7. GatewaySet'
  BY ConfsTyped DEF StartDel, Goto, NoLink, Link, linkVars, nsVars, TypeOK,
    CallsOK, LinksOK, AddPCs, DelPCs, Path, GatewaySet, OnGateway, Behind, Up
<1>8. Released'
  BY ConfsTyped DEF StartDel, Goto, NoLink, Link, linkVars, nsVars, TypeOK,
    CallsOK, LinksOK, AddPCs, DelPCs, Path, Leased, Released
<1>9. CleanDel'
  BY ConfsTyped DEF StartDel, Goto, NoLink, Link, linkVars, nsVars, TypeOK,
    CallsOK, LinksOK, AddPCs, DelPCs, Path, Released, CleanDel
<1> QED BY <1>3, <1>4, <1>5, <1>6, <1>7, <1>8, <1>9

LEMMA IpamDelKeeps ==
  ASSUME Inv, NEW c \in Cont, IpamDel(c)
  PROVE  Inv'
<1> USE DEF Inv
<1>1. LinksOK' BY LinksKept DEF IpamDel, linkVars, TypeOK
<1>2. CallsOK' BY DEF IpamDel, Goto, linkVars, TypeOK, CallsOK, AddPCs, DelPCs
<1>3. TypeOK'
  BY <1>1, <1>2, ConfsTyped DEF IpamDel, Goto, linkVars, nsVars, TypeOK, Path,
    HasVeth
<1>4. Path'
  BY ConfsTyped DEF IpamDel, Goto, linkVars, nsVars, TypeOK, CallsOK, LinksOK,
    AddPCs, DelPCs, Path, HasVeth, Before, OnGateway
<1>5. Leased'
  BY ConfsTyped DEF IpamDel, Goto, linkVars, nsVars, TypeOK, CallsOK, LinksOK,
    AddPCs, DelPCs, Path, Leased, OnGateway, Behind, Up
<1>6. Attached'
  BY ConfsTyped DEF IpamDel, Goto, linkVars, nsVars, TypeOK, CallsOK, LinksOK,
    AddPCs, DelPCs, Attached, Exists, Up
<1>7. GatewaySet'
  BY ConfsTyped DEF IpamDel, Goto, linkVars, nsVars, TypeOK, CallsOK, LinksOK,
    AddPCs, DelPCs, Path, GatewaySet, OnGateway, Behind, Up
<1>8. Released'
  BY ConfsTyped DEF IpamDel, Goto, linkVars, nsVars, TypeOK, CallsOK, LinksOK,
    AddPCs, DelPCs, Path, Leased, Released
<1>9. CleanDel'
  BY ConfsTyped DEF IpamDel, Goto, linkVars, nsVars, TypeOK, CallsOK, LinksOK,
    AddPCs, DelPCs, Path, Released, CleanDel
<1> QED BY <1>3, <1>4, <1>5, <1>6, <1>7, <1>8, <1>9

LEMMA IpamDelErrorKeeps ==
  ASSUME Inv, NEW c \in Cont, IpamDelError(c)
  PROVE  Inv'
<1> USE DEF Inv
<1>1. LinksOK'
  BY EndsKeeps, LinksKept DEF IpamDelError, Fails, linkVars, TypeOK
<1>2. CallsOK'
  BY EndsKeeps DEF IpamDelError, Fails, Goto, linkVars, TypeOK, CallsOK,
    AddPCs, DelPCs
<1>3. TypeOK'
  BY <1>1, <1>2, ConfsTyped DEF IpamDelError, Fails, Goto, linkVars, nsVars,
    TypeOK, Path, HasVeth
<1>4. Path'
  BY ConfsTyped DEF IpamDelError, Fails, Goto, Ends, NoLink, Link, linkVars,
    nsVars, TypeOK, CallsOK, LinksOK, AddPCs, DelPCs, Path, HasVeth, Before,
    OnGateway
<1>5. Leased'
  BY ConfsTyped DEF IpamDelError, Fails, Goto, Ends, NoLink, Link, linkVars,
    nsVars, TypeOK, CallsOK, LinksOK, AddPCs, DelPCs, Path, Leased, OnGateway,
    Behind, Up
<1>6. Attached'
  BY ConfsTyped DEF IpamDelError, Fails, Goto, Ends, NoLink, Link, linkVars,
    nsVars, TypeOK, CallsOK, LinksOK, AddPCs, DelPCs, Attached, Exists, Up
<1>7. GatewaySet'
  BY ConfsTyped DEF IpamDelError, Fails, Goto, Ends, NoLink, Link, linkVars,
    nsVars, TypeOK, CallsOK, LinksOK, AddPCs, DelPCs, Path, GatewaySet,
    OnGateway, Behind, Up
<1>8. Released'
  BY ConfsTyped DEF IpamDelError, Fails, Goto, Ends, NoLink, Link, linkVars,
    nsVars, TypeOK, CallsOK, LinksOK, AddPCs, DelPCs, Path, Leased, Released
<1>9. CleanDel'
  BY ConfsTyped DEF IpamDelError, Fails, Goto, Ends, NoLink, Link, linkVars,
    nsVars, TypeOK, CallsOK, LinksOK, AddPCs, DelPCs, Path, Released, CleanDel
<1> QED BY <1>3, <1>4, <1>5, <1>6, <1>7, <1>8, <1>9

LEMMA NoNetnsKeeps ==
  ASSUME Inv, NEW c \in Cont, NoNetns(c)
  PROVE  Inv'
<1> USE DEF Inv
<1>1. LinksOK' BY EndsKeeps, LinksKept DEF NoNetns, Fails, linkVars, TypeOK
<1>2. CallsOK'
  BY EndsKeeps DEF NoNetns, Fails, Goto, linkVars, TypeOK, CallsOK, AddPCs,
    DelPCs
<1>3. TypeOK'
  BY <1>1, <1>2, ConfsTyped DEF NoNetns, Fails, Goto, linkVars, nsVars,
    TypeOK, Path, HasVeth
<1>4. Path'
  BY ConfsTyped DEF NoNetns, Fails, Goto, Ends, NoLink, Link, linkVars,
    nsVars, TypeOK, CallsOK, LinksOK, AddPCs, DelPCs, Path, HasVeth, Before,
    OnGateway
<1>5. Leased'
  BY ConfsTyped DEF NoNetns, Fails, Goto, Ends, NoLink, Link, linkVars,
    nsVars, TypeOK, CallsOK, LinksOK, AddPCs, DelPCs, Path, Leased, OnGateway,
    Behind, Up
<1>6. Attached'
  BY ConfsTyped DEF NoNetns, Fails, Goto, Ends, NoLink, Link, linkVars,
    nsVars, TypeOK, CallsOK, LinksOK, AddPCs, DelPCs, Attached, Exists, Up
<1>7. GatewaySet'
  BY ConfsTyped DEF NoNetns, Fails, Goto, Ends, NoLink, Link, linkVars,
    nsVars, TypeOK, CallsOK, LinksOK, AddPCs, DelPCs, Path, GatewaySet,
    OnGateway, Behind, Up
<1>8. Released'
  BY ConfsTyped DEF NoNetns, Fails, Goto, Ends, NoLink, Link, linkVars,
    nsVars, TypeOK, CallsOK, LinksOK, AddPCs, DelPCs, Path, Leased, Released
<1>9. CleanDel'
  BY ConfsTyped DEF NoNetns, Fails, Goto, Ends, NoLink, Link, linkVars,
    nsVars, TypeOK, CallsOK, LinksOK, AddPCs, DelPCs, Path, Released, CleanDel
<1> QED BY <1>3, <1>4, <1>5, <1>6, <1>7, <1>8, <1>9

LEMMA DelLinkKeeps ==
  ASSUME Inv, NEW c \in Cont, DelLink(c)
  PROVE  Inv'
<1> USE DEF Inv
<1>1. LinksOK' BY EndsKeeps, LinksKept DEF DelLink, linkVars, TypeOK
<1>2. CallsOK'
  <2>1. CASE Ends(c, "deleted")
    BY <2>1, EndsKeeps DEF DelLink, linkVars
  <2>2. CASE Goto(c, "teardown") /\ UNCHANGED told
    BY <2>2 DEF DelLink, Goto, TypeOK, CallsOK, AddPCs, DelPCs
  <2> QED BY <2>1, <2>2 DEF DelLink
<1>3. TypeOK'
  BY <1>1, <1>2, ConfsTyped DEF DelLink, Goto, linkVars, nsVars, TypeOK, Path,
    HasVeth
<1>4. Path'
  BY ConfsTyped DEF DelLink, Goto, Ends, NoLink, Link, linkVars, nsVars,
    TypeOK, CallsOK, LinksOK, AddPCs, DelPCs, Path, HasVeth, Before, OnGateway
<1>5. Leased'
  BY ConfsTyped DEF DelLink, Goto, Ends, NoLink, Link, linkVars, nsVars,
    TypeOK, CallsOK, LinksOK, AddPCs, DelPCs, Path, Leased, OnGateway, Behind,
    Up
<1>6. Attached'
  BY ConfsTyped DEF DelLink, Goto, Ends, NoLink, Link, linkVars, nsVars,
    TypeOK, CallsOK, LinksOK, AddPCs, DelPCs, Attached, Exists, Up
<1>7. GatewaySet'
  BY ConfsTyped DEF DelLink, Goto, Ends, NoLink, Link, linkVars, nsVars,
    TypeOK, CallsOK, LinksOK, AddPCs, DelPCs, Path, GatewaySet, OnGateway,
    Behind, Up
<1>8. Released'
  BY ConfsTyped DEF DelLink, Goto, Ends, NoLink, Link, linkVars, nsVars,
    TypeOK, CallsOK, LinksOK, AddPCs, DelPCs, Path, Leased, Released
<1>9. CleanDel'
  BY ConfsTyped DEF DelLink, Goto, Ends, NoLink, Link, linkVars, nsVars,
    TypeOK, CallsOK, LinksOK, AddPCs, DelPCs, Path, Released, CleanDel
<1> QED BY <1>3, <1>4, <1>5, <1>6, <1>7, <1>8, <1>9

LEMMA TeardownMasqKeeps ==
  ASSUME Inv, NEW c \in Cont, TeardownMasq(c)
  PROVE  Inv'
<1> USE DEF Inv
<1>1. LinksOK'
  BY EndsKeeps, LinksKept DEF TeardownMasq, Fails, linkVars, TypeOK
<1>2. CallsOK'
  BY EndsKeeps DEF TeardownMasq, Fails, Goto, linkVars, TypeOK, CallsOK,
    AddPCs, DelPCs
<1>3. TypeOK'
  BY <1>1, <1>2, ConfsTyped DEF TeardownMasq, Fails, Goto, linkVars, nsVars,
    TypeOK, Path, HasVeth
<1>4. Path'
  BY ConfsTyped DEF TeardownMasq, Fails, Goto, Ends, NoLink, Link, linkVars,
    nsVars, TypeOK, CallsOK, LinksOK, AddPCs, DelPCs, Path, HasVeth, Before,
    OnGateway
<1>5. Leased'
  BY ConfsTyped DEF TeardownMasq, Fails, Goto, Ends, NoLink, Link, linkVars,
    nsVars, TypeOK, CallsOK, LinksOK, AddPCs, DelPCs, Path, Leased, OnGateway,
    Behind, Up
<1>6. Attached'
  BY ConfsTyped DEF TeardownMasq, Fails, Goto, Ends, NoLink, Link, linkVars,
    nsVars, TypeOK, CallsOK, LinksOK, AddPCs, DelPCs, Attached, Exists, Up
<1>7. GatewaySet'
  BY ConfsTyped DEF TeardownMasq, Fails, Goto, Ends, NoLink, Link, linkVars,
    nsVars, TypeOK, CallsOK, LinksOK, AddPCs, DelPCs, Path, GatewaySet,
    OnGateway, Behind, Up
<1>8. Released'
  BY ConfsTyped DEF TeardownMasq, Fails, Goto, Ends, NoLink, Link, linkVars,
    nsVars, TypeOK, CallsOK, LinksOK, AddPCs, DelPCs, Path, Leased, Released
<1>9. CleanDel'
  BY ConfsTyped DEF TeardownMasq, Fails, Goto, Ends, NoLink, Link, linkVars,
    nsVars, TypeOK, CallsOK, LinksOK, AddPCs, DelPCs, Path, Released, CleanDel
<1> QED BY <1>3, <1>4, <1>5, <1>6, <1>7, <1>8, <1>9

LEMMA CheckKeeps ==
  ASSUME Inv, NEW c \in Cont, Check(c)
  PROVE  Inv'
<1> USE DEF Inv
<1>1. LinksOK' BY LinksKept DEF Check, linkVars, TypeOK
<1>2. CallsOK' BY DEF Check, linkVars, TypeOK, CallsOK, AddPCs, DelPCs
<1>3. TypeOK'
  BY <1>1, <1>2, ConfsTyped DEF Check, linkVars, nsVars, TypeOK, Path, HasVeth
<1>4. Path'
  BY ConfsTyped DEF Check, linkVars, nsVars, TypeOK, CallsOK, LinksOK, AddPCs,
    DelPCs, Path, HasVeth, Before, OnGateway
<1>5. Leased'
  BY ConfsTyped DEF Check, linkVars, nsVars, TypeOK, CallsOK, LinksOK, AddPCs,
    DelPCs, Path, Leased, OnGateway, Behind, Up
<1>6. Attached'
  BY ConfsTyped DEF Check, linkVars, nsVars, TypeOK, CallsOK, LinksOK, AddPCs,
    DelPCs, Attached, Exists, Up
<1>7. GatewaySet'
  BY ConfsTyped DEF Check, linkVars, nsVars, TypeOK, CallsOK, LinksOK, AddPCs,
    DelPCs, Path, GatewaySet, OnGateway, Behind, Up
<1>8. Released'
  BY ConfsTyped DEF Check, linkVars, nsVars, TypeOK, CallsOK, LinksOK, AddPCs,
    DelPCs, Path, Leased, Released
<1>9. CleanDel'
  BY ConfsTyped DEF Check, linkVars, nsVars, TypeOK, CallsOK, LinksOK, AddPCs,
    DelPCs, Path, Released, CleanDel
<1> QED BY <1>3, <1>4, <1>5, <1>6, <1>7, <1>8, <1>9

LEMMA SandboxDiesKeeps ==
  ASSUME Inv, NEW c \in Cont, SandboxDies(c)
  PROVE  Inv'
<1> USE DEF Inv
<1>1. LinksOK' BY LinksKept DEF SandboxDies, linkVars, TypeOK
<1>2. CallsOK' BY DEF SandboxDies, linkVars, TypeOK, CallsOK, AddPCs, DelPCs
<1>3. TypeOK'
  BY <1>1, <1>2, ConfsTyped DEF SandboxDies, linkVars, nsVars, TypeOK, Path,
    HasVeth
<1>4. Path'
  BY ConfsTyped DEF SandboxDies, linkVars, nsVars, TypeOK, CallsOK, LinksOK,
    AddPCs, DelPCs, Path, HasVeth, Before, OnGateway
<1>5. Leased'
  BY ConfsTyped DEF SandboxDies, linkVars, nsVars, TypeOK, CallsOK, LinksOK,
    AddPCs, DelPCs, Path, Leased, OnGateway, Behind, Up
<1>6. Attached'
  BY ConfsTyped DEF SandboxDies, linkVars, nsVars, TypeOK, CallsOK, LinksOK,
    AddPCs, DelPCs, Attached, Exists, Up
<1>7. GatewaySet'
  BY ConfsTyped DEF SandboxDies, linkVars, nsVars, TypeOK, CallsOK, LinksOK,
    AddPCs, DelPCs, Path, GatewaySet, OnGateway, Behind, Up
<1>8. Released'
  BY ConfsTyped DEF SandboxDies, linkVars, nsVars, TypeOK, CallsOK, LinksOK,
    AddPCs, DelPCs, Path, Leased, Released
<1>9. CleanDel'
  BY ConfsTyped DEF SandboxDies, linkVars, nsVars, TypeOK, CallsOK, LinksOK,
    AddPCs, DelPCs, Path, Released, CleanDel
<1> QED BY <1>3, <1>4, <1>5, <1>6, <1>7, <1>8, <1>9

LEMMA KilledKeeps ==
  ASSUME Inv, NEW c \in Cont, Killed(c)
  PROVE  Inv'
<1> USE DEF Inv
<1>1. LinksOK' BY EndsKeeps, LinksKept DEF Killed, Fails, linkVars, TypeOK
<1>2. CallsOK'
  BY EndsKeeps DEF Killed, Fails, Goto, linkVars, TypeOK, CallsOK, AddPCs,
    DelPCs
<1>3. TypeOK'
  BY <1>1, <1>2, ConfsTyped DEF Killed, Fails, Goto, linkVars, nsVars, TypeOK,
    Path, HasVeth
<1>4. Path'
  BY ConfsTyped DEF Killed, Fails, Goto, Ends, NoLink, Link, linkVars, nsVars,
    TypeOK, CallsOK, LinksOK, AddPCs, DelPCs, Path, HasVeth, Before, OnGateway
<1>5. Leased'
  BY ConfsTyped DEF Killed, Fails, Goto, Ends, NoLink, Link, linkVars, nsVars,
    TypeOK, CallsOK, LinksOK, AddPCs, DelPCs, Path, Leased, OnGateway, Behind,
    Up
<1>6. Attached'
  BY ConfsTyped DEF Killed, Fails, Goto, Ends, NoLink, Link, linkVars, nsVars,
    TypeOK, CallsOK, LinksOK, AddPCs, DelPCs, Attached, Exists, Up
<1>7. GatewaySet'
  BY ConfsTyped DEF Killed, Fails, Goto, Ends, NoLink, Link, linkVars, nsVars,
    TypeOK, CallsOK, LinksOK, AddPCs, DelPCs, Path, GatewaySet, OnGateway,
    Behind, Up
<1>8. Released'
  BY ConfsTyped DEF Killed, Fails, Goto, Ends, NoLink, Link, linkVars, nsVars,
    TypeOK, CallsOK, LinksOK, AddPCs, DelPCs, Path, Leased, Released
<1>9. CleanDel'
  BY ConfsTyped DEF Killed, Fails, Goto, Ends, NoLink, Link, linkVars, nsVars,
    TypeOK, CallsOK, LinksOK, AddPCs, DelPCs, Path, Released, CleanDel
<1> QED BY <1>3, <1>4, <1>5, <1>6, <1>7, <1>8, <1>9

-----------------------------------------------------------------------------
(* The steps together.                                                     *)

LEMMA ReaddressKeeps ==
  ASSUME Inv, Readdress
  PROVE  Inv'
<1> USE DEF Inv
<1>1. LinksOK'
  <2>1. host \in 0..Changes /\ host' = host + 1 /\ host < Changes /\ Changes \in Nat
    BY BridgeAssumption DEF Readdress, TypeOK, LinksOK
  <2>2. host' \in 0..Changes /\ host' >= host BY <2>1
  <2>3. \A n \in Net : link[n].src \in Nat BY DEF TypeOK, LinksOK, Links
  <2>4. \A c \in Cont : got[c].src \in Nat BY DEF TypeOK, LinksOK, Links
  <2> QED BY <2>1, <2>2, <2>3, <2>4 DEF Readdress, TypeOK, LinksOK, Known
<1>2. TypeOK' BY <1>1 DEF Readdress, nsVars, TypeOK, CallsOK
<1>3. (Path /\ Leased /\ Attached)'
  BY DEF Readdress, nsVars, Path, Leased, Attached, Exists, Up
<1>4. (GatewaySet /\ Released /\ CleanDel)'
  BY DEF Readdress, nsVars, GatewaySet, Up, Released, CleanDel
<1> QED BY <1>2, <1>3, <1>4

LEMMA InitInv == Init => Inv
<1> SUFFICES ASSUME Init PROVE Inv OBVIOUS
<1> USE DEF Init
<1>1. LinksOK BY BridgeAssumption, NoLinkTyped DEF LinksOK, Known
<1>2. CallsOK BY DEF CallsOK, AddPCs, DelPCs
<1>3. dev = << >> /\ DOMAIN dev = {} OBVIOUS
<1>4. TypeOK BY <1>1, <1>2, <1>3 DEF TypeOK
<1>5. Path /\ Leased
  BY DEF Path, HasVeth, Before, OnGateway, Behind, Leased, Up
<1>6. Attached BY NoLinkTyped DEF Attached, Exists, AddPCs, Up
<1>7. GatewaySet BY <1>3 DEF GatewaySet, Behind, Up
<1>8. Released /\ CleanDel BY DEF Released, CleanDel
<1> QED BY <1>4, <1>5, <1>6, <1>7, <1>8 DEF Inv

LEMMA StutterKeeps == Inv /\ UNCHANGED vars => Inv'
<1> SUFFICES ASSUME Inv, UNCHANGED vars PROVE Inv' OBVIOUS
<1> USE DEF Inv, vars, linkVars, nsVars
<1>1. TypeOK' BY DEF TypeOK, LinksOK, CallsOK, Known
<1>2. (Path /\ Leased /\ Attached)' BY DEF Path, Leased, Attached, Exists, Up
<1>3. (GatewaySet /\ Released /\ CleanDel)' BY DEF GatewaySet, Up, Released, CleanDel
<1> QED BY <1>1, <1>2, <1>3

LEMMA StepKeeps == Inv /\ [Next]_vars => Inv'
<1> SUFFICES ASSUME Inv, [Next]_vars PROVE Inv' OBVIOUS
<1>1. ASSUME NEW c \in Cont, StartAdd(c) \/ Step(c) \/ IpamDelError(c) \/ Check(c)
      PROVE  Inv'
  <2>1. CASE Step(c)
    BY <2>1, EnsureLinkKeeps, ExistingKeeps, RecreateKeeps, SetupBridgeKeeps,
       SetupVethKeeps, IpamAddKeeps, ConfigureKeeps, FindVlanKeeps, MakeVlanKeeps,
       ListAddrKeeps, AddAddrKeeps, SetupMasqKeeps, UndoKeeps, AttachKeeps, LinkUpKeeps,
       StartDelKeeps, IpamDelKeeps, NoNetnsKeeps, DelLinkKeeps, TeardownMasqKeeps
       DEF Step
  <2> QED BY <1>1, <2>1, StartAddKeeps, IpamDelErrorKeeps, CheckKeeps
<1>2. ASSUME NEW c \in Cont, SandboxDies(c) \/ Killed(c)
      PROVE  Inv'
  BY <1>2, SandboxDiesKeeps, KilledKeeps
<1> QED BY <1>1, <1>2, ReaddressKeeps, StutterKeeps DEF Next

THEOREM BridgeInv == Spec => []Inv
<1>1. Init => Inv BY InitInv
<1>2. Inv /\ [Next]_vars => Inv' BY StepKeeps
<1> QED BY <1>1, <1>2, PTL DEF Spec

-----------------------------------------------------------------------------
(* Every variable has its type: an interface is known by what was made     *)
(* before, an address comes from the pool of the network.                  *)
THEOREM BridgeTypeCorrect == Spec => []TypeOK
<1>1. Inv => TypeOK BY DEF Inv
<1> QED BY <1>1, BridgeInv, PTL

(* bridgeAdd releases an address only when its own ADD has failed: the     *)
(* address of a container that is up is its own, whatever fails elsewhere. *)
THEOREM AddressKept == Spec => []UpLeased
<1>1. Inv => UpLeased
  <2> SUFFICES ASSUME Inv, NEW c \in Cont, Up(c), Cf(c).l3
               PROVE  /\ lease[c] # None
                      /\ addr[c] \in {lease[c]} \cup (IF netns[c] THEN {} ELSE {None})
                      /\ \A d \in Cont \ {c} : Up(d) => lease[d] # lease[c]
    BY DEF UpLeased
  <2>1. lease[c] # None /\ (addr[c] = lease[c] \/ ~netns[c]) BY DEF Inv, Leased
  <2>2. ~netns[c] => addr[c] = None BY DEF Inv, Path, TypeOK
  <2>3. \A d \in Cont \ {c} : lease[d] # lease[c] BY <2>1 DEF Inv, Leased
  <2> QED BY <2>1, <2>2, <2>3
<1> QED BY <1>1, BridgeInv, PTL

(* Without forceAddress, ensureAddr takes nobody's gateway away.           *)
THEOREM GatewayStays == Spec => []GatewayKept
<1>1. Inv => GatewayKept BY DEF Inv, GatewaySet, GatewayKept
<1> QED BY <1>1, BridgeInv, PTL

(* cmdAdd links the interface its ensureLink has found or made, and no     *)
(* other; nobody links it elsewhere.                                       *)
THEOREM Connected == Spec => []UpConnected
<1>1. Inv => UpConnected BY DEF Inv, Attached, UpConnected
<1> QED BY <1>1, BridgeInv, PTL

(* However many DELs it takes, and wherever they stop: when cmdDel returns *)
(* without an error the container has nothing any more.                    *)
THEOREM NothingLeft == Spec => []CleanDel
<1>1. Inv => CleanDel BY DEF Inv
<1> QED BY <1>1, BridgeInv, PTL
=============================================================================
