--------------------------- MODULE DelegatesProofs ---------------------------
(***************************************************************************)
(* What holds of multus for any configuration, any pods and any number of  *)
(* sandboxes.  The first part is about the lists of delegates PodNets      *)
(* makes: their first delegate is the master and no other is, so that a    *)
(* list read back from the file of a sandbox is the list that was saved.   *)
(***************************************************************************)
EXTENDS Delegates, WellFoundedInduction, SequenceTheorems, TLAPS

-----------------------------------------------------------------------------
(* Numbers, and lists of whatever elements.                                *)

(* A set of natural numbers that is not empty has a least element.         *)
LEMMA LeastNat ==
  ASSUME NEW T \in SUBSET Nat, T # {}
  PROVE  \E x \in T : \A y \in T : x <= y
<1> DEFINE Less == {ss \in Nat \X Nat : ss[1] < ss[2]}
<1>1. IsWellFoundedOn(Less, Nat)
  BY NatLessThanWellFounded DEF OpToRel
<1>2. \A x, y \in Nat : <<y, x>> \in Less \/ x <= y
  OBVIOUS
<1> HIDE DEF Less
<1>3. PICK x \in T : \A y \in T : <<y, x>> \notin Less
  BY <1>1, WFMin
<1> QED BY <1>2, <1>3

LEMMA ListTyped ==
  ASSUME NEW T, NEW s \in Seq(T)
  PROVE  IsList(s)
<1>1. \A i \in 1..Len(s) : s[i] \in ToSet(s) BY DEF ToSet
<1>2. s \in [1..Len(s) -> ToSet(s)] /\ Len(s) \in Nat BY <1>1
<1> QED BY <1>2 DEF IsList

LEMMA ListLen ==
  ASSUME NEW s, IsList(s)
  PROVE  Len(s) \in Nat /\ DOMAIN s = 1..Len(s)
BY DEF IsList

LEMMA ListMapped ==
  ASSUME NEW s, IsList(s), NEW t, t = [i \in DOMAIN s |-> t[i]]
  PROVE  IsList(t) /\ Len(t) = Len(s) /\ DOMAIN t = DOMAIN s
<1>1. Len(s) \in Nat /\ DOMAIN s = 1..Len(s) BY ListLen
<1>2. t \in [1..Len(s) -> ToSet(t)] BY <1>1 DEF ToSet
<1>3. t \in Seq(ToSet(t)) BY <1>1, <1>2
<1> QED BY <1>1, <1>3 DEF IsList

LEMMA ListAppended ==
  ASSUME NEW s, IsList(s), NEW e
  PROVE  LET t == Append(s, e)
         IN  /\ IsList(t) /\ Len(t) = Len(s) + 1 /\ t[Len(s) + 1] = e
             /\ \A i \in 1..Len(s) : t[i] = s[i]
<1> DEFINE T == ToSet(s) \cup {e}
<1>1. s \in Seq(T) /\ e \in T BY DEF IsList
<1>2. Append(s, e) \in Seq(T) BY <1>1
<1>3. IsList(Append(s, e)) BY <1>2, ListTyped
<1>4. /\ Len(Append(s, e)) = Len(s) + 1 /\ Append(s, e)[Len(s) + 1] = e
      /\ \A i \in 1..Len(s) : Append(s, e)[i] = s[i]
  BY <1>1, AppendProperties
<1> QED BY <1>3, <1>4

LEMMA ListJoined ==
  ASSUME NEW s, IsList(s), NEW r, IsList(r)
  PROVE  LET t == s \o r
         IN  /\ IsList(t) /\ Len(t) = Len(s) + Len(r)
             /\ \A i \in 1..Len(t) : t[i] = IF i <= Len(s) THEN s[i] ELSE r[i - Len(s)]
<1> DEFINE T == ToSet(s) \cup ToSet(r)
<1>1. s \in Seq(T) /\ r \in Seq(T) BY DEF IsList
<1>2. s \o r \in Seq(T) BY <1>1
<1> QED BY <1>1, <1>2, ListTyped, ConcatProperties

-----------------------------------------------------------------------------
(* Delegates and lists of them.                                            *)

IsDelegate(d) ==
  /\ DOMAIN d = {"name", "kind", "list", "dev", "ifname", "req", "master"}
  /\ d.list \in BOOLEAN /\ d.master \in BOOLEAN

(* Delegates before one of them is made the master.                        *)
Plain(ds) == IsList(ds) /\ \A i \in DOMAIN ds : IsDelegate(ds[i]) /\ ~ds[i].master

(* Delegates multus works with.                                            *)
Led(ds) == IsList(ds) /\ \A i \in DOMAIN ds : IsDelegate(ds[i]) /\ ds[i].master = (i = 1)

LEMMA Mastered ==
  ASSUME NEW d, IsDelegate(d)
  PROVE  /\ IsDelegate(AsMaster(d)) /\ AsMaster(d).master
         /\ AsMaster(d).name = d.name /\ AsMaster(d).ifname = d.ifname
         /\ AsMaster(d).dev = d.dev
         /\ AsMaster(d).kind = d.kind /\ AsMaster(d).list = d.list
BY DEF IsDelegate, AsMaster

LEMMA EmptyLed == Led(<< >>)
<1>1. << >> \in Seq({}) /\ DOMAIN << >> = {} OBVIOUS
<1> QED BY <1>1, ListTyped DEF Led

(* FirstIsMaster changes the master flag of the first, and nothing else.   *)
LEMMA FirstMastered ==
  ASSUME NEW ds, Plain(ds)
  PROVE  /\ Led(FirstIsMaster(ds)) /\ Len(FirstIsMaster(ds)) = Len(ds)
         /\ \A i \in DOMAIN ds : /\ FirstIsMaster(ds)[i].name = ds[i].name
                                 /\ FirstIsMaster(ds)[i].ifname = ds[i].ifname
                                 /\ FirstIsMaster(ds)[i].dev = ds[i].dev
                                 /\ FirstIsMaster(ds)[i].kind = ds[i].kind
                                 /\ FirstIsMaster(ds)[i].list = ds[i].list
<1>1. Len(ds) \in Nat /\ DOMAIN ds = 1..Len(ds) BY ListLen DEF Plain
<1>2. CASE ds = << >> BY <1>1, <1>2, EmptyLed DEF FirstIsMaster
<1>3. CASE ds # << >>
  <2> PICK t : t = [ds EXCEPT ![1] = AsMaster(@)] OBVIOUS
  <2>1. t = [i \in DOMAIN ds |-> IF i = 1 THEN AsMaster(ds[i]) ELSE ds[i]] OBVIOUS
  <2>2. IsList(t) /\ Len(t) = Len(ds) /\ DOMAIN t = DOMAIN ds
    BY <2>1, ListMapped DEF Plain
  <2>3. \A i \in DOMAIN ds : IsDelegate(ds[i]) /\ ~ds[i].master BY DEF Plain
  <2>4. \A i \in DOMAIN t : t[i] = IF i = 1 THEN AsMaster(ds[i]) ELSE ds[i] BY <2>1
  <2>5. \A i \in DOMAIN t : IsDelegate(t[i]) /\ t[i].master = (i = 1)
    BY <2>2, <2>3, <2>4, Mastered DEF IsDelegate
  <2>6. FirstIsMaster(ds) = t BY <1>3 DEF FirstIsMaster
  <2> QED BY <2>2, <2>3, <2>4, <2>5, <2>6, Mastered DEF Led
<1> QED BY <1>2, <1>3

LEMMA ConfLoaded ==
  ASSUME NEW conf, NEW sel, NEW dev, LoadDelegateNetConf(conf, sel, dev) # Failed
  PROVE  LET d == LoadDelegateNetConf(conf, sel, dev) IN IsDelegate(d) /\ ~d.master
BY DEF LoadDelegateNetConf, IsDelegate

-----------------------------------------------------------------------------
(* The list of BaseDelegates, before the pod is looked at.                 *)

LEMMA NetDelegateLoaded ==
  ASSUME NEW nads, NEW name, GetNetDelegate(nads, name) # Failed
  PROVE  LET d == GetNetDelegate(nads, name) IN IsDelegate(d) /\ ~d.master
BY ConfLoaded DEF GetNetDelegate

LEMMA BaseLed ==
  ASSUME NEW nads, NEW podNs, BaseDelegates(nads, podNs) # Failed
  PROVE  Led(BaseDelegates(nads, podNs)) /\ BaseDelegates(nads, podNs) # << >>
<1>1. CASE Conf.clusterNetwork = None
  <2> PICK ds : ds = [i \in DOMAIN Conf.delegates |->
                        LoadDelegateNetConf(Conf.delegates[i], NoSelection, None)]
    OBVIOUS
  <2>1. IsList(Conf.delegates) /\ Conf.delegates # << >> BY <1>1, PodNetsAssumption
  <2>2. IsList(ds) /\ Len(ds) = Len(Conf.delegates) /\ DOMAIN ds = DOMAIN Conf.delegates
    BY <2>1, ListMapped
  <2>3. BaseDelegates(nads, podNs) = FirstIsMaster(ds) /\ Failed \notin ToSet(ds)
    BY <1>1 DEF BaseDelegates, LoadNetConf
  <2>4. \A i \in DOMAIN ds : ds[i] # Failed BY <2>3 DEF ToSet
  <2>5. Plain(ds) BY <2>2, <2>4, ConfLoaded DEF Plain
  <2>6. Len(ds) # 0 BY <2>1, <2>2 DEF IsList
  <2> QED BY <2>3, <2>5, <2>6, FirstMastered
<1>2. CASE Conf.clusterNetwork # None
  <2> DEFINE more == IF CheckSystemNamespaces(podNs) THEN << >> ELSE Conf.defaultNetworks
  <2> PICK names : names = <<Conf.clusterNetwork>> \o more OBVIOUS
  <2> PICK ds : ds = [i \in DOMAIN names |-> GetNetDelegate(nads, names[i])] OBVIOUS
  <2>1. IsList(more) /\ Len(more) \in Nat
    <3>1. IsList(<< >>) BY EmptyLed DEF Led
    <3> QED BY <3>1, PodNetsAssumption, ListLen
  <2>2. IsList(<<Conf.clusterNetwork>>) /\ Len(<<Conf.clusterNetwork>>) = 1
    <3>1. <<Conf.clusterNetwork>> \in Seq({Conf.clusterNetwork}) OBVIOUS
    <3> QED BY <3>1, ListTyped
  <2>3. IsList(names) /\ Len(names) = 1 + Len(more)
    <3> HIDE DEF more
    <3> QED BY <2>1, <2>2, ListJoined
  <2>4. IsList(ds) /\ Len(ds) = Len(names) /\ DOMAIN ds = DOMAIN names
    BY <2>3, ListMapped
  <2>5. BaseDelegates(nads, podNs) = FirstIsMaster(ds) /\ Failed \notin ToSet(ds)
    BY <1>2 DEF BaseDelegates, GetDefaultNetworks
  <2>6. \A i \in DOMAIN ds : ds[i] # Failed BY <2>5 DEF ToSet
  <2>7. Plain(ds) BY <2>4, <2>6, NetDelegateLoaded DEF Plain
  <2>8. Len(ds) # 0 BY <2>1, <2>3, <2>4
  <2>9. Led(FirstIsMaster(ds)) /\ Len(FirstIsMaster(ds)) # 0 BY <2>7, <2>8, FirstMastered
  <2>10. Len(<< >>) = 0 OBVIOUS
  <2> HIDE DEF more
  <2> QED BY <2>5, <2>9, <2>10, Zenon
<1> QED BY <1>1, <1>2

-----------------------------------------------------------------------------
(* The loop over the networks of the pod.  That the recursive function is  *)
(* what its definition says needs the existence of such a function, for    *)
(* any number of turns n.                                                  *)

Turns(nads, podNs, sels, n, f) ==
  f = [i \in 0..n |-> IF i = 0 THEN [delegates |-> << >>, map |-> NoMap]
                      ELSE AddNetwork(nads, podNs, sels[i], f[i - 1])]

LEMMA TurnsExist ==
  ASSUME NEW nads, NEW podNs, NEW sels, NEW n \in Nat
  PROVE  \E f : Turns(nads, podNs, sels, n, f)
<1> DEFINE Bad == {m \in Nat : ~ \E f : Turns(nads, podNs, sels, m, f)}
<1>1. SUFFICES ASSUME Bad # {} PROVE FALSE OBVIOUS
<1>2. PICK m \in Bad : \A k \in Bad : m <= k BY <1>1, LeastNat
<1>3. CASE m = 0
  <2> PICK f : f = [i \in 0..0 |-> [delegates |-> << >>, map |-> NoMap]] OBVIOUS
  <2>1. \A i \in 0..0 : i = 0 OBVIOUS
  <2>2. Turns(nads, podNs, sels, 0, f) BY <2>1 DEF Turns
  <2> QED BY <1>3, <2>2
<1>4. CASE m # 0
  <2>1. m \in Nat /\ m - 1 \in Nat /\ m - 1 \notin Bad BY <1>2, <1>4
  <2>2. PICK f : Turns(nads, podNs, sels, m - 1, f) BY <2>1
  <2> PICK g : g = [i \in 0..m |-> IF i = m THEN AddNetwork(nads, podNs, sels[m], f[m - 1])
                                   ELSE f[i]]
    OBVIOUS
  <2>3. \A i \in 0..(m - 1) : g[i] = f[i] BY <2>1
  <2>4. ASSUME NEW i \in 0..m
        PROVE  g[i] = IF i = 0 THEN [delegates |-> << >>, map |-> NoMap]
                      ELSE AddNetwork(nads, podNs, sels[i], g[i - 1])
    <3>1. CASE i = m BY <1>4, <2>1, <2>3, <3>1
    <3>2. CASE i # m /\ i # 0
      <4>1. i \in 0..(m - 1) /\ i - 1 \in 0..(m - 1) BY <2>1, <3>2
      <4>2. f[i] = AddNetwork(nads, podNs, sels[i], f[i - 1]) BY <2>2, <3>2, <4>1 DEF Turns
      <4> QED BY <2>3, <3>2, <4>1, <4>2
    <3>3. CASE i = 0
      <4>1. 0 \in 0..(m - 1) BY <1>4, <2>1
      <4> QED BY <2>2, <2>3, <3>3, <4>1 DEF Turns
    <3> QED BY <3>1, <3>2, <3>3
  <2>5. Turns(nads, podNs, sels, m, g) BY <2>4 DEF Turns
  <2> QED BY <2>5
<1> QED BY <1>3, <1>4

LEMMA TurnsTaken ==
  ASSUME NEW nads, NEW podNs, NEW sels, Len(sels) \in Nat
  PROVE  \E g : /\ Turns(nads, podNs, sels, Len(sels), g)
                /\ GetNetworkDelegates(nads, sels, podNs) = g[Len(sels)].delegates
<1> DEFINE n == Len(sels)
<1> DEFINE h == CHOOSE h : Turns(nads, podNs, sels, n, h)
<1>1. Turns(nads, podNs, sels, n, h) BY TurnsExist
<1>2. GetNetworkDelegates(nads, sels, podNs) = h[n].delegates
  BY DEF GetNetworkDelegates, Turns
<1> QED BY <1>1, <1>2

(* After every turn the list holds what GetKubernetesDelegate has given.   *)
Given(nads, d) ==
  \E sel, map : /\ GetKubernetesDelegate(nads, sel, map) # Failed
                /\ d = GetKubernetesDelegate(nads, sel, map).delegate

AllGiven(nads, ds) == IsList(ds) /\ \A i \in DOMAIN ds : Given(nads, ds[i])

LEMMA NetworksGiven ==
  ASSUME NEW nads, NEW podNs, NEW sels, Len(sels) \in Nat,
         GetNetworkDelegates(nads, sels, podNs) # Failed
  PROVE  AllGiven(nads, GetNetworkDelegates(nads, sels, podNs))
<1> DEFINE n == Len(sels)
<1>2. PICK g : /\ Turns(nads, podNs, sels, n, g)
               /\ GetNetworkDelegates(nads, sels, podNs) = g[n].delegates
  BY TurnsTaken
<1> DEFINE Bad == {m \in 0..n : /\ g[m].delegates # Failed
                                /\ ~AllGiven(nads, g[m].delegates)}
<1>3. SUFFICES ASSUME Bad # {} PROVE FALSE
  <2>1. n \in 0..n OBVIOUS
  <2> QED BY <1>2, <2>1
<1>4. PICK m \in Bad : \A k \in Bad : m <= k
  <2>1. Bad \in SUBSET Nat OBVIOUS
  <2> QED BY <1>3, <2>1, LeastNat
<1>5. CASE m = 0
  <2>1. g[0] = [delegates |-> << >>, map |-> NoMap] BY <1>2, <1>5 DEF Turns
  <2>2. DOMAIN << >> = {} OBVIOUS
  <2>3. AllGiven(nads, << >>) BY <2>2, EmptyLed DEF Led, AllGiven
  <2> QED BY <1>5, <2>1, <2>3
<1>6. CASE m # 0
  <2>1. m - 1 \in 0..n /\ m - 1 \notin Bad BY <1>4, <1>6
  <2>2. g[m] = AddNetwork(nads, podNs, sels[m], g[m - 1]) BY <1>2, <1>6 DEF Turns
  <2> PICK got : got = GetKubernetesDelegate(nads, sels[m], g[m - 1].map) OBVIOUS
  <2>3. /\ g[m - 1].delegates # Failed /\ got # Failed
        /\ g[m].delegates = Append(g[m - 1].delegates, got.delegate)
    BY <2>2 DEF AddNetwork
  <2>4. Given(nads, got.delegate) BY <2>3 DEF Given
  <2>5. AllGiven(nads, g[m - 1].delegates) BY <2>1, <2>3
  <2> PICK s : s = g[m - 1].delegates OBVIOUS
  <2>6. IsList(s) /\ Len(s) \in Nat /\ DOMAIN s = 1..Len(s)
    BY <2>5, ListLen DEF AllGiven
  <2> PICK t : t = Append(s, got.delegate) OBVIOUS
  <2>7. /\ IsList(t) /\ Len(t) = Len(s) + 1 /\ t[Len(s) + 1] = got.delegate
        /\ \A i \in 1..Len(s) : t[i] = s[i]
    BY <2>6, ListAppended
  <2>8. DOMAIN t = 1..(Len(s) + 1) BY <2>7, ListLen
  <2>9. AllGiven(nads, t) BY <2>4, <2>5, <2>6, <2>7, <2>8 DEF AllGiven
  <2> QED BY <2>3, <2>9
<1> QED BY <1>5, <1>6

LEMMA NetworksPlain ==
  ASSUME NEW nads, NEW podNs, NEW sels, Len(sels) \in Nat,
         GetNetworkDelegates(nads, sels, podNs) # Failed
  PROVE  Plain(GetNetworkDelegates(nads, sels, podNs))
<1>1. ASSUME NEW d, Given(nads, d) PROVE IsDelegate(d) /\ ~d.master
  BY <1>1, ConfLoaded DEF Given, GetKubernetesDelegate
<1> QED BY <1>1, NetworksGiven DEF AllGiven, Plain

-----------------------------------------------------------------------------
(* The pod's own networks: the list stays led, even when it is not taken.  *)

LEMMA DefaultLoaded ==
  ASSUME NEW nads, NEW p, TryLoadK8sPodDefaultNetwork(nads, p) # Failed
  PROVE  LET d == TryLoadK8sPodDefaultNetwork(nads, p) IN IsDelegate(d) /\ d.master
<1> PICK sel : sel = Selections(p.default, Conf.multusNamespace)[1] OBVIOUS
<1> PICK got : got = GetKubernetesDelegate(nads, sel, NoMap) OBVIOUS
<1>1. got # Failed /\ TryLoadK8sPodDefaultNetwork(nads, p) = AsMaster(got.delegate)
  BY DEF TryLoadK8sPodDefaultNetwork
<1>2. IsDelegate(got.delegate) BY <1>1, ConfLoaded DEF GetKubernetesDelegate
<1> QED BY <1>1, <1>2, Mastered

LEMMA PodLed ==
  ASSUME NEW nads, NEW p \in Pods \cup {None}, NEW base, Led(base), base # << >>
  PROVE  Led(TryLoadPodDelegates(nads, p, base).delegates)
<1> DEFINE r == TryLoadPodDelegates(nads, p, base).delegates
<1> PICK main : main = TryLoadK8sPodDefaultNetwork(nads, p) OBVIOUS
<1> PICK first : first = IF p.default = None THEN base ELSE [base EXCEPT ![1] = main] OBVIOUS
<1> PICK sels : sels = Selections(p.nets, p.ns) OBVIOUS
<1> PICK ds : ds = GetNetworkDelegates(nads, sels, p.ns) OBVIOUS
<1>1. \/ r = base
      \/ r = first /\ (p.default # None => main # Failed)
      \/ /\ r = first \o ds /\ (p.default # None => main # Failed)
         /\ p # None /\ sels # Failed /\ ds # Failed
  BY DEF TryLoadPodDelegates
<1>2. Len(base) \in Nat \ {0} /\ DOMAIN base = 1..Len(base)
  BY ListLen DEF Led, IsList
<1>3. ASSUME p.default # None => main # Failed
      PROVE  Led(first) /\ Len(first) = Len(base)
  <2>1. CASE p.default = None BY <2>1
  <2>2. CASE p.default # None
    <3>1. IsDelegate(main) /\ main.master BY <1>3, <2>2, DefaultLoaded
    <3>2. first = [i \in DOMAIN base |-> IF i = 1 THEN main ELSE base[i]] BY <1>2, <2>2
    <3>3. IsList(first) /\ Len(first) = Len(base) /\ DOMAIN first = DOMAIN base
      BY <3>2, ListMapped DEF Led
    <3> QED BY <3>1, <3>2, <3>3 DEF Led
  <2> QED BY <2>1, <2>2
<1>4. ASSUME p # None, sels # Failed, ds # Failed
      PROVE  Plain(ds)
  <2>1. p \in Pods /\ p.nets # None BY <1>4 DEF Selections
  <2>2. IsList(p.nets.items) BY <2>1, DelegatesAssumption
  <2>3. IsList(sels)
    <3>1. sels = [i \in DOMAIN p.nets.items |-> sels[i]] BY <1>4 DEF Selections
    <3> QED BY <2>2, <3>1, ListMapped
  <2> QED BY <1>4, <2>3, ListLen, NetworksPlain
<1>5. ASSUME Led(first), Len(first) = Len(base), Plain(ds)
      PROVE  Led(first \o ds)
  <2> PICK t : t = first \o ds OBVIOUS
  <2>1. IsList(first) /\ IsList(ds) BY <1>5 DEF Led, Plain
  <2>2. /\ IsList(t) /\ Len(t) = Len(first) + Len(ds)
        /\ \A i \in 1..Len(t) : t[i] = IF i <= Len(first) THEN first[i] ELSE ds[i - Len(first)]
    BY <2>1, ListJoined
  <2>3. /\ DOMAIN t = 1..Len(t) /\ DOMAIN first = 1..Len(first) /\ DOMAIN ds = 1..Len(ds)
        /\ Len(t) \in Nat /\ Len(ds) \in Nat /\ Len(first) \in Nat \ {0}
    BY <1>2, <1>5, <2>1, <2>2, ListLen
  <2>4. ASSUME NEW i \in DOMAIN t PROVE IsDelegate(t[i]) /\ t[i].master = (i = 1)
    <3>1. CASE i <= Len(first) BY <1>5, <2>2, <2>3, <3>1 DEF Led
    <3>2. CASE i > Len(first)
      <4>1. i - Len(first) \in DOMAIN ds /\ i # 1 BY <2>2, <2>3, <3>2
      <4>2. t[i] = ds[i - Len(first)] BY <2>2, <2>3, <3>2
      <4> QED BY <1>5, <4>1, <4>2 DEF Plain, IsDelegate
    <3> QED BY <2>3, <3>1, <3>2
  <2> QED BY <2>2, <2>4 DEF Led
<1> QED BY <1>1, <1>3, <1>4, <1>5

-----------------------------------------------------------------------------
(* The file: what is read back is what was saved.                          *)

LEMMA SavedPlain ==
  ASSUME NEW ds, Led(ds)
  PROVE  /\ Plain(Saved(ds)) /\ Len(Saved(ds)) = Len(ds)
         /\ \A i \in DOMAIN ds : /\ Saved(ds)[i].name = ds[i].name
                                 /\ Saved(ds)[i].ifname = ds[i].ifname
                                 /\ Saved(ds)[i].dev = ds[i].dev
                                 /\ Saved(ds)[i].kind = ds[i].kind
                                 /\ Saved(ds)[i].list = ds[i].list
<1> PICK s : s = [i \in DOMAIN ds |-> [ds[i] EXCEPT !.master = FALSE]] OBVIOUS
<1>1. s = Saved(ds) BY DEF Saved
<1>2. IsList(s) /\ Len(s) = Len(ds) /\ DOMAIN s = DOMAIN ds BY ListMapped DEF Led
<1>3. ASSUME NEW i \in DOMAIN ds
      PROVE  /\ IsDelegate(s[i]) /\ ~s[i].master /\ s[i].name = ds[i].name
             /\ s[i].ifname = ds[i].ifname /\ s[i].dev = ds[i].dev
             /\ s[i].kind = ds[i].kind /\ s[i].list = ds[i].list
  BY DEF Led, IsDelegate
<1> QED BY <1>1, <1>2, <1>3 DEF Plain

LEMMA MergedPlain ==
  ASSUME NEW ds, Plain(ds)
  PROVE  /\ Plain(Merged(ds)) /\ Len(Merged(ds)) = Len(ds)
         /\ \A i \in DOMAIN ds : /\ Merged(ds)[i].name = ds[i].name
                                 /\ Merged(ds)[i].ifname = ds[i].ifname
                                 /\ Merged(ds)[i].dev = ds[i].dev
<1> PICK s : s = Merged(ds) OBVIOUS
<1>1. s = [i \in DOMAIN ds |-> s[i]] BY DEF Merged
<1>2. IsList(s) /\ Len(s) = Len(ds) /\ DOMAIN s = DOMAIN ds BY <1>1, ListMapped DEF Plain
<1>3. ASSUME NEW i \in DOMAIN ds
      PROVE  /\ IsDelegate(s[i]) /\ ~s[i].master /\ s[i].name = ds[i].name
             /\ s[i].ifname = ds[i].ifname /\ s[i].dev = ds[i].dev
  <2>1. \/ s[i] = ds[i]
        \/ \E kind : s[i] = [ds[i] EXCEPT !.kind = kind]
        \/ s[i] = [ds[i] EXCEPT !.list = TRUE]
    BY DEF Merged
  <2>2. IsDelegate(ds[i]) /\ ~ds[i].master BY DEF Plain
  <2> QED BY <2>1, <2>2 DEF IsDelegate
<1> QED BY <1>2, <1>3 DEF Plain

LEMMA LoadedLed ==
  ASSUME NEW ds, Plain(ds)
  PROVE  Led(Loaded(ds)) /\ Len(Loaded(ds)) = Len(ds)
BY MergedPlain, FirstMastered DEF Loaded

LEMMA VersionedLed ==
  ASSUME NEW ds, Led(ds)
  PROVE  Led(Versioned(ds)) /\ Len(Versioned(ds)) = Len(ds)
<1> PICK s : s = Versioned(ds) OBVIOUS
<1>1. s = [i \in DOMAIN ds |-> s[i]] BY DEF Versioned
<1>2. IsList(s) /\ Len(s) = Len(ds) /\ DOMAIN s = DOMAIN ds BY <1>1, ListMapped DEF Led
<1>3. ASSUME NEW i \in DOMAIN ds
      PROVE  IsDelegate(s[i]) /\ s[i].master = ds[i].master
  <2>1. \/ s[i] = ds[i]
        \/ s[i] = [ds[i] EXCEPT !.kind = "list", !.dev = None]
        \/ \E name : s[i] = [ds[i] EXCEPT !.kind = "list", !.dev = None, !.name = name]
    BY DEF Versioned
  <2>2. IsDelegate(ds[i]) BY DEF Led
  <2> QED BY <2>1, <2>2 DEF IsDelegate
<1> QED BY <1>2, <1>3 DEF Led

LEMMA SavedAndLoaded ==
  ASSUME NEW ds, Led(ds), NEW i \in DOMAIN ds
  PROVE  /\ i \in DOMAIN Saved(ds)
         /\ Attachment(Loaded(Saved(ds))[i], i) = Attachment(ds[i], i)
<1> PICK s : s = Saved(ds) OBVIOUS
<1> PICK m : m = Merged(s) OBVIOUS
<1> PICK t : t = FirstIsMaster(m) OBVIOUS
<1>1. Plain(s) /\ Len(s) = Len(ds) /\ Plain(m) /\ Len(m) = Len(s)
  BY SavedPlain, MergedPlain
<1>2. DOMAIN s = 1..Len(ds) /\ DOMAIN m = 1..Len(ds) /\ DOMAIN ds = 1..Len(ds)
  BY <1>1, ListLen DEF Plain, Led
<1>3. Led(t) /\ Len(t) = Len(m) BY <1>1, FirstMastered
<1>4. DOMAIN t = 1..Len(ds) BY <1>1, <1>3, ListLen DEF Led
<1>5. t[i].name = ds[i].name /\ t[i].ifname = ds[i].ifname /\ t[i].dev = ds[i].dev
  <2>1. s[i].name = ds[i].name /\ s[i].ifname = ds[i].ifname /\ s[i].dev = ds[i].dev
    BY SavedPlain
  <2>2. m[i].name = s[i].name /\ m[i].ifname = s[i].ifname /\ m[i].dev = s[i].dev
    BY <1>1, <1>2, MergedPlain
  <2>3. t[i].name = m[i].name /\ t[i].ifname = m[i].ifname /\ t[i].dev = m[i].dev
    BY <1>1, <1>2, FirstMastered
  <2> QED BY <2>1, <2>2, <2>3
<1>6. t[i].master = ds[i].master BY <1>2, <1>3, <1>4 DEF Led
<1>7. Attachment(t[i], i) = Attachment(ds[i], i)
  BY <1>5, <1>6 DEF Attachment, GetIfname
<1> QED BY <1>2, <1>7 DEF Loaded

-----------------------------------------------------------------------------
(* When a DEL can call every delegate the way the ADD did.                 *)

(* No list is without a version where multus' configuration has one, and a *)
(* default network of the pod's own does not take the place of a list in   *)
(* the configuration.                                                      *)
SameCalls ==
  /\ \A i \in DOMAIN Conf.delegates : Conf.delegates[i].kind # "bare"
  /\ \A i \in DOMAIN Dir : Dir[i].kind # "bare"
  /\ \A name \in DOMAIN Paths : \A i \in DOMAIN Paths[name] : Paths[name][i].kind # "bare"
  /\ \A key \in DOMAIN NADs : NADs[key].config # None => NADs[key].config.kind # "bare"
  /\ \A p \in Pods : p.default # None => ~StaticList(1)

(* And no delegate fails a DEL of the runtime.                             *)
Sure == ~DelFails /\ SameCalls

(* A delegate as LoadDelegateNetConf makes it.                             *)
Sound(d) == d.kind # "bare" /\ ~Misread(d)

(* A list that is read from a file as it was saved and called as it was    *)
(* added: its first delegates are those of the configuration.              *)
Straight(ds) ==
  /\ \A i \in DOMAIN ds : Sound(ds[i]) /\ (StaticList(i) => ds[i].list)
  /\ Conf.clusterNetwork = None => Len(ds) >= Len(Conf.delegates)

LEMMA ConfSound ==
  ASSUME NEW conf, NEW sel, NEW dev, LoadDelegateNetConf(conf, sel, dev) # Failed,
         conf # Failed => conf.kind # "bare"
  PROVE  Sound(LoadDelegateNetConf(conf, sel, dev))
BY DEF LoadDelegateNetConf, Sound, Misread

LEMMA FileSound ==
  ASSUME NEW files, IsList(files), \A i \in DOMAIN files : files[i].kind # "bare",
         NEW name, GetCNIConfigFromFile(files, name) # Failed
  PROVE  GetCNIConfigFromFile(files, name).kind # "bare"
<1> PICK hits : hits = {i \in DOMAIN files :
                          files[i].kind = "broken" \/ name \in {files[i].name, None}}
  OBVIOUS
<1>1. hits # {} /\ GetCNIConfigFromFile(files, name) = files[Min(hits)]
  BY DEF GetCNIConfigFromFile
<1>2. hits \in SUBSET Nat /\ hits \subseteq DOMAIN files BY ListLen
<1>3. \E x \in hits : \A y \in hits : x <= y BY <1>1, <1>2, LeastNat
<1>4. Min(hits) \in hits BY <1>3 DEF Min
<1> QED BY <1>1, <1>2, <1>4

LEMMA ResourceSound ==
  ASSUME SameCalls, NEW nads \in NADsSeen, NEW key \in DOMAIN nads, NEW name,
         CniConfigFromNetworkResource(nads[key], name) # Failed
  PROVE  CniConfigFromNetworkResource(nads[key], name).kind # "bare"
<1>1. key \in DOMAIN NADs /\ nads[key] = NADs[key] BY DEF NADsSeen, Restrict
<1> PICK nad : nad = nads[key] OBVIOUS
<1>2. nad.config # None => nad.config.kind # "bare" BY <1>1 DEF SameCalls
<1>3. GetCNIConfigFromFile(Dir, name) # Failed =>
        GetCNIConfigFromFile(Dir, name).kind # "bare"
  BY FileSound, PodNetsAssumption DEF SameCalls
<1>4. CniConfigFromNetworkResource(nad, name) # Failed
  OBVIOUS
<1>5. CASE nad.config = None BY <1>3, <1>4, <1>5 DEF CniConfigFromNetworkResource
<1>6. CASE nad.config # None /\ nad.config.name = None
  BY <1>2, <1>4, <1>6 DEF CniConfigFromNetworkResource
<1>7. CASE nad.config # None /\ nad.config.name # None
  BY <1>2, <1>4, <1>7 DEF CniConfigFromNetworkResource
<1> QED BY <1>5, <1>6, <1>7

LEMMA GivenSound ==
  ASSUME SameCalls, NEW nads \in NADsSeen, NEW d, Given(nads, d)
  PROVE  Sound(d)
<1>1. PICK sel, map : /\ GetKubernetesDelegate(nads, sel, map) # Failed
                      /\ d = GetKubernetesDelegate(nads, sel, map).delegate
  BY DEF Given
<1> PICK key : key = <<sel.ns, sel.name>> OBVIOUS
<1> PICK conf : conf = CniConfigFromNetworkResource(nads[key], sel.name) OBVIOUS
<1>2. /\ key \in DOMAIN nads
      /\ \E dev : d = LoadDelegateNetConf(conf, sel, dev) /\ d # Failed
  BY <1>1 DEF GetKubernetesDelegate
<1>3. conf # Failed => conf.kind # "bare" BY <1>2, ResourceSound
<1> QED BY <1>2, <1>3, ConfSound

LEMMA NetDelegateSound ==
  ASSUME SameCalls, NEW nads \in NADsSeen, NEW name,
         GetNetDelegate(nads, name) # Failed
  PROVE  Sound(GetNetDelegate(nads, name))
<1> PICK key : key = <<Conf.multusNamespace, name>> OBVIOUS
<1> PICK crd : crd = CniConfigFromNetworkResource(nads[key], name) OBVIOUS
<1> PICK file0 : file0 = GetCNIConfigFromFile(Dir, name) OBVIOUS
<1> PICK path : path = IF name \in DOMAIN Paths THEN GetCNIConfigFromFile(Paths[name], None)
                       ELSE Failed
  OBVIOUS
<1>1. \/ /\ key \in DOMAIN nads
         /\ GetNetDelegate(nads, name) = LoadDelegateNetConf(crd, NoSelection, None)
      \/ GetNetDelegate(nads, name)
           = LoadDelegateNetConf(IF file0 # Failed THEN file0 ELSE path, NoSelection, None)
  BY DEF GetNetDelegate
<1>2. key \in DOMAIN nads /\ crd # Failed => crd.kind # "bare" BY ResourceSound
<1>3. file0 # Failed => file0.kind # "bare"
  BY FileSound, PodNetsAssumption DEF SameCalls
<1>4. path # Failed => path.kind # "bare"
  BY FileSound, PodNetsAssumption DEF SameCalls
<1> QED BY <1>1, <1>2, <1>3, <1>4, ConfSound

LEMMA StraightMastered ==
  ASSUME NEW ds, Plain(ds), Straight(ds)
  PROVE  Straight(FirstIsMaster(ds))
<1>1. Len(FirstIsMaster(ds)) = Len(ds) /\ Led(FirstIsMaster(ds)) BY FirstMastered
<1>2. DOMAIN FirstIsMaster(ds) = DOMAIN ds BY <1>1, ListLen DEF Led, Plain
<1> QED BY <1>1, <1>2, FirstMastered DEF Straight, Sound, Misread

LEMMA StraightSaved ==
  ASSUME NEW ds, Led(ds), Straight(ds)
  PROVE  Straight(Saved(ds))
<1>1. Len(Saved(ds)) = Len(ds) /\ Plain(Saved(ds)) BY SavedPlain
<1>2. DOMAIN Saved(ds) = DOMAIN ds BY <1>1, ListLen DEF Led, Plain
<1> QED BY <1>1, <1>2, SavedPlain DEF Straight, Sound, Misread

LEMMA StraightLoaded ==
  ASSUME NEW ds, Plain(ds), Straight(ds)
  PROVE  Straight(Loaded(ds))
<1> PICK s : s = Merged(ds) OBVIOUS
<1>1. Plain(s) /\ Len(s) = Len(ds) BY MergedPlain
<1>2. DOMAIN s = DOMAIN ds BY <1>1, ListLen DEF Plain
<1>3. ASSUME NEW i \in DOMAIN ds
      PROVE  Sound(s[i]) /\ (StaticList(i) => s[i].list)
  <2> PICK d : d = ds[i] OBVIOUS
  <2>1. IsDelegate(d) /\ Sound(d) /\ (StaticList(i) => d.list)
    BY DEF Plain, Straight
  <2>2. s[i] = d \/ (d.list /\ s[i] = [d EXCEPT !.list = TRUE])
    BY <2>1 DEF Merged, Sound
  <2> QED BY <2>1, <2>2 DEF Sound, Misread, IsDelegate
<1>4. Straight(s) BY <1>1, <1>2, <1>3 DEF Straight
<1> QED BY <1>1, <1>4, StraightMastered DEF Loaded

(* Nothing of such a list is written anew.                                 *)
LEMMA StraightVersioned ==
  ASSUME NEW ds, Led(ds), Straight(ds)
  PROVE  Straight(Versioned(ds)) /\ \A i \in DOMAIN ds : Versioned(ds)[i] = ds[i]
<1>1. Len(Versioned(ds)) = Len(ds) /\ DOMAIN Versioned(ds) = DOMAIN ds
  BY VersionedLed DEF Versioned
<1>2. \A i \in DOMAIN ds : Versioned(ds)[i] = ds[i]
  BY DEF Straight, Sound, Versioned
<1> QED BY <1>1, <1>2 DEF Straight

LEMMA BaseStraight ==
  ASSUME SameCalls, NEW nads \in NADsSeen, BaseDelegates(nads, PodNs) # Failed
  PROVE  Straight(BaseDelegates(nads, PodNs))
<1>1. CASE Conf.clusterNetwork = None
  <2> PICK ds : ds = [i \in DOMAIN Conf.delegates |->
                        LoadDelegateNetConf(Conf.delegates[i], NoSelection, None)]
    OBVIOUS
  <2>1. BaseDelegates(nads, PodNs) = FirstIsMaster(ds) /\ Failed \notin ToSet(ds)
    BY <1>1 DEF BaseDelegates, LoadNetConf
  <2>2. \A i \in DOMAIN ds : ds[i] # Failed BY <2>1 DEF ToSet
  <2>3. IsList(ds) /\ Len(ds) = Len(Conf.delegates) BY ListMapped, PodNetsAssumption
  <2>4. Plain(ds) BY <2>2, <2>3, ConfLoaded DEF Plain
  <2>5. ASSUME NEW i \in DOMAIN ds PROVE Sound(ds[i]) /\ (StaticList(i) => ds[i].list)
    <3>1. ds[i] = LoadDelegateNetConf(Conf.delegates[i], NoSelection, None) /\ ds[i] # Failed
      BY <2>2
    <3>2. Conf.delegates[i].kind # "bare" BY DEF SameCalls
    <3>3. Sound(ds[i]) BY <3>1, <3>2, ConfSound
    <3>4. StaticList(i) => ds[i].list BY <3>1, <3>2 DEF StaticList, LoadDelegateNetConf
    <3> QED BY <3>3, <3>4
  <2>6. Straight(ds)
    <3>1. Len(ds) \in Nat BY <2>3, ListLen
    <3> QED BY <2>3, <2>5, <3>1 DEF Straight
  <2> QED BY <2>1, <2>4, <2>6, StraightMastered
<1>2. CASE Conf.clusterNetwork # None
  <2> PICK names : names = <<Conf.clusterNetwork>> \o
                     (IF CheckSystemNamespaces(PodNs) THEN << >> ELSE Conf.defaultNetworks)
    OBVIOUS
  <2> PICK ds : ds = [i \in DOMAIN names |-> GetNetDelegate(nads, names[i])] OBVIOUS
  <2>1. BaseDelegates(nads, PodNs) = FirstIsMaster(ds) /\ Failed \notin ToSet(ds)
    BY <1>2 DEF BaseDelegates, GetDefaultNetworks
  <2>2. \A i \in DOMAIN ds : ds[i] # Failed BY <2>1 DEF ToSet
  <2>3. \A i \in DOMAIN ds : Sound(ds[i]) /\ IsDelegate(ds[i])
    BY <2>2, NetDelegateSound, NetDelegateLoaded
  <2> PICK t : t = FirstIsMaster(ds) OBVIOUS
  <2>4. /\ DOMAIN t = DOMAIN ds
        /\ \A i \in DOMAIN ds : t[i] = ds[i] \/ t[i] = AsMaster(ds[i])
    BY DEF FirstIsMaster
  <2>5. ASSUME NEW i \in DOMAIN t PROVE Sound(t[i])
    <3> PICK d : d = ds[i] OBVIOUS
    <3>1. Sound(d) /\ IsDelegate(d) BY <2>3, <2>4
    <3>2. Sound(AsMaster(d)) BY <3>1, Mastered DEF Sound, Misread
    <3> QED BY <2>4, <3>1, <3>2
  <2> QED BY <1>2, <2>1, <2>5 DEF Straight, StaticList
<1> QED BY <1>1, <1>2

LEMMA PodStraight ==
  ASSUME SameCalls, NEW nads \in NADsSeen, NEW p \in Pods \cup {None}, NEW base,
         Led(base), base # << >>, Straight(base)
  PROVE  Straight(TryLoadPodDelegates(nads, p, base).delegates)
<1> DEFINE r == TryLoadPodDelegates(nads, p, base).delegates
<1> PICK main : main = TryLoadK8sPodDefaultNetwork(nads, p) OBVIOUS
<1> PICK first : first = IF p.default = None THEN base ELSE [base EXCEPT ![1] = main] OBVIOUS
<1> PICK sels : sels = Selections(p.nets, p.ns) OBVIOUS
<1> PICK ds : ds = GetNetworkDelegates(nads, sels, p.ns) OBVIOUS
<1>1. \/ r = base
      \/ p # None /\ r = first /\ (p.default # None => main # Failed)
      \/ /\ r = first \o ds /\ (p.default # None => main # Failed)
         /\ p # None /\ sels # Failed /\ ds # Failed
  BY DEF TryLoadPodDelegates
<1>2. Len(base) \in Nat \ {0} /\ DOMAIN base = 1..Len(base)
  BY ListLen DEF Led, IsList
<1>3. ASSUME p # None, p.default # None => main # Failed
      PROVE  IsList(first) /\ Straight(first) /\ Len(first) = Len(base)
  <2>1. CASE p.default = None BY <2>1 DEF Led
  <2>2. CASE p.default # None
    <3> PICK sel : sel = Selections(p.default, Conf.multusNamespace)[1] OBVIOUS
    <3> PICK got : got = GetKubernetesDelegate(nads, sel, NoMap) OBVIOUS
    <3>1. got # Failed /\ main = AsMaster(got.delegate)
      BY <1>3, <2>2 DEF TryLoadK8sPodDefaultNetwork
    <3>2. Given(nads, got.delegate) BY <3>1 DEF Given
    <3>3. Sound(got.delegate) /\ IsDelegate(got.delegate)
      BY <3>1, <3>2, GivenSound, ConfLoaded DEF GetKubernetesDelegate
    <3>4. Sound(main) BY <3>1, <3>3, Mastered DEF Sound, Misread
    <3>5. ~StaticList(1) BY <1>3, <2>2 DEF SameCalls
    <3>6. first = [i \in DOMAIN base |-> IF i = 1 THEN main ELSE base[i]] BY <1>2, <2>2
    <3>7. IsList(first) /\ Len(first) = Len(base) /\ DOMAIN first = DOMAIN base
      BY <3>6, ListMapped DEF Led
    <3> QED BY <3>4, <3>5, <3>6, <3>7 DEF Straight
  <2> QED BY <2>1, <2>2
<1>4. ASSUME p # None, sels # Failed, ds # Failed
      PROVE  IsList(ds) /\ \A i \in DOMAIN ds : Sound(ds[i])
  <2>1. p \in Pods /\ p.nets # None BY <1>4 DEF Selections
  <2>2. IsList(p.nets.items) BY <2>1, DelegatesAssumption
  <2>3. IsList(sels)
    <3>1. sels = [i \in DOMAIN p.nets.items |-> sels[i]] BY <1>4 DEF Selections
    <3> QED BY <2>2, <3>1, ListMapped
  <2>4. AllGiven(nads, ds) BY <1>4, <2>3, ListLen, NetworksGiven
  <2> QED BY <2>4, GivenSound DEF AllGiven
<1>5. ASSUME IsList(first), Straight(first), Len(first) = Len(base),
             IsList(ds), \A i \in DOMAIN ds : Sound(ds[i])
      PROVE  Straight(first \o ds)
  <2> PICK t : t = first \o ds OBVIOUS
  <2>1. /\ IsList(t) /\ Len(t) = Len(first) + Len(ds)
        /\ \A i \in 1..Len(t) : t[i] = IF i <= Len(first) THEN first[i] ELSE ds[i - Len(first)]
    BY <1>5, ListJoined
  <2>2. /\ DOMAIN t = 1..Len(t) /\ DOMAIN first = 1..Len(first) /\ DOMAIN ds = 1..Len(ds)
        /\ Len(t) \in Nat /\ Len(ds) \in Nat /\ Len(first) \in Nat
    BY <1>5, <2>1, ListLen
  <2>3. Conf.clusterNetwork = None =>
          /\ Len(first) >= Len(Conf.delegates) /\ Len(Conf.delegates) \in Nat
          /\ DOMAIN Conf.delegates = 1..Len(Conf.delegates)
    BY <1>5, ListLen, PodNetsAssumption DEF Straight
  <2>4. ASSUME NEW i \in DOMAIN t PROVE Sound(t[i]) /\ (StaticList(i) => t[i].list)
    <3>1. CASE i <= Len(first) BY <1>5, <2>1, <2>2, <3>1 DEF Straight
    <3>2. CASE i > Len(first)
      <4>1. i - Len(first) \in DOMAIN ds /\ t[i] = ds[i - Len(first)]
        BY <2>1, <2>2, <3>2
      <4>2. ~StaticList(i) BY <2>2, <2>3, <3>2 DEF StaticList
      <4> QED BY <1>5, <4>1, <4>2
    <3> QED BY <2>2, <3>1, <3>2
  <2>5. Conf.clusterNetwork = None => Len(t) >= Len(Conf.delegates)
    BY <2>1, <2>2, <2>3
  <2> QED BY <2>4, <2>5 DEF Straight
<1> QED BY <1>1, <1>3, <1>4, <1>5

-----------------------------------------------------------------------------
(* The inductive invariant: what is so of every sandbox, its invocation k, *)
(* what the runtime was told of it t, its file f and its attachments a.    *)

Told == {"new", "adding", "up", "blind", "failed", "deleting", "gone"}

Typed(k, t, f) ==
  /\ DOMAIN k = DOMAIN Idle
  /\ k.pc \in {"idle"} \cup AddPCs \cup DelPCs
  /\ t = "adding" <=> k.pc \in AddPCs
  /\ k.pc \in DelPCs => t \in {"deleting", "gone"}
  /\ Led(k.ds) /\ k.i \in 0..(Len(k.ds) + 1)
  /\ f.is \in {"absent", "torn", "saved"} /\ Plain(f.ds)

Placed(k) ==
  /\ k.pc \in {"idle", "addBase", "addPod", "save", "read", "readPod"} => k.i = 0
  /\ k.pc \in {"addPod", "readPod"} => k.ds # << >>
  /\ k.pc \in {"undo", "clear", "del"} => k.i <= Len(k.ds)
  /\ k.pc \in {"add", "getPod", "update"} => k.i # 0
  /\ k.pc \in {"getPod", "update"} => ~CheckSystemNamespaces(PodNs)
  /\ k.pc \notin {"undo", "del"} => ~k.err

(* What the first n delegates of a list set up.                            *)
Made(ds, n) == {Attachment(ds[j], j) : j \in 1..n}

(* An ADD knows what there is: what its delegates before the next one have *)
(* set up.  Its file has the delegates.                                    *)
AddKnows(k, t, f, a) ==
  /\ t = "new" \/ k.pc \in {"addBase", "addPod", "save"} => a = {}
  /\ k.pc \in {"add", "getPod", "update"} => a = Made(k.ds, k.i - 1)
  /\ k.pc = "undo" /\ ~k.err => a \subseteq Made(k.ds, k.i)
  /\ k.pc \in {"add", "undo", "getPod", "update"} => f = File("saved", Saved(k.ds))

(* The status an ADD collects names the delegates it has called.           *)
Notes(k) ==
  /\ k.pc \in {"idle", "addBase", "addPod", "save"} => k.st = << >>
  /\ k.pc \in {"add", "getPod", "update"} =>
       /\ IsList(k.st) /\ Len(k.st) = k.i - 1
       /\ \A j \in 1..(k.i - 1) : k.st[j] = k.ds[j].name

(* Attachment e can be found in file f.                                    *)
Found(f, e) ==
  /\ f.is = "saved"
  /\ \E i \in DOMAIN f.ds : e = Attachment(Loaded(f.ds)[i], i)

(* A DEL has still to delete what there is, or there is nothing.           *)
DelKnows(k, t, f, a) ==
  /\ k.pc \notin {"idle", "addBase", "read"} => Straight(k.ds)
  /\ f.is = "saved" => Straight(f.ds)
  /\ \A e \in a : Found(f, e)
  /\ k.pc = "readPod" \/ t = "gone" => a = {}
  /\ k.pc = "del" => ~k.err
  /\ k.pc \in {"clear", "del"} => a \subseteq Made(k.ds, k.i)

Good(k, t, f, a) ==
  /\ Typed(k, t, f) /\ Placed(k) /\ AddKnows(k, t, f, a) /\ Notes(k)
  /\ Sure => DelKnows(k, t, f, a)

Whole ==
  /\ pod \in Pods \cup {None} /\ netns \subseteq Sandbox
  /\ told \in [Sandbox -> Told]
  /\ DOMAIN file = Sandbox /\ DOMAIN att = Sandbox /\ DOMAIN call = Sandbox

(* Beside a sandbox that is up, or coming up, no other has a namespace, or *)
(* a call that has seen one.                                               *)
Lone ==
  \A c, d \in Sandbox :
    c # d /\ told[c] \in {"adding", "up"} =>
      told[d] \notin {"adding", "up"} /\ d \notin netns /\ ~call[d].netns

(* The pods of system namespaces have no status.                           *)
Unset == CheckSystemNamespaces(PodNs) => status = None

Inv == /\ Whole /\ \A c \in Sandbox : Good(call[c], told[c], file[c], att[c])
       /\ Lone /\ StatusTrue /\ Unset

(* A step of sandbox c: of the calls for the others it may only make the   *)
(* pod they have got an old one.                                           *)
Stale(k) == [k EXCEPT !.fresh = FALSE]

Moves(c) ==
  /\ Whole'
  /\ \A d \in Sandbox \ {c} :
       /\ call'[d] = call[d] \/ call'[d] = Stale(call[d])
       /\ told'[d] = told[d] /\ file'[d] = file[d] /\ att'[d] = att[d]

-----------------------------------------------------------------------------
(* Lemmas about its parts.                                                 *)

LEMMA EmptyList == IsList(<< >>) /\ Len(<< >>) = 0
BY DEF IsList

LEMMA LedLen ==
  ASSUME NEW ds, Led(ds)
  PROVE  Len(ds) \in Nat /\ DOMAIN ds = 1..Len(ds)
BY ListLen DEF Led

LEMMA MadeNone == \A ds : Made(ds, 0) = {}
BY DEF Made

LEMMA MadeNext ==
  ASSUME NEW ds, NEW n \in Nat
  PROVE  Made(ds, n + 1) = Made(ds, n) \cup {Attachment(ds[n + 1], n + 1)}
BY DEF Made

LEMMA MadeFound ==
  ASSUME NEW ds, Led(ds), NEW i \in 1..Len(ds)
  PROVE  Found(File("saved", Saved(ds)), Attachment(ds[i], i))
<1>1. i \in DOMAIN ds BY LedLen
<1>2. i \in DOMAIN Saved(ds) /\ Attachment(Loaded(Saved(ds))[i], i) = Attachment(ds[i], i)
  BY <1>1, SavedAndLoaded
<1> QED BY <1>2 DEF Found, File

LEMMA FoundMade ==
  ASSUME NEW f, Plain(f.ds), NEW e, Found(f, e)
  PROVE  e \in Made(Loaded(f.ds), Len(Loaded(f.ds)))
<1>1. Len(Loaded(f.ds)) = Len(f.ds) BY LoadedLed
<1>2. DOMAIN f.ds = 1..Len(f.ds) BY ListLen DEF Plain
<1> QED BY <1>1, <1>2 DEF Found, Made

LEMMA PlainEmpty == Plain(<< >>)
BY DEF Plain, IsList

LEMMA NoFilePlain == Plain(NoFile.ds) /\ Plain(Torn.ds)
BY PlainEmpty DEF NoFile, Torn, File

(* An invocation that has ended.                                           *)
LEMMA Ended ==
  ASSUME NEW t \in {"up", "blind", "failed", "gone"}, NEW f, NEW a,
         f.is \in {"absent", "torn", "saved"}, Plain(f.ds),
         Sure => /\ \A e \in a : Found(f, e)
                 /\ t = "gone" => a = {}
                 /\ f.is = "saved" => Straight(f.ds)
  PROVE  Good(Idle, t, f, a)
<1>1. Typed(Idle, t, f) BY EmptyLed DEF Typed, Idle, AddPCs, DelPCs
<1>2. Placed(Idle) /\ AddKnows(Idle, t, f, a) /\ Notes(Idle)
  BY DEF Placed, AddKnows, Notes, Idle
<1>3. Sure => DelKnows(Idle, t, f, a) BY DEF DelKnows, Idle
<1> QED BY <1>1, <1>2, <1>3 DEF Good

LEMMA StaleGood ==
  ASSUME NEW k, NEW t, NEW f, NEW a, Good(k, t, f, a)
  PROVE  Good(Stale(k), t, f, a)
<1> PICK l : l = Stale(k) OBVIOUS
<1>1. /\ DOMAIN l = DOMAIN Idle /\ l.pc = k.pc /\ l.ds = k.ds /\ l.i = k.i
      /\ l.st = k.st /\ l.err = k.err
  BY DEF Good, Typed, Stale, Idle
<1>2. Typed(l, t, f) BY <1>1 DEF Good, Typed
<1>3. Placed(l) BY <1>1 DEF Good, Placed
<1>4. AddKnows(l, t, f, a) BY <1>1 DEF Good, AddKnows
<1>5. Notes(l) BY <1>1 DEF Good, Notes
<1>6. Sure => DelKnows(l, t, f, a) BY <1>1 DEF Good, DelKnows
<1> QED BY <1>2, <1>3, <1>4, <1>5, <1>6 DEF Good

(* A step of one sandbox keeps the invariant when it is so of the sandbox  *)
(* afterwards; if it is not up because of the step, it is still alone.     *)
LEMMA OneMoves ==
  ASSUME Inv, NEW c \in Sandbox, Moves(c),
         Good(call'[c], told'[c], file'[c], att'[c]),
         Lone', StatusTrue', Unset'
  PROVE  Inv'
<1>1. ASSUME NEW d \in Sandbox
      PROVE  Good(call'[d], told'[d], file'[d], att'[d])
  <2>1. CASE d = c BY <2>1
  <2>2. CASE d # c
    <3>1. Good(call[d], told[d], file[d], att[d]) BY DEF Inv
    <3>2. Good(Stale(call[d]), told[d], file[d], att[d]) BY <3>1, StaleGood
    <3> QED BY <2>2, <3>1, <3>2 DEF Moves
  <2> QED BY <2>1, <2>2
<1> QED BY <1>1 DEF Moves, Inv

LEMMA LoneKept ==
  ASSUME Inv, NEW c \in Sandbox, Moves(c), netns' \subseteq netns,
         told'[c] \in {"adding", "up"} => told[c] \in {"adding", "up"},
         call'[c].netns => call[c].netns \/ c \in netns
  PROVE  Lone'
<1>1. ASSUME NEW d \in Sandbox, d # c PROVE call'[d].netns = call[d].netns
  <2>1. Typed(call[d], told[d], file[d]) BY DEF Inv, Good
  <2> QED BY <1>1, <2>1 DEF Typed, Idle, Moves, Stale
<1>2. \A d \in Sandbox : told'[d] \in {"adding", "up"} => told[d] \in {"adding", "up"}
  BY DEF Moves
<1>3. \A d \in Sandbox : call'[d].netns => call[d].netns \/ d \in netns
  BY <1>1
<1> QED BY <1>2, <1>3 DEF Lone, Inv

LEMMA StatusKept ==
  ASSUME Inv, NEW c \in Sandbox, Moves(c), status' = status,
         told'[c] = "up" => (told[c] = "up" /\ att'[c] = att[c]) \/ status = None
  PROVE  StatusTrue' /\ Unset'
BY DEF Inv, Moves, StatusTrue, Unset

(* An invocation ends, what is attached stays.                             *)
LEMMA FinishKeeps ==
  ASSUME Inv, NEW c \in Sandbox, NEW answer \in {"up", "blind", "failed", "gone"},
         Finish(c, answer), UNCHANGED <<pod, status, netns, att>>,
         DOMAIN file' = Sandbox, \A d \in Sandbox \ {c} : file'[d] = file[d],
         file'[c].is \in {"absent", "torn", "saved"}, Plain(file'[c].ds),
         Sure => /\ \A e \in att[c] : Found(file'[c], e)
                 /\ answer = "gone" => att[c] = {}
                 /\ file'[c].is = "saved" => Straight(file'[c].ds),
         answer = "up" => told[c] = "adding" /\ status = None
  PROVE  Inv'
<1>1. call'[c] = Idle /\ told'[c] = answer /\ att'[c] = att[c]
  BY DEF Finish, Inv, Whole
<1>2. Moves(c)
  <2>1. answer \in Told BY DEF Told
  <2> QED BY <2>1 DEF Finish, Inv, Whole, Moves
<1>3. Good(call'[c], told'[c], file'[c], att'[c])
  <2> PICK f : f = file'[c] OBVIOUS
  <2>1. Good(Idle, answer, f, att[c]) BY Ended
  <2> QED BY <1>1, <2>1
<1>4. Lone'
  <2>1. ~call'[c].netns BY <1>1 DEF Idle
  <2>2. told'[c] \in {"adding", "up"} => told[c] \in {"adding", "up"} BY <1>1
  <2> QED BY <1>2, <2>1, <2>2, LoneKept
<1>5. told'[c] = "up" => (told[c] = "up" /\ att'[c] = att[c]) \/ status = None
  BY <1>1
<1>6. StatusTrue' /\ Unset' BY <1>2, <1>5, StatusKept
<1> QED BY <1>2, <1>3, <1>4, <1>6, OneMoves

(* The same when the file stays too.                                       *)
LEMMA FailKeeps ==
  ASSUME Inv, NEW c \in Sandbox, NEW answer \in {"up", "blind", "failed"},
         Finish(c, answer), UNCHANGED <<pod, status, file, netns, att>>,
         answer = "up" => told[c] = "adding" /\ status = None
  PROVE  Inv'
<1>1. Good(call[c], told[c], file[c], att[c]) BY DEF Inv
<1>2. file[c].is \in {"absent", "torn", "saved"} /\ Plain(file[c].ds)
  BY <1>1 DEF Good, Typed
<1>3. Sure => /\ \A e \in att[c] : Found(file[c], e)
              /\ file[c].is = "saved" => Straight(file[c].ds)
  BY <1>1 DEF Good, DelKnows
<1>4. DOMAIN file' = Sandbox /\ \A d \in Sandbox : file'[d] = file[d]
  BY DEF Inv, Whole
<1> QED BY <1>2, <1>3, <1>4, FinishKeeps

(* An invocation goes on: what a step makes of it, its file and its       *)
(* attachments.                                                            *)
Goes(c, l, f, a) ==
  /\ call'[c] = l /\ file'[c] = f /\ att'[c] = a
  /\ DOMAIN call' = Sandbox /\ DOMAIN file' = Sandbox /\ DOMAIN att' = Sandbox
  /\ \A d \in Sandbox \ {c} :
       call'[d] = call[d] /\ file'[d] = file[d] /\ att'[d] = att[d]
  /\ UNCHANGED <<pod, status, netns, told>>
  /\ l.pc # "idle" /\ (l.netns => call[c].netns)

LEMMA CallKeeps ==
  ASSUME Inv, NEW c \in Sandbox, NEW l, NEW f, NEW a, Goes(c, l, f, a),
         Good(l, told[c], f, a)
  PROVE  Inv'
<1>1. Moves(c) BY DEF Moves, Goes, Inv, Whole
<1>2. told'[c] # "up" BY DEF Goes, Good, Typed, AddPCs, DelPCs
<1>3. Good(call'[c], told'[c], file'[c], att'[c]) BY DEF Goes
<1>4. Lone'
  <2>1. /\ told'[c] \in {"adding", "up"} => told[c] \in {"adding", "up"}
        /\ netns' \subseteq netns /\ (call'[c].netns => call[c].netns)
    BY DEF Goes
  <2> QED BY <1>1, <2>1, LoneKept
<1>5. StatusTrue' /\ Unset' BY <1>1, <1>2, StatusKept DEF Goes
<1> QED BY <1>1, <1>3, <1>4, <1>5, OneMoves

LEMMA AddBaseKeeps ==
  ASSUME Inv, NEW c \in Sandbox, AddBase(c)
  PROVE  Inv'
<1> PICK k : k = call[c] OBVIOUS
<1>1. Good(k, told[c], file[c], att[c]) BY DEF Inv
<1>2. PICK nads \in NADsSeen :
       LET e == BaseDelegates(nads, PodNs)
       IN  IF e = Failed THEN Finish(c, "failed")
           ELSE /\ call' = [call EXCEPT ![c].pc = "addPod", ![c].ds = e]
                /\ UNCHANGED told
  BY DEF AddBase
<1> PICK ds : ds = BaseDelegates(nads, PodNs) OBVIOUS
<1>3. UNCHANGED <<pod, status, file, netns, att>> BY DEF AddBase
<1>4. CASE ds = Failed
  <2>1. Finish(c, "failed") BY <1>2, <1>4
  <2> QED BY <1>3, <2>1, FailKeeps
<1>5. CASE ds # Failed
  <2>1. Led(ds) /\ ds # << >> /\ (Sure => Straight(ds))
    BY <1>5, BaseLed, BaseStraight DEF Sure
  <2>2. /\ call' = [call EXCEPT ![c].pc = "addPod", ![c].ds = ds] /\ UNCHANGED told
        /\ Len(ds) \in Nat
    BY <1>2, <1>5, <2>1, LedLen
  <2> PICK l : l = [k EXCEPT !.pc = "addPod", !.ds = ds] OBVIOUS
  <2>3. /\ DOMAIN l = DOMAIN Idle /\ l.pc = "addPod" /\ l.ds = ds
         /\ l.i = k.i /\ l.st = k.st /\ l.err = k.err /\ l.netns = k.netns
    BY <1>1 DEF Good, Typed, Idle
  <2>4. Typed(l, told[c], file[c])
    BY <1>1, <2>3, <2>1, <2>2 DEF Good, Typed, AddPCs, DelPCs, Placed, AddBase
  <2>5. Placed(l) BY <1>1, <2>3, <2>1, <2>2 DEF Good, Placed, AddBase
  <2>6. AddKnows(l, told[c], file[c], att[c])
    BY <1>1, <2>3, <2>1, <2>2 DEF Good, AddKnows, AddBase
  <2>7. Notes(l) BY <1>1, <2>3, <2>1, <2>2 DEF Good, Notes, AddBase
  <2>8. Sure => DelKnows(l, told[c], file[c], att[c])
    BY <1>1, <2>3, <2>1, <2>2 DEF Good, DelKnows, AddBase
  <2>9. Good(l, told[c], file[c], att[c])
    BY <2>4, <2>5, <2>6, <2>7, <2>8 DEF Good
  <2>10. Goes(c, l, file[c], att[c])
    BY <1>1, <2>3, <2>1, <2>2 DEF AddBase, Goes, Inv, Whole
    <2> QED BY <2>9, <2>10, CallKeeps
<1> QED BY <1>4, <1>5

LEMMA AddPodKeeps ==
  ASSUME Inv, NEW c \in Sandbox, AddPod(c)
  PROVE  Inv'
<1> PICK k : k = call[c] OBVIOUS
<1>1. Good(k, told[c], file[c], att[c]) BY DEF Inv
<1>2. PICK up \in Answers, nads \in NADsSeen :
       LET e == TryLoadPodDelegates(nads, PodRead(up), k.ds)
       IN  IF ~e.ok THEN Finish(c, "failed")
           ELSE /\ call' = [call EXCEPT ![c].pc = "save", ![c].ds = e.delegates,
                                        ![c].client = e.client]
                /\ UNCHANGED told
  BY DEF AddPod
<1> PICK got : got = TryLoadPodDelegates(nads, PodRead(up), k.ds)
  OBVIOUS
<1>3. UNCHANGED <<pod, status, file, netns, att>> BY DEF AddPod
<1>4. CASE ~got.ok
  <2>1. Finish(c, "failed") BY <1>2, <1>4
  <2> QED BY <1>3, <2>1, FailKeeps
<1>5. CASE got.ok
  <2>1. Led(got.delegates) /\ (Sure => Straight(got.delegates))
    <3>1. /\ Led(k.ds) /\ k.ds # << >>
          /\ Sure => Straight(k.ds)
      BY <1>1 DEF AddPod, Good, Typed, Placed, DelKnows
    <3>2. PodRead(up) \in Pods \cup {None} BY DEF PodRead, Inv, Whole
    <3> QED BY <3>1, <3>2, PodLed, PodStraight DEF Sure
  <2>2. /\ call' = [call EXCEPT ![c].pc = "save", ![c].ds = got.delegates,
                                ![c].client = got.client]
        /\ UNCHANGED told /\ Len(got.delegates) \in Nat
    BY <1>2, <1>5, <2>1, LedLen
  <2> PICK l : l = [k EXCEPT !.pc = "save", !.ds = got.delegates, !.client = got.client] OBVIOUS
  <2>3. /\ DOMAIN l = DOMAIN Idle /\ l.pc = "save" /\ l.ds = got.delegates
         /\ l.i = k.i /\ l.st = k.st /\ l.err = k.err /\ l.netns = k.netns
    BY <1>1 DEF Good, Typed, Idle
  <2>4. Typed(l, told[c], file[c])
    BY <1>1, <2>3, <2>1, <2>2 DEF Good, Typed, AddPCs, DelPCs, Placed, AddPod
  <2>5. Placed(l) BY <1>1, <2>3, <2>1, <2>2 DEF Good, Placed, AddPod
  <2>6. AddKnows(l, told[c], file[c], att[c])
    BY <1>1, <2>3, <2>1, <2>2 DEF Good, AddKnows, AddPod
  <2>7. Notes(l) BY <1>1, <2>3, <2>1, <2>2 DEF Good, Notes, AddPod
  <2>8. Sure => DelKnows(l, told[c], file[c], att[c])
    BY <1>1, <2>3, <2>1, <2>2 DEF Good, DelKnows, AddPod
  <2>9. Good(l, told[c], file[c], att[c])
    BY <2>4, <2>5, <2>6, <2>7, <2>8 DEF Good
  <2>10. Goes(c, l, file[c], att[c])
    BY <1>1, <2>3, <2>1, <2>2 DEF AddPod, Goes, Inv, Whole
    <2> QED BY <2>9, <2>10, CallKeeps
<1> QED BY <1>4, <1>5

LEMMA SaveDelegatesKeeps ==
  ASSUME Inv, NEW c \in Sandbox, SaveDelegates(c)
  PROVE  Inv'
<1> PICK k : k = call[c] OBVIOUS
<1>1. Good(k, told[c], file[c], att[c]) BY DEF Inv
<1> PICK f : f = File("saved", Saved(k.ds)) OBVIOUS
<1> PICK l : l = [k EXCEPT !.pc = "add", !.i = 1] OBVIOUS
<1>2. /\ DOMAIN l = DOMAIN Idle /\ l.pc = "add" /\ l.ds = k.ds
       /\ l.i = 1 /\ l.st = k.st /\ l.err = k.err /\ l.netns = k.netns
  BY <1>1 DEF Good, Typed, Idle
<1>3. Typed(l, told[c], f)
  BY <1>1, <1>2, SavedPlain, LedLen DEF Good, Typed, AddPCs, DelPCs, Placed,
    SaveDelegates, File
<1>4. Placed(l) BY <1>1, <1>2 DEF Good, Placed, SaveDelegates
<1>5. AddKnows(l, told[c], f, att[c])
  BY <1>1, <1>2, MadeNone DEF Good, AddKnows, SaveDelegates
<1>6. Notes(l) BY <1>1, <1>2, EmptyList DEF Good, Notes, SaveDelegates
<1>7. Sure => DelKnows(l, told[c], f, att[c])
  <2>1. Led(k.ds) BY <1>1 DEF Good, Typed
  <2>2. k.pc = "save" BY DEF SaveDelegates
  <2>3. Sure => Straight(k.ds) BY <1>1, <2>2 DEF Good, DelKnows
  <2>4. Sure => Straight(f.ds) BY <2>1, <2>3, StraightSaved DEF File
  <2> QED BY <1>1, <1>2, <2>3, <2>4 DEF Good, DelKnows, SaveDelegates, AddKnows
<1>8. Good(l, told[c], f, att[c]) BY <1>3, <1>4, <1>5, <1>6, <1>7 DEF Good
<1>9. Goes(c, l, f, att[c]) BY <1>1, <1>2 DEF SaveDelegates, Goes, Inv, Whole
<1> QED BY <1>8, <1>9, CallKeeps

LEMMA DelegateAddKeeps ==
  ASSUME Inv, NEW c \in Sandbox, DelegateAdd(c)
  PROVE  Inv'
<1> PICK k : k = call[c] OBVIOUS
<1>1. Good(k, told[c], file[c], att[c]) BY DEF Inv
<1> PICK w : w = Attachment(k.ds[k.i], k.i) OBVIOUS
<1> PICK a : a = att[c] \cup {w} OBVIOUS
<1>2. Led(k.ds) /\ Len(k.ds) \in Nat /\ k.i \in 1..Len(k.ds)
  BY <1>1, LedLen DEF DelegateAdd, Good, Typed, Placed
<1>3. Made(k.ds, k.i) = Made(k.ds, k.i - 1) \cup {w}
  <2>1. k.i - 1 \in Nat /\ (k.i - 1) + 1 = k.i BY <1>2
  <2> QED BY <2>1, MadeNext
<1>4. Found(File("saved", Saved(k.ds)), w) BY <1>2, MadeFound
<1> PICK l : l = [k EXCEPT !.i = k.i + 1, !.st = Append(k.st, k.ds[k.i].name)] OBVIOUS
<1>5. /\ DOMAIN l = DOMAIN Idle /\ l.pc = k.pc /\ l.ds = k.ds
       /\ l.i = k.i + 1 /\ l.st = Append(k.st, k.ds[k.i].name) /\ l.err = k.err /\ l.netns = k.netns
  BY <1>1 DEF Good, Typed, Idle
<1>6. Typed(l, told[c], file[c])
  BY <1>1, <1>5, <1>2 DEF Good, Typed, AddPCs, DelPCs, Placed, DelegateAdd
<1>7. Placed(l) BY <1>1, <1>5, <1>2 DEF Good, Placed, DelegateAdd
<1>8. AddKnows(l, told[c], file[c], att[c] \cup {w})
  <2>1. l.i - 1 = k.i BY <1>5, <1>2
  <2>2. k.pc = "add" BY DEF DelegateAdd
  <2>3. a = Made(k.ds, k.i) BY <1>1, <1>3, <2>2 DEF Good, AddKnows
  <2> QED BY <1>1, <1>5, <2>1, <2>2, <2>3 DEF Good, Typed, AddPCs, AddKnows
<1>9. Notes(l)
  <2>1. k.pc = "add" BY DEF DelegateAdd
  <2>2. /\ IsList(k.st) /\ Len(k.st) = k.i - 1
        /\ \A j \in 1..(k.i - 1) : k.st[j] = k.ds[j].name
    BY <1>1, <2>1 DEF Good, Notes
  <2>3. /\ IsList(l.st) /\ Len(l.st) = Len(k.st) + 1
        /\ l.st[Len(k.st) + 1] = k.ds[k.i].name
        /\ \A j \in 1..Len(k.st) : l.st[j] = k.st[j]
    BY <2>2, <1>5, ListAppended
  <2>4. Len(l.st) = l.i - 1 /\ l.i - 1 = k.i
    <3>1. l.i - 1 = k.i BY <1>2, <1>5
    <3>2. Len(l.st) = k.i BY <1>2, <2>2, <2>3
    <3> QED BY <3>1, <3>2
  <2>5. \A j \in 1..k.i : l.st[j] = k.ds[j].name BY <1>2, <2>2, <2>3
  <2> QED BY <1>5, <2>1, <2>3, <2>4, <2>5 DEF Notes
<1>10. Sure => DelKnows(l, told[c], file[c], att[c] \cup {w})
  <2>1. k.pc = "add" BY DEF DelegateAdd
  <2>2. file[c] = File("saved", Saved(k.ds)) BY <1>1, <2>1 DEF Good, AddKnows
  <2>3. told[c] = "adding" BY <1>1, <2>1 DEF Good, Typed, AddPCs
  <2>4. Sure => \A e \in a : Found(file[c], e)
    BY <1>1, <1>4, <2>2 DEF Good, DelKnows
  <2> QED BY <1>1, <1>5, <2>1, <2>3, <2>4 DEF Good, DelKnows
<1>11. Good(l, told[c], file[c], att[c] \cup {w})
  BY <1>6, <1>7, <1>8, <1>9, <1>10 DEF Good
<1>12. Goes(c, l, file[c], att[c] \cup {w})
  BY <1>1, <1>5, <1>2 DEF DelegateAdd, Wanted, Delegate, Goes, Inv, Whole
<1> QED BY <1>11, <1>12, CallKeeps

LEMMA DelegateAddFailsKeeps ==
  ASSUME Inv, NEW c \in Sandbox, DelegateAddFails(c)
  PROVE  Inv'
<1> PICK k : k = call[c] OBVIOUS
<1>1. Good(k, told[c], file[c], att[c]) BY DEF Inv
<1> PICK w : w = Attachment(k.ds[k.i], k.i) OBVIOUS
<1> PICK a : a = att'[c] OBVIOUS
<1>2. Led(k.ds) /\ Len(k.ds) \in Nat /\ k.i \in 1..Len(k.ds)
  BY <1>1, LedLen DEF DelegateAddFails, Good, Typed, Placed
<1>3. Made(k.ds, k.i) = Made(k.ds, k.i - 1) \cup {w}
  <2>1. k.i - 1 \in Nat /\ (k.i - 1) + 1 = k.i BY <1>2
  <2> QED BY <2>1, MadeNext
<1>4. Found(File("saved", Saved(k.ds)), w) BY <1>2, MadeFound
<1>5. a \subseteq att[c] \cup {w} BY DEF DelegateAddFails, Wanted, Delegate, Inv, Whole
<1> PICK l : l = [k EXCEPT !.pc = "undo"] OBVIOUS
<1>6. /\ DOMAIN l = DOMAIN Idle /\ l.pc = "undo" /\ l.ds = k.ds
       /\ l.i = k.i /\ l.st = k.st /\ l.err = k.err /\ l.netns = k.netns
  BY <1>1 DEF Good, Typed, Idle
<1>7. Typed(l, told[c], file[c])
  BY <1>1, <1>6, <1>2 DEF Good, Typed, AddPCs, DelPCs, Placed,
    DelegateAddFails
<1>8. Placed(l) BY <1>1, <1>6, <1>2 DEF Good, Placed, DelegateAddFails
<1>9. AddKnows(l, told[c], file[c], a)
  <2>1. k.pc = "add" BY DEF DelegateAddFails
  <2>2. a \subseteq Made(k.ds, k.i) BY <1>1, <1>3, <1>5, <2>1 DEF Good, AddKnows
  <2>3. told[c] = "adding" BY <1>1, <2>1 DEF Good, Typed, AddPCs
  <2> QED BY <1>1, <1>6, <2>1, <2>2, <2>3 DEF Good, AddKnows
<1>10. Notes(l) BY <1>1, <1>6, <1>2 DEF Good, Notes, DelegateAddFails
<1>11. Sure => DelKnows(l, told[c], file[c], a)
  <2>1. k.pc = "add" BY DEF DelegateAddFails
  <2>2. file[c] = File("saved", Saved(k.ds)) BY <1>1, <2>1 DEF Good, AddKnows
  <2>3. told[c] = "adding" BY <1>1, <2>1 DEF Good, Typed, AddPCs
  <2>4. Sure => \A e \in a : Found(file[c], e)
    BY <1>1, <1>4, <1>5, <2>2 DEF Good, DelKnows
  <2> QED BY <1>1, <1>6, <2>1, <2>3, <2>4 DEF Good, DelKnows
<1>12. Good(l, told[c], file[c], a) BY <1>7, <1>8, <1>9, <1>10, <1>11 DEF Good
<1>13. Goes(c, l, file[c], a)
  BY <1>1, <1>6, <1>2 DEF DelegateAddFails, Goto, Goes, Inv, Whole
<1> QED BY <1>12, <1>13, CallKeeps

LEMMA BadResultKeeps ==
  ASSUME Inv, NEW c \in Sandbox, BadResult(c)
  PROVE  Inv'
BY FailKeeps DEF BadResult

LEMMA AddsDoneKeeps ==
  ASSUME Inv, NEW c \in Sandbox, AddsDone(c)
  PROVE  Inv'
<1> PICK k : k = call[c] OBVIOUS
<1>1. Good(k, told[c], file[c], att[c]) BY DEF Inv
<1>2. UNCHANGED <<pod, status, file, netns, att>> /\ told[c] = "adding"
  BY <1>1 DEF AddsDone, Good, Typed, AddPCs
<1>3. CASE ~(k.client /\ ~CheckSystemNamespaces(PodNs))
  <2>1. Finish(c, IF k.client THEN "up" ELSE "blind") BY <1>3 DEF AddsDone
  <2>2. k.client => status = None BY <1>3 DEF Inv, Unset
  <2> QED BY <1>2, <2>1, <2>2, FailKeeps
<1>4. CASE k.client /\ ~CheckSystemNamespaces(PodNs)
  <2> PICK l : l = [k EXCEPT !.pc = "getPod"] OBVIOUS
  <2>1. /\ DOMAIN l = DOMAIN Idle /\ l.pc = "getPod" /\ l.ds = k.ds
         /\ l.i = k.i /\ l.st = k.st /\ l.err = k.err /\ l.netns = k.netns
    BY <1>1 DEF Good, Typed, Idle
  <2>2. Typed(l, told[c], file[c])
    BY <1>1, <2>1, <1>2, <1>4 DEF Good, Typed, AddPCs, DelPCs, Placed,
      AddsDone
  <2>3. Placed(l) BY <1>1, <2>1, <1>2, <1>4 DEF Good, Placed, AddsDone
  <2>4. AddKnows(l, told[c], file[c], att[c])
    BY <1>1, <2>1, <1>2, <1>4 DEF Good, AddKnows, AddsDone
  <2>5. Notes(l) BY <1>1, <2>1, <1>2, <1>4 DEF Good, Notes, AddsDone
  <2>6. Sure => DelKnows(l, told[c], file[c], att[c])
    BY <1>1, <2>1, <1>2, <1>4 DEF Good, DelKnows, AddsDone
  <2>7. Good(l, told[c], file[c], att[c])
    BY <2>2, <2>3, <2>4, <2>5, <2>6 DEF Good
  <2>8. Goes(c, l, file[c], att[c])
    BY <1>1, <2>1, <1>2, <1>4 DEF AddsDone, Goto, Goes, Inv, Whole
    <2> QED BY <2>7, <2>8, CallKeeps
<1> QED BY <1>3, <1>4

LEMMA GetPodKeeps ==
  ASSUME Inv, NEW c \in Sandbox, GetPod(c)
  PROVE  Inv'
<1> PICK k : k = call[c] OBVIOUS
<1>1. Good(k, told[c], file[c], att[c]) BY DEF Inv
<1>2. UNCHANGED <<pod, status, file, netns, att>> BY DEF GetPod
<1>3. \/ Finish(c, "failed")
      \/ /\ call' = [call EXCEPT ![c].pc = "update", ![c].fresh = TRUE]
         /\ UNCHANGED told
  BY DEF GetPod
<1>4. CASE Finish(c, "failed") BY <1>2, <1>4, FailKeeps
<1>5. CASE /\ call' = [call EXCEPT ![c].pc = "update", ![c].fresh = TRUE]
           /\ UNCHANGED told
  <2> PICK l : l = [k EXCEPT !.pc = "update", !.fresh = TRUE] OBVIOUS
  <2>1. /\ DOMAIN l = DOMAIN Idle /\ l.pc = "update" /\ l.ds = k.ds
         /\ l.i = k.i /\ l.st = k.st /\ l.err = k.err /\ l.netns = k.netns
    BY <1>1 DEF Good, Typed, Idle
  <2>2. Typed(l, told[c], file[c])
    BY <1>1, <2>1, <1>5 DEF Good, Typed, AddPCs, DelPCs, Placed, GetPod
  <2>3. Placed(l) BY <1>1, <2>1, <1>5 DEF Good, Placed, GetPod
  <2>4. AddKnows(l, told[c], file[c], att[c])
    BY <1>1, <2>1, <1>5 DEF Good, AddKnows, GetPod
  <2>5. Notes(l) BY <1>1, <2>1, <1>5 DEF Good, Notes, GetPod
  <2>6. Sure => DelKnows(l, told[c], file[c], att[c])
    BY <1>1, <2>1, <1>5 DEF Good, DelKnows, GetPod
  <2>7. Good(l, told[c], file[c], att[c])
    BY <2>2, <2>3, <2>4, <2>5, <2>6 DEF Good
  <2>8. Goes(c, l, file[c], att[c])
    BY <1>1, <2>1, <1>5 DEF GetPod, Goes, Inv, Whole
    <2> QED BY <2>7, <2>8, CallKeeps
<1> QED BY <1>3, <1>4, <1>5

LEMMA UpdateFailsKeeps ==
  ASSUME Inv, NEW c \in Sandbox, UpdateFails(c)
  PROVE  Inv'
BY FailKeeps DEF UpdateFails

LEMMA UndoDoneKeeps ==
  ASSUME Inv, NEW c \in Sandbox, UndoDone(c)
  PROVE  Inv'
BY FailKeeps DEF UndoDone

LEMMA UpdatePodStatusKeeps ==
  ASSUME Inv, NEW c \in Sandbox, UpdatePodStatus(c)
  PROVE  Inv'
<1> PICK k : k = call[c] OBVIOUS
<1>1. Good(k, told[c], file[c], att[c]) BY DEF Inv
<1> PICK f : f = file[c] OBVIOUS
<1>2. /\ k.pc = "update" /\ told[c] = "adding" /\ Led(k.ds) /\ Len(k.ds) \in Nat
      /\ k.i \in 1..(Len(k.ds) + 1) /\ att[c] = Made(k.ds, k.i - 1)
      /\ f.is \in {"absent", "torn", "saved"} /\ Plain(f.ds)
      /\ Sure => /\ \A e \in att[c] : Found(f, e)
                 /\ f.is = "saved" => Straight(f.ds)
  BY <1>1, LedLen
  DEF UpdatePodStatus, Good, Typed, Placed, AddKnows, DelKnows, AddPCs
<1>3. /\ call'[c] = Idle /\ told'[c] = "up" /\ file'[c] = f /\ att'[c] = att[c]
      /\ status' = k.st
  BY DEF UpdatePodStatus, PodWritten, Inv, Whole
<1>4. Moves(c) BY DEF UpdatePodStatus, PodWritten, Stale, Moves, Inv, Whole, Told
<1>5. Good(Idle, "up", f, att[c]) BY <1>2, Ended
<1>6. Lone'
  <2>1. ~call'[c].netns /\ netns' = netns BY <1>3 DEF Idle, UpdatePodStatus
  <2> QED BY <1>2, <1>4, <2>1, LoneKept
<1>7. ToSet(k.st) = {a.name : a \in att[c]}
  <2>1. /\ IsList(k.st) /\ Len(k.st) = k.i - 1
        /\ \A j \in 1..(k.i - 1) : k.st[j] = k.ds[j].name
    BY <1>1, <1>2 DEF Good, Notes
  <2>2. DOMAIN k.st = 1..(k.i - 1) BY <2>1, ListLen
  <2>3. \A j \in 1..(k.i - 1) : Attachment(k.ds[j], j).name = k.st[j]
    BY <2>1 DEF Attachment
  <2>4. ToSet(k.st) = {k.st[j] : j \in 1..(k.i - 1)} BY <2>2 DEF ToSet
  <2> QED BY <1>2, <2>3, <2>4 DEF Made
<1>8. StatusTrue'
  <2> SUFFICES ASSUME NEW d \in Sandbox, told'[d] = "up"
               PROVE  ToSet(status') = {a.name : a \in att'[d]}
    BY DEF StatusTrue
  <2>1. d = c BY <1>2, <1>4 DEF Moves, Inv, Lone
  <2> QED BY <1>3, <1>7, <2>1
<1>9. Unset'
  <2>1. ~CheckSystemNamespaces(PodNs) BY <1>1, <1>2 DEF Good, Placed
  <2> QED BY <2>1 DEF Unset
<1> QED BY <1>3, <1>4, <1>5, <1>6, <1>8, <1>9, OneMoves

LEMMA DelegateDelKeeps ==
  ASSUME Inv, NEW c \in Sandbox, DelegateDel(c)
  PROVE  Inv'
<1> PICK k : k = call[c] OBVIOUS
<1>1. Good(k, told[c], file[c], att[c]) BY DEF Inv
<1> PICK w : w = Attachment(k.ds[k.i], k.i) OBVIOUS
<1>2. /\ k.pc \in {"undo", "del"} /\ Len(k.ds) \in Nat /\ k.i \in 1..Len(k.ds)
      /\ UNCHANGED <<pod, status, file, netns, told>>
  BY <1>1, LedLen DEF DelegateDel, Good, Typed, Placed
<1>3. Made(k.ds, k.i) = Made(k.ds, k.i - 1) \cup {w}
  <2>1. k.i - 1 \in Nat /\ (k.i - 1) + 1 = k.i BY <1>2
  <2> QED BY <2>1, MadeNext
<1>4. \/ /\ att' = [att EXCEPT ![c] = @ \ {w}]
         /\ call' = [call EXCEPT ![c].i = @ - 1]
      \/ /\ k.pc = "undo" \/ DelFails \/ Misread(k.ds[k.i])
         /\ UNCHANGED att
         /\ call' = [call EXCEPT ![c].i = @ - 1, ![c].err = TRUE]
  BY DEF DelegateDel, Undone, Wanted, Delegate
<1>5. CASE /\ att' = [att EXCEPT ![c] = @ \ {w}]
           /\ call' = [call EXCEPT ![c].i = @ - 1]
  <2> PICK a : a = att[c] \ {w} OBVIOUS
  <2> PICK l : l = [k EXCEPT !.i = k.i - 1] OBVIOUS
  <2>1. /\ DOMAIN l = DOMAIN Idle /\ l.pc = k.pc /\ l.ds = k.ds
         /\ l.i = k.i - 1 /\ l.st = k.st /\ l.err = k.err /\ l.netns = k.netns
    BY <1>1 DEF Good, Typed, Idle
  <2>2. Typed(l, told[c], file[c])
    BY <1>1, <2>1, <1>2, <1>5 DEF Good, Typed, AddPCs, DelPCs, Placed
  <2>3. Placed(l) BY <1>1, <2>1, <1>2, <1>5 DEF Good, Placed
  <2>4. AddKnows(l, told[c], file[c], a)
    BY <1>1, <2>1, <1>2, <1>5, <1>3 DEF Good, AddKnows
  <2>5. Notes(l) BY <1>1, <2>1, <1>2, <1>5 DEF Good, Notes
  <2>6. Sure => DelKnows(l, told[c], file[c], a)
    BY <1>1, <2>1, <1>2, <1>5, <1>3 DEF Good, DelKnows
  <2>7. Good(l, told[c], file[c], a) BY <2>2, <2>3, <2>4, <2>5, <2>6 DEF Good
  <2>8. Goes(c, l, file[c], a)
    BY <1>1, <2>1, <1>2, <1>5 DEF DelegateDel, Goes, Inv, Whole
    <2> QED BY <2>7, <2>8, CallKeeps
<1>6. CASE /\ k.pc = "undo" \/ DelFails \/ Misread(k.ds[k.i])
           /\ UNCHANGED att
           /\ call' = [call EXCEPT ![c].i = @ - 1, ![c].err = TRUE]
  <2>0. Sure => k.pc = "undo"
    <3>1. k.i \in DOMAIN k.ds BY <1>1, <1>2, LedLen DEF Good, Typed
    <3>2. Sure => Straight(k.ds) BY <1>1, <1>2 DEF Good, DelKnows
    <3>3. Sure => ~Misread(k.ds[k.i]) BY <3>1, <3>2 DEF Straight, Sound
    <3> QED BY <1>6, <3>3 DEF Sure
  <2> PICK l : l = [k EXCEPT !.i = k.i - 1, !.err = TRUE] OBVIOUS
  <2>1. /\ DOMAIN l = DOMAIN Idle /\ l.pc = k.pc /\ l.ds = k.ds
         /\ l.i = k.i - 1 /\ l.st = k.st /\ l.err = TRUE /\ l.netns = k.netns
    BY <1>1 DEF Good, Typed, Idle
  <2>2. Typed(l, told[c], file[c])
    BY <1>1, <2>1, <1>2, <1>6 DEF Good, Typed, AddPCs, DelPCs, Placed
  <2>3. Placed(l) BY <1>1, <2>1, <1>2, <1>6 DEF Good, Placed
  <2>4. AddKnows(l, told[c], file[c], att[c])
    BY <1>1, <2>1, <1>2, <1>6 DEF Good, AddKnows
  <2>5. Notes(l) BY <1>1, <2>1, <1>2, <1>6 DEF Good, Notes
  <2>6. Sure => DelKnows(l, told[c], file[c], att[c])
    BY <1>1, <2>1, <1>2, <2>0 DEF Good, DelKnows
  <2>7. Good(l, told[c], file[c], att[c])
    BY <2>2, <2>3, <2>4, <2>5, <2>6 DEF Good
  <2>8. Goes(c, l, file[c], att[c])
    BY <1>1, <2>1, <1>2, <1>6 DEF DelegateDel, Goes, Inv, Whole
    <2> QED BY <2>7, <2>8, CallKeeps
<1> QED BY <1>4, <1>5, <1>6

LEMMA DelReadKeeps ==
  ASSUME Inv, NEW c \in Sandbox, DelRead(c)
  PROVE  Inv'
<1> PICK k : k = call[c] OBVIOUS
<1>1. Good(k, told[c], file[c], att[c]) BY DEF Inv
<1> PICK read : read = Loaded(file[c].ds) OBVIOUS
<1> PICK ds : ds = Versioned(read) OBVIOUS
<1>2. /\ k.pc = "read" /\ file[c].is = "saved"
      /\ call' = [call EXCEPT ![c].pc = "clear", ![c].ds = ds, ![c].i = Len(ds),
                              ![c].consumed = TRUE]
  BY DEF DelRead
<1>3. Led(read) /\ Led(ds) /\ Len(ds) = Len(read) /\ Len(ds) \in Nat
  BY <1>1, LoadedLed, VersionedLed, LedLen DEF Good, Typed
<1>4. Sure => Straight(ds) /\ att[c] \subseteq Made(ds, Len(ds))
  <2> SUFFICES ASSUME Sure PROVE Straight(ds) /\ att[c] \subseteq Made(ds, Len(ds))
    OBVIOUS
  <2>1. Plain(file[c].ds) /\ Straight(file[c].ds)
    BY <1>1, <1>2 DEF Good, Typed, DelKnows
  <2>2. Straight(ds) /\ \A i \in DOMAIN read : ds[i] = read[i]
    BY <1>3, <2>1, StraightLoaded, StraightVersioned
  <2>3. att[c] \subseteq Made(read, Len(read))
    BY <1>1, <2>1, FoundMade DEF Good, DelKnows
  <2>4. DOMAIN read = 1..Len(ds) BY <1>3, LedLen
  <2>5. Made(read, Len(read)) = Made(ds, Len(ds)) BY <1>3, <2>2, <2>4 DEF Made
  <2> QED BY <2>2, <2>3, <2>5
<1> PICK l : l = [k EXCEPT !.pc = "clear", !.ds = ds, !.i = Len(ds), !.consumed = TRUE] OBVIOUS
<1>5. /\ DOMAIN l = DOMAIN Idle /\ l.pc = "clear" /\ l.ds = ds
       /\ l.i = Len(ds) /\ l.st = k.st /\ l.err = k.err /\ l.netns = k.netns
  BY <1>1 DEF Good, Typed, Idle
<1>6. Typed(l, told[c], file[c])
  BY <1>1, <1>5, <1>2, <1>3 DEF Good, Typed, AddPCs, DelPCs, Placed
<1>7. Placed(l) BY <1>1, <1>5, <1>2, <1>3 DEF Good, Placed
<1>8. AddKnows(l, told[c], file[c], att[c])
  BY <1>1, <1>5, <1>2, <1>3 DEF Good, AddKnows
<1>9. Notes(l) BY <1>1, <1>5, <1>2, <1>3 DEF Good, Notes
<1>10. Sure => DelKnows(l, told[c], file[c], att[c])
  BY <1>1, <1>5, <1>2, <1>3, <1>4 DEF Good, DelKnows
<1>11. Good(l, told[c], file[c], att[c])
  BY <1>6, <1>7, <1>8, <1>9, <1>10 DEF Good
<1>12. Goes(c, l, file[c], att[c])
  BY <1>1, <1>5, <1>2, <1>3 DEF DelRead, Goes, Inv, Whole
<1> QED BY <1>11, <1>12, CallKeeps

LEMMA DelTornKeeps ==
  ASSUME Inv, NEW c \in Sandbox, DelTorn(c)
  PROVE  Inv'
<1> PICK k : k = call[c] OBVIOUS
<1>1. Good(k, told[c], file[c], att[c]) BY DEF Inv
<1>2. file[c].is = "torn" /\ Finish(c, "failed") /\ file' = [file EXCEPT ![c] = NoFile]
  BY DEF DelTorn
<1>3. file'[c] = NoFile /\ DOMAIN file' = Sandbox /\ \A d \in Sandbox \ {c} : file'[d] = file[d]
  BY <1>2 DEF Inv, Whole
<1>4. Sure => att[c] = {} BY <1>1, <1>2 DEF Good, DelKnows, Found
<1>5. file'[c].is = "absent" /\ Plain(file'[c].ds)
  BY <1>3, NoFilePlain DEF NoFile, File
<1>6. UNCHANGED <<pod, status, netns, att>> BY DEF DelTorn
<1> QED BY <1>2, <1>3, <1>4, <1>5, <1>6, FinishKeeps

LEMMA DelBaseKeeps ==
  ASSUME Inv, NEW c \in Sandbox, DelBase(c)
  PROVE  Inv'
<1> PICK k : k = call[c] OBVIOUS
<1>1. Good(k, told[c], file[c], att[c]) BY DEF Inv
<1>2. PICK nads \in NADsSeen :
       LET e == BaseDelegates(nads, PodNs)
       IN  IF e = Failed THEN Finish(c, "failed")
           ELSE /\ call' = [call EXCEPT ![c].pc = "readPod", ![c].ds = e]
                /\ UNCHANGED told
  BY DEF DelBase
<1> PICK ds : ds = BaseDelegates(nads, PodNs) OBVIOUS
<1>3. UNCHANGED <<pod, status, file, netns, att>> BY DEF DelBase
<1>4. CASE ds = Failed
  <2>1. Finish(c, "failed") BY <1>2, <1>4
  <2> QED BY <1>3, <2>1, FailKeeps
<1>5. CASE ds # Failed
  <2>1. Led(ds) /\ ds # << >> /\ (Sure => Straight(ds))
    BY <1>5, BaseLed, BaseStraight DEF Sure
  <2>2. /\ call' = [call EXCEPT ![c].pc = "readPod", ![c].ds = ds] /\ UNCHANGED told
        /\ Len(ds) \in Nat
    BY <1>2, <1>5, <2>1, LedLen
  <2> PICK l : l = [k EXCEPT !.pc = "readPod", !.ds = ds] OBVIOUS
  <2>3. /\ DOMAIN l = DOMAIN Idle /\ l.pc = "readPod" /\ l.ds = ds
         /\ l.i = k.i /\ l.st = k.st /\ l.err = k.err /\ l.netns = k.netns
    BY <1>1 DEF Good, Typed, Idle
  <2>4. Typed(l, told[c], file[c])
    BY <1>1, <2>3, <2>1, <2>2 DEF Good, Typed, AddPCs, DelPCs, Placed, DelBase
  <2>5. Placed(l) BY <1>1, <2>3, <2>1, <2>2 DEF Good, Placed, DelBase
  <2>6. AddKnows(l, told[c], file[c], att[c])
    BY <1>1, <2>3, <2>1, <2>2 DEF Good, AddKnows, DelBase
  <2>7. Notes(l) BY <1>1, <2>3, <2>1, <2>2 DEF Good, Notes, DelBase
  <2>8. Sure => DelKnows(l, told[c], file[c], att[c])
    BY <1>1, <2>3, <2>1, <2>2 DEF Good, DelKnows, DelBase, Found
  <2>9. Good(l, told[c], file[c], att[c])
    BY <2>4, <2>5, <2>6, <2>7, <2>8 DEF Good
  <2>10. Goes(c, l, file[c], att[c])
    BY <1>1, <2>3, <2>1, <2>2 DEF DelBase, Goes, Inv, Whole
    <2> QED BY <2>9, <2>10, CallKeeps
<1> QED BY <1>4, <1>5

LEMMA DelPodKeeps ==
  ASSUME Inv, NEW c \in Sandbox, DelPod(c)
  PROVE  Inv'
<1> PICK k : k = call[c] OBVIOUS
<1>1. Good(k, told[c], file[c], att[c]) BY DEF Inv
<1>2. PICK up \in Answers, nads \in NADsSeen :
       LET e == Versioned(TryLoadPodDelegates(nads, PodRead(up), k.ds).delegates)
       IN  call' = [call EXCEPT ![c].pc = "clear", ![c].ds = e, ![c].i = Len(e)]
  BY DEF DelPod
<1> PICK got : got = TryLoadPodDelegates(nads, PodRead(up), k.ds).delegates OBVIOUS
<1> PICK ds : ds = Versioned(got) OBVIOUS
<1>3. call' = [call EXCEPT ![c].pc = "clear", ![c].ds = ds, ![c].i = Len(ds)]
  BY <1>2
<1>4. k.pc = "readPod" BY DEF DelPod
<1>5. Led(ds) /\ Len(ds) \in Nat /\ (Sure => Straight(ds))
  <2>1. /\ Led(k.ds) /\ k.ds # << >>
        /\ Sure => Straight(k.ds)
    BY <1>1, <1>4 DEF Good, Typed, Placed, DelKnows
  <2>2. PodRead(up) \in Pods \cup {None} BY DEF PodRead, Inv, Whole
  <2>3. Led(got) /\ (Sure => Straight(got)) BY <2>1, <2>2, PodLed, PodStraight DEF Sure
  <2> QED BY <2>3, VersionedLed, StraightVersioned, LedLen
<1> PICK l : l = [k EXCEPT !.pc = "clear", !.ds = ds, !.i = Len(ds)] OBVIOUS
<1>6. /\ DOMAIN l = DOMAIN Idle /\ l.pc = "clear" /\ l.ds = ds
       /\ l.i = Len(ds) /\ l.st = k.st /\ l.err = k.err /\ l.netns = k.netns
  BY <1>1 DEF Good, Typed, Idle
<1>7. Typed(l, told[c], file[c])
  BY <1>1, <1>6, <1>3, <1>4, <1>5 DEF Good, Typed, AddPCs, DelPCs, Placed
<1>8. Placed(l) BY <1>1, <1>6, <1>3, <1>4, <1>5 DEF Good, Placed
<1>9. AddKnows(l, told[c], file[c], att[c])
  BY <1>1, <1>6, <1>3, <1>4, <1>5 DEF Good, AddKnows
<1>10. Notes(l) BY <1>1, <1>6, <1>3, <1>4, <1>5 DEF Good, Notes
<1>11. Sure => DelKnows(l, told[c], file[c], att[c])
  BY <1>1, <1>6, <1>3, <1>4, <1>5 DEF Good, DelKnows
<1>12. Good(l, told[c], file[c], att[c])
  BY <1>7, <1>8, <1>9, <1>10, <1>11 DEF Good
<1>13. Goes(c, l, file[c], att[c])
  BY <1>1, <1>6, <1>3, <1>4, <1>5 DEF DelPod, Goes, Inv, Whole
<1> QED BY <1>12, <1>13, CallKeeps

LEMMA ClearStatusKeeps ==
  ASSUME Inv, NEW c \in Sandbox, ClearStatus(c)
  PROVE  Inv'
<1> PICK k : k = call[c] OBVIOUS
<1>1. Good(k, told[c], file[c], att[c]) BY DEF Inv
<1>2. /\ k.pc = "clear" /\ UNCHANGED <<pod, file, netns, att, told>>
      /\ \/ UNCHANGED status /\ Goto(c, "del")
         \/ /\ k.netns /\ pod # None /\ ~CheckSystemNamespaces(PodNs)
            /\ status' = << >>
            /\ call' = [PodWritten EXCEPT ![c].pc = "del"]
  BY DEF ClearStatus
<1> PICK l : l = [k EXCEPT !.pc = "del"] OBVIOUS
<1>3. /\ DOMAIN l = DOMAIN Idle /\ l.pc = "del" /\ l.ds = k.ds
       /\ l.i = k.i /\ l.st = k.st /\ l.err = k.err /\ l.netns = k.netns
  BY <1>1 DEF Good, Typed, Idle
<1>4. Typed(l, told[c], file[c])
  BY <1>1, <1>3, <1>2 DEF Good, Typed, AddPCs, DelPCs, Placed
<1>5. Placed(l) BY <1>1, <1>3, <1>2 DEF Good, Placed
<1>6. AddKnows(l, told[c], file[c], att[c])
  BY <1>1, <1>3, <1>2 DEF Good, AddKnows
<1>7. Notes(l) BY <1>1, <1>3, <1>2 DEF Good, Notes
<1>8. Sure => DelKnows(l, told[c], file[c], att[c])
  BY <1>1, <1>3, <1>2 DEF Good, DelKnows, Placed
<1>9. Good(l, told[c], file[c], att[c])
  BY <1>4, <1>5, <1>6, <1>7, <1>8 DEF Good
<1>10. CASE UNCHANGED status /\ Goto(c, "del")
  <2>1. Goes(c, l, file[c], att[c])
    BY <1>1, <1>2, <1>3, <1>10 DEF Goto, Goes, Inv, Whole
  <2> QED BY <1>9, <2>1, CallKeeps
<1>11. CASE /\ k.netns /\ ~CheckSystemNamespaces(PodNs) /\ status' = << >>
            /\ call' = [PodWritten EXCEPT ![c].pc = "del"]
  <2>1. call'[c] = Stale(l)
    <3>1. call'[c] = [Stale(k) EXCEPT !.pc = "del"]
      BY <1>11 DEF PodWritten, Stale, Inv, Whole
    <3>2. [Stale(k) EXCEPT !.pc = "del"] = Stale(l)
      BY <1>1 DEF Stale, Good, Typed, Idle
    <3> QED BY <3>1, <3>2
  <2>2. Good(call'[c], told'[c], file'[c], att'[c])
    BY <1>2, <1>9, <2>1, StaleGood
  <2>3. Moves(c) BY <1>2, <1>11 DEF PodWritten, Stale, Moves, Inv, Whole
  <2>4. Lone'
    <3>1. call'[c].netns => call[c].netns BY <1>11
    <3> QED BY <1>2, <2>3, <3>1, LoneKept
  <2>5. ASSUME NEW d \in Sandbox PROVE told'[d] # "up"
    <3>1. told[c] \in {"deleting", "gone"} BY <1>1, <1>2 DEF Good, Typed, DelPCs
    <3>2. d # c => told[d] # "up" BY <1>11 DEF Inv, Lone
    <3> QED BY <1>2, <3>1, <3>2
  <2>6. StatusTrue' /\ Unset' BY <1>11, <2>5 DEF StatusTrue, Unset
  <2> QED BY <2>2, <2>3, <2>4, <2>6, OneMoves
<1> QED BY <1>2, <1>10, <1>11

LEMMA DelDoneKeeps ==
  ASSUME Inv, NEW c \in Sandbox, DelDone(c)
  PROVE  Inv'
<1> PICK k : k = call[c] OBVIOUS
<1>1. Good(k, told[c], file[c], att[c]) BY DEF Inv
<1>2. /\ k.pc = "del" /\ k.i = 0 /\ Finish(c, DelAnswer(c))
      /\ file' = IF k.consumed THEN [file EXCEPT ![c] = NoFile] ELSE file
      /\ UNCHANGED <<pod, status, netns, att>>
  BY DEF DelDone
<1>3. DelAnswer(c) \in {"failed", "gone"} BY DEF DelAnswer
<1>4. DOMAIN file' = Sandbox /\ \A d \in Sandbox \ {c} : file'[d] = file[d]
  BY <1>2 DEF Inv, Whole
<1>5. file'[c] = NoFile \/ file'[c] = file[c] BY <1>2 DEF Inv, Whole
<1>6. file'[c].is \in {"absent", "torn", "saved"} /\ Plain(file'[c].ds)
  BY <1>1, <1>5, NoFilePlain DEF NoFile, File, Good, Typed
<1>7. Sure => /\ att[c] = {}
              /\ file'[c].is = "saved" => Straight(file'[c].ds)
  BY <1>1, <1>2, <1>5, MadeNone DEF Good, DelKnows, NoFile, File
<1> QED BY <1>2, <1>3, <1>4, <1>6, <1>7, FinishKeeps

LEMMA CrashKeeps ==
  ASSUME Inv, NEW c \in Sandbox, Crash(c)
  PROVE  Inv'
<1> PICK k : k = call[c] OBVIOUS
<1>1. Good(k, told[c], file[c], att[c]) BY DEF Inv
<1>2. /\ Finish(c, IF told[c] = "gone" THEN "gone" ELSE "failed")
      /\ \/ UNCHANGED file
         \/ k.pc = "save" /\ file' = [file EXCEPT ![c] = Torn]
      /\ UNCHANGED <<pod, status, netns, att>>
  BY DEF Crash
<1> PICK answer : answer = IF told[c] = "gone" THEN "gone" ELSE "failed" OBVIOUS
<1>3. answer \in {"failed", "gone"} /\ Finish(c, answer) BY <1>2
<1>4. DOMAIN file' = Sandbox /\ \A d \in Sandbox \ {c} : file'[d] = file[d]
  BY <1>2 DEF Inv, Whole
<1>5. file'[c] = file[c] \/ (k.pc = "save" /\ file'[c] = Torn)
  BY <1>2 DEF Inv, Whole
<1>6. file'[c].is \in {"absent", "torn", "saved"} /\ Plain(file'[c].ds)
  BY <1>1, <1>5, NoFilePlain DEF Torn, File, Good, Typed
<1>7. Sure => /\ \A e \in att[c] : Found(file'[c], e)
              /\ answer = "gone" => att[c] = {}
              /\ file'[c].is = "saved" => Straight(file'[c].ds)
  BY <1>1, <1>5 DEF Good, DelKnows, AddKnows, Torn, File
<1> QED BY <1>2, <1>3, <1>4, <1>6, <1>7, FinishKeeps

LEMMA NetnsGoneKeeps ==
  ASSUME Inv, NEW c \in Sandbox, NetnsGone(c)
  PROVE  Inv'
<1> PICK k : k = call[c] OBVIOUS
<1>1. Good(k, told[c], file[c], att[c]) BY DEF Inv
<1>2. UNCHANGED <<pod, status, file, att, told, call>> /\ netns' \subseteq netns
  BY DEF NetnsGone
<1>3. Moves(c) BY <1>2 DEF Moves, Inv, Whole
<1>4. Good(call'[c], told'[c], file'[c], att'[c]) BY <1>1, <1>2
<1>5. Lone' BY <1>2, <1>3, LoneKept
<1>6. StatusTrue' /\ Unset' BY <1>2, <1>3, StatusKept
<1> QED BY <1>3, <1>4, <1>5, <1>6, OneMoves

LEMMA CmdAddKeeps ==
  ASSUME Inv, NEW c \in Sandbox, CmdAdd(c)
  PROVE  Inv'
<1> PICK k : k = call[c] OBVIOUS
<1>1. Good(k, told[c], file[c], att[c]) BY DEF Inv
<1>2. /\ told[c] = "new" /\ UNCHANGED <<pod, status, file, att>>
      /\ netns' = netns \cup {c} /\ told' = [told EXCEPT ![c] = "adding"]
      /\ call' = [call EXCEPT ![c].pc = "addBase"]
      /\ \A b \in Sandbox \ {c} :
           call[b] = Idle /\ told[b] \in {"new", "gone"} /\ b \notin netns
  BY DEF CmdAdd, Alone, Goto
<1> PICK l : l = [k EXCEPT !.pc = "addBase"] OBVIOUS
<1>3. /\ DOMAIN l = DOMAIN Idle /\ l.pc = "addBase" /\ l.ds = k.ds
       /\ l.i = k.i /\ l.st = k.st /\ l.err = k.err /\ l.netns = k.netns
  BY <1>1 DEF Good, Typed, Idle
<1>4. Typed(l, "adding", file[c])
  BY <1>1, <1>3, <1>2 DEF Good, Typed, AddPCs, DelPCs, Placed
<1>5. Placed(l) BY <1>1, <1>3, <1>2 DEF Good, Placed, Typed, AddPCs, DelPCs
<1>6. AddKnows(l, "adding", file[c], att[c])
  BY <1>1, <1>3, <1>2 DEF Good, AddKnows
<1>7. Notes(l) BY <1>1, <1>3, <1>2 DEF Good, Notes, Typed, AddPCs, DelPCs
<1>8. Sure => DelKnows(l, "adding", file[c], att[c])
  BY <1>1, <1>3, <1>2 DEF Good, DelKnows
<1>9. Good(l, "adding", file[c], att[c])
  BY <1>4, <1>5, <1>6, <1>7, <1>8 DEF Good
<1>10. call'[c] = l /\ told'[c] = "adding" /\ file'[c] = file[c] /\ att'[c] = att[c]
  BY <1>2 DEF Inv, Whole
<1>11. Moves(c) BY <1>2 DEF Told, Moves, Inv, Whole
<1>12. Lone'
  <2>1. \A b \in Sandbox \ {c} : /\ told'[b] \in {"new", "gone"} /\ ~call'[b].netns
                                 /\ b \notin netns'
    BY <1>2 DEF Idle, Inv, Whole
  <2> QED BY <2>1 DEF Lone
<1>13. StatusTrue' /\ Unset' BY <1>2, <1>10, <1>11, StatusKept
<1> QED BY <1>9, <1>10, <1>11, <1>12, <1>13, OneMoves

LEMMA CmdDelKeeps ==
  ASSUME Inv, NEW c \in Sandbox, CmdDel(c)
  PROVE  Inv'
<1> PICK k : k = call[c] OBVIOUS
<1>1. Good(k, told[c], file[c], att[c]) BY DEF Inv
<1> PICK t : t = IF told[c] = "gone" THEN "gone" ELSE "deleting" OBVIOUS
<1>2. /\ told[c] # "new" /\ k = Idle /\ UNCHANGED <<pod, status, file, netns, att>>
      /\ told' = [told EXCEPT ![c] = t]
      /\ call' = [call EXCEPT ![c].pc = "read", ![c].netns = c \in netns]
  BY DEF CmdDel, Inv, Whole
<1> PICK l : l = [k EXCEPT !.pc = "read", !.netns = (c \in netns)] OBVIOUS
<1>3. /\ DOMAIN l = DOMAIN Idle /\ l.pc = "read" /\ l.ds = k.ds
       /\ l.i = k.i /\ l.st = k.st /\ l.err = k.err /\ l.netns = (c \in netns)
  BY <1>1 DEF Good, Typed, Idle
<1>4. Typed(l, t, file[c])
  BY <1>1, <1>3, <1>2 DEF Good, Typed, AddPCs, DelPCs, Placed, Idle
<1>5. Placed(l) BY <1>1, <1>3, <1>2 DEF Good, Placed, Idle
<1>6. AddKnows(l, t, file[c], att[c])
  BY <1>1, <1>3, <1>2 DEF Good, AddKnows, Idle
<1>7. Notes(l) BY <1>1, <1>3, <1>2 DEF Good, Notes, Idle
<1>8. Sure => DelKnows(l, t, file[c], att[c])
  BY <1>1, <1>3, <1>2 DEF Good, DelKnows, Idle
<1>9. Good(l, t, file[c], att[c]) BY <1>4, <1>5, <1>6, <1>7, <1>8 DEF Good
<1>10. call'[c] = l /\ told'[c] = t /\ file'[c] = file[c] /\ att'[c] = att[c]
  BY <1>2 DEF Inv, Whole
<1>11. Moves(c) BY <1>2 DEF Told, Moves, Inv, Whole
<1>12. Lone'
  <2>1. call'[c].netns => c \in netns BY <1>3, <1>10
  <2>2. told'[c] \notin {"adding", "up"} BY <1>10
  <2> QED BY <1>2, <1>11, <2>1, <2>2, LoneKept
<1>13. StatusTrue' /\ Unset' BY <1>2, <1>10, <1>11, StatusKept
<1> QED BY <1>9, <1>10, <1>11, <1>12, <1>13, OneMoves

LEMMA PodChangesKeeps ==
  ASSUME Inv, PodChanges
  PROVE  Inv'
<1>1. /\ pod' \in Pods \cup {None} /\ status' \in {status, None} /\ call' = PodWritten
      /\ UNCHANGED <<file, netns, att, told>>
  BY DEF PodChanges
<1>2. \A d \in Sandbox : call'[d] = Stale(call[d]) BY <1>1 DEF PodWritten, Stale
<1>3. Whole' BY <1>1 DEF PodWritten, Inv, Whole
<1>4. ASSUME NEW d \in Sandbox
      PROVE  Good(call'[d], told'[d], file'[d], att'[d])
  <2>1. Good(call[d], told[d], file[d], att[d]) BY DEF Inv
  <2> QED BY <1>1, <1>2, <2>1, StaleGood
<1>5. ASSUME NEW d \in Sandbox PROVE call'[d].netns = call[d].netns
  <2>1. Typed(call[d], told[d], file[d]) BY DEF Inv, Good
  <2> QED BY <1>2, <2>1 DEF Typed, Idle, Stale
<1>6. Lone' BY <1>1, <1>5 DEF Lone, Inv
<1>7. StatusTrue' /\ Unset' BY <1>1 DEF StatusTrue, Unset, Inv
<1> QED BY <1>3, <1>4, <1>6, <1>7 DEF Inv

-----------------------------------------------------------------------------
(* The theorems.                                                           *)

LEMMA InitInv ==
  Init => Inv
<1> SUFFICES ASSUME Init PROVE Inv OBVIOUS
<1>1. ASSUME NEW c \in Sandbox
      PROVE  Good(call[c], told[c], file[c], att[c])
  <2>1. /\ call[c] = Idle /\ told[c] = "new" /\ file[c] = NoFile /\ att[c] = {}
    BY DEF Init
  <2>2. Typed(Idle, "new", NoFile)
    BY EmptyLed, NoFilePlain DEF Typed, Idle, NoFile, File, AddPCs, DelPCs
  <2>3. /\ Placed(Idle) /\ AddKnows(Idle, "new", NoFile, {}) /\ Notes(Idle)
        /\ DelKnows(Idle, "new", NoFile, {})
    BY DEF Placed, AddKnows, Notes, DelKnows, Idle, NoFile, File
  <2> QED BY <2>1, <2>2, <2>3 DEF Good
<1>2. Whole BY DEF Init, Whole, Told
<1>3. Lone /\ StatusTrue /\ Unset BY DEF Init, Lone, StatusTrue, Unset
<1> QED BY <1>1, <1>2, <1>3 DEF Inv

LEMMA StepKeeps ==
  Inv /\ [Next]_vars => Inv'
<1> SUFFICES ASSUME Inv, [Next]_vars PROVE Inv' OBVIOUS
<1>1. CASE UNCHANGED vars
  BY <1>1 DEF vars, Inv, Whole, Lone, StatusTrue, Unset
<1>2. CASE PodChanges BY <1>2, PodChangesKeeps
<1>3. ASSUME NEW c \in Sandbox, AddStep(c) PROVE Inv'
  BY <1>3, AddBaseKeeps, AddPodKeeps, SaveDelegatesKeeps, DelegateAddKeeps,
     AddsDoneKeeps, GetPodKeeps, UpdatePodStatusKeeps, UpdateFailsKeeps,
     UndoDoneKeeps
  DEF AddStep
<1>4. ASSUME NEW c \in Sandbox, DelStep(c) PROVE Inv'
  BY <1>4, DelReadKeeps, DelTornKeeps, DelBaseKeeps, DelPodKeeps,
     ClearStatusKeeps, DelegateDelKeeps, DelDoneKeeps
  DEF DelStep
<1>5. ASSUME NEW c \in Sandbox,
             \/ CmdAdd(c) \/ DelegateAddFails(c) \/ BadResult(c)
             \/ CmdDel(c) \/ Crash(c) \/ NetnsGone(c)
      PROVE  Inv'
  BY <1>5, CmdAddKeeps, DelegateAddFailsKeeps, BadResultKeeps, CmdDelKeeps,
     CrashKeeps, NetnsGoneKeeps
<1> QED BY <1>1, <1>2, <1>3, <1>4, <1>5 DEF Next

LEMMA InvMeans ==
  Inv => /\ TypeOK /\ UndoComplete /\ StatusTrue
         /\ Sure => Recoverable /\ DelClean
<1> SUFFICES ASSUME Inv
             PROVE  /\ TypeOK /\ UndoComplete /\ StatusTrue
                    /\ Sure => Recoverable /\ DelClean
  OBVIOUS
<1>1. \A c \in Sandbox : Good(call[c], told[c], file[c], att[c]) BY DEF Inv
<1>2. TypeOK
  <2>1. \A c \in Sandbox : Typed(call[c], told[c], file[c]) BY <1>1 DEF Good
  <2> QED BY <2>1 DEF TypeOK, Typed, Led, Plain, Inv, Whole, Told
<1>3. UndoComplete BY <1>1, MadeNone DEF UndoComplete, Good, AddKnows
<1>4. Sure => Recoverable /\ DelClean
  BY <1>1 DEF Good, DelKnows, Found, Recoverable, DelClean
<1> QED BY <1>2, <1>3, <1>4 DEF Inv

THEOREM DelegatesInv == Spec => []Inv
BY InitInv, StepKeeps, PTL DEF Spec

(* The state of multus has its type: among the rest, a sandbox is being    *)
(* added exactly while an ADD is under way for it, the delegate an         *)
(* invocation is at is within its list, and no delegate in a file is the   *)
(* master.                                                                 *)
THEOREM DelegatesTypeCorrect == Spec => []TypeOK
BY DelegatesInv, InvMeans, PTL

(* An ADD that undoes what it did leaves nothing, whatever delegates fail  *)
(* and whenever plugins are killed.                                        *)
THEOREM UndoLeavesNothing == Spec => []UndoComplete
BY DelegatesInv, InvMeans, PTL

(* The status of a pod that is up is that of its present sandbox.          *)
THEOREM StatusStaysTrue == Spec => []StatusTrue
BY DelegatesInv, InvMeans, PTL

(* If delegates do not fail the DELs of the runtime, and can be called the *)
(* way they were added, the file of a sandbox has every delegate that has  *)
(* set up something for it.  (If one may fail, the file is removed all the *)
(* same.)                                                                  *)
THEOREM FileRecovers == ~DelFails /\ SameCalls => (Spec => []Recoverable)
<1> SUFFICES ASSUME ~DelFails, SameCalls PROVE Spec => []Recoverable OBVIOUS
<1>1. Inv => Recoverable BY InvMeans DEF Sure
<1> QED BY <1>1, DelegatesInv, PTL

(* Nor, then, is anything left of a sandbox the runtime is told is gone.   *)
THEOREM GoneIsClean == ~DelFails /\ SameCalls => (Spec => []DelClean)
<1> SUFFICES ASSUME ~DelFails, SameCalls PROVE Spec => []DelClean OBVIOUS
<1>1. Inv => DelClean BY InvMeans DEF Sure
<1> QED BY <1>1, DelegatesInv, PTL

-----------------------------------------------------------------------------
(* Devices.  What is needed of the cluster: kubelet gives a device to one  *)
(* container, under one resource, and the pods that choose a default       *)
(* network of their own do not choose a name for its interface, so that it *)
(* is the one DevicesDistinct leaves out.                                  *)

Resources == {Devices[i].resource : i \in DOMAIN Devices}

DevicesOnce ==
  \A r \in Resources :
    /\ IsList(DeviceIDs(r))
    /\ \A q \in Resources :
         \A i \in DOMAIN DeviceIDs(r), j \in DOMAIN DeviceIDs(q) :
           DeviceIDs(r)[i] = DeviceIDs(q)[j] => r = q /\ i = j

DefaultUnnamed ==
  \A p \in Pods : p.default # None =>
    /\ IsList(p.default.items)
    /\ \A i \in DOMAIN p.default.items :
         LET e == p.default.items[i]
         IN  e.ifname = None /\ (p.default.form = "json" => e.oldIfname = None)

(* No two delegates of a list from its n-th on have the same device.       *)
Apart(ds, n) ==
  \A i, j \in DOMAIN ds :
    i >= n /\ j >= n /\ ds[i].dev = ds[j].dev /\ ds[i].dev # None => i = j

(* A resource map, and a device that has been taken from it.               *)
Counts(M) == DOMAIN M \subseteq Resources /\ \A r \in DOMAIN M : M[r] \in Nat

Spent(dev, M) ==
  \E r \in DOMAIN M : \E k \in DOMAIN DeviceIDs(r) :
    k <= M[r] /\ dev = DeviceIDs(r)[k]

(* One device more is taken, or none.                                      *)
LEMMA DeviceTaken ==
  ASSUME DevicesOnce, NEW M, Counts(M), NEW r
  PROVE  LET t == TakeDevice(r, M)
         IN  /\ Counts(t.map)
             /\ t.dev # None => Spent(t.dev, t.map) /\ ~Spent(t.dev, M)
             /\ \A dev : Spent(dev, M) => Spent(dev, t.map)
<1>1. CASE ~(r \in DOMAIN M /\ M[r] < Len(DeviceIDs(r))) BY <1>1 DEF TakeDevice
<1>2. CASE r \in DOMAIN M /\ M[r] < Len(DeviceIDs(r))
  <2> PICK N : N = [M EXCEPT ![r] = @ + 1] OBVIOUS
  <2> PICK n : n = M[r] + 1 OBVIOUS
  <2> PICK dev : dev = DeviceIDs(r)[n] OBVIOUS
  <2> PICK t : t = TakeDevice(r, M) OBVIOUS
  <2>1. t.dev = dev /\ t.map = N BY <1>2 DEF TakeDevice
  <2>2. /\ DOMAIN N = DOMAIN M /\ N[r] = n /\ M[r] \in Nat
        /\ \A q \in DOMAIN M \ {r} : N[q] = M[q]
    BY <1>2 DEF Counts
  <2>3. Counts(N) BY <2>2 DEF Counts
  <2>4. r \in Resources /\ n \in DOMAIN DeviceIDs(r)
    <3>1. r \in Resources BY <1>2 DEF Counts
    <3>2. Len(DeviceIDs(r)) \in Nat /\ DOMAIN DeviceIDs(r) = 1..Len(DeviceIDs(r))
      BY <3>1, ListLen DEF DevicesOnce
    <3> QED BY <1>2, <2>2, <3>1, <3>2
  <2>5. Spent(dev, N) BY <1>2, <2>2, <2>4 DEF Spent
  <2>6. ~Spent(dev, M)
    <3>1. SUFFICES ASSUME NEW q \in DOMAIN M, NEW k \in DOMAIN DeviceIDs(q),
                          k <= M[q], dev = DeviceIDs(q)[k]
                   PROVE  FALSE
      BY DEF Spent
    <3>2. q \in Resources BY DEF Counts
    <3>3. DeviceIDs(r)[n] = DeviceIDs(q)[k] BY <3>1
    <3>4. r = q /\ n = k BY <2>4, <3>2, <3>3 DEF DevicesOnce
    <3> QED BY <2>2, <3>1, <3>4
  <2>7. ASSUME NEW e, Spent(e, M) PROVE Spent(e, N)
    <3>1. PICK q \in DOMAIN M : \E k \in DOMAIN DeviceIDs(q) :
                 k <= M[q] /\ e = DeviceIDs(q)[k]
      BY <2>7 DEF Spent
    <3>2. PICK k \in DOMAIN DeviceIDs(q) : k <= M[q] /\ e = DeviceIDs(q)[k] BY <3>1
    <3>3. k \in Nat /\ M[q] \in Nat
      <4>1. q \in Resources BY DEF Counts
      <4> QED BY <4>1, ListLen DEF DevicesOnce, Counts
    <3>4. k <= N[q] BY <2>2, <3>2, <3>3
    <3> QED BY <2>2, <3>2, <3>4 DEF Spent
  <2> QED BY <2>1, <2>3, <2>5, <2>6, <2>7
<1> QED BY <1>1, <1>2

(* A delegate of a selected network has the name that was asked for, and   *)
(* no device or one that had not been taken.                               *)
LEMMA KubernetesDelegateTakes ==
  ASSUME DevicesOnce, NEW nads, NEW sel, NEW M, Counts(M),
         GetKubernetesDelegate(nads, sel, M) # Failed
  PROVE  LET got == GetKubernetesDelegate(nads, sel, M)
             dev == got.delegate.dev
         IN  /\ got.delegate.ifname = sel.ifname
             /\ Counts(got.map)
             /\ dev # None => Spent(dev, got.map) /\ ~Spent(dev, M)
             /\ \A e : Spent(e, M) => Spent(e, got.map)
<1> PICK nad : nad = nads[<<sel.ns, sel.name>>] OBVIOUS
<1> PICK N : N = IF M = NoMap THEN NewResourceMap ELSE M OBVIOUS
<1> PICK taken : taken = IF nad.resource = None THEN [dev |-> None, map |-> M]
                         ELSE TakeDevice(nad.resource, N)
  OBVIOUS
<1> PICK d : d = LoadDelegateNetConf(CniConfigFromNetworkResource(nad, sel.name),
                                     sel, taken.dev)
  OBVIOUS
<1>1. GetKubernetesDelegate(nads, sel, M) = [delegate |-> d, map |-> taken.map]
      /\ d # Failed
  BY DEF GetKubernetesDelegate
<1>2. d.dev = taken.dev /\ d.ifname = sel.ifname BY <1>1 DEF LoadDelegateNetConf
<1>3. Counts(N) BY DEF Counts, NewResourceMap, Resources
<1>4. \A e : Spent(e, M) => Spent(e, N)
  <2>1. DOMAIN NoMap = {} BY DEF NoMap
  <2> QED BY <2>1 DEF Spent
<1>5. /\ Counts(taken.map)
      /\ taken.dev # None => Spent(taken.dev, taken.map) /\ ~Spent(taken.dev, M)
      /\ \A e : Spent(e, M) => Spent(e, taken.map)
  <2>1. CASE nad.resource = None BY <2>1
  <2>2. CASE nad.resource # None
    <3>1. taken = TakeDevice(nad.resource, N) BY <2>2
    <3> QED BY <1>3, <1>4, <3>1, DeviceTaken
  <2> QED BY <2>1, <2>2
<1>6. PICK got : got = GetKubernetesDelegate(nads, sel, M) OBVIOUS
<1>7. got.delegate = d /\ got.map = taken.map BY <1>1, <1>6
<1> QED BY <1>2, <1>5, <1>6, <1>7

(* The loop over the selected networks: after every turn the devices given *)
(* out are apart, and are gone from the map of the next turn.              *)
Shared(s, M) ==
  /\ IsList(s) /\ Apart(s, 1) /\ Counts(M)
  /\ \A i \in DOMAIN s : s[i].dev # None => Spent(s[i].dev, M)

LEMMA ApartAppended ==
  ASSUME NEW s, NEW t, NEW n, NEW d, DOMAIN t = DOMAIN s \cup {n}, t[n] = d,
         \A i \in DOMAIN s : t[i] = s[i], Apart(s, 1),
         \A k \in DOMAIN s : t[k].dev # None => t[k].dev # d.dev
  PROVE  Apart(t, 1)
<1>1. ASSUME NEW i \in DOMAIN t, NEW j \in DOMAIN t, i >= 1, j >= 1,
             t[i].dev = t[j].dev, t[i].dev # None
      PROVE  i = j
  <2>1. CASE i \in DOMAIN s /\ j \in DOMAIN s
    <3>1. s[i].dev = s[j].dev /\ s[i].dev # None BY <1>1, <2>1
    <3> QED BY <1>1, <2>1, <3>1 DEF Apart
  <2>2. CASE i \in DOMAIN s /\ j = n BY <1>1, <2>2
  <2>3. CASE j \in DOMAIN s /\ i = n BY <1>1, <2>3
  <2> QED BY <2>1, <2>2, <2>3
<1> QED BY <1>1 DEF Apart

LEMMA SharedAppended ==
  ASSUME NEW s, NEW M, Shared(s, M), NEW N, Counts(N),
         \A e : Spent(e, M) => Spent(e, N),
         NEW d, d.dev # None => Spent(d.dev, N) /\ ~Spent(d.dev, M)
  PROVE  Shared(Append(s, d), N)
<1>1. IsList(s) /\ Len(s) \in Nat /\ DOMAIN s = 1..Len(s) BY ListLen DEF Shared
<1>2. PICK t : t = Append(s, d) OBVIOUS
<1>3. /\ IsList(t) /\ Len(t) = Len(s) + 1 /\ t[Len(s) + 1] = d
      /\ \A i \in 1..Len(s) : t[i] = s[i]
  BY <1>1, <1>2, ListAppended
<1>4. PICK n : n = Len(s) + 1 OBVIOUS
<1>5. DOMAIN t = DOMAIN s \cup {n} /\ t[n] = d
  <2>1. DOMAIN t = 1..(Len(s) + 1) BY <1>3, ListLen
  <2> QED BY <1>1, <1>3, <1>4, <2>1
<1>6. \A i \in DOMAIN s : t[i] = s[i] BY <1>1, <1>3
<1>7. \A i \in DOMAIN s : s[i].dev # None => Spent(s[i].dev, M) BY DEF Shared
<1>8. \A k \in DOMAIN s : t[k].dev # None => t[k].dev # d.dev
  BY <1>6, <1>7
<1>9. Apart(s, 1) BY DEF Shared
<1>10. Apart(t, 1) BY <1>5, <1>6, <1>8, <1>9, ApartAppended
<1>11. \A i \in DOMAIN t : t[i].dev # None => Spent(t[i].dev, N)
  BY <1>5, <1>6, <1>7
<1>12. Shared(t, N) BY <1>3, <1>10, <1>11 DEF Shared
<1> QED BY <1>2, <1>12

LEMMA NetworksApart ==
  ASSUME DevicesOnce, NEW nads, NEW podNs, NEW sels, Len(sels) \in Nat,
         GetNetworkDelegates(nads, sels, podNs) # Failed
  PROVE  Apart(GetNetworkDelegates(nads, sels, podNs), 1)
<1> DEFINE n == Len(sels)
<1>1. PICK g : /\ Turns(nads, podNs, sels, n, g)
               /\ GetNetworkDelegates(nads, sels, podNs) = g[n].delegates
  BY TurnsTaken
<1> DEFINE Bad == {m \in 0..n : /\ g[m].delegates # Failed
                                /\ ~Shared(g[m].delegates, g[m].map)}
<1>2. SUFFICES ASSUME Bad # {} PROVE FALSE
  <2>1. n \in 0..n OBVIOUS
  <2> QED BY <1>1, <2>1 DEF Shared
<1>3. PICK m \in Bad : \A k \in Bad : m <= k
  <2>1. Bad \in SUBSET Nat OBVIOUS
  <2> QED BY <1>2, <2>1, LeastNat
<1>4. CASE m = 0
  <2>1. g[0] = [delegates |-> << >>, map |-> NoMap] BY <1>1, <1>4 DEF Turns
  <2>2. DOMAIN << >> = {} OBVIOUS
  <2>3. Shared(<< >>, NoMap) BY <2>2, EmptyList DEF Shared, Apart, Counts, NoMap
  <2> QED BY <1>4, <2>1, <2>3
<1>5. CASE m # 0
  <2>1. m - 1 \in 0..n /\ m - 1 \notin Bad BY <1>3, <1>5
  <2>2. g[m] = AddNetwork(nads, podNs, sels[m], g[m - 1]) BY <1>1, <1>5 DEF Turns
  <2> PICK s : s = g[m - 1].delegates OBVIOUS
  <2> PICK M : M = g[m - 1].map OBVIOUS
  <2> PICK got : got = GetKubernetesDelegate(nads, sels[m], M) OBVIOUS
  <2> PICK d : d = got.delegate OBVIOUS
  <2>3. /\ s # Failed /\ got # Failed
        /\ g[m].delegates = Append(s, d) /\ g[m].map = got.map
    BY <2>2 DEF AddNetwork
  <2>4. Shared(s, M) BY <2>1, <2>3
  <2>5. /\ Counts(got.map)
        /\ d.dev # None => Spent(d.dev, got.map) /\ ~Spent(d.dev, M)
        /\ \A e : Spent(e, M) => Spent(e, got.map)
    BY <2>3, <2>4, KubernetesDelegateTakes DEF Shared
  <2>6. Shared(Append(s, d), got.map) BY <2>4, <2>5, SharedAppended
  <2> QED BY <2>3, <2>6
<1> QED BY <1>4, <1>5

(* The delegates before the pod is looked at have no device and no name of *)
(* their own.                                                              *)
Bare(ds) == \A i \in DOMAIN ds : ds[i].dev = None /\ ds[i].ifname = None

LEMMA BareMastered ==
  ASSUME NEW ds, Plain(ds), Bare(ds)
  PROVE  Bare(FirstIsMaster(ds))
<1>1. Len(FirstIsMaster(ds)) = Len(ds) /\ Led(FirstIsMaster(ds)) BY FirstMastered
<1>2. DOMAIN FirstIsMaster(ds) = DOMAIN ds BY <1>1, ListLen DEF Led, Plain
<1> QED BY <1>2, FirstMastered DEF Bare

LEMMA BaseBare ==
  ASSUME NEW nads, NEW podNs, BaseDelegates(nads, podNs) # Failed
  PROVE  Bare(BaseDelegates(nads, podNs))
<1>1. CASE Conf.clusterNetwork = None
  <2> PICK ds : ds = [i \in DOMAIN Conf.delegates |->
                        LoadDelegateNetConf(Conf.delegates[i], NoSelection, None)]
    OBVIOUS
  <2>1. BaseDelegates(nads, podNs) = FirstIsMaster(ds) /\ Failed \notin ToSet(ds)
    BY <1>1 DEF BaseDelegates, LoadNetConf
  <2>2. \A i \in DOMAIN ds : ds[i] # Failed BY <2>1 DEF ToSet
  <2>3. IsList(ds) BY ListMapped, PodNetsAssumption
  <2>4. Plain(ds) BY <2>2, <2>3, ConfLoaded DEF Plain
  <2>5. Bare(ds) BY <2>2 DEF Bare, LoadDelegateNetConf, NoSelection
  <2> QED BY <2>1, <2>4, <2>5, BareMastered
<1>2. CASE Conf.clusterNetwork # None
  <2> PICK names : names = <<Conf.clusterNetwork>> \o
                     (IF CheckSystemNamespaces(podNs) THEN << >> ELSE Conf.defaultNetworks)
    OBVIOUS
  <2> PICK ds : ds = [i \in DOMAIN names |-> GetNetDelegate(nads, names[i])] OBVIOUS
  <2>1. BaseDelegates(nads, podNs) = FirstIsMaster(ds) /\ Failed \notin ToSet(ds)
    BY <1>2 DEF BaseDelegates, GetDefaultNetworks
  <2>2. \A i \in DOMAIN ds : ds[i] # Failed BY <2>1 DEF ToSet
  <2>3. Led(FirstIsMaster(ds)) BY <2>1, BaseLed
  <2>4. ASSUME NEW i \in DOMAIN ds PROVE ds[i].dev = None /\ ds[i].ifname = None
    <3>1. PICK conf : ds[i] = LoadDelegateNetConf(conf, NoSelection, None)
      BY DEF GetNetDelegate
    <3>2. LoadDelegateNetConf(conf, NoSelection, None) # Failed BY <2>2, <3>1
    <3>3. /\ LoadDelegateNetConf(conf, NoSelection, None).dev = None
          /\ LoadDelegateNetConf(conf, NoSelection, None).ifname = None
      BY <3>2 DEF LoadDelegateNetConf, NoSelection
    <3> QED BY <3>1, <3>3
  <2>5. FirstIsMaster(ds) = IF ds = << >> THEN ds
                            ELSE [ds EXCEPT ![1] = AsMaster(@)]
    BY DEF FirstIsMaster
  <2>6. \A i \in DOMAIN ds : IsDelegate(ds[i]) BY <2>2, NetDelegateLoaded
  <2> PICK t : t = FirstIsMaster(ds) OBVIOUS
  <2>7. /\ DOMAIN t = DOMAIN ds
        /\ \A i \in DOMAIN ds : t[i] = ds[i] \/ t[i] = AsMaster(ds[i])
    <3>1. CASE ds = << >> BY <2>5, <3>1
    <3>2. CASE ds # << >> BY <2>5, <3>2
    <3> QED BY <3>1, <3>2
  <2>8. ASSUME NEW i \in DOMAIN t PROVE t[i].dev = None /\ t[i].ifname = None
    <3> PICK d : d = ds[i] OBVIOUS
    <3>1. d.dev = None /\ d.ifname = None BY <2>4, <2>7
    <3>2. IsDelegate(d) BY <2>6, <2>7
    <3>3. AsMaster(d).dev = None /\ AsMaster(d).ifname = None BY <3>1, <3>2, Mastered
    <3>4. t[i] = d \/ t[i] = AsMaster(d) BY <2>7
    <3> QED BY <3>1, <3>3, <3>4
  <2>9. Bare(t) BY <2>8 DEF Bare
  <2> QED BY <2>1, <2>9
<1> QED BY <1>1, <1>2

(* The delegates of a pod: the master has the name the runtime passed, and *)
(* of those after it no two have the same device.                          *)
Dealt(ds) == Apart(ds, 2) /\ \A i \in DOMAIN ds : i = 1 => ds[i].ifname = None

LEMMA DefaultBare ==
  ASSUME DevicesOnce, DefaultUnnamed, NEW nads, NEW p \in Pods, p.default # None,
         TryLoadK8sPodDefaultNetwork(nads, p) # Failed
  PROVE  TryLoadK8sPodDefaultNetwork(nads, p).ifname = None
<1> PICK sels : sels = Selections(p.default, Conf.multusNamespace) OBVIOUS
<1> PICK got : got = GetKubernetesDelegate(nads, sels[1], NoMap) OBVIOUS
<1>1. /\ got # Failed /\ sels # Failed /\ Len(sels) = 1
      /\ TryLoadK8sPodDefaultNetwork(nads, p) = AsMaster(got.delegate)
  BY DEF TryLoadK8sPodDefaultNetwork
<1>2. Counts(NoMap)
  <2>1. DOMAIN NoMap = {} BY DEF NoMap
  <2> QED BY <2>1 DEF Counts
<1>3. got.delegate.ifname = sels[1].ifname /\ IsDelegate(got.delegate)
  <2>1. IsDelegate(got.delegate) BY <1>1, ConfLoaded DEF GetKubernetesDelegate
  <2>2. got.delegate.ifname = sels[1].ifname BY <1>1, <1>2, KubernetesDelegateTakes
  <2> QED BY <2>1, <2>2
<1>4. sels[1].ifname = None
  <2> PICK items : items = p.default.items OBVIOUS
  <2>1. /\ sels = [i \in DOMAIN items |-> sels[i]]
        /\ \A i \in DOMAIN items :
             sels[i].ifname = IF p.default.form = "json" /\ items[i].ifname = None
                              THEN items[i].oldIfname ELSE items[i].ifname
    BY <1>1 DEF Selections
  <2>2. 1 \in DOMAIN sels
    <3>1. IsList(sels) BY <2>1, ListMapped DEF DefaultUnnamed
    <3> QED BY <1>1, <3>1, ListLen
  <2>3. 1 \in DOMAIN items /\ items[1].ifname = None /\ (p.default.form = "json" => items[1].oldIfname = None)
    BY <2>1, <2>2 DEF DefaultUnnamed
  <2>4. sels[1].ifname = IF p.default.form = "json" /\ items[1].ifname = None
                         THEN items[1].oldIfname ELSE items[1].ifname
    BY <2>1, <2>3
  <2> QED BY <2>3, <2>4
<1> QED BY <1>1, <1>3, <1>4, Mastered

LEMMA PodDealt ==
  ASSUME DevicesOnce, DefaultUnnamed, NEW nads, NEW p \in Pods \cup {None},
         NEW base, Led(base), base # << >>, Bare(base)
  PROVE  Dealt(TryLoadPodDelegates(nads, p, base).delegates)
<1> DEFINE r == TryLoadPodDelegates(nads, p, base).delegates
<1> PICK main : main = TryLoadK8sPodDefaultNetwork(nads, p) OBVIOUS
<1> PICK first : first = IF p.default = None THEN base ELSE [base EXCEPT ![1] = main] OBVIOUS
<1> PICK sels : sels = Selections(p.nets, p.ns) OBVIOUS
<1> PICK ds : ds = GetNetworkDelegates(nads, sels, p.ns) OBVIOUS
<1>1. \/ r = base
      \/ r = first /\ p # None /\ (p.default # None => main # Failed)
      \/ /\ r = first \o ds /\ (p.default # None => main # Failed)
         /\ p # None /\ sels # Failed /\ ds # Failed
  BY DEF TryLoadPodDelegates
<1>2. Len(base) \in Nat \ {0} /\ DOMAIN base = 1..Len(base)
  BY ListLen DEF Led, IsList
<1>3. Dealt(base) BY DEF Dealt, Bare, Apart
<1>4. ASSUME p # None, p.default # None => main # Failed
      PROVE  /\ IsList(first) /\ Len(first) = Len(base) /\ DOMAIN first = DOMAIN base
             /\ first[1].ifname = None
             /\ \A i \in DOMAIN base \ {1} : first[i].dev = None
  <2>1. CASE p.default = None BY <1>2, <2>1 DEF Bare, Led
  <2>2. CASE p.default # None
    <3>1. main.ifname = None BY <1>4, <2>2, DefaultBare
    <3>2. first = [i \in DOMAIN base |-> IF i = 1 THEN main ELSE base[i]] BY <1>2, <2>2
    <3>3. IsList(first) /\ Len(first) = Len(base) /\ DOMAIN first = DOMAIN base
      BY <3>2, ListMapped DEF Led
    <3> QED BY <1>2, <3>1, <3>2, <3>3 DEF Bare
  <2> QED BY <2>1, <2>2
<1>5. CASE r = first /\ p # None /\ (p.default # None => main # Failed)
  BY <1>2, <1>4, <1>5 DEF Dealt, Apart
<1>6. CASE /\ r = first \o ds /\ (p.default # None => main # Failed)
           /\ p # None /\ sels # Failed /\ ds # Failed
  <2>1. Len(sels) \in Nat
    <3>1. p \in Pods /\ p.nets # None BY <1>6 DEF Selections
    <3>2. IsList(p.nets.items) BY <3>1, DelegatesAssumption
    <3>3. sels = [i \in DOMAIN p.nets.items |-> sels[i]] BY <1>6 DEF Selections
    <3>4. IsList(sels) BY <3>2, <3>3, ListMapped
    <3> QED BY <3>4, ListLen
  <2>2. Plain(ds) /\ Apart(ds, 1) BY <1>6, <2>1, NetworksPlain, NetworksApart
  <2> PICK t : t = first \o ds OBVIOUS
  <2>3. /\ IsList(t) /\ Len(t) = Len(first) + Len(ds)
        /\ \A i \in 1..Len(t) : t[i] = IF i <= Len(first) THEN first[i] ELSE ds[i - Len(first)]
    BY <1>4, <1>6, <2>2, ListJoined DEF Plain
  <2>4. /\ DOMAIN t = 1..Len(t) /\ DOMAIN first = 1..Len(first) /\ DOMAIN ds = 1..Len(ds)
        /\ Len(t) \in Nat /\ Len(ds) \in Nat /\ Len(first) \in Nat \ {0}
    BY <1>2, <1>4, <1>6, <2>2, <2>3, ListLen DEF Plain
  <2>5. t[1].ifname = None BY <1>4, <1>6, <2>3, <2>4
  <2>6. \A i \in DOMAIN t : i # 1 /\ i <= Len(first) => t[i].dev = None
    BY <1>2, <1>4, <1>6, <2>3, <2>4
  <2>7. \A i \in DOMAIN t : i > Len(first) =>
          i - Len(first) \in DOMAIN ds /\ t[i] = ds[i - Len(first)]
    BY <2>3, <2>4
  <2>8. ASSUME NEW i \in DOMAIN t, NEW j \in DOMAIN t, i >= 2, j >= 2,
               t[i].dev = t[j].dev, t[i].dev # None
        PROVE  i = j
    <3>1. i > Len(first) /\ j > Len(first) BY <2>4, <2>6, <2>8
    <3> PICK a : a = i - Len(first) OBVIOUS
    <3> PICK b : b = j - Len(first) OBVIOUS
    <3>2. /\ a \in DOMAIN ds /\ b \in DOMAIN ds
          /\ ds[a].dev = ds[b].dev /\ ds[a].dev # None
      BY <2>7, <2>8, <3>1
    <3>3. a >= 1 /\ b >= 1 BY <2>4, <3>2
    <3>4. a = b BY <2>2, <3>2, <3>3 DEF Apart
    <3> QED BY <2>4, <3>4
  <2>9. Dealt(t) BY <2>5, <2>8 DEF Dealt, Apart
  <2> QED BY <1>6, <2>9
<1> QED BY <1>1, <1>3, <1>5, <1>6

-----------------------------------------------------------------------------
(* What an invocation of ADD has dealt, and what it has set up with it.    *)

Alike(a) ==
  \A x, y \in {e \in a : e.ifname # IfName} : x.dev = y.dev /\ x.dev # None => x = y

Deals(k, a) ==
  /\ k.pc = "addPod" => Bare(k.ds)
  /\ k.pc \in {"save", "add"} => Dealt(k.ds)
  /\ Alike(a)

DeviceInv == \A c \in Sandbox : Deals(call[c], att[c])

LEMMA MadeAlike ==
  ASSUME NEW ds, Led(ds), Dealt(ds), NEW n \in 0..Len(ds)
  PROVE  Alike(Made(ds, n))
<1>1. SUFFICES ASSUME NEW i \in 1..n, NEW j \in 1..n,
                      Attachment(ds[i], i).ifname # IfName,
                      Attachment(ds[j], j).ifname # IfName,
                      ds[i].dev = ds[j].dev, ds[i].dev # None
               PROVE  i = j
  BY DEF Alike, Made, Attachment
<1>2. i \in DOMAIN ds /\ j \in DOMAIN ds /\ i \in Nat /\ j \in Nat BY LedLen
<1>3. i # 1 /\ j # 1
  BY <1>1, <1>2 DEF Attachment, GetIfname, Dealt, Led
<1> QED BY <1>1, <1>2, <1>3 DEF Dealt, Apart

(* A step of a sandbox that sets up nothing and deals nothing.             *)
Deal(k, l) ==
  \/ l.pc \notin {"addPod", "save", "add"}
  \/ l.ds = k.ds /\ (l.pc = k.pc \/ (k.pc = "save" /\ l.pc = "add"))

LEMMA NothingDealt ==
  ASSUME DeviceInv,
         \A d \in Sandbox : Deal(call[d], call'[d]) /\ att'[d] \subseteq att[d]
  PROVE  DeviceInv'
<1>1. ASSUME NEW d \in Sandbox PROVE Deals(call'[d], att'[d])
  <2>1. Deals(call[d], att[d]) BY DEF DeviceInv
  <2>2. Deal(call[d], call'[d]) /\ att'[d] \subseteq att[d] OBVIOUS
  <2>3. Alike(att'[d]) BY <2>1, <2>2 DEF Deals, Alike
  <2> QED BY <2>1, <2>2, <2>3 DEF Deals, Deal
<1> QED BY <1>1 DEF DeviceInv

LEMMA SameDeal == \A k : Deal(k, k) /\ \A l : l.pc = k.pc /\ l.ds = k.ds => Deal(k, l)
BY DEF Deal

LEMMA FinishDeals ==
  ASSUME Inv, DeviceInv, NEW c \in Sandbox, NEW answer, Finish(c, answer), UNCHANGED att
  PROVE  DeviceInv'
<1>1. \A d \in Sandbox : call'[d] = IF d = c THEN Idle ELSE call[d]
  BY DEF Finish, Inv, Whole
<1>2. Idle.pc \notin {"addPod", "save", "add"} BY DEF Idle
<1> QED BY <1>1, <1>2, SameDeal, NothingDealt DEF Deal

(* One invocation goes on, the others are as they were.                    *)
LEMMA OneDeals ==
  ASSUME Inv, DeviceInv, NEW c \in Sandbox, NEW l, Deal(call[c], l),
         call' = [call EXCEPT ![c] = l],
         att' = att \/ att' = Undone(c)
  PROVE  DeviceInv'
<1>1. \A d \in Sandbox : call'[d] = IF d = c THEN l ELSE call[d] BY DEF Inv, Whole
<1>2. \A d \in Sandbox : att'[d] \subseteq att[d] BY DEF Undone, Inv, Whole
<1> QED BY <1>1, <1>2, SameDeal, NothingDealt

LEMMA PodWrittenDeals ==
  ASSUME Inv, NEW d \in Sandbox
  PROVE  Deal(call[d], PodWritten[d])
<1>1. PodWritten[d].pc = call[d].pc /\ PodWritten[d].ds = call[d].ds
  BY DEF PodWritten, Inv, Good, Typed, Idle
<1> QED BY <1>1, SameDeal

LEMMA QuietDeals ==
  ASSUME Inv, DeviceInv, NEW c \in Sandbox,
         \/ CmdAdd(c) \/ SaveDelegates(c) \/ BadResult(c) \/ AddsDone(c)
         \/ GetPod(c) \/ UpdateFails(c) \/ UndoDone(c) \/ CmdDel(c)
         \/ DelRead(c) \/ DelTorn(c) \/ DelBase(c) \/ DelPod(c)
         \/ DelegateDel(c) \/ DelDone(c) \/ Crash(c) \/ NetnsGone(c)
  PROVE  DeviceInv'
<1> PICK k : k = call[c] OBVIOUS
<1>1. DOMAIN k = DOMAIN Idle /\ DOMAIN call = Sandbox BY DEF Inv, Whole, Good, Typed
<1>3. CASE \/ BadResult(c) \/ UpdateFails(c) \/ UndoDone(c) \/ DelTorn(c)
           \/ DelDone(c) \/ Crash(c)
  <2>1. (\E answer : Finish(c, answer)) /\ UNCHANGED att
    BY <1>3 DEF BadResult, UpdateFails, UndoDone, DelTorn, DelDone, Crash
  <2> QED BY <2>1, FinishDeals
<1>4. CASE NetnsGone(c)
  <2>1. UNCHANGED <<call, att>> BY <1>4 DEF NetnsGone
  <2> QED BY <2>1, SameDeal, NothingDealt
<1>5. CASE CmdAdd(c)
  <2>1. call' = [call EXCEPT ![c] = [k EXCEPT !.pc = "addBase"]] /\ UNCHANGED att
    BY <1>5 DEF CmdAdd, Goto
  <2>2. Deal(k, [k EXCEPT !.pc = "addBase"]) BY <1>1 DEF Deal, Idle
  <2> QED BY <2>1, <2>2, OneDeals
<1>6. CASE SaveDelegates(c)
  <2>1. /\ call' = [call EXCEPT ![c] = [k EXCEPT !.pc = "add", !.i = 1]]
        /\ k.pc = "save" /\ UNCHANGED att
    BY <1>6 DEF SaveDelegates
  <2>2. Deal(k, [k EXCEPT !.pc = "add", !.i = 1]) BY <1>1, <2>1 DEF Deal, Idle
  <2> QED BY <2>1, <2>2, OneDeals
<1>7. CASE AddsDone(c)
  <2>1. UNCHANGED att /\ \/ call' = [call EXCEPT ![c] = [k EXCEPT !.pc = "getPod"]]
                         \/ \E answer : Finish(c, answer)
    BY <1>7 DEF AddsDone, Goto
  <2>2. Deal(k, [k EXCEPT !.pc = "getPod"]) BY <1>1 DEF Deal, Idle
  <2> QED BY <2>1, <2>2, OneDeals, FinishDeals
<1>8. CASE GetPod(c)
  <2>1. UNCHANGED att /\ \/ call' = [call EXCEPT ![c] = [k EXCEPT !.pc = "update", !.fresh = TRUE]]
                         \/ \E answer : Finish(c, answer)
    BY <1>8 DEF GetPod
  <2>2. Deal(k, [k EXCEPT !.pc = "update", !.fresh = TRUE]) BY <1>1 DEF Deal, Idle
  <2> QED BY <2>1, <2>2, OneDeals, FinishDeals
<1>9. CASE CmdDel(c)
  <2>1. /\ call' = [call EXCEPT ![c] = [k EXCEPT !.pc = "read", !.netns = c \in netns]]
        /\ UNCHANGED att
    BY <1>9 DEF CmdDel
  <2>2. Deal(k, [k EXCEPT !.pc = "read", !.netns = c \in netns]) BY <1>1 DEF Deal, Idle
  <2> QED BY <2>1, <2>2, OneDeals
<1>10. CASE DelRead(c)
  <2> PICK ds : ds = Versioned(Loaded(file[c].ds)) OBVIOUS
  <2> PICK l : l = [k EXCEPT !.pc = "clear", !.ds = ds, !.i = Len(ds), !.consumed = TRUE]
    OBVIOUS
  <2>1. call' = [call EXCEPT ![c] = l] /\ UNCHANGED att BY <1>10 DEF DelRead
  <2>2. l.pc = "clear" BY <1>1 DEF Idle
  <2> QED BY <2>1, <2>2, OneDeals DEF Deal
<1>11. CASE DelBase(c)
  <2>1. UNCHANGED att /\ \/ \E ds : call' = [call EXCEPT ![c] = [k EXCEPT !.pc = "readPod", !.ds = ds]]
                         \/ \E answer : Finish(c, answer)
    BY <1>11 DEF DelBase
  <2>2. \A ds : Deal(k, [k EXCEPT !.pc = "readPod", !.ds = ds]) BY <1>1 DEF Deal, Idle
  <2> QED BY <2>1, <2>2, OneDeals, FinishDeals
<1>12. CASE DelPod(c)
  <2>1. UNCHANGED att /\ \E ds : call' = [call EXCEPT ![c] =
                                   [k EXCEPT !.pc = "clear", !.ds = ds, !.i = Len(ds)]]
    BY <1>12 DEF DelPod
  <2>2. \A ds : Deal(k, [k EXCEPT !.pc = "clear", !.ds = ds, !.i = Len(ds)])
    BY <1>1 DEF Deal, Idle
  <2> QED BY <2>1, <2>2, OneDeals
<1>13. CASE DelegateDel(c)
  <2>1. /\ att' = att \/ att' = Undone(c)
        /\ \/ call' = [call EXCEPT ![c] = [k EXCEPT !.i = @ - 1]]
           \/ call' = [call EXCEPT ![c] = [k EXCEPT !.i = @ - 1, !.err = TRUE]]
    BY <1>13 DEF DelegateDel
  <2>2. Deal(k, [k EXCEPT !.i = @ - 1]) /\ Deal(k, [k EXCEPT !.i = @ - 1, !.err = TRUE])
    BY <1>1 DEF Deal, Idle
  <2> QED BY <2>1, <2>2, OneDeals
<1> QED BY <1>3, <1>4, <1>5, <1>6, <1>7, <1>8, <1>9, <1>10, <1>11, <1>12, <1>13

LEMMA WrittenDeals ==
  ASSUME Inv, DeviceInv, UNCHANGED att,
         \/ PodChanges \/ \E c \in Sandbox : UpdatePodStatus(c) \/ ClearStatus(c)
  PROVE  DeviceInv'
<1>1. ASSUME NEW c \in Sandbox, NEW l, Deal(call[c], l), call' = [PodWritten EXCEPT ![c] = l]
      PROVE  DeviceInv'
  <2>1. \A d \in Sandbox : call'[d] = IF d = c THEN l ELSE PodWritten[d]
    BY <1>1 DEF PodWritten
  <2> QED BY <1>1, <2>1, PodWrittenDeals, NothingDealt
<1>2. CASE PodChanges
  <2>1. call' = PodWritten BY <1>2 DEF PodChanges
  <2> QED BY <2>1, PodWrittenDeals, NothingDealt
<1>3. ASSUME NEW c \in Sandbox, UpdatePodStatus(c) PROVE DeviceInv'
  <2>1. call' = [PodWritten EXCEPT ![c] = Idle] BY <1>3 DEF UpdatePodStatus
  <2>2. Deal(call[c], Idle) BY DEF Deal, Idle
  <2> QED BY <1>1, <2>1, <2>2
<1>4. ASSUME NEW c \in Sandbox, ClearStatus(c) PROVE DeviceInv'
  <2> PICK k : k = call[c] OBVIOUS
  <2>1. DOMAIN k = DOMAIN Idle /\ DOMAIN call = Sandbox BY DEF Inv, Whole, Good, Typed
  <2>2. Deal(k, [k EXCEPT !.pc = "del"]) /\ Deal(k, [PodWritten[c] EXCEPT !.pc = "del"])
    BY <2>1 DEF Deal, Idle, PodWritten
  <2>3. \/ call' = [call EXCEPT ![c] = [k EXCEPT !.pc = "del"]]
        \/ call' = [PodWritten EXCEPT ![c] = [PodWritten[c] EXCEPT !.pc = "del"]]
    BY <1>4 DEF ClearStatus, Goto
  <2> QED BY <1>1, <2>2, <2>3, OneDeals
<1> QED BY <1>2, <1>3, <1>4

LEMMA AddBaseDeals ==
  ASSUME Inv, DeviceInv, NEW c \in Sandbox, AddBase(c)
  PROVE  DeviceInv'
<1> PICK k : k = call[c] OBVIOUS
<1>1. DOMAIN k = DOMAIN Idle /\ DOMAIN call = Sandbox BY DEF Inv, Whole, Good, Typed
<1>2. UNCHANGED att BY DEF AddBase
<1>3. PICK nads \in NADsSeen :
        LET ds == BaseDelegates(nads, PodNs) IN
        IF ds = Failed THEN Finish(c, "failed")
        ELSE call' = [call EXCEPT ![c].pc = "addPod", ![c].ds = ds]
  BY DEF AddBase
<1> PICK ds : ds = BaseDelegates(nads, PodNs) OBVIOUS
<1>4. CASE ds = Failed BY <1>2, <1>3, <1>4, FinishDeals
<1>5. CASE ds # Failed
  <2> PICK l : l = [k EXCEPT !.pc = "addPod", !.ds = ds] OBVIOUS
  <2>1. \A d \in Sandbox : call'[d] = IF d = c THEN l ELSE call[d]
    BY <1>1, <1>3, <1>5
  <2>2. l.pc = "addPod" /\ l.ds = ds BY <1>1 DEF Idle
  <2>3. Bare(ds) BY <1>5, BaseBare
  <2>4. Deals(l, att[c]) BY <2>2, <2>3 DEF Deals, DeviceInv
  <2> QED BY <1>2, <2>1, <2>4 DEF DeviceInv
<1> QED BY <1>4, <1>5

LEMMA AddPodDeals ==
  ASSUME DevicesOnce, DefaultUnnamed, Inv, DeviceInv, NEW c \in Sandbox, AddPod(c)
  PROVE  DeviceInv'
<1> PICK k : k = call[c] OBVIOUS
<1>1. /\ DOMAIN k = DOMAIN Idle /\ DOMAIN call = Sandbox
      /\ Led(k.ds) /\ Placed(k)
  BY DEF Inv, Whole, Good, Typed
<1>2. UNCHANGED att /\ k.pc = "addPod" BY DEF AddPod
<1>3. PICK up \in Answers, nads \in NADsSeen :
        LET got == TryLoadPodDelegates(nads, PodRead(up), k.ds) IN
        IF ~got.ok THEN Finish(c, "failed")
        ELSE call' = [call EXCEPT ![c].pc = "save", ![c].ds = got.delegates,
                                  ![c].client = got.client]
  BY DEF AddPod
<1> PICK got : got = TryLoadPodDelegates(nads, PodRead(up), k.ds) OBVIOUS
<1>4. CASE ~got.ok BY <1>2, <1>3, <1>4, FinishDeals
<1>5. CASE got.ok
  <2> PICK l : l = [k EXCEPT !.pc = "save", !.ds = got.delegates, !.client = got.client]
    OBVIOUS
  <2>1. \A d \in Sandbox : call'[d] = IF d = c THEN l ELSE call[d]
    BY <1>1, <1>3, <1>5
  <2>2. l.pc = "save" /\ l.ds = got.delegates BY <1>1 DEF Idle
  <2>3. k.ds # << >> /\ Bare(k.ds) BY <1>1, <1>2 DEF Placed, DeviceInv, Deals
  <2>4. PodRead(up) \in Pods \cup {None} BY DEF PodRead, Inv, Whole
  <2>5. Dealt(got.delegates) BY <1>1, <2>3, <2>4, PodDealt
  <2>6. Deals(l, att[c]) BY <2>2, <2>5 DEF Deals, DeviceInv
  <2> QED BY <1>2, <2>1, <2>6 DEF DeviceInv
<1> QED BY <1>4, <1>5

(* A delegate sets up the next of what was dealt; or fails, and may have.  *)
LEMMA DelegateAddDeals ==
  ASSUME Inv, DeviceInv, NEW c \in Sandbox, DelegateAdd(c) \/ DelegateAddFails(c)
  PROVE  DeviceInv'
<1> PICK k : k = call[c] OBVIOUS
<1>1. /\ DOMAIN k = DOMAIN Idle /\ DOMAIN call = Sandbox /\ DOMAIN att = Sandbox
      /\ Led(k.ds) /\ k.i \in 0..(Len(k.ds) + 1) /\ Placed(k)
      /\ AddKnows(k, told[c], file[c], att[c])
  BY DEF Inv, Whole, Good, Typed
<1>2. k.pc = "add" /\ k.i <= Len(k.ds) BY DEF DelegateAdd, DelegateAddFails
<1>3. Len(k.ds) \in Nat /\ k.i \in 1..Len(k.ds)
  BY <1>1, <1>2, LedLen DEF Placed
<1>4. att[c] \cup {Wanted(c)} = Made(k.ds, k.i)
  <2>1. att[c] = Made(k.ds, k.i - 1) BY <1>1, <1>2 DEF AddKnows
  <2>2. Wanted(c) = Attachment(k.ds[k.i], k.i) BY DEF Wanted, Delegate
  <2>3. k.i - 1 \in Nat /\ (k.i - 1) + 1 = k.i BY <1>3
  <2> QED BY <2>1, <2>2, <2>3, MadeNext
<1>5. Dealt(k.ds) BY <1>2 DEF DeviceInv, Deals
<1>6. Alike(Made(k.ds, k.i)) BY <1>1, <1>3, <1>5, MadeAlike
<1>7. /\ \A d \in Sandbox \ {c} : call'[d] = call[d] /\ att'[d] = att[d]
      /\ att'[c] = att[c] \/ att'[c] = att[c] \cup {Wanted(c)}
  BY <1>1 DEF DelegateAdd, DelegateAddFails, Goto
<1>8. call'[c].ds = k.ds /\ call'[c].pc \in {"add", "undo"}
  BY <1>1, <1>2 DEF DelegateAdd, DelegateAddFails, Goto, Idle
<1>9. Alike(att'[c]) BY <1>4, <1>6, <1>7 DEF DeviceInv, Deals
<1>10. Deals(call'[c], att'[c]) BY <1>5, <1>8, <1>9 DEF Deals
<1> QED BY <1>7, <1>10 DEF DeviceInv

LEMMA DeviceStep ==
  ASSUME DevicesOnce, DefaultUnnamed, Inv, DeviceInv, [Next]_vars
  PROVE  DeviceInv'
<1>1. CASE UNCHANGED vars BY <1>1, SameDeal, NothingDealt DEF vars
<1>2. CASE PodChanges
  <2>1. UNCHANGED att BY <1>2 DEF PodChanges
  <2> QED BY <1>2, <2>1, WrittenDeals
<1>3. ASSUME NEW c \in Sandbox, AddStep(c) PROVE DeviceInv'
  <2>1. UpdatePodStatus(c) => UNCHANGED att BY DEF UpdatePodStatus
  <2> QED BY <1>3, <2>1, AddBaseDeals, AddPodDeals, DelegateAddDeals, QuietDeals,
             WrittenDeals DEF AddStep
<1>4. ASSUME NEW c \in Sandbox, DelStep(c) PROVE DeviceInv'
  <2>1. ClearStatus(c) => UNCHANGED att BY DEF ClearStatus
  <2> QED BY <1>4, <2>1, QuietDeals, WrittenDeals DEF DelStep
<1>5. ASSUME NEW c \in Sandbox,
             \/ CmdAdd(c) \/ DelegateAddFails(c) \/ BadResult(c)
             \/ CmdDel(c) \/ Crash(c) \/ NetnsGone(c)
      PROVE  DeviceInv'
  BY <1>5, DelegateAddDeals, QuietDeals
<1> QED BY <1>1, <1>2, <1>3, <1>4, <1>5 DEF Next

(* No device of a pod is given to two of the networks it selects, whatever *)
(* NADs and annotations say and although networks may share a resource: if *)
(* kubelet gives no device twice, and default networks are not named.      *)
THEOREM DevicesStayDistinct ==
  DevicesOnce /\ DefaultUnnamed => (Spec => []DevicesDistinct)
<1> SUFFICES ASSUME DevicesOnce, DefaultUnnamed PROVE Spec => []DevicesDistinct
  OBVIOUS
<1>1. Init => DeviceInv
  BY DEF Init, DeviceInv, Deals, Alike, Idle
<1>2. Inv /\ DeviceInv /\ [Next]_vars => DeviceInv' BY DeviceStep
<1>3. DeviceInv => DevicesDistinct BY DEF DeviceInv, Deals, Alike, DevicesDistinct
<1> QED BY <1>1, <1>2, <1>3, DelegatesInv, PTL DEF Spec
=============================================================================
