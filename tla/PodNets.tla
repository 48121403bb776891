------------------------------- MODULE PodNets --------------------------------
(***************************************************************************)
(* Which networks a pod gets: how multus turns its own configuration, the  *)
(* annotations of the pod, the NetworkAttachmentDefinitions (NADs) of the  *)
(* cluster, the configuration directory and the devices kubelet assigned   *)
(* to the pod into the list of delegates it calls.                         *)
(*                                                                         *)
(* A CNI configuration is a record [name, kind]; its kind is "plugin" (it  *)
(* has a type), "list" (it has plugins), "bare" (a list without a version, *)
(* where multus' own configuration has one), "untyped" (neither type nor   *)
(* plugins) or "broken" (it cannot be parsed).  What may fail returns      *)
(* Failed.                                                                 *)
(***************************************************************************)
EXTENDS Naturals, SequencesExt

CONSTANTS
  Conf,     \* the configuration of multus, see LoadNetConf
  Dir,      \* the configurations in confDir, in the order of their file names
  Paths,    \* for names that are directories, the configurations in them
  Devices,  \* what kubelet assigned to the pod: entries of resource and ids
  Failed,   \* the result of a step that failed
  None      \* an absent name, request, device or annotation

IsList(s) == s \in Seq(ToSet(s))

ASSUME PodNetsAssumption ==
  /\ IsList(Conf.delegates) /\ IsList(Conf.defaultNetworks)
  /\ Conf.delegates # << >> \/ Conf.clusterNetwork # None
  /\ Conf.namespaceIsolation \in BOOLEAN
  /\ IsList(Dir) /\ \A name \in DOMAIN Paths : IsList(Paths[name])

-----------------------------------------------------------------------------
(* A delegate: a configuration and what is asked of it for this pod; kind  *)
(* is that of its raw bytes, list says whether they are called as a list.  *)

NoSelection == [ns |-> None, name |-> None, ifname |-> None, req |-> None]

LoadDelegateNetConf(conf, sel, dev) ==
  IF conf = Failed \/ conf.kind \in {"broken", "untyped"}
    THEN Failed
    ELSE [name |-> conf.name, kind |-> conf.kind, list |-> conf.kind # "plugin",
          dev |-> dev, ifname |-> sel.ifname, req |-> sel.req, master |-> FALSE]

AsMaster(d) == [d EXCEPT !.master = TRUE]

FirstIsMaster(ds) == IF ds = << >> THEN ds ELSE [ds EXCEPT ![1] = AsMaster(@)]

CheckSystemNamespaces(ns) == ns \in Conf.systemNamespaces

(* The delegates named in the configuration of multus itself; with a       *)
(* cluster network they are not looked at.                                 *)
LoadNetConf ==
  LET ds == [i \in DOMAIN Conf.delegates |->
               LoadDelegateNetConf(Conf.delegates[i], NoSelection, None)]
  IN  IF Conf.clusterNetwork # None THEN << >>
      ELSE IF Failed \in ToSet(ds) THEN Failed
      ELSE FirstIsMaster(ds)

-----------------------------------------------------------------------------
(* The annotations of a pod that select networks.  An annotation is None   *)
(* or a form ("text", "json" or "broken") and the items in it; the items   *)
(* of a text are checked for the form of a DNS label and carry no request. *)

Selections(annotation, ns) ==
  LET json == annotation.form = "json"
      Selected(e) ==
        [name |-> e.name,
         ns |-> IF e.ns = None THEN ns ELSE e.ns,
         ifname |-> IF json /\ e.ifname = None THEN e.oldIfname ELSE e.ifname,
         req |-> IF json THEN e.req ELSE None]
  IN  IF \/ annotation = None
         \/ annotation.form = "broken"
         \/ ~json /\ \E i \in DOMAIN annotation.items : ~annotation.items[i].label
        THEN Failed
        ELSE [i \in DOMAIN annotation.items |-> Selected(annotation.items[i])]

(* The first file whose configuration has the name, or the first at all    *)
(* when the name is None; a file before it that cannot be loaded ends the  *)
(* search.                                                                 *)
GetCNIConfigFromFile(files, name) ==
  LET hits == {i \in DOMAIN files :
                 files[i].kind = "broken" \/ name \in {files[i].name, None}}
  IN  IF hits = {} \/ files[Min(hits)].kind \in {"broken", "untyped"}
        THEN Failed
        ELSE files[Min(hits)]

(* A NAD without a configuration takes the file of its name; one whose     *)
(* configuration has no name lends it its own.                             *)
CniConfigFromNetworkResource(nad, name) ==
  IF nad.config = None THEN GetCNIConfigFromFile(Dir, name)
  ELSE IF nad.config.kind = "broken" THEN Failed
  ELSE IF nad.config.name = None THEN [name |-> name, kind |-> nad.config.kind]
  ELSE nad.config

-----------------------------------------------------------------------------
(* Devices.  GetPodResourceMap joins the ids of the pod's containers per   *)
(* resource; the map that is handed on counts the ids already given out.   *)

DeviceIDs(resource) ==
  FlattenSeq([i \in DOMAIN Devices |->
                IF Devices[i].resource = resource THEN Devices[i].ids ELSE << >>])

NewResourceMap == [r \in {Devices[i].resource : i \in DOMAIN Devices} |-> 0]

NoMap == << >>

(* Mutant: the counter of a resource is not advanced.                      *)
TakeDevice_Same(resource, map) ==
  IF resource \in DOMAIN map /\ map[resource] < Len(DeviceIDs(resource))
    THEN [dev |-> DeviceIDs(resource)[map[resource] + 1], map |-> map]
    ELSE [dev |-> None, map |-> map]

TakeDevice(resource, map) ==
  IF resource \in DOMAIN map /\ map[resource] < Len(DeviceIDs(resource))
    THEN [dev |-> DeviceIDs(resource)[map[resource] + 1],
          map |-> [map EXCEPT ![resource] = @ + 1]]
    ELSE [dev |-> None, map |-> map]

(* A delegate for one selected network, and the resource map after it.     *)
(* nads are the NADs that can be read and for which kubelet, when it is    *)
(* asked (a resource, and no map yet), answers.                            *)
GetKubernetesDelegate(nads, sel, map) ==
  LET key == <<sel.ns, sel.name>>
      nad == nads[key]
      taken == IF nad.resource = None THEN [dev |-> None, map |-> map]
               ELSE TakeDevice(nad.resource, IF map = NoMap THEN NewResourceMap ELSE map)
      d == LoadDelegateNetConf(CniConfigFromNetworkResource(nad, sel.name),
                               sel, taken.dev)
  IN  IF key \notin DOMAIN nads \/ d = Failed THEN Failed
      ELSE [delegate |-> d, map |-> taken.map]

(* The delegates of the networks a pod selects, one resource map for all:  *)
(* acc is what one turn of the loop leaves for the next.                   *)
AddNetwork(nads, podNs, sel, acc) ==
  LET got == GetKubernetesDelegate(nads, sel, acc.map) IN
  IF \/ acc.delegates = Failed
     \/ Conf.namespaceIsolation /\ sel.ns # podNs
     \/ got = Failed
    THEN [delegates |-> Failed, map |-> acc.map]
    ELSE [delegates |-> Append(acc.delegates, got.delegate), map |-> got.map]

GetNetworkDelegates(nads, sels, podNs) ==
  LET acc[i \in 0..Len(sels)] ==
        IF i = 0 THEN [delegates |-> << >>, map |-> NoMap]
        ELSE AddNetwork(nads, podNs, sels[i], acc[i - 1])
  IN  acc[Len(sels)].delegates

-----------------------------------------------------------------------------
(* The cluster network and the default networks: a NAD of the namespace of *)
(* multus, else a file of confDir, else the first file of a directory.     *)

GetNetDelegate(nads, name) ==
  LET key == <<Conf.multusNamespace, name>>
      crd == IF key \in DOMAIN nads
               THEN LoadDelegateNetConf(CniConfigFromNetworkResource(nads[key], name),
                                        NoSelection, None)
               ELSE Failed
      file == GetCNIConfigFromFile(Dir, name)
      path == IF name \in DOMAIN Paths THEN GetCNIConfigFromFile(Paths[name], None)
              ELSE Failed
  IN  IF crd # Failed THEN crd
      ELSE LoadDelegateNetConf(IF file # Failed THEN file ELSE path, NoSelection, None)

GetDefaultNetworks(nads, podNs) ==
  LET names == <<Conf.clusterNetwork>> \o
               (IF CheckSystemNamespaces(podNs) THEN << >> ELSE Conf.defaultNetworks)
      ds == [i \in DOMAIN names |-> GetNetDelegate(nads, names[i])]
  IN  IF Failed \in ToSet(ds) THEN Failed ELSE FirstIsMaster(ds)

(* The delegates before the pod is looked at (LoadNetConf and, with a      *)
(* cluster network, GetDefaultNetworks).                                   *)
BaseDelegates(nads, podNs) ==
  IF Conf.clusterNetwork = None THEN LoadNetConf ELSE GetDefaultNetworks(nads, podNs)

(* The pod may replace the first delegate.  Its device is taken from a     *)
(* resource map of its own, and an annotation that names no network at all *)
(* is not expected: the plugin panics.                                     *)
TryLoadK8sPodDefaultNetwork(nads, pod) ==
  LET sels == Selections(pod.default, Conf.multusNamespace)
      got == GetKubernetesDelegate(nads, sels[1], NoMap)
  IN  IF sels = Failed \/ Len(sels) # 1 \/ got = Failed THEN Failed
      ELSE AsMaster(got.delegate)

(* The pod as the API server shows it, or None when it cannot be got: that *)
(* is no error, and the pod's networks are left out.  An annotation that   *)
(* cannot be parsed is no error either.  After an error the list keeps     *)
(* what was changed before it; client says whether the pod was seen.       *)
TryLoadPodDelegates(nads, pod, base) ==
  LET main == TryLoadK8sPodDefaultNetwork(nads, pod)
      first == IF pod.default = None THEN base ELSE [base EXCEPT ![1] = main]
      sels == Selections(pod.nets, pod.ns)
      ds == GetNetworkDelegates(nads, sels, pod.ns)
  IN  IF pod = None THEN [ok |-> TRUE, delegates |-> base, client |-> FALSE]
      ELSE IF pod.default # None /\ main = Failed
        THEN [ok |-> FALSE, delegates |-> base, client |-> FALSE]
      ELSE IF sels = Failed
        THEN [ok |-> TRUE, delegates |-> first, client |-> TRUE]
      ELSE IF ds = Failed
        THEN [ok |-> FALSE, delegates |-> first, client |-> FALSE]
      ELSE [ok |-> TRUE, delegates |-> first \o ds, client |-> TRUE]
=============================================================================
