---------------------------- MODULE MCDelegates ------------------------------
(***************************************************************************)
(* A pod with up to two networks of its own beside the cluster network.    *)
(***************************************************************************)
EXTENDS Delegates

CONSTANTS c1, c2

Raw(name, kind) == [name |-> name, kind |-> kind]
Text(items) == [form |-> "text", items |-> items]
Json(items) == [form |-> "json", items |-> items]
Item(name) == [ns |-> None, name |-> name, ifname |-> None, oldIfname |-> None,
               req |-> None, label |-> TRUE]

Base == [delegates |-> << >>, clusterNetwork |-> None, defaultNetworks |-> << >>,
         namespaceIsolation |-> FALSE, systemNamespaces |-> {"kube-system"},
         multusNamespace |-> "kube-system"]

(* One delegate in the configuration of multus; or a cluster network that  *)
(* is a NAD of the namespace of multus.                                    *)
Static  == [Base EXCEPT !.delegates = <<Raw("weave", "plugin")>>]
StaticOfLists == [Base EXCEPT !.delegates = <<Raw("weave", "list")>>]
Cluster == [Base EXCEPT !.clusterNetwork = "flannel"]

NoNAD == [config |-> None, resource |-> None]
Nets ==
  (<<"kube-system", "flannel">> :> NoNAD) @@
  (<<"kube-system", "sriov0">> :> [config |-> Raw("sriov0", "plugin"), resource |-> "vf"]) @@
  (<<"app", "sriov1">> :> [config |-> Raw(None, "plugin"), resource |-> "vf"]) @@
  (<<"app", "sriov2">> :> [config |-> Raw("sriov2", "list"), resource |-> "vf"])

(* A network whose list has no version.                                    *)
BareNets == [Nets EXCEPT ![<<"app", "sriov2">>].config = Raw("sriov2", "bare")]

ConfFiles == <<Raw("bridge", "list"), Raw("flannel", "plugin"), Raw(None, "broken")>>

VFs == <<[resource |-> "vf", ids |-> <<"pci1">>], [resource |-> "vf", ids |-> <<"pci2">>]>>

NoPaths == << >>

EthNames == <<"eth0", "eth1", "eth2">>

Plain == [ns |-> "app", default |-> None, nets |-> Text(<<Item("sriov1")>>)]
Two   == [Plain EXCEPT !.nets =
            Json(<<[Item("sriov1") EXCEPT !.oldIfname = "data"], Item("sriov2")>>)]
Clash == [Plain EXCEPT !.nets =
            Json(<<[Item("sriov1") EXCEPT !.ifname = "eth2"], Item("sriov2")>>)]
Unnamed == [Plain EXCEPT !.nets = Text(<<[Item("Sriov1") EXCEPT !.label = FALSE]>>)]

(* A default network of its own, which asks for a device too.              *)
OwnDefault == [Two EXCEPT !.default = Text(<<Item("sriov0")>>)]

Forms == {Two, Clash, Unnamed, OwnDefault}
FormTwo == {Two}
=============================================================================
