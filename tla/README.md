# Verification of multus-ext-cni

TLA+ modules that model the address management of multus-ext-cni, TLC runs that
check them on small instances, and TLAPS proofs of what holds for every
instance. Line numbers refer to the sources beside this directory (`src/`).

## 1. The system

A pod of a Kubernetes cluster gets extra network interfaces. The container
runtime invokes the meta-plugin **multus** on a node; it asks the API server
which networks the pod wants and invokes one *delegate* plugin for each. For
networks of this project a delegate is **multus-vxlan** (or another main
plugin) and its addresses come from **multus-ipam**. What the nodes share is in
etcd: which *blocks* of addresses of a network are leased to which node, fixed
addresses of pods, and the VXLAN end points. A daemon, **multusd**, runs on
every node, and one **controller** runs in the cluster.

| component | state | operations | how it meets the others |
|---|---|---|---|
| etcd client (`etcdv3/etcdv3.go`) | mutexes in etcd, sessions | `LockDir`, `Close`, `TransPutKey`, `TransDelKey(s)` | everything below goes through it |
| range leases (`multus-ipam/backend/etcdv3cli/cli.go`) | keys `lease/<network>/<start>-<bits>` = node id | `IPAMApplyIPRange` (plugin), `IPAMCheckEtcd` (daemon) | plugin and daemon share etcd and the cache file |
| fixed addresses (same file) | keys `fix/<network>/<ip>` = pod | `IPAMApplyFixIP` | the controller deletes keys of pods that are gone |
| range cache and address files (`multus-ipam/backend/disk/backend.go`) | per node and network: `rangeset_cache`, a file per reserved address, `last_reserved_ip` | `LoadCache`, `FlashCache`, `AppendCache`, `DeleteCache`, `Reserve`, `ReleaseByID`, `GetByID` | file lock between processes of a node |
| allocator (`multus-ipam/backend/allocator`) | iterator in memory | `Get`, `Release`, `RangeIter.Next` | under the file lock |
| IPAM plugin (`multus-ipam/main.go`) | none of its own | `cmdAdd`, `cmdDel`, `allocateIP`, the gateway | allocator, store, range leases |
| docker clean-up (`multus-ipam/backend/dockercli/cli.go`) | none | `IPAMCheckLocalIPs` | deletes address files |
| multusd (`multus-daemon/daemon.go`) | names of interfaces it could not find (`buf`) | ticker: `IPAMCheckEtcd`, `IPAMCheckLocalIPs`, `CacheToEtcd`; watch of VXLAN records | etcd, cache file, kernel forwarding table |
| controller (`multus-controller/controller.go`) | fixed addresses waiting to be deleted | `handleNodeDelEvent`, `CheckFixIP` | deletes keys in etcd |
| VXLAN (`multus-vxlan`) | interface, forwarding table, cached records | `RecVxlan`, `CacheToEtcd`, netlink set-up | records read by all daemons |
| multus (`multus/multus.go`) | saved delegates of a container, environment | `cmdAdd`, `cmdDel`, `delegateAdd/Del`, `delPlugins` | other plugins |
| k8sclient, types, kubeletclient, checkpoint | none | choose delegates, device ids | read by multus |

What is hard here:

- three programs change the lease table under **two kinds of mutex**: the
  plugin takes the mutex of the network's directory, daemon and controller take
  a mutex named after a single key (`filepath.Base(key)`, `etcdv3.go:210`);
- the daemon compares **copies** of leases and cache and acts on them later
  (`cli.go:157-217`);
- the cache file is read and written in **two lock sections** (`backend.go:276`)
  and truncated before it is written;
- plugins are short-lived processes the kubelet may kill, daemons restart, and
  any call to etcd may fail, after it took effect included;
- address arithmetic is in unsigned 32-bit integers that wrap around;
- the controller deletes keys of fixed addresses long after it has asked for
  their pods, without the mutex the plugins take (`controller.go:263-299`);
- multus has to find, for a DEL, the delegates an earlier process called, from
  a file and from a pod that may have changed or be gone (`multus.go:446-520`);
- plugins of several containers work on the same VXLAN interface, bridge and
  gateway with nothing but single netlink calls between them (`bridge.go`);
- daemons learn of VXLAN end points from a history and a watch that do not meet
  (`daemon.go:97`), and records may reach etcd late, from a file.

What makes each component correct:

- range leases: leased blocks never overlap, lie in the range, and no address
  can be handed out by two nodes; cache and leases agree in the end; a waiter
  for the mutex is served;
- address files: an address belongs to one interface from ADD to DEL, a failed
  ADD keeps none, and the search for a free address ends;
- fixed addresses: a pod keeps its address while it exists, nobody else has it,
  and it becomes free when the pod has gone for good;
- VXLAN records: the record of an ADD that went on reaches etcd, and the ways in
  which the code loses one, or leaves one out of a forwarding table, are all known;
- VXLAN interfaces: what one plugin sets up for its container no other takes
  down; a DEL that succeeds leaves nothing;
- multus: what is set up can be found again, a failed ADD is undone, a DEL that
  succeeds leaves nothing, and no device is given out twice.

`PROJECT.json` lists the components with their status and every hazard with its
line.

## 2. Modules

| module | what it is |
|---|---|
| `FreeRange` | the arithmetic: ranges, lease keys, `ipamGetFreeIPRange` in closed form |
| `FreeRangeProofs` | theorems about `FreeRange` |
| `FreeRangeWalk` | the loop of `ipamGetFreeIPRange`, a key at a time, over changing tables; EXTENDS `FreeRange` |
| `MCFreeRange` | instances of it |
| `FreeRangeWalkProofs` | the loop is the closed form, and first fit |
| `RangeLease` | the protocol: plugins, daemons, controller, etcd, cache files |
| `MCRangeLease` | instances of it |
| `RangeLeaseProofs` | theorems about `RangeLease` |
| `RangeIter` | the allocator's iterator over a range set, as operators |
| `LocalIPAM` | the addresses of one node: ADD, DEL, gateway, docker clean-up; EXTENDS `RangeIter` |
| `MCLocalIPAM` | instances of it |
| `LocalIPAMProofs` | theorems about the iterator and `LocalIPAM` |
| `LeaseTable` | what leasing promises, abstractly; `RangeLease` implements it |
| `FixIP` | fixed addresses: plugins, the controller, pods that come and go |
| `MCFixIP` | instances of it |
| `FixIPProofs` | theorems about `FixIP` |
| `PodNets` | which delegates a pod gets, as operators |
| `Delegates` | multus: ADD and DEL of the sandboxes of a pod; EXTENDS `PodNets` |
| `MCDelegates` | instances of it |
| `DelegatesProofs` | theorems about the lists of `PodNets` and about `Delegates` |
| `VxlanFdb` | VXLAN records: plugin, file, etcd, daemon, forwarding table |
| `MCVxlanFdb` | instances of it |
| `VxlanFdbProofs` | theorems about `VxlanFdb` |
| `Bridge` | the VXLAN plugin on one node: VXLAN interface, bridge, gateway, veth pairs |
| `MCBridge` | instances of it |
| `BridgeProofs` | theorems about `Bridge` |

The modules meet in what they share in the code. `RangeLease` and `LocalIPAM`
have the cache file in common: etcd is abstract in the one, ADDs are in the
other. `Bridge` takes from the IPAM plugin that it hands out an address nobody
has, which is `LocalIPAM`'s `InUseReserved`; what `RecVxlan` does at the end of an
ADD is `VxlanFdb`. For `Delegates` all of these are plugins that succeed or fail.

### FreeRange

Addresses are numbers of `W` bits (32 in the code) and `Plus`, `Minus` wrap
around. A lease key is a record `[start, bits]`; `KeyRange` is what
`ipamLeaseToSimleRange` reads from it and `RangeKey` what
`ipamSimpleRangeToLease` writes. `Precedes` is the order in which etcd returns
keys: the order of their text, where size 10 comes before size 2.

`ipamGetFreeIPRange` is a loop over the sorted keys with a variable `last`.
The module states its result without the loop: `Considered` are the keys not
skipped as invalid, `Gaps` those with room for a block before them, `Walked`
those before the first gap, and `After(Walked)` is `last`. The models of leasing
use this form.

`FreeRangeWalk` is the loop itself (`cli.go:97-129`): `Get` reads the keys, `Skip`,
`StepOver` and `Break` are the three ways of a turn, `left` the keys to come, `last`
the code's variable, and `Grant` or `Fail` what the caller does with the result.
Between walks keys of other configurations come and keys go; during one the table
may stay as it is, since the code goes through the answer of one Get. `WalkIsLoop`
says that both forms come to the same block on any table, `FirstFit` that the loop
is what its purpose demands on well-formed ones.

### RangeLease

| variable | in the code |
|---|---|
| `lease` | the keys below `lease/<network>` and their values |
| `dirLock`, `keyLock` | the etcd mutexes of the directory and of single keys |
| `cache` | each node's `rangeset_cache`, a sequence of ranges |
| `wpc`, `grant`, `wimg` | a plugin in `IPAMApplyIPRange` and `AppendCache`: where it is, its block, the cache it has read |
| `dpc`, `snap`, `todo`, `img`, `pos`, `target`, `dimg` | a daemon in `ipamCheckNet`: where it is, the leases it has read and those left, the cache it goes through and its index there, the range of the call under way, the cache that call has read |
| `cpc`, `ctodo` | the controller in `TransDelKeys` |

An action is what one process does between two points where another can
interfere: one call to etcd, or one section under the file lock together with
the computation on local data that follows. `LockDir`, `FindRange`, `PutLease`,
`UnlockDir` are the calls of `IPAMApplyIPRange` (55-85); `AppendLoad` and
`AppendFlash` the two lock sections of `AppendCache`. The daemon goes through
`Snapshot`, `LoadCache`, for each lease one of `Found`, `Clash`, `Missing`, and
for each cached range without a lease `RestoreLock`, `RestoreGet`, `RestorePut`
or `Drop`. `NodeDeleted`, `DelKeyLock`, `DelKey` are the controller.

What may go wrong: `LockError`, `ApplyError`, `UnleaseLockError`,
`RestoreLockError`, `RestoreError`, `DelKeyLockError` are calls of etcd that
fail (a put or delete may have taken effect nevertheless); `CrashWorker` and
`CrashDaemon` kill a process at any step, leave its mutex to `Orphan` until
`SessionExpires` and, in the middle of `FlashCache`, leave a prefix of the
cache file. When `TransDelKey` does not get the mutex it deletes the key and
panics (`etcdv3.go:250-251`): that is `UnleaseLockError` and `DelKeyLockError`.

Abstractions. One network is modelled: that the prefix scan (`cli.go:100`) also
reads the leases of a network whose name begins with this one's is left out. The
session of a live process does not expire. The retry loop of `allocateIP` appears as a
new `Apply` of the worker.
Names of nodes, networks and key prefixes are not spelled out. Errors of the
local disk are left out, crashes are not.

### RangeIter

The fields of `RangeIter` in `allocator.go` as a record: `idx` (rangeIdx), `cur`,
`startIP`, `startRange`. One call of `Next` is `Moved`; `Looped` says that it
returns nil and `Skipped` that it calls itself again, for the gateway or, in
the first call only, a reserved address.

### LocalIPAM

| variable | in the code |
|---|---|
| `file` | the files named after addresses: container, interface and the number `allocateIP` appends to the interface |
| `last`, `cache` | `last_reserved_ip.0`, `rangeset_cache` |
| `lock` | the file lock while `Get` searches; every other section under it is one action |
| `granted` | the blocks `IPAMApplyIPRange` has returned on this node |
| `running` | the containers docker lists |
| `phase`, `ips`, `gw` | how far an attachment (an interface of a container) has got, and the result of its ADD |
| `job` | the local variables of the plugin at work for it |
| `gc` | the clean-up: the files it has read and the one it is about to remove |

ADD is `Add`, `Form` (`formRangeSets`), then for each address `Get` and a step
for every address the iterator offers: `Skip`, `Reserve` or `ReserveError`, until
`Exhausted`; then `ApplyBlock`, `AppendLoad`, `AppendFlash` and another `Get`, three
times at most. A failure ends in `RollBack`, a release for every address
reserved before it. With `AllocGW`, `LookForGW` lists the gateway's files,
`ReleaseRedundant` removes those after the first and `AllocateGW` goes through
the same steps with owner "gateway". `Delete`, `Release`, `DelDone` are `cmdDel`;
the runtime may ask for it any number of times. `ListFiles`, `AskDocker`,
`RemoveFile` are `IPAMCheckLocalIPs`. `Kill` ends a plugin at any step, after the
creation of a file and in the middle of `FlashCache` included.

Abstractions. An owner is a record and a prefix of an interface's name is a
relation (`IfPrefix`). The gateway's files come as a set: the code takes the first of
the directory, and `First` orders by the number of the address instead of its text,
an order that is fixed as well. etcd grants any block it has not granted (that it does so
is `RangeLease`), and these lie inside the configured range; every address of the
gateway is therefore in the subnet of the pod's, and none is released as invalid
(`main.go:125`). One ADD is made
per attachment. The clean-up reads all files at once. The node's daemon does
not run `IPAMCheckEtcd` here: it changes the cache, never an address file.

### LeaseTable

The promise of `IPAMApplyIPRange`: a table of leases that only grows, by a range
apart from all others and for one node, and nodes that use only what is leased to
them. It has no plugins, no mutex and no caches. `RangeLease` maps its `lease` to
the table and the blocks of plugins and caches to what is used; a step that puts a
key and dies before anybody uses it is a step of the table alone.

### FixIP

| variable | in the code |
|---|---|
| `fix` | the keys `fix/<network>/<address>`; the value names the pod and which of its addresses it is |
| `dirLock` | the mutex of the network's directory |
| `pods` | the pods the API server has |
| `pc`, `ips`, `want` | a plugin in `allocateFixIP`: where it is, the addresses so far, the one it is about to put |
| `cpc`, `left`, `missing`, `doomed` | the controller in `CheckFixIP`: where it is, what it has read and not asked for, whose pod it did not find (`tmpMap`), what it will delete (`delList`) |
| `waiting` | `waitDelFixIPs`, a time as "short" or "long" against `delWaitTime` |

`Add`, `LockDir`, `Read`, `PutKey`, `Close` are `IPAMApplyFixIP`, once for every
address. Its walk over the keys is in closed form: `Found` ends it, `Outside` are
the keys deleted on the way, `Free` the addresses it has collected, `Behind` its
variable `last`. `CheckFixIP`, `PodFound`, `PodMissing`, `EndAsk`, `DelKey` are the
controller. `LockError`, `PutError`, `DelKeyError`, `DelKeyLockError` are calls of etcd
that fail, after they took effect included; `Crash` and `Restart` end a process. DEL
leaves the keys alone (`main.go:162`), so `Del` only frees the attachment.

Abstractions. The deletes of keys out of the range are one action with the Get
before them: nobody reads or puts such a key meanwhile. The mutex of a single key
that `TransDelKey` takes is left out, only the controller takes it. A pod goes when
its sandboxes are down, which is what kubelet waits for. `Outages` and `Returns` say
whether the API server may fail to answer and whether a pod may come back while
its keys are being deleted.

### PodNets and Delegates

`PodNets` computes the list of delegates: the configuration of multus with its
cluster and default networks, the annotations of the pod in both of their forms, NADs
with a configuration of their own or by name, the files of the configuration
directory, and the devices the kubelet assigned, which are taken off a map one by
one (`TakeDevice`). What can fail returns `Failed`. The loop over the networks a pod
selects is a recursive function whose step is `AddNetwork`: `acc[i]` is what the first
`i` turns leave, the delegates and the map of devices.

| variable of `Delegates` | in the code |
|---|---|
| `pod`, `status` | the pod in the API server and its network status annotation |
| `file` | the saved delegates of each sandbox: a record that says whether the file is absent, saved or torn (its write cut short), and with which delegates |
| `netns` | the sandboxes whose network namespace exists |
| `att` | what delegates have set up: name, interface, device |
| `told` | what the runtime was last told of a sandbox |
| `call` | the local variables of the multus process at work for it |

`CmdAdd`, `AddBase`, `AddPod`, `SaveDelegates` lead to one step for each delegate, which
works or fails, with a roll-back in reverse order (`delPlugins`), and then to the update
of the status. `CmdDel` reads the file, or the pod if there is none, clears the status
and calls the delegates in reverse order. `Crash` ends the process, `NetnsGone` takes the
namespace of a sandbox, as a node that starts again does.

What a DEL calls is not what was saved. The JSON of the file is decoded over the delegates
`LoadNetConf` has left in `in.Delegates` (`multus.go:509`): where one of those is a list
(`StaticList`), its plugins and its version stay (`Merged`), so that a plugin's
configuration behind it is called as a list and cannot be read (`Misread`). `Loaded` adds
the master. Then a list without a version is written anew with the version of multus, and
without its device (`multus.go:523-528`, `Versioned`), whether it came from the file or
from the pod. Such a list has the kind "bare"; it is one only if multus' own configuration
has a version.

Abstractions. Multus has a kubeconfig. The runtime calls it for one sandbox of a
pod at a time and repeats a DEL that failed. `NADsSeen` are the NADs an invocation gets:
all of them, or with `Outages` any part, since the read of one may fail, and so may the
answer of kubelet on the devices for it (`k8sclient.go:381-388`); either makes the
network fail. The arguments and environment handed to delegates (`CNI_ARGS`, `extEnv`) are
left out.

### VxlanFdb

| variable | in the code |
|---|---|
| `addr`, `link`, `fdb` | a node's address, the source address of its VXLAN interfaces (`Foreign`: an interface that is none), the remote addresses in their forwarding tables |
| `adding` | ADDs before `RecVxlan` |
| `added` | history variable: the records of the ADDs that went on past `RecVxlan`, whatever it returned |
| `lost` | history variable: the records a node last failed to keep |
| `files` | the files `CacheToEtcd` reads, which may be empty (`Empty`) |
| `log` | the changes of the records in etcd, in order |
| `daemon` | multusd: history or watch, records not looked at, position in the log, `buf` |
| `missed` | history variable: records that fell between history and watch, that a failed read left out, or that multusd has dropped |

`UseLink`, `CreateLink`, `DeleteLink` and `RecVxlan` are the plugin. When the put fails it
caches the record (`CacheRec`). `cmdAdd` does not look at the error of `RecVxlan`
(`main.go:99`), so the ADD goes on too when there is no client of etcd (`cli.go:21-24`) or
the directory, its lock or the file cannot be opened (`RecFails`: nothing is cached), and
when the write of the file fails (`CacheRecFails`). `ioutil.WriteFile` empties the file
before it writes: `Truncated` leaves it empty, in `CacheRecFails` and when the plugin is
killed there (`CacheRecKilled`). `AddFails` is an ADD that ends before `RecVxlan`.

`CacheToEtcd`, `ProcHistory`, `Watch`, `WatchedPut`, `WatchedDelete`, `BufferName`,
`Replay`, `AddFDB` are the daemon. `CacheStays` is a put of the daemon that is not
acknowledged, or a file it could not remove. `AddFDBFails` is what `watchedAddSubnet` does
with an interface that is no VXLAN, or when the kernel refuses the entry
(`daemon.go:195-198`, `207-210`): it returns an error nobody looks at, and the record is
not tried again. `HistoryFails` and `ReplayFails` are reads of etcd that fail. `Foreign`
interfaces come from elsewhere (`ForeignLink`), and a plugin deletes them
(`ensureLink`).

An empty file is put as a key one level up, which is read as an address of an interface
named "vxlan": `Keys` has it, `Records` does not.

`MaxFaults` bounds what goes wrong, together: ADDs and daemons that die, reads, writes and
entries that fail, puts that fail unseen, restarts, changes of addresses, foreign
interfaces and deletions. An etcd that only fails a put is not counted: a node may cache a
record as often as it likes.

### Bridge

| variable | in the code |
|---|---|
| `host`, `link`, `made` | the node's address; the VXLAN interface of each network with its source, index and master |
| `dev` | bridges and VLAN interfaces on them, with their addresses |
| `netns`, `veth`, `addr`, `masq` | of each container: namespace, interface, address, masquerading rule |
| `lease` | what the IPAM plugin has given to it |
| `pc`, `got` | the plugin: where it is, the VXLAN interface it has read |
| `told`, `verdict` | what the runtime knows; the result of CHECK |
| `lost` | history variable: interfaces that went away before their DEL, their rule left behind |

An ADD goes through `setupVxlan`, `ensureLink`, `setupBridge`, the veth pair, the
IPAM plugin, `ensureAddr`, masquerading and `LinkSetMaster`, one netlink call an
action, with the deferred release of the address when a step fails. DEL releases the
address, then removes the interface and its rule. `SandboxDies`, `Killed` and
`IpamDelError` are the faults, `Readdress` gives the node another address.

Abstractions. Every container has one IPv4 address and every network a VXLAN id of
its own. The addresses that `ensureAddr` removes go with the list it read. Hairpin
and promiscuous mode, MTU, MAC addresses and IPv6 are left out.

## 3. Runs

| run | configuration | what it asks | distinct states |
|---|---|---|---|
| `free_range` | `MCFreeRange` | loop, a key at a time = closed form; first fit | 175,820 |
| `lease_apply` | `RangeLeaseApply` | plugins alone, crashes, errors: grants are free, blocks exclusive, waiters served; implements `LeaseTable` | 13,616 |
| `lease_depart` | `RangeLeaseDepart` | controller against plugins: only the departed node's leases go | 230,222 |
| `lease_check` | `RangeLeaseCheck` | daemon against plugins, with a cached block of an earlier size, crashes of the daemon, errors | 3,830,451 |
| `lease_converges` | `RangeLeaseConverges` | cache and leases agree in the end | 221,660 |
| `lease_exact_fill` | `RangeLeaseExactFill` | violation: a range that is filled exactly | |
| `local_adds` | `LocalIPAMAdds` | one owner, roll-back, complete search, round robin; two pods, two addresses each | 242,390 |
| `local_ends` | `LocalIPAMEnds` | one gateway; searches end; addresses of stopped containers come back | 68,380 |
| `delegates` | `Delegates` | what is set up is found again, roll-back, clean DEL, true status, distinct devices | 96,226 |
| `vxlan` | `VxlanFdb` | records are kept but for the ways the code has to lose one, and reach etcd; what a table lacks is explained | 1,672,482 |
| `bridge` | `Bridge` | addresses in use, gateways, links and DELs of containers that share interfaces | 3,201,618 |
| `fix_ip` | `FixIP` | no address twice, one key for an address, keys of dead pods go | 312,666 |

Further configurations, for use by hand (`tlc -config X.cfg MCRangeLease` or
the `MC` module of the same component); those marked with a star end in a
counterexample:

| configuration | property | what it is |
|---|---|---|
| `LocalIPAMShared` | `InUseReserved`, `SearchComplete`, `RoundRobin` | three pods, one block that one of them leases (635,742 states) |
| `BridgeFreed` | `AddressFreed` | the address of a container whose namespace has gone becomes free in the end (135,120 states) |
| `RangeLeaseCheckVsAdd` * | `Exclusive` | the daemon's check against ADDs of another node |
| `RangeLeaseOldUnit` * | `LeasesDisjoint` | the check restores the lease of a cached block of another size |
| `RangeLeaseTakeover` * | `NoTakeover` | the daemon's check takes a lease over |
| `LocalIPAMReserves` * | `ReservesRespected` | a reserved address is given out |
| `LocalIPAMFullDisk` * | `FailedKeepsNone` | an error after an address file is created |
| `LocalIPAMGateways` * | `OneGateway` | two ADDs that search different blocks each allocate a gateway |
| `LocalIPAMRedundant` * | `InUseReserved` | a pod's address is removed as a gateway's |
| `LocalIPAMSameContainer` * | `InUseReserved` | a repeated DEL |
| `LocalIPAMPrefix` * | `InUseReserved` | net1 and net10 of one container |
| `LocalIPAMRangeSets` * | `OnePerRangeSet` | a second range set |
| `LocalIPAMEndless` * | `SearchEnds` | two cached blocks that are used up |
| `DelegatesLeak` * | `DelClean` | a delegate fails the DEL |
| `VxlanFdbLost` * | `NothingLost` | the record of an ADD that succeeded is nowhere |
| `BridgeCheck` * | `CheckAccepts` | CHECK of a container that is as it was |
| `BridgeGateways` * | `OneGateway` | two ADDs give the bridge two gateways |
| `FixIPOutage` * | `Exclusive` | the API server does not answer for `delWaitTime` |
| `FixIPReturns` * | `Exclusive` | a pod comes back while its key is about to be deleted |
| `FixIPNested` * | `Exclusive` | networks net1 and net10 |

Bounds. Addresses have 4 bits: ranges then have room for two or three blocks of two
addresses and everything that wraps does so. `free_range` uses blocks of two and four
addresses, four ranges (one where the range start is raised to the third address of the
subnet, one that ends at the last address there is), and tables of at most three keys: a
gap needs a key before and one after it. `RangeLease` has two nodes, so that one can
take what the other has, and up to three plugins, so that two of one node share a cache
while the third is on the other. Ranges hold two blocks (3-7) or three (3-9) and one
address more, since an exactly filled range is the finding below. `Leftover` is what the
caches hold at the start: nothing, or (`lease_check`) one block of four addresses from
before `applyUnit` was lowered. There the daemon may die; with the plugin beside it, too
(`Mortal = {n1, w1}`, 6,551,461 states), TLC finds the same. A worker can be invoked
again and again, so any number of invocations one after the other is covered.

`LocalIPAM` has blocks of two to four addresses, so that two or three pods use
them up: in `local_adds` three addresses are usable and four are wanted, so that
one ADD fails half-way; the gateway is the first address, so that the iterator
skips it. Three pods are the fewest of which two run out and one is in between
(`LocalIPAMShared`, `LocalIPAMRedundant`). `InUseReserved` is checked with one
interface per container and without `AllocGW`: with either it fails, as below.
`SearchEnds` and `Reclaimed` have one block: with two, searches may not end.

`delegates` has two sandboxes, so that one is set up while an old DEL of the other is
repeated, and a pod in four forms, which may change from one to another: two networks
with two devices, an interface name that clashes, a name that is no valid one, and a
default network of its own. `vxlan` has two nodes and three addresses, one spare, and
two faults: a record is cached and its file cut short or overwritten after the node's
address has changed, or a record is replaced and the daemon misses one change or starts
again. The daemon of one node is followed (`Watcher`), since daemons do not change what
others see; the records of the other may fail to be kept (`Failing`), so that what one
node fails to record and what the other is told of meet. Each node starts with an
address of its own (`Home`): which one makes no difference. `bridge` has two containers
of one network and one of another on the same bridge, one of which (`Faulty`) may fail
and die, so that its failures meet two plugins that work; the node changes its address
once. `fix_ip` has two pods, one of which wants two addresses, in a range of two, and
one address below it with a key from before the range was changed: the second ADD finds
the range full, half-way or from the start. Deadlock is not checked in `delegates`,
`vxlan` and `bridge`: there the runtime is done when all sandboxes are gone, or the
bounds on faults are used up.

Fairness (`Fairness` in `RangeLease`). A process that runs goes on running:
strong fairness of `WorkerStep`, `DaemonStep` and `ControllerStep`. It has to be
strong because of the mutexes: `concurrency.Mutex` queues its waiters by key
revision, so a waiter is served although others come and go. `SessionExpires` is
weakly fair: etcd ends the session of a dead client after its TTL. The ticker
makes the daemon start a check again and again (`daemon.go:108-119`), hence
`Snapshot` is part of `DaemonStep`. Nothing forces a plugin to be invoked
(`Apply`), a process to die, etcd to fail or a node to depart.

In `LocalIPAM` it is the same: a plugin goes on (`AddStep`, `DelStep`, strongly,
for the file lock, whose waiters the kernel serves), and the ticker starts the
clean-up again and again (`CleanUp`). Nothing forces an ADD, a DEL, a kill, an
error, or a container to start or stop; `Reclaimed` speaks of containers that
have stopped. That docker answers is assumed there, not elsewhere
(`DockerError`).

In `Delegates` a DEL that is under way goes on (`DelStep`, weakly), the runtime
repeats one that failed (`CmdDel`, strongly, since it waits for its turn), and
plugins are not killed for ever. In `VxlanFdb` the ticker runs on and etcd answers
in the end (`CacheToEtcd`, weakly; a put that stays unacknowledged uses up a fault).
In `FixIP` the ticker starts check after check
and each goes on (`ControlStep`, weakly), `delWaitTime` goes by (`TimePasses`), and the
controller is not restarted, nor its deletes lost, for ever. In `Bridge` a plugin
goes on (`Step`, weakly, DELs included) and neither fails nor is killed for ever;
only `BridgeFreed` uses it.

### What the violations show

1. **A range that holds a whole number of blocks** (`lease_exact_fill`). When
   the last block is leased the loop leaves `last = ripe + 1`, `ripe - last`
   wraps, the test at `cli.go:122` passes and the block after `rangeEnd` is
   granted. Its key is skipped as invalid from then on, so the same block is
   granted again to any node. The configuration of the tests, 192.168.56.32 to
   .159 in blocks of 16, is of this kind.
2. **The check and an ADD** (`RangeLeaseCheckVsAdd`). The check reads the leases,
   then the cache, and never takes the directory mutex. A plugin's block that is
   leased after the first read and cached before the second has no lease in the
   snapshot; a lease the check has in its copies may be another node's by now.
3. **A lease taken over** (`RangeLeaseTakeover`). `TransPutKey` finds the key
   missing, a plugin of another node leases it under the directory mutex, and
   the put overwrites the value.
   With a cached block from before `applyUnit` was changed (`RangeLeaseOldUnit`) the key
   it looks for is another than that of the block which overlaps it, and nothing is
   overwritten: etcd then has two leases that overlap. It takes a cached block without a
   lease, as after a restore of etcd.
4. **A search that never ends** (`LocalIPAMEndless`). When the address reserved
   last is the end of a range, the iterator starts at the beginning of the next
   one but remembers the range of the last address; `allocator.go:233` wants both
   to match. With a single range they do; with two and every address taken the
   plugin keeps the file lock for ever.
5. **Reserved addresses** (`LocalIPAMReserves`) are skipped at the start of a range
   set only (`allocator.go:209`).
6. **`last_reserved_ip` cannot be written** (`LocalIPAMFullDisk`): the file of the
   address stays although the ADD fails. The clean-up removes it when the
   container is gone.
7. **Redundant gateways** (`LocalIPAMRedundant`): two ADDs find the same second
   address of the gateway, one removes it, a pod reserves it, and the other
   removes the pod's file. Two addresses of a gateway arise when each ADD
   reserves several (`extEnvNum`), or from two ADDs in two blocks
   (`LocalIPAMGateways`): `Get` refuses a second address to "gateway" only when it
   meets the first in the blocks it searches (`allocator.go:87-93`), and one of the
   ADDs has read the cache before a block was added. The attachments then have
   different gateways.
8. **Releases that go too far** (`LocalIPAMSameContainer`, `LocalIPAMPrefix`): with
   two interfaces of a container on one network, a repeated DEL of one, or the
   first DEL of one whose name is a prefix of the other's, removes both.
9. **Range sets** (`LocalIPAMRangeSets`): only the first is allocated from.
10. **A DEL that fails** (`DelegatesLeak`): `cmdDel` removes the saved delegates when
    it returns (`multus.go:508`), whether the delegates' DELs worked or not. The DEL
    that the runtime repeats works the delegates out again, from a pod that may have
    changed or be gone, and succeeds with something left. Two configurations lead there
    without a DEL that fails by itself (each a change to `Delegates.cfg`). With
    `NADs <- BareNets` a list has no version, so the DEL calls it without its device
    (`multus.go:523-528`). With `Conf <- StaticOfLists` multus' own configuration names a
    list and a pod puts a default network of its own in its place (`OwnDefault` in
    `Forms`): the list's plugins stay behind the saved plugin when the file is decoded
    (`multus.go:509-516`), the DEL cannot read it and fails, and the file is gone. Both
    violate `DelClean`. With `StaticOfLists` and `Pods <- FormTwo` it holds.
11. **CHECK** (`BridgeCheck`) looks for a bridge named after the network with ".br"
    (`bridge.go:722`); the bridge is named "mulbr." and the master's name, so a CHECK
    of a container that is as it was fails.
12. **Two gateways** (`BridgeGateways`): `ensureAddr` lists the addresses, looks for
    others (`bridge.go:127-158`) and adds its own. Two ADDs of networks that share a
    bridge may both find none. The comment there wants one address.
13. **Fixed addresses and the API server** (`FixIPOutage`): any error of the API server
    counts as a missing pod (`controller.go:274`), so when it is out of reach for
    `delWaitTime` the keys of running pods are deleted and their addresses given
    to others.
14. **A pod that comes back** (`FixIPReturns`) after it was found missing for the last
    time and before its key is deleted uses an address whose key then goes. The
    window is the rest of the check, which asks for every other pod.
15. **Names that begin with a name** (`FixIPNested`): the scan of `fix/net1` has no
    separator at its end (`cli.go:281`) and reads the keys of net10. A pod in both
    networks is given net10's address in net1, whoever has it there.
16. **Records that are lost** (`VxlanFdbLost`): `cmdAdd` does not look at what `RecVxlan`
    returns (`main.go:99`), and `RecVxlan` caches nothing when there is no client of etcd
    (`cli.go:21-24`). The ADD succeeds and the record is nowhere until the next ADD on the
    node, although the file is there for the very case that etcd is out of reach. A file
    is also lost when its write is cut short (`cli.go:58`), or when another ADD with the
    node's former address writes last: there is one file for an interface.

## 4. Proofs

TLAPS proves the following for every value of the constants: any number of nodes,
plugins, attachments, sandboxes and containers, every width of addresses, block size
and range, any configuration. A hypothesis in the last column is one the theorem
states; where a configuration shows that the property fails without it, it is named.

| theorem | property | hypotheses |
|---|---|---|
| `FreeRangeProofs!GrantSound` | on a sound table a granted block is in the range, on the grid and apart from every lease | blocks of the size in use, on the grid, last address of the range free |
| `FreeRangeProofs!KeyRoundTrip` | `RangeKey(KeyRange(k)) = k` | |
| `FreeRangeWalkProofs!ClosedForm` | `WalkIsLoop` | |
| `FreeRangeWalkProofs!WalkIsFirstFit` | `FirstFit` | |
| `RangeLeaseProofs!TypeCorrect` | `TypeOK` | |
| `RangeLeaseProofs!GrantsFree` | `GrantFree` | (L) |
| `RangeLeaseProofs!LeasesStayDisjoint` | `LeasesDisjoint` | (L) |
| `RangeLeaseProofs!NoLeaseTakenOver` | `NoTakeover` | (L) (`RangeLeaseTakeover`) |
| `RangeLeaseProofs!OnlyDepartedDeleted` | `OnlyOwnDeleted` | (L) |
| `RangeLeaseProofs!HeldExclusively` | `HeldIsLeased`, `Exclusive` | (L), (S) (`RangeLeaseCheckVsAdd`) |
| `RangeLeaseProofs!LeasesApartWithDaemons` | `LeasesDisjoint` | `RangeOK`, `NoExactFill` (`RangeLeaseExactFill`), `CachesOnGrid` (`RangeLeaseOldUnit`) |
| `RangeLeaseProofs!CachesStayDisjoint` | `CacheDisjoint` | `InPlay(P)` for some set P of ranges |
| `RangeLeaseProofs!UnitCachesStayDisjoint` | `CacheDisjoint` | `SameUnit`, `RoomAbove` |
| `RangeLeaseProofs!LeasingImplementsTable` | `ImplementsTable`, the specification of `LeaseTable` | (L), (S) |
| `FixIPProofs!FixTypeCorrect` | `TypeOK` | |
| `FixIPProofs!KeysStay` | `OneKey` | `NoNested` (`FixIPNested`), `StaleOneKey` |
| `FixIPProofs!NoAddressTwice` | `Exclusive` | `NoNested`, `~Outages` (`FixIPOutage`), `~Returns` (`FixIPReturns`) |
| `LocalIPAMProofs!LocalTypeCorrect` | `TypeOK` | |
| `LocalIPAMProofs!SearchesAreComplete` | `SearchComplete` | `~AllocGW` |
| `LocalIPAMProofs!RoundRobinKept` | `RoundRobin` | `~AllocGW` |
| `LocalIPAMProofs!FailureLeavesNone` | `FailedKeepsNone` | `~Errors` (`LocalIPAMFullDisk`) |
| `LocalIPAMProofs!InUseStaysReserved` | `InUseReserved` | `~AllocGW` (`LocalIPAMRedundant`), one attachment of a container (`LocalIPAMSameContainer`, `LocalIPAMPrefix`) |
| `LocalIPAMProofs!SameGateway` | `OneGateway` | `Single` (`LocalIPAMGateways`) |
| `LocalIPAMProofs!GatewayRemains` | `OneGateway` | `GatewayFiled` |
| `DelegatesProofs!DelegatesTypeCorrect` | `TypeOK` | |
| `DelegatesProofs!UndoLeavesNothing` | `UndoComplete` | |
| `DelegatesProofs!StatusStaysTrue` | `StatusTrue` | |
| `DelegatesProofs!FileRecovers` | `Recoverable` | `~DelFails`, `SameCalls` |
| `DelegatesProofs!GoneIsClean` | `DelClean` | `~DelFails` (`DelegatesLeak`), `SameCalls` (`BareNets`, `StaticOfLists`) |
| `DelegatesProofs!DevicesStayDistinct` | `DevicesDistinct` | `DevicesOnce`, `DefaultUnnamed` |
| `VxlanFdbProofs!FdbTypeCorrect` | `TypeOK` | |
| `VxlanFdbProofs!AddedKept` | `AddedIsKept` | |
| `VxlanFdbProofs!FdbExplained` | `Explained` | |
| `BridgeProofs!BridgeTypeCorrect` | `TypeOK` | |
| `BridgeProofs!AddressKept` | `UpLeased` | |
| `BridgeProofs!GatewayStays` | `GatewayKept` | |
| `BridgeProofs!Connected` | `UpConnected` | |
| `BridgeProofs!NothingLeft` | `CleanDel` | |

(L): no daemon's check runs (`Daemons = {}`), the range is not empty (`RangeOK`) and
does not hold a whole number of blocks (`NoExactFill`, shown necessary by
`RangeLeaseExactFill`). (S): no node departs and the caches were empty at the start
(`Departing = {}`, `NoLeftover`). Everything else the models have is included:
processes killed at any step, calls that fail after they took effect, restarts,
deletes without the mutex, pods that change and go. `StaleOneKey` says that `OneKey`
held of what etcd had before.

The theorems with daemons ask for something of the caches at the start only.
`CachesOnGrid`: they are empty or hold blocks that an ADD could have leased under the
present configuration. `SameUnit`: they hold disjoint blocks of the present size,
wherever those lie; with `RoomAbove`, that a block fits between the range and the last
address there is, `InPlay` follows. `Single`: an attachment has one address
(`extEnvNum` is 1) and the node has leased all it gets. `GatewayFiled`: a gateway has an
address already. `DevicesOnce`: kubelet gives a device to a container once and under one
resource. `DefaultUnnamed`: pods that choose their default network do not name its
interface, which would make it one of the networks `DevicesDistinct` is about although
its device is not taken off the map. `SameCalls`: no list is without a version where
multus' own configuration has one, and no pod puts its default network in the place of a
list in that configuration.

Assumptions on constants. `WidthAssumption` says of powers of two up to `2^W` what the
provers cannot derive without induction. The others give types, and say further:
`ConstantsAssumption` of `LocalIPAM` that blocks do not overlap (what
`LeasesStayDisjoint` proves of those etcd grants), that the cache at the start names no
block twice, that address files are named after addresses, and that none at the start is
of a container that is still to come; `PodNetsAssumption` that multus has a default
delegate or a cluster network, without which `LoadNetConf` fails (`types/conf.go:211`);
`BridgeAssumption` that two networks have different addresses in their pools;
`DelegatesAssumption` that the value for "none" is no pod, and `VxlanFdbAssumption` that
those for "none", "foreign" and "empty" are no addresses. Which delegates are lists,
plugins or bare, is left to `SameCalls`. TLC evaluates each in every run of its module.
That a set of numbers has a least element (`LeastNat`) comes from the library's theorems
on well-founded relations; the modules that need it state it, and use it where others
would use induction.

TLC has checked the inductive invariants too, on a run of each module. In the proof
modules there is one step or lemma for each action.

### Leases

`TypeInv` is `TypeOK` with what the types of the next
step need: an index into a cache is within it, a process at work has keys left.
`AddInv` is the invariant behind `GrantsFree`: the mutex is held by the one
plugin between `LockDir` and `UnlockDir` (or by `Orphan`), every lease is on the
*grid* (a whole number of blocks from the first usable address, one block long,
not reaching the last address of the range), and the block of a plugin at
"found" is on the grid and has no key yet. Two different points of the grid are
at least a block apart, so that a missing key means disjoint addresses, and leases
are disjoint (`LeasesStayDisjoint`). This is
where `GrantSound` is used, and the grid is what makes its assumptions
inductive: `GrantFree` alone is not, since it does not say why a later walk
finds the gaps it may use. `NoTakeover` needs one more step: `PutLease` puts a
key that is not there. `HeldInv` adds that everything a node holds, in cache
or in a plugin about to append it, has its key leased to that node. From it follows
the refinement: what a node uses is leased to it (`HeldOwned`), the only step that
changes the table is `PutLease`, which adds a range apart from all others, and every
other step leaves the table and only moves or drops what is used.

`OnlyOwnDeleted` is about a key the controller has read and deletes much later, while
plugins lease blocks, those of the departed node too. By `DepartInv` every key the
controller still has to delete is there and leased to a node that departs: without
daemons nobody else deletes a key, and a put of a plugin never meets one.

The walk has a proof of its own. `WalkInv` says of the keys taken so far that they come
before those left, that none was a gap, and that `last` is `After` of those not skipped;
at the end they are `Walked`. Nothing is asked of the table. For first fit, a window
before `last` would lie in front of one of the keys taken and make it a gap
(`NoneEarlier`): keys of a well-formed table do not overlap, but etcd's order of their text
is not the order of their addresses when sizes differ, which the argument has to respect.

With daemons and nodes that come back the table no longer explains the caches: leases are
deleted and restored under mutexes that plugins do not take. `PlayInv` goes by the
caches alone. Load and flash of `AppendCache` are two lock sections and write over what
others have added, yet every sequence that is written, cut short or not, is a copy with a
range added that overlapped none of the copy, or one removed; so each copy, cache and
write is `Proper` whatever the order. `SimpleRange.Overlaps` misses a cached
range that surrounds the new one, so the ranges in play have to be ones that it can
tell apart: `InPlay(P)` says that P is such a set, that the caches begin in it and that the
walk stays in it. The blocks of one size are such a set (`UnitCachesStayDisjoint`), unless
the walk's block wraps at the last address, which `RoomAbove` excludes. The blocks of the
grid are another, and for these the same invariant says that every key of the table is on
the grid, whoever put it: two leases are apart although a daemon may put a key
while a plugin looks for a free block (`LeasesApartWithDaemons`). Who has such a lease is
another matter: `NoTakeover` and `Exclusive` fail then, as the violations show, `GrantFree`
fails because a lease is restored between the walk and the put, and `OnlyOwnDeleted`
because the key the controller has read may be another node's when it is deleted. These
theorems therefore ask for (L).

### Fixed addresses

The walk is proved first: in one network it has a last key
(`LastOfWalk`), what is `Behind` it is behind all of it (`BehindAll`), so a free
address has no key (`FreeIsFree`), and a plugin chooses its own key or a free address
(`ChoiceFree`, `ChoiceSound`). `KeyInv`, for `OneKey`, says that the key a plugin is about
to put is the only one for its value; the mutex keeps the other plugins of the
network away, and the controller only deletes. `HeldInv`, for `Exclusive`, is about
what the controller does without the mutex: every address in use has its key with
the pod's value, what the controller has read of a key is still so (`Current`), and the
pod of a key it will delete is not there (`Dead`). Keys out of the range are the
exception a plugin may delete meanwhile, and they are not put again (`Gone`). The put
of a plugin then never meets a key that is about to be deleted, since its pod is
there.

### Addresses of a node

First the iterator, for range sets of any number of blocks (`IterOK`, `IterMoves`): a
call of `Next` goes to the place behind (`NextPlace`), from the end of the last block to
the beginning of the first. `Typed` is `TypeOK` with a record type for the local
variables of a plugin in each phase (`Job`); that the lock is held exactly by the plugin
that searches is part of it.

`SearchComplete` says that a search that gives up has found every address taken. The
invariant behind it (`SearchOf`) says so of the addresses *met* so far (`Met`), those
between the place the iterator came to first and the one it is at: each has
an owner, or is one that `Next` skips. A call adds one place to them (`BetweenNext`),
and when the iterator is back at its start they are all there are, in whatever range
that is. No file goes while the search has the lock: without allocGW every removal
takes it (with allocGW `main.go:123` removes files and does not). `Since` says
that the iterator started behind the address reserved last, in the block that it is in;
this needs that no block is twice in the cache (`BlocksApart`), and gives `RoundRobin`.

`FailedKeepsNone`: an attachment has no file (`NoneOf`) before its plugin has reserved
the first address and when it has released the last (`Bare`, `Traced`): the roll-back
goes by the interface, and its first release takes all. A write error breaks this at the
file just created (`backend.go:89`), hence `~Errors`. `InUseReserved`: what a plugin has
reserved and not returned, and what an attachment was given, is in a file of its own
(`Kept`). Every action that removes files removes those of one container (`Uphold`): of
its own, by a roll-back or a DEL, or of one that docker does not list. The clean-up read
the files before it asked docker, so a container that runs then is kept.

`OneGateway`: the look for a gateway, its allocation and the release of redundant ones
take no lock in common. `GwOf` says that an address a plugin has taken for the gateway's is
the first of the gateway's files and that those it will release come behind it, so the
first is never released (`FirstStays`); the clean-up removes files of containers,
never of "gateway" (`GcSafe`). It remains that nobody makes a file in front of the first.
A plugin allocates only if it found none, and it may reserve only if there is still
none, because `Get` has the lock and looks for a file of its owner in the blocks it goes
through: those it read from the cache (`Settled`), which are all there are under `Single`.
With `extEnvNum` 2 the second address of one plugin may come in front of the first of
another, and with a block still to be leased the other's is in a block not searched.
With `GatewayFiled` there is nothing to make: the first of the files is kept, so that
every look finds it (`GwStays`).

### Multus

The lists of delegates come first. Whatever pod and configuration they are made from,
the first delegate is the master and no other is (`Led`); the file stores no master
(`types.go`). What is decoded over the delegates of the configuration is what was saved
(`Straight`) under `SameCalls`: the first delegates of a saved list are then the
configuration's, lists behind lists, whatever the pod adds behind them
(`BaseStraight`, `PodStraight`), and no list is written anew. `GetNetworkDelegates` is the one
recursion of a module with proofs: that its function has the values its definition says
at every turn (`TurnsExist`) is proved from the least number at which it would not.
`Good` then says of each sandbox and each place in multus what is set up: exactly what
the delegates before the next one have made (`Made`) in an ADD, at most what those not
yet passed have made in an undo or a DEL, and that the file has the delegates. In `cmdDel`
the file is removed at the end even if a delegate failed, so that `Recoverable` and
`DelClean` need `~DelFails`, and `SameCalls` for the same reason: a delegate that cannot
be read fails. `StatusTrue` relates the sandboxes of a pod: beside one that
is up, or coming up, no other has a namespace or a call that has seen one (`Lone`), so
that no old DEL clears the status; an update with a pod that was written since it was
read is refused (`fresh`); and pods of system namespaces have no status (`Unset`).

`DevicesDistinct` goes through the turns of `AddNetwork` in the same way: at each turn the
devices of the delegates so far are apart, and none is in what the map has left of any
resource (`TakeDevice` takes the first off); the least turn at which this fails would
be one that does not (`DevicesOnce` gives the beginning).

### VXLAN records and interfaces

A put adds its record to `Records`, a delete removes it, and nothing else does
(`RecordsChanged`). `Explained` is inductive together with the type invariant, from a
case for each way a record comes (`ToCome`, `ComesAgain`): what the daemon takes off its
list, or moves past in the log, goes to the table or to the names it remembers
(`Reason`), and what it can no longer be told of, or has dropped because the interface
was no VXLAN or the kernel refused, goes to `missed`. `AddedIsKept` is inductive as it
is, with a case for each way `RecVxlan` and its file may end (`KeptPlugin`): the put may
have taken effect or not, a write takes the place of what was in the file (`KeptWrite`,
and what was there is `lost` unless etcd has it or it is written again), and when
multusd removes a file its record is in etcd.

In `Bridge` the invariant is a conjunction: `Path` (the place of a plugin says what it
has done), `Leased` (an address belongs to one container, which has it from "configure"
on), `Attached` (the interface a plugin knows is the one in the kernel or has gone, and
keeps its master once this is the bridge), `GatewaySet` (no address twice on an
interface, none removed without forceAddress) and `Released` (a DEL releases the address
before it touches the interface). The interesting step is two plugins that work on the
same VXLAN interface with what they read before: the id in `got` tells an interface
that was deleted and made again from the one that was read.

### Only model-checked

- `CacheDisjoint` with daemons when the caches start with a block of another size
  (`lease_check`), where `LeasesDisjoint` is false already.
- `WaiterServed`, `CheckConverges`, `SearchEnds`, `Reclaimed`, `Cleaned`,
  `CacheReachesEtcd` and `Freed`: liveness under fairness and ENABLED are beyond the
  prover.

## 5. Plan

1. `FreeRange` and `FreeRangeWalk`, `RangeLease`, `LeaseTable`, `FixIP`, `RangeIter` and
   `LocalIPAM`, `PodNets` and `Delegates`, `VxlanFdb`, `Bridge` - modelled and checked;
   every safety property of a run is stated by a theorem, under the hypotheses of
   section 4.
2. Proofs worth having next: `CacheDisjoint` with daemons whose caches start with blocks of
   another size, where a set of ranges in play has to be found that holds both.
3. Leases of several networks, with the prefix scan of `cli.go:100`, and holders of a
   mutex whose session expires while they are at work.
4. The arguments of delegates (`CNI_ARGS`, `extEnv`), which stay in the environment for
   the delegates after them (`multus.go:232`).

Not modelled: the parsing and validation of the IPAM configuration
(`allocator/config.go`) and of the configuration of multus beyond what `PodNets` says,
logging, the fakes of the unit tests, images and charts, `cmdGet` and the CHECK of the
IPAM plugin, which do nothing, and the kernel behind the netlink calls.
