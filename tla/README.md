# A TLA+ development for MyCNI

MyCNI is a Kubernetes network plugin in Go: two IPAM plugins, a main plugin that
connects pods over a vxlan device, eBPF programs that redirect packets, and a
daemon that gives every node its subnet. This directory holds TLA+ models of its
stateful parts and of the cluster they make together, the TLC configurations
that check them, and TLAPS proofs of their safety properties and refinements for
every value of the constants. Paths below are relative to `src/`.

## 1. Inventory

| Component | Source | State it keeps | Operations |
|---|---|---|---|
| Local IPAM plugin | `plugins/ipam/local` | one JSON file per network (`ips`, `last`), a flock on its directory | ADD, DEL, CHECK |
| etcd-mode IPAM plugin | `plugins/ipam/etcdmode`, `etcdwrap`, `utils/conf_helper.go` | etcd keys: the cluster's free subnets; per host its subnet, gateway, free addresses; per device its address | ADD, DEL, CHECK, ReleaseHostIP |
| Node daemon mycnid | `cmd` | a bit mask in etcd on a lease of 3 s; `/run/testcni/subnet.json` on each node | one run per start |
| vxlan main plugin | `plugins/main/vxlan`, `pkg/ip`, `pkg/ipam` | veth pairs, addresses, routes, the device `vxlan2` | ADD, DEL (CHECK does nothing) |
| bpfmap library | `bpfmap` | pinned maps `lxc_map`, `node_vxlan_map`, and three more | create and pin, put, delete one, delete all (Reset), read |
| tc helper | `tc` | clsact qdiscs and filters | attach |
| eBPF datapath | `ebpf` | none of its own: reads the maps | per packet |
| Kubernetes controller stub | `cmd/mycnid.go`, `cmd/kube.go` | none | returns at once |
| Link helpers without a caller, logging, constants, parsing, test support | `pkg`, `consts`, `utils` | none | |

How they interact:

- The container runtime executes the main plugin once per pod and command, as an
  OS process; the main plugin executes an IPAM plugin, again as a process, and
  reads its result from standard output. Nothing else orders calls: the runtime
  serialises those of one container, those of different containers overlap.
- The local IPAM plugin reads the node's subnet from `subnet.json`, which mycnid
  writes. The two share nothing else: a reboot empties `/run` and keeps the
  store in `/var/lib`.
- mycnid's processes on different nodes meet in one etcd key. So do the
  etcd-mode plugin's, in one key per cluster and several per host, without a
  transaction, lock or lease.
- The main plugin's processes on a node meet in `vxlan2` and in `lxc_map`, which
  they look up, create, pin and fill in separate steps; the eBPF program
  `veth_ingress` reads that map.
- tc, loading an object file, pins the maps the file declares; so `lxc_map` has
  two makers, the `bpfmap` library and the loader, that know nothing of each other.

What is hard, and what each component has to get right:

| Component | Hard behaviour | Correctness |
|---|---|---|
| Local IPAM | overlapping processes; death in the middle of truncate-and-write; a reply printed after the lock is dropped; the wrap-around search; a store that outlives the subnet | no address granted twice; what was granted stays recorded; replies are true when they are heard; next fit; the search ends; an atomic table seen from outside |
| etcd-mode IPAM | read, choose, write back over single keys; dropped errors; lists that run empty; a host given up and used again | subnets and addresses never doubled or lost; a device keeps its address; a reply fits the host |
| mycnid | read and write of the mask in two transactions; its lease; death between setting the bit and writing the file; restarts | distinct subnets; a node keeps its subnet; a good end means a subnet |
| the cluster | a store that survives a restart after which the node may have another subnet; pods added while `subnet.json` is rewritten | one address, one pod, cluster-wide; a pod's address is of its node's subnet |
| vxlan plugin | two ADDs setting up one device; a map with room for 32; the deferred undo; DEL without a namespace; repeated ADDs | a pod has the address the runtime was told; no entry leads to a device that is gone, no packet to another pod; a failed ADD leaves nothing reserved; success means connectivity |
| bpfmap | two makers of one map; entries that come and go under an iteration; an iterator and a batch that give up early | one map per path; a Reset that reports success has emptied the map; it ends |

`PROJECT.json` lists each of these hazards at its line.

## 2. Modules

| Module | What it is |
|---|---|
| `AddressPool` | the abstract specification of an IPAM backend: a table from addresses to owners, changed by one whole reservation or release at a time, that may be lost as a whole |
| `NodePool` | the abstract specification of a node: an `AddressPool` that serves the subnet of this boot, the answers on their way to the runtime, the addresses of live pods, and restarts that only the table survives |
| `LocalIPAM` | the local plugin; refines `NodePool` |
| `LocalIPAMProofs` | its invariant, uniqueness and persistence of grants, truth of replies |
| `LocalIPAMScan` | theorems about AllocateIP's search |
| `LocalIPAMRefinement` | `LocalIPAM` implements `NodePool` |
| `EtcdIPAM` | the etcd-mode plugin; refines `AddressPool` where its calls do not interfere |
| `EtcdIPAMProofs` | theorems about `EtcdIPAM`, its refinement among them |
| `Mycnid` | the daemons of all nodes and their mask |
| `MycnidProofs` | theorems about `Mycnid` |
| `Cluster` | all nodes: `Mycnid`'s daemons composed, through `subnet.json`, with a `NodePool` store per node; each node refines `NodePool` |
| `ClusterProofs` | theorems about `Cluster`, each node's refinement among them |
| `VxlanPlugin` | the main plugin, composed with `AddressPool` for the IPAM plugin it runs, with `lxc_map`, the tc helper's steps, `vxlan2`, and the redirect decision of the eBPF programs |
| `VxlanPluginProofs` | theorems about `VxlanPlugin` |
| `BpfMaps` | the map library: creating, pinning, filling and resetting pinned maps |
| `BpfMapsProofs` | theorems about `BpfMaps` |
| `MC*` | instances for TLC: subnets, command sets, symmetry |

Each module names its mutants (`\* Mutant of ...`): definitions that are not part
of the specification and show, each put in the place of the definition it
names, that a property can tell the code from a plausible mistake.

### LocalIPAM and the code

One process slot per running plugin. `pc` follows the code: `Call` is `main` up to
`store.NewStore`, including the read of `subnet.json`; `Lock` is the flock
(shared for CHECK); `LoadData`, `CreateFile`, `InitFile` are `Store.LoadData`; the
`Lookup...` actions are what AllocateIP, ReleaseIP and CheckIP do before they
change anything; `ScanOverflow`, `ScanUsed`, `ScanFree` are one round of
AllocateIP's loop each, so that the search can fail to end as it can in the
code; `Truncate` and `Write` are the two halves of `os.WriteFile`; `Unlock` is the
deferred unlock and `Exit` the printed result. `mem` is `Store.data`, `start` the
loop's cursor. `file` is `absent`, `torn` (empty or cut: no JSON object) or `ok`
with its contents. `granted` is not in the program: it is what the runtime has
been told, the state that properties need to relate replies and records.
`IOError`, `Kill` and `Reboot` are the environment. `Refines` maps the file to
`NodePool`'s table, a torn file to the lost one, the reply of a process that has
not exited to `answer`, and `granted` to `live`.

Abstractions: addresses are numbers and a subnet `Size` consecutive ones; the
interface name is stored and never read, and is left out; a `subnet.json` that
cannot be parsed counts as absent, since the call fails alike; `flock` itself does
not fail (the code drops its error, and on an open local file it has none but an
interrupted wait).

### EtcdIPAM and the code

One action per etcd request, in the order of the calls; between any two requests
other processes run. A stored list stands for what splitting its string form
gives, so that the list without elements reads back as the list of one empty
string, as in the code. `ReadError` and `WriteError` give each request the outcome
the code gives it, dropped errors included. `ReleaseHostIP` has no caller but the
tests and is modelled under the precondition its comment states (all pods
released, nothing running). A failure between a request being applied and being
answered is `Kill` after the step. Two hosts' keys are distinct.

`Overlap` chooses the environment: `"none"` (one call at a time in the cluster),
`"hosts"` (calls of different hosts overlap once every host has its subnet),
`"all"`.

### Mycnid and the code

`CheckFile` is `checkLocalSubnetFileSettings`, `InitBitMask` and `WatchBitMask` the
transactions of the same names with the choice of a bit, `RenewBitMask` the
conditional put, `TruncateFile` and `WriteFile` the write of `subnet.json`,
`Report` the check of `curBit` at the end. A mask is the set of its bits that are
`1`. `Expire` deletes the key. `Dies` covers kills, failed requests and failed
writes, all of which end the run with Fatal or a panic; the node listings that
follow only print. A reboot empties `/run`. Two variables are histories:
`overwritten` says that a put replaced a mask other than the one its run had
read, `expired` that the lease has run out once. `DistinctUnlessLost` says that
these two are all that can make two nodes share a subnet.

### Cluster and the code

`Cluster` takes `Mycnid`'s actions as they are and adds what happens on each node
with its pods. The local plugin appears as what `local_faults` shows it to be, the
steps of `NodePool`, each guarded by what the plugin needs: a `subnet.json` and a
store it can read. `Reserve` and `Answer` are ADD (a container that has a record
gets that one, whichever subnet it is from, as in AllocateIP), `Deliver` the
printed result or its loss, `Forget` and `Release` DEL, `Lose` a store cut short.
`Reboot` is `Mycnid`'s, and takes the pods with it; `owner`, in `/var/lib`, stays.
`NodesServe` closes the circle: with the file that the daemon writes as its
subnet, each node is again a `NodePool`, which takes its subnet once per boot.

### VxlanPlugin and the code

The actions of `Add` are the steps of `cmdAdd` in their order: the IPAM call,
`SetupVeth`, address and route, finding the host veth again, lookup, creation and
pinning of `lxc_map`, the put, ARP, the filter on the pod's veth (whose loading pins
the maps that are not pinned yet), the parts of `vxlan2` in the order they are set
up, and the deferred `ExecDel` (`Undo`), which runs whatever the result. The actions
of `Del` are those of `cmdDel`. ADD calls are numbered, and the number serves as
the index of the host veth the call makes. `StepFails` fails the step a call is
at, with the consequence the code gives it (an error, or nothing where the
error is dropped). `NetnsGone` takes a pod's namespace, and with it the veth pair,
when no call of that pod runs; `LoseIpam` is `AddressPool`'s `Lose`; `Reboot` takes
all but the IPAM plugin's table. `alone` is a history: the process beside which no
other has run.

`VethIngress` and `VxlanIngress` are the two programs' choice of a device for a
packet, over the same `lxc_map`. `vxlan_ingress` looks its entry up by an
uninitialised variable, which is a choice of any entry or none.

### BpfMaps and the code

`Create` is `CreatePinMapOnce` (`FindMap`, then `PinMap` for whoever made a map);
`Put` and `DelKey` load the pinned map and do one request. A Reset opens the map,
iterates (`IterNext` asks for the key after the last one, `IterLook` for its value)
and hands the keys to one batch delete, which the kernel does key by key. The
iterator's count and its restart when the last key is gone are those of
`cilium/ebpf` and the kernel's hash table, whose order (buckets, newest first) the
model keeps, since it decides what an iteration under changes can miss. The three
Reset functions differ in the map they open; all read values of `lxc_map`'s size
and delete from `lxc_map`. `fresh` is a history: the keys put since the Reset began.

## 3. Runs

Every run ends within the bounds below in about two minutes at most. Symmetry is
used for the interchangeable names of safety runs only.

| Run | Question | Bounds |
|---|---|---|
| `local_faults` | uniqueness and persistence of grants, truth of replies, one record per container, records inside the pool, refinement of `NodePool` | 2 processes, 2 containers, 2 subnets that are not neighbours, 4 addresses each (2 for containers), 2 faults |
| `local_scan` | the search: next fit, no premature end, and that it and every call end | 2 processes, 3 containers for 2 addresses, one subnet, no fault; fairness |
| `local_renumber` | *violation*: `CallsReturn` | 1 process, 3 containers, 2 subnets, 2 faults; fairness |
| `etcd_hosts` | no address lost or doubled, replies fit, the gateway goes and comes with the host's subnet, refinement | 2 processes, 2 hosts, 2 devices each, 3 subnets of 2 addresses, 1 ReleaseHostIP |
| `etcd_failures` | what one kill and one failed request leave true | 1 process, 2 hosts, 2 devices, 4 subnets |
| `mycnid_daemons` | distinct and backed subnets unless a mask was lost; what holds even then | 3 nodes, 4 bits, 2 faults; overlap and expiry at any time |
| `mycnid_lease` | *violation*: `DistinctUnlessOverwritten` | 2 nodes, 3 bits |
| `vxlan_overlap` | no dangling entry, no leaked reservation, an ADD alone maps its pod, `vxlan2` ends up whole | 3 processes, 3 pods, 3 addresses, map of 3, 3 ADDs |
| `vxlan_faults` | a pod has the address the runtime was told; packets reach their addressee or nobody | 2 processes, 2 pods, map of 1, 3 ADDs, 2 faults of any kind, reboots among them |
| `vxlan_undo` | *violation*: `AddKeepsAddress` | 1 process, 1 pod |
| `cluster_nodes` | one address, one pod, cluster-wide; addresses of the node's subnet; each node refines `NodePool` | 2 nodes, 3 subnets of 1 address, 2 containers per node, 1 fault; overlap and expiry at any time |
| `bpf_reset` | one map per path, a Reset empties, and ends | 1 creating or resetting process among any number that put, delete and pin; 4 keys for a map of 3, two in one bucket; fairness |

Why these bounds are enough to be interesting. Two processes give every pair of
steps an order, and most hazards of the code are a race of two; in `vxlan_overlap`
a third meets what two racing ones left. Two faults allow a torn file and then a
reboot, or a reboot that takes the subnet and one that brings another. Two
container addresses make the next-fit search wrap; the third container of
`local_scan` meets a full subnet. With three subnets, two hosts and one release
the cluster pool of `etcd_hosts` runs empty and is made again. In `vxlan_faults`
the map is full after one pod. In `cluster_nodes` the second container meets a full
subnet, and a restarted node a third one, as its old bit stays set. In `bpf_reset`
the map is full with a key left over, and three entries let an iteration be
thrown back after it collected some. The mutants, each violated under the run's
own bounds, show that the cases happen.

**Fairness.** `FairSpec` of `LocalIPAM` assumes weak fairness of each process's own
steps (a running process is scheduled) and strong fairness of `Lock` (the kernel
wakes flock waiters in turn, so one that finds the lock free infinitely often
gets it). It assumes nothing of calls, faults, reboots or of mycnid writing a
subnet. Without strong fairness an endless stream of CHECKs and short calls
could starve a waiter. `BpfMaps`' `FairSpec` assumes weak fairness of a process's
steps, and nothing of the others: they may put and delete for ever. That a Reset
ends all the same rests on the iterator's count.

### Other environments

A restriction in a run above (calls that do not overlap, a mask that was not
lost, room in the map) is there because the property does not hold without it.
For each there is a configuration in which TLC finds the counterexample; they
are kept as documentation and are not part of the list of runs.

| Configuration | Property that fails | Because |
|---|---|---|
| `LocalIPAM_adjacent` | `RecordsInPool` | `last` of the lower neighbour subnet makes ADD start below the new subnet and give out its own address (`plugins/ipam/local/main.go:107`) |
| `EtcdIPAM_race` | `DevicesDistinct` | two ADDs of one host read the same free list (`allocator.go:169`) |
| `EtcdIPAM_redel` | `DevicesDistinct` | a failed request whose error is dropped leaves an address free and held (`allocator.go:179`, `:222`) |
| `EtcdIPAM_rejoin` | `DevicesInSubnet` | the free addresses of a host that was released stay; storing the new ones may fail unnoticed (`allocator.go:76`) |
| `EtcdIPAM_drained` | `AddHasAddress` | splitting the empty string gives one element, so an empty pool is never recognised (`allocator.go:172`) |
| `EtcdIPAM_broadcast` | `NoBroadcast` | the broadcast address of a /28 does not end in 255 (`utils/conf_helper.go:19`) |
| `EtcdIPAM_exhausted` | `SubnetsDistinct` | an empty cluster pool reads as one that was never made (`etcdwrap/client.go:123`) |
| `EtcdIPAM_leak` | `SubnetReturned` | ReleaseHostIP does not put the subnet back (`allocator.go:94`) |
| `Mycnid_race` | `DistinctUnlessExpired` | the mask is read and written in two transactions (`cmd/myetcd.go:401`) |
| `Mycnid_firstrun` | `InitSucceeds` | the value judged at the end was read before the file was written (`cmd/myetcd.go:415`) |
| `VxlanPlugin_pinrace` | `MappingComplete` | two first ADDs both create the map; one fails to pin it and drops the error (`bpfmap/bpfmap.go:48`) |
| `VxlanPlugin_full` | `MappingComplete` | the error of the put into a full map is dropped (`plugins/main/vxlan/main.go:533`) |
| `VxlanPlugin_halfup` | `VxlanReady` | an ADD takes a device another one is still setting up as ready (`pkg/ip/ip.go:283`) |
| `VxlanPlugin_netns` | `EntriesLive` | DEL without a namespace returns before it removes the entry (`plugins/main/vxlan/main.go:595`) |
| `VxlanPlugin_tunnel` | `TunnelHits` | `vxlan_ingress` asks `lxc_map` with an uninitialised variable for a key (`ebpf/vxlan_ingress.bpf.c:64`) |
| `Cluster_renumber` | `AlwaysInSubnet` | ADD answers from a record of the subnet the node had before it restarted (`plugins/ipam/local/main.go:94`) |
| `Cluster_lost` | `AlwaysUnique` | with the mask lost two nodes serve one subnet, and two pods get one address (`cmd/myetcd.go:210`) |
| `BpfMaps_aborted` | `AnyResetEmpties` | an iteration that used its steps up ends like one that saw all entries (`bpfmap/main.go:240`) |
| `BpfMaps_others` | `OthersReset` | values of 4 bytes are read as ones of 24, which ends the iteration at its first entry (`bpfmap/main.go:258`) |

### Findings

Three of the disagreements between code and text are listed as findings with
their runs: the search that never ends after a change of subnet
(`local_renumber`), the mask that expires after three seconds (`mycnid_lease`) and
the deferred release after a successful ADD (`vxlan_undo`).

- `local_renumber`: `last` is an address of the old subnet, the node comes back
  with another one, and the new subnet fills up. AllocateIP's loop stops only on
  meeting `last`, which the new subnet does not contain: ADD goes round for ever
  with the exclusive flock held, and every later call on the node waits.
- `mycnid_lease`: the first node puts the mask with a three-second lease that
  nobody keeps alive; a node that starts later finds no mask, makes an empty one
  and takes bit 0 as well.
- `vxlan_undo`: `defer ExecDel` has no condition, so that a successful ADD ends by
  releasing the address it has just reported, and another pod may get it.

## 4. Proofs

Every safety and action property that a passing run checks is also a theorem,
and so are the three refinements. A theorem is about all values of the
constants: any number of processes, nodes, pods and addresses, any bound on
faults and calls. A hypothesis is there only where the property needs it; why it
does is said below the table.

| Module | Theorem | Statement | Hypothesis |
|---|---|---|---|
| `LocalIPAMProofs` | `Invariant`, `TypeCorrect` | `[]IInv`, `[]TypeOK` | |
| | `GrantsUnique`, `GrantsStayBacked`, `GrantsStay` | `[]UniqueGrants`, `[]GrantsBacked`, `StableGrant` | |
| | `RepliesStayTrue`, `SingleRecords` | `[]RepliesTrue`, `[]OneRecordPerContainer` | |
| `LocalIPAMRefinement` | `Refinement` | `Refines`: implements `NodePool` | |
| `LocalIPAMScan` | `PoolOnly`, `SearchFits`, `NothingLeft` | `[]RecordsInPool`, `NextFit`, `NoFalseExhaustion` | `Apart` |
| | `SearchRounds` | `SearchAdvances`: a search ends within `Size - 1` rounds | `Apart`; the last address is of the node's subnet |
| `EtcdIPAMProofs` | `Invariant`, `TypeCorrect`, `DevicesStable` | `[]IInv`, `[]TypeOK`, `DeviceStable` | |
| | `SubnetsKept` | `[]DevicesInSubnet` | no overlap on a host, no ReleaseHostIP |
| | `HostsInOrder`, `GatewaysOfSubnets`, `RepliesFit`, `EachFreeOrHeld` | `[]HostsInv`, `[]GatewayOfSubnet`, `[]ReplyFits`, `[]FreeOrHeld` | no overlap on a host, no failures |
| | `DevicesKept` | `[](DevicesInSubnet /\ DevicesDistinct)` | the same |
| | `SubnetsGivenOnce` | `[]SubnetsDistinct` | `Enough` |
| | `Refinement` | `Refines`: implements `AddressPool` | `Enough`, no failures |
| `MycnidProofs` | `Invariant`, `TypeCorrect` | `[]IInv`, `[]TypeOK` | |
| | `DistinctSubnets`, `BackedSubnets` | `[]DistinctUnlessLost`, `[]BackedUnlessLost` | |
| | `OkRunsHaveSubnet`, `SubnetsStay` | `[]OkHasSubnet`, `SubnetKept` | |
| `ClusterProofs` | `Invariant`, `TypeCorrect` | `[]IInv`, `[]TypeOK` | |
| | `PodsUnique`, `PodsInSubnet` | `[]ClusterUnique`, `[]LiveInSubnet` | |
| | `NodesImplement` | `NodesServe`: each node implements `NodePool` | |
| `VxlanPluginProofs` | `Invariant`, `TypeCorrect` | `[]IInv`, `[]TypeOK` | |
| | `LinksAreAsTold`, `RedirectsAlwaysHit` | `[]LinkAsTold`, `[]RedirectsHit` | |
| | `FailedAddsRelease` | `[]FailedAddReleases` | no step fails of itself |
| | `NoStaleEntries` | `[]EntriesLive` | no step fails of itself, no kill, no namespace goes first |
| | `LoneAddsMap` | `[]LoneAddMaps` | no step fails of itself, the map is as large as the subnet |
| | `DeviceSettles` | `[]VxlanSettles` | no step fails of itself, no kill |
| `BpfMapsProofs` | `Invariant`, `TypeCorrect` | `[]IInv`, `[]TypeOK` | |
| | `SingleMaps`, `ResetsEmpty` | `[]OneMap`, `[]ResetEmpties` | |

**Assumptions.** They are named where the constants are declared. The markers
for "nothing" (`NoOne`, `NoAddr`, `NoName`, `None`, `Torn`, `Empty`) are none of
the values they stand beside; bounds are naturals; a subnet has more than two
addresses; the etcd plugin's list of subnets has no duplicates, and the subnets
of different bits of the mask are disjoint. Nothing is assumed finite but what
is counted: `Hosts` in `Enough`, `Addrs` in `LoneAddsMap`.

**Hypotheses.** They restrict what happens; for most a configuration of section 3
has the counterexample:

- `Apart` (subnets of the local plugin neither overlap nor touch):
  `LocalIPAM_adjacent`. Uniqueness, persistence and the refinement do not need
  it. That `SearchAdvances` is about a last address of the node's own subnet is
  due to `local_renumber`.
- `Overlap # "all"` (no two calls on a host, and hosts join one after the
  other): `EtcdIPAM_race`. `MaxKills = 0` and `MaxErrors = 0`: a kill between taking
  an address and storing it loses the address, and a dropped error doubles one
  (`EtcdIPAM_redel`). `MaxReleases = 0`: `EtcdIPAM_rejoin`.
- `Enough`: subnets for all hosts and for each one that a kill, a failed request
  or a release loses, and one failed request at most, since two make
  `InitPool` store all subnets again. With fewer subnets the pool runs empty and
  is made again while hosts have its subnets (`EtcdIPAM_exhausted`).
- The kinds of faults of `VxlanPlugin`: the undo is itself a step that can fail;
  a kill leaves `vxlan2` half made, and a pod whose DEL was cut short keeps its
  entry, as one without a namespace does (`VxlanPlugin_netns`). The map's size:
  `VxlanPlugin_full`.

**Arguments.** Each module of the model ends with its inductive invariant. A
preservation proof has a lemma per part and a step per action; a lemma about
what a step leaves alone (`OthersLocals`, `Frame`, `PlainShape`) saves repeating
it for every process but the one that moves.

`LocalIPAM`: `UniqueGrants` is not inductive, as two processes may be about to
tell the runtime the same address unless the file, or whoever rewrites it, holds
both claims. `IInv` adds: `CallsInv`, which command can be where; `SerialInv`, the
runtime's discipline (one call per container, DEL when the container is gone),
without which DEL of a live container frees its address; `LockInv`, who is inside
the flock; `MemInv`, what a process inside holds is what the file says until it
changes it, and covers all claims until it is written; `ClaimsInv`, every address
told or about to be told is recorded, and a torn file serves no one; `TableInv`,
the records, whoever is rewriting the file, are one table with one record a
container. Claims arise in two steps only (lemma `ClaimsArise`), both under the
lock. For the refinement a change takes effect where the file is truncated: from
there the call completes it or the whole table is lost, so `Truncate` is the
reservation or release, and the kill or failed write of the process that holds
the truncated file is `Lose`. For the search, `FirstPass` says that all between the last
address and the cursor is in use, `SecondPass` the same of the part above the
last address and of what the cursor went over since the gateway; the free
address it stops at is then the next one, and one that stops at the last address
has seen all. `RoundsLeft` falls by one each round.

`Mycnid`: until a mask is lost, every bit that a node has, or has put and is yet to
write (`Takes`), is set and is nobody else's (`MaskInv`); a put that replaces the
mask its run has read adds a bit that this mask did not have (`RunInv`).

`Cluster`: uses `Daemon!IInv`, and its step lemmas, as they are. `UseInv` extends
`MaskInv` from the subnets nodes have to those their records and pods are still
from: a node that restarts leaves its old bit set, so that nobody is given the
subnet while its store remembers it. `StoreInv` and `BootInv` relate records,
answers and live pods to the boot.

`VxlanPlugin`: ADDs are numbered and the number names the link (`NumbersInv`), so
that an entry of `lxc_map` with a number is an entry of that ADD, and the link of an
ADD that has set its address has the address its call got (`LinksInv`).
`PartsInv` says that somebody is about to set up each part `vxlan2` lacks.

`EtcdIPAM`: `IInv` (types, `MemInv`, one call for a device at a time) holds under
any overlap and failure. `HostsInv` says of a host at rest that its keys are in
balance: each address of its subnet is in the list of free ones or at one
device, once; and of a call under way what it is yet to store to restore the
balance. `SubnetsDistinct` is a matter of counting: when the first `k` subnets are
out, `k` is at most the number of hosts that have one and of those lost
(`PoolInv`); so when the pool is empty every host has its subnet, no release is left and no
one joins again. Both together make one table of the whole cluster: a device's key is
stored when nobody has the address, which is the step of `AddressPool`.

`BpfMaps`: an iterator that has not come to a key is still to come to it: the
key is behind its last one in the order of the table, or that one is gone and
the iterator starts over (`Ahead`, `ResetInv`). Puts go to the front of a bucket,
which may be behind the iterator, but such keys are fresh.

**Model-checked only.** Liveness under fairness is out of the prover's reach:
`CallsReturn` of `LocalIPAM` and of `BpfMaps` stay with TLC (`SearchRounds` and the
iterator's count, bounded in `TypeOK`, are the parts of them that are proved). The
violations are TLC's. That a recursive computation over data does what it should
for every input cannot be proved either; the models have none. TLC checked each
inductive invariant, and `SearchAdvances`, on instances like those of the runs
before it was proved.

## 5. Not modelled

- Of the eBPF datapath: MAC addresses; `vxlan_egress` and the second half of
  `veth_ingress`, which look nodes up in `node_map`, a map that nothing fills.
  `veth_ingress` and `vxlan_egress` do not compile as they stand in the
  repository (a missing semicolon, an undeclared name); the model is of what
  `veth_ingress` says otherwise.
- Functions without a caller: `DetachBPF` and `ShowBPF` of `tc`; `setupHostVeth` and
  the helpers only it uses; `ReleasePool`, `ReleaseHostGateway` and `FindIPByID`
  of the etcd-mode plugin. The getters of `bpfmap` only read.
- The Kubernetes controller: it returns before it does anything.
- Parsing of configuration, logging, formatting of results, test support.

## 6. Plan

Written so far, in this order: `AddressPool` and `LocalIPAM` (the component every
pod depends on), `EtcdIPAM`, `Mycnid`, `VxlanPlugin`, `BpfMaps`, then `NodePool` and
`Cluster`, which join `Mycnid` and `LocalIPAM`; then the theorems of section 4.

Next:

1. `VxlanPlugin`: that the addresses of its pods, seen from the runtime, implement
   an `AddressPool` as long as no deferred undo runs after a success.
2. `EtcdIPAM`: what one kill or one failed request leaves of `HostsInv` (an address
   lost at most, none doubled), as an invariant and a theorem with its hypothesis.
3. `BpfMaps`: that a Reset which used its steps up has deleted what it collected.

## 7. Running

```
tlc -config LocalIPAM_faults.cfg MCLocalIPAM.tla     # any configuration X_y: module MCX
tlapm LocalIPAMProofs.tla                            # any module with theorems
```
