------------------------------ MODULE VxlanPlugin ------------------------------
(***************************************************************************)
(* The main plugin (plugins/main/vxlan) on one node.  ADD asks the IPAM    *)
(* plugin for an address, builds the pod's veth pair, writes the pinned    *)
(* lxc_map from which veth_ingress redirects packets, sees to the node's   *)
(* vxlan device, and in the end undoes the IPAM call.  DEL asks the IPAM   *)
(* plugin to release, deletes the link and its entry.  Nothing is locked;  *)
(* the runtime serialises the calls for one pod only.  The IPAM plugin is  *)
(* the table of AddressPool, which LocalIPAM implements.                   *)
(***************************************************************************)
EXTENDS Naturals, FiniteSets

CONSTANTS
  Procs,        \* slots for concurrently running plugin processes
  Pods,         \* container ids, each with one interface
  Addrs,        \* the addresses of the node's subnet
  NoAddr,       \* no address
  NoOne,        \* the owner of an address nobody holds
  MaxEntries,   \* capacity of lxc_map (32)
  MaxAdds,      \* bound on ADD calls; their numbers serve as interface indices
  Kinds,        \* what may go wrong, of FaultKinds
  MaxFaults     \* bound on how often it does

ASSUME NamesAssumption ==
  /\ NoAddr \notin Addrs
  /\ NoOne \notin Pods

FaultKinds == {"fail", "kill", "netns", "lose", "reboot"}

ASSUME BoundsAssumption ==
  /\ MaxEntries \in Nat /\ MaxAdds \in Nat /\ MaxFaults \in Nat
  /\ Kinds \subseteq FaultKinds

VARIABLES
  owner,        \* the IPAM plugin's table
  usable,       \* FALSE once the IPAM plugin cannot read it any more
  netns,        \* the pods whose network namespace exists
  veth,         \* the index of each pod's host veth; 0 without a link
  addr,         \* the address on each pod's interface
  pinned,       \* lxc_map is pinned under /sys/fs/bpf/tc/globals
  lxc,          \* lxc_map: the host veth an address is redirected to, or 0
  vxlan,        \* what is set up of the device vxlan2
  pc,           \* where each process is
  req,          \* its command, pod and netns argument, and ADD's number
  got,          \* the address ADD got from IPAM or DEL read off the link
  ok,           \* whether its call has succeeded
  live,         \* what the runtime was told: the address of each live pod
  adds,         \* ADD calls so far
  alone,        \* history: the process that no other ran beside, if any
  faults        \* faults so far, for MaxFaults only

vars == <<owner, usable, netns, veth, addr, pinned, lxc, vxlan, pc, req, got, ok,
          live, adds, alone, faults>>

ipam  == <<owner, usable>>
links == <<netns, veth, addr>>
maps  == <<pinned, lxc>>
calls == <<req, live, adds, alone>>

-----------------------------------------------------------------------------

\* ipam.ExecAdd and ipam.ExecDel, each a process of its own
IPAM == INSTANCE AddressPool WITH Containers <- Pods

NoReq == [cmd |-> "DEL", pod |-> NoOne, netns |-> FALSE, index |-> 0]

\* The parts of vxlan2, in the order they are set up.
Parts == {"link", "address", "up", "clsact", "filters", "map"}

Pod(p) == req[p].pod

Goto(p, to) == pc' = [pc EXCEPT ![p] = to]

At(p, from) == pc[p] = from

Succeed(p) == Goto(p, "exit") /\ ok' = [ok EXCEPT ![p] = TRUE]

\* cmdAdd returns an error: the deferred ExecDel is still to run.
Fail(p) == Goto(p, "undo") /\ UNCHANGED ok

Init ==
  /\ IPAM!Init
  /\ netns = Pods
  /\ veth = [c \in Pods |-> 0]
  /\ addr = [c \in Pods |-> NoAddr]
  /\ pinned = FALSE
  /\ lxc = [a \in Addrs |-> 0]
  /\ vxlan = {}
  /\ pc = [p \in Procs |-> "idle"]
  /\ req = [p \in Procs |-> NoReq]
  /\ got = [p \in Procs |-> NoAddr]
  /\ ok = [p \in Procs |-> FALSE]
  /\ live = [c \in Pods |-> NoAddr]
  /\ adds = 0
  /\ alone = {}
  /\ faults = 0

Idle(c) == \A p \in Procs : pc[p] # "idle" => Pod(p) # c

Begins(p) == alone' = IF \A q \in Procs : At(q, "idle") THEN {p} ELSE {}

\* The runtime adds a pod whose namespace it has made.
CallAdd(p, c) ==
  /\ At(p, "idle")
  /\ Idle(c)
  /\ c \in netns
  /\ adds < MaxAdds
  /\ adds' = adds + 1
  /\ req' = [req EXCEPT ![p] = [cmd |-> "ADD", pod |-> c, netns |-> TRUE,
                                index |-> adds + 1]]
  /\ Begins(p)
  /\ Goto(p, "ipamadd")
  /\ UNCHANGED <<ipam, links, maps, vxlan, got, ok, live, faults>>

\* It deletes a pod, with an empty CNI_NETNS when the namespace is gone.
CallDel(p, c) ==
  /\ At(p, "idle")
  /\ Idle(c)
  /\ req' = [req EXCEPT ![p] = [cmd |-> "DEL", pod |-> c, netns |-> c \in netns,
                                index |-> 0]]
  /\ live' = [live EXCEPT ![c] = NoAddr]
  /\ Begins(p)
  /\ Goto(p, "ipamdel")
  /\ UNCHANGED <<ipam, links, maps, vxlan, got, ok, adds, faults>>

-----------------------------------------------------------------------------
(* cmdAdd *)

\* ExecAdd reserves an address, or finds the pod's, or has none or fails; an
\* error here returns before the undo is deferred.
IpamAdd(p) ==
  /\ At(p, "ipamadd")
  /\ \/ \E a \in Addrs :
          /\ IPAM!Reserve(Pod(p), a) \/ (owner[a] = Pod(p) /\ UNCHANGED ipam)
          /\ got' = [got EXCEPT ![p] = a]
          /\ Goto(p, "veth")
     \/ /\ ~ usable \/ \A a \in Addrs : owner[a] \notin {NoOne, Pod(p)}
        /\ Goto(p, "exit")
        /\ UNCHANGED <<ipam, got>>
  /\ UNCHANGED <<links, maps, vxlan, calls, ok, faults>>

\* Mutant of SetupVeth: a link that exists will do.
ReuseVeth(p) ==
  /\ At(p, "veth")
  /\ veth' = [veth EXCEPT ![Pod(p)] = req[p].index]
  /\ Goto(p, "addr")
  /\ UNCHANGED <<ipam, netns, addr, maps, vxlan, calls, got, ok, faults>>

\* ip.SetupVeth makes the pair, unless the pod has an interface of the name.
SetupVeth(p) ==
  /\ At(p, "veth")
  /\ IF veth[Pod(p)] = 0
       THEN /\ veth' = [veth EXCEPT ![Pod(p)] = req[p].index]
            /\ Goto(p, "addr")
            /\ UNCHANGED ok
       ELSE Fail(p) /\ UNCHANGED veth
  /\ UNCHANGED <<ipam, netns, addr, maps, vxlan, calls, got, faults>>

\* ipam.ConfigureIface puts the address on it.
ConfigureIface(p) ==
  /\ At(p, "addr")
  /\ addr' = [addr EXCEPT ![Pod(p)] = got[p]]
  /\ Goto(p, "lookup")
  /\ UNCHANGED <<ipam, netns, veth, maps, vxlan, calls, got, ok, faults>>

\* The rest of setupContainerVeth, and looking up both ends again.
FetchVeth(p) ==
  /\ At(p, "lookup")
  /\ Goto(p, "lxc")
  /\ UNCHANGED <<ipam, links, maps, vxlan, calls, got, ok, faults>>

\* CreatePinMapOnce: the pinned map is loaded, or a new one is made ...
LoadLxcMap(p) ==
  /\ At(p, "lxc")
  /\ Goto(p, IF pinned THEN "put" ELSE "pin")
  /\ UNCHANGED <<ipam, links, maps, vxlan, calls, got, ok, faults>>

\* Mutant of PinLxcMap: once the map is made there is nothing left to do.
PinOnly(p) ==
  /\ At(p, "pin")
  /\ pinned' = TRUE
  /\ Goto(p, "arp")
  /\ UNCHANGED <<ipam, links, lxc, vxlan, calls, got, ok, faults>>

\* ... and pinned, which fails when another process was faster.  cmdAdd does
\* not look at what setVethPairInfo2LxcMap returns.
PinLxcMap(p) ==
  /\ At(p, "pin")
  /\ Goto(p, IF pinned THEN "arp" ELSE "put")
  /\ pinned' = TRUE
  /\ UNCHANGED <<ipam, links, lxc, vxlan, calls, got, ok, faults>>

Entries == {a \in Addrs : lxc[a] # 0}

\* Mutant of SetLxcMap: a map without its limit.
Unlimited(p) ==
  /\ At(p, "put")
  /\ lxc' = [lxc EXCEPT ![got[p]] = req[p].index]
  /\ Goto(p, "arp")
  /\ UNCHANGED <<ipam, links, pinned, vxlan, calls, got, ok, faults>>

\* SetLxcMap stores the entry, if there is room for it.
SetLxcMap(p) ==
  /\ At(p, "put")
  /\ lxc' = IF got[p] \in Entries \/ Cardinality(Entries) < MaxEntries
              THEN [lxc EXCEPT ![got[p]] = req[p].index] ELSE lxc
  /\ Goto(p, "arp")
  /\ UNCHANGED <<ipam, links, pinned, vxlan, calls, got, ok, faults>>

\* SetARP works inside this pod's namespace only.
SetARP(p) ==
  /\ At(p, "arp")
  /\ Goto(p, "attach")
  /\ UNCHANGED <<ipam, links, maps, vxlan, calls, got, ok, faults>>

\* attachBPF2Veth: a qdisc and a filter on this pod's host veth.  Loading
\* veth_ingress.bpf.o pins the maps it declares that are not pinned yet.
AttachVeth(p) ==
  /\ At(p, "attach")
  /\ pinned' = TRUE
  /\ Goto(p, "vxlan")
  /\ UNCHANGED <<ipam, links, lxc, vxlan, calls, got, ok, faults>>

\* SetupVXLAN is done when there is a device of the name.
FindVxlan(p) ==
  /\ At(p, "vxlan")
  /\ Goto(p, IF "link" \in vxlan THEN "clsact?" ELSE "link")
  /\ UNCHANGED <<ipam, links, maps, vxlan, calls, got, ok, faults>>

\* Mutant of NextPart: the device is not set up.
NotUp(part) == CASE part = "link"    -> "address"
                 [] part = "address" -> "clsact?"
                 [] part = "clsact"  -> "filters"
                 [] part = "filters" -> "map"

\* Else it is added, gets its address and is set up.
NextPart(part) == CASE part = "link"    -> "address"
                    [] part = "address" -> "up"
                    [] part = "up"      -> "clsact?"
                    [] part = "clsact"  -> "filters"
                    [] part = "filters" -> "map"

\* "ip link add", "ip addr add" and LinkSetUp in SetupVXLAN, "tc qdisc add"
\* in AddClsact and "tc filter replace" in AttachBPF2Device.  A second link
\* or qdisc is an error.
AddPart(p) ==
  \E part \in Parts \ {"map"} :
    /\ At(p, part)
    /\ vxlan' = vxlan \cup {part}
    /\ IF part \in {"link", "clsact"} \cap vxlan
         THEN Fail(p)
         ELSE Goto(p, NextPart(part)) /\ UNCHANGED ok
    /\ UNCHANGED <<ipam, links, maps, calls, got, faults>>

\* ExistClsact
FindClsact(p) ==
  /\ At(p, "clsact?")
  /\ Goto(p, IF "clsact" \in vxlan THEN "filters" ELSE "clsact")
  /\ UNCHANGED <<ipam, links, maps, vxlan, calls, got, ok, faults>>

\* setVxlanInfo2NodeMap, into the map that loading veth_ingress pinned; then
\* the result is printed.
SetVxlanMap(p) ==
  /\ At(p, "map")
  /\ vxlan' = vxlan \cup {"map"}
  /\ ok' = [ok EXCEPT ![p] = TRUE]
  /\ Goto(p, "undo")
  /\ UNCHANGED <<ipam, links, maps, calls, got, faults>>

\* ExecDel: the pod's address, if it has one, is nobody's.
IpamRelease(p) ==
  IF IPAM!Holds(Pod(p)) THEN \E a \in Addrs : IPAM!Release(Pod(p), a)
                        ELSE UNCHANGED ipam

\* Mutant of Undo: it is not deferred but called at the end.
UndoAtTheEnd(p) ==
  /\ At(p, "undo")
  /\ IF ok[p] THEN IpamRelease(p) ELSE UNCHANGED ipam
  /\ Goto(p, "exit")
  /\ UNCHANGED <<links, maps, vxlan, calls, got, ok, faults>>

\* The deferred ExecDel runs however cmdAdd returns.
Undo(p) ==
  /\ At(p, "undo")
  /\ IpamRelease(p)
  /\ Goto(p, "exit")
  /\ UNCHANGED <<links, maps, vxlan, calls, got, ok, faults>>

-----------------------------------------------------------------------------
(* cmdDel *)

\* Without the IPAM plugin nothing is deleted.
IpamDel(p) ==
  /\ At(p, "ipamdel")
  /\ IpamRelease(p)
  /\ \/ ~ usable /\ Goto(p, "exit") /\ UNCHANGED ok
     \/ usable /\ req[p].netns /\ Goto(p, "dellink") /\ UNCHANGED ok
     \/ usable /\ ~ req[p].netns /\ Succeed(p)
  /\ UNCHANGED <<links, maps, vxlan, calls, got, faults>>

\* Mutant of DelLink: the addresses are listed after the link is deleted.
ListedTooLate(p) ==
  /\ At(p, "dellink")
  /\ veth' = [veth EXCEPT ![Pod(p)] = 0]
  /\ addr' = [addr EXCEPT ![Pod(p)] = NoAddr]
  /\ Succeed(p)
  /\ UNCHANGED <<ipam, netns, maps, vxlan, calls, got, faults>>

\* DelLinkByNameAddr deletes the link and returns the addresses it had.
DelLink(p) ==
  /\ At(p, "dellink")
  /\ got' = [got EXCEPT ![p] = addr[Pod(p)]]
  /\ veth' = [veth EXCEPT ![Pod(p)] = 0]
  /\ addr' = [addr EXCEPT ![Pod(p)] = NoAddr]
  /\ IF addr[Pod(p)] = NoAddr THEN Succeed(p)
                              ELSE Goto(p, "delkey") /\ UNCHANGED ok
  /\ UNCHANGED <<ipam, netns, maps, vxlan, calls, faults>>

\* DelKeyLxcMap, whatever the entry says by now
DelKey(p) ==
  /\ At(p, "delkey")
  /\ lxc' = [lxc EXCEPT ![got[p]] = 0]
  /\ Succeed(p)
  /\ UNCHANGED <<ipam, links, pinned, vxlan, calls, got, faults>>

Forget(p) ==
  /\ Goto(p, "idle")
  /\ req' = [req EXCEPT ![p] = NoReq]
  /\ got' = [got EXCEPT ![p] = NoAddr]
  /\ ok' = [ok EXCEPT ![p] = FALSE]

Exit(p) ==
  /\ At(p, "exit")
  /\ live' = IF req[p].cmd = "ADD" /\ ok[p]
               THEN [live EXCEPT ![Pod(p)] = got[p]] ELSE live
  /\ Forget(p)
  /\ UNCHANGED <<ipam, links, maps, vxlan, adds, alone, faults>>

-----------------------------------------------------------------------------
(* What goes wrong *)

Fault(kind) ==
  /\ kind \in Kinds
  /\ faults < MaxFaults
  /\ faults' = faults + 1

\* A request or command fails and changes nothing.  The errors of lxc_map
\* and of the undo are dropped, those of looking for vxlan2 or its qdisc say
\* it is not there, and DEL drops those of the link and of its entry.
StepFails(p) ==
  /\ Fault("fail")
  /\ \/ At(p, "ipamadd") /\ Goto(p, "exit") /\ UNCHANGED ok
     \/ At(p, "ipamdel") /\ Goto(p, "exit") /\ UNCHANGED ok
     \/ pc[p] \in {"veth", "addr", "lookup", "arp", "attach"} \cup Parts /\ Fail(p)
     \/ pc[p] \in {"lxc", "pin", "put"} /\ Goto(p, "arp") /\ UNCHANGED ok
     \/ At(p, "vxlan") /\ Goto(p, "link") /\ UNCHANGED ok
     \/ At(p, "clsact?") /\ Goto(p, "clsact") /\ UNCHANGED ok
     \/ At(p, "undo") /\ Goto(p, "exit") /\ UNCHANGED ok
     \/ pc[p] \in {"dellink", "delkey"} /\ Succeed(p)
  /\ UNCHANGED <<ipam, links, maps, vxlan, calls, got>>

Kill(p) ==
  /\ Fault("kill")
  /\ pc[p] # "idle"
  /\ Forget(p)
  /\ UNCHANGED <<ipam, links, maps, vxlan, live, adds, alone>>

\* A pod's namespace goes before its DEL comes, and the veth pair with it.
NetnsGone(c) ==
  /\ Fault("netns")
  /\ c \in netns
  /\ Idle(c)
  /\ netns' = netns \ {c}
  /\ veth' = [veth EXCEPT ![c] = 0]
  /\ addr' = [addr EXCEPT ![c] = NoAddr]
  /\ UNCHANGED <<ipam, maps, vxlan, pc, calls, got, ok>>

\* The node restarts: processes, devices, maps and pins are gone, the table
\* of the IPAM plugin is not.  The runtime makes new namespaces.
Reboot ==
  /\ Fault("reboot")
  /\ netns' = Pods
  /\ veth' = [c \in Pods |-> 0]
  /\ addr' = [c \in Pods |-> NoAddr]
  /\ pinned' = FALSE
  /\ lxc' = [a \in Addrs |-> 0]
  /\ vxlan' = {}
  /\ pc' = [p \in Procs |-> "idle"]
  /\ req' = [p \in Procs |-> NoReq]
  /\ got' = [p \in Procs |-> NoAddr]
  /\ ok' = [p \in Procs |-> FALSE]
  /\ live' = [c \in Pods |-> NoAddr]
  /\ UNCHANGED <<ipam, adds, alone>>

\* The file of the IPAM plugin is cut short.
LoseIpam ==
  /\ Fault("lose")
  /\ IPAM!Lose
  /\ UNCHANGED <<links, maps, vxlan, pc, calls, got, ok>>

-----------------------------------------------------------------------------

Add(p) ==
  \/ IpamAdd(p) \/ SetupVeth(p) \/ ConfigureIface(p) \/ FetchVeth(p)
  \/ LoadLxcMap(p) \/ PinLxcMap(p) \/ SetLxcMap(p) \/ SetARP(p) \/ AttachVeth(p)
  \/ FindVxlan(p) \/ AddPart(p) \/ FindClsact(p) \/ SetVxlanMap(p) \/ Undo(p)

Del(p) == IpamDel(p) \/ DelLink(p) \/ DelKey(p)

Next ==
  \/ \E p \in Procs :
       \/ \E c \in Pods : CallAdd(p, c) \/ CallDel(p, c)
       \/ Add(p) \/ Del(p) \/ Exit(p)
       \/ StepFails(p) \/ Kill(p)
  \/ \E c \in Pods : NetnsGone(c)
  \/ Reboot
  \/ LoseIpam

Spec == Init /\ [][Next]_vars

-----------------------------------------------------------------------------
(* The datapath: what the programs on the devices do with an IP packet *)

\* Mutant of VethIngress: the entry is looked up by the packet's source.
LookedUpBySource(src, dst) == IF lxc[src] # 0 THEN {lxc[src]} ELSE {}

\* veth_ingress, at the host end of a pod's pair: the pods the packet is
\* redirected to, given by their host veths.  Without an entry it goes up the
\* host's stack: the table of nodes it then asks, node_map, has no writer.
VethIngress(src, dst) == IF lxc[dst] # 0 THEN {lxc[dst]} ELSE {}

\* vxlan_ingress looks lxc_map up by an uninitialised variable instead of the
\* packet's destination: any entry, or none.
VxlanIngress(src, dst) == {lxc[a] : a \in Entries}

-----------------------------------------------------------------------------
(* Properties *)

Locations ==
  {"idle", "ipamadd", "veth", "addr", "lookup", "lxc", "pin", "put", "arp",
   "attach", "vxlan", "clsact?", "undo", "ipamdel", "dellink", "delkey", "exit"} \cup Parts

\* Every variable holds values of its type; lxc_map never has more entries
\* than it has room for.
TypeOK ==
  /\ IPAM!TypeOK
  /\ netns \subseteq Pods
  /\ veth \in [Pods -> 0 .. MaxAdds]
  /\ addr \in [Pods -> Addrs \cup {NoAddr}]
  /\ pinned \in BOOLEAN
  /\ lxc \in [Addrs -> 0 .. MaxAdds] /\ Cardinality(Entries) <= MaxEntries
  /\ vxlan \subseteq Parts
  /\ pc \in [Procs -> Locations]
  /\ req \in [Procs -> [cmd : {"ADD", "DEL"}, pod : Pods \cup {NoOne},
                        netns : BOOLEAN, index : 0 .. MaxAdds]]
  /\ got \in [Procs -> Addrs \cup {NoAddr}]
  /\ ok \in [Procs -> BOOLEAN]
  /\ live \in [Pods -> Addrs \cup {NoAddr}]
  /\ adds \in 0 .. MaxAdds
  /\ alone \subseteq Procs
  /\ faults \in 0 .. MaxFaults

\* A live pod's interface has the address the runtime was told as long as the
\* pod has a namespace, also when the pod is added again, calls are killed or
\* steps fail.
LinkAsTold ==
  \A c \in netns : live[c] # NoAddr => veth[c] # 0 /\ addr[c] = live[c]

\* Every entry of lxc_map leads to a link that has the entry's address, or a
\* DEL is about to remove it: no packet is redirected to a device that is
\* gone or is another pod's.
EntriesLive ==
  \A a \in Entries :
    \/ \E c \in Pods : veth[c] = lxc[a] /\ addr[c] = a
    \/ \E p \in Procs : At(p, "delkey") /\ got[p] = a

Added(p) == At(p, "exit") /\ req[p].cmd = "ADD" /\ ok[p]

\* A failed ADD leaves no reservation behind.
FailedAddReleases ==
  \A p \in Procs :
    At(p, "exit") /\ req[p].cmd = "ADD" /\ ~ ok[p] => ~ IPAM!Holds(Pod(p))

\* When an ADD beside which nothing else ran succeeds, packets for the pod
\* are redirected to it, whatever races the calls before it lost.
LoneAddMaps ==
  \A p \in alone : Added(p) => lxc[got[p]] = req[p].index

\* However the set-ups of the vxlan device raced, once no call is running it
\* is whole or not there at all: an ADD that failed on the way left the rest
\* to the one it met.
VxlanSettles ==
  (\A p \in Procs : At(p, "idle")) => vxlan \in {{}, Parts}

\* veth_ingress never hands a packet to a pod whose address is another than
\* the packet's destination: stale entries lose packets and misdeliver none,
\* whatever is killed, fails, vanishes or restarts.
RedirectsHit ==
  \A src, dst \in Addrs, c \in Pods :
    veth[c] \in VethIngress(src, dst) => addr[c] = dst

\* The same of packets from other nodes.  The code does not keep it.
TunnelHits ==
  \A src, dst \in Addrs, c \in Pods :
    veth[c] \in VxlanIngress(src, dst) => addr[c] = dst

\* When any ADD succeeds, packets for the pod are redirected to it.  The code
\* does not keep it.
MappingComplete == \A p \in Procs : Added(p) => lxc[got[p]] = req[p].index

\* When any ADD succeeds, the node's vxlan device works.  The code does not
\* keep it.
VxlanReady == \A p \in Procs : Added(p) => vxlan = Parts

\* The address of a live pod stays reserved.  The code does not keep it.
AddKeepsAddress ==
  \A c \in Pods : live[c] # NoAddr => owner[live[c]] = c

-----------------------------------------------------------------------------
(* Why they hold: the inductive invariants *)

\* Where an ADD is once its link has its address, and where it ends.
Configured ==
  {"lookup", "lxc", "pin", "put", "arp", "attach", "vxlan", "clsact?"} \cup Parts

Ends == {"undo", "exit"}

Adding(p) == ~ At(p, "idle") /\ req[p].cmd = "ADD"

\* The runtime serialises the calls for a pod.  An ADD has a number of its own
\* and a namespace that stays; DEL comes when the pod is gone.
CallsInv ==
  /\ \A p, q \in Procs :
       ~ At(p, "idle") /\ ~ At(q, "idle") /\ Pod(p) = Pod(q) => p = q
  /\ \A p \in Procs :
       /\ ~ At(p, "idle") => Pod(p) \in Pods
       /\ pc[p] \in {"ipamadd", "veth", "addr", "undo"} \cup Configured => Adding(p)
       /\ pc[p] \in {"ipamdel", "dellink", "delkey"} => req[p].cmd = "DEL"
       /\ Adding(p) => req[p].index \in 1 .. adds /\ Pod(p) \in netns
       /\ ~ At(p, "idle") /\ req[p].cmd = "DEL" => live[Pod(p)] = NoAddr
       /\ pc[p] \notin Ends => ~ ok[p]
       /\ pc[p] \in {"veth", "addr", "delkey"} => got[p] \in Addrs

\* The link that an ADD has made is the one of its number, and its pod is not
\* live yet.
HasLink(p) == veth[Pod(p)] = req[p].index /\ live[Pod(p)] = NoAddr

LinksInv ==
  \A p \in Procs :
    /\ At(p, "addr") => HasLink(p)
    /\ pc[p] \in Configured \/ (Adding(p) /\ ok[p])
         => HasLink(p) /\ got[p] \in Addrs /\ addr[Pod(p)] = got[p]

\* The number of a running ADD is nobody else's, and lxc_map has it only after
\* the link has its address.
NumbersInv ==
  /\ \A c \in Pods : veth[c] <= adds
  /\ \A a \in Addrs : lxc[a] <= adds
  /\ \A p, q \in Procs :
       Adding(p) /\ Adding(q) /\ req[p].index = req[q].index => p = q
  /\ \A p \in Procs : Adding(p) =>
       /\ \A c \in Pods : veth[c] = req[p].index => c = Pod(p)
       /\ pc[p] \in {"ipamadd", "veth", "addr"} =>
            \A a \in Addrs : lxc[a] # req[p].index

\* The invariant that the proofs step through, whatever goes wrong.
IInv ==
  /\ TypeOK /\ IsFiniteSet(Entries)
  /\ CallsInv /\ LinksInv /\ NumbersInv /\ LinkAsTold /\ RedirectsHit

\* A lost table has no reservations, a pod never has two.
TableInv == IPAM!OneAddressEach /\ (~ usable => owner = IPAM!NoOwners)

\* An ADD beside which nothing runs finds the map as it left it.
AloneInv ==
  \A p \in alone : ~ At(p, "idle") =>
    /\ \A q \in Procs : q # p => At(q, "idle")
    /\ At(p, "pin") => ~ pinned
    /\ pc[p] \in {"arp", "attach", "vxlan", "clsact?"} \cup Parts
         => lxc[got[p]] = req[p].index
    /\ Adding(p) /\ ok[p] => lxc[got[p]] = req[p].index

\* Somebody is about to set up each part of the device that is missing, and
\* nobody goes on without the link.
PartsInv ==
  LET missing(part) == "link" \in vxlan /\ part \notin vxlan
      at(locs) == \E p \in Procs : pc[p] \in locs
  IN  /\ missing("address") => at({"address"})
      /\ missing("up") => at({"address", "up"})
      /\ missing("clsact") => at({"address", "up", "clsact?", "clsact"})
      /\ missing("filters") => missing("clsact") \/ at({"filters"})
      /\ missing("map") => missing("filters") \/ at({"map"})
      /\ "link" \notin vxlan => vxlan = {}
      /\ at({"clsact?"} \cup (Parts \ {"link"})) => "link" \in vxlan

=============================================================================
