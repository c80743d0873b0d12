------------------------------- MODULE EtcdIPAM -------------------------------
(***************************************************************************)
(* The etcd-backed IPAM plugin (plugins/ipam/etcdmode).  Every CNI call is *)
(* a process on some host; it reads and writes the cluster's etcd one key  *)
(* at a time, with no lock, lease or transaction.  The cluster key holds   *)
(* the subnets not given to a host yet; per host there are its subnet, its *)
(* gateway, its free addresses and one key per network device.             *)
(*                                                                         *)
(* A list is stored as its elements joined by ";", so the list without     *)
(* elements and the list of one empty element are the same string, and     *)
(* splitting gives the latter.  A stored list stands here for what         *)
(* splitting it gives; a key that is absent reads as "".                   *)
(***************************************************************************)
EXTENDS Naturals, Sequences, SequencesExt, FiniteSets

CONSTANTS
  Procs,        \* slots for concurrently running plugin processes
  Hosts,        \* host names
  Devices,      \* <container id>-<ifname>, per host
  Subnets,      \* the subnets RandomGenerateIpCIDRs lists, in their order
  Size,         \* number of addresses of a subnet (16: /28)
  Empty,        \* the empty string
  NoName,       \* no host, no device
  Overlap,      \* which calls may run together: "none", "hosts" or "all"
  Commands,     \* what is called, of {"ADD", "DEL", "CHECK", "RELEASE"}
  MaxKills,     \* bound on killed processes
  MaxErrors,    \* bound on failed etcd requests
  MaxReleases   \* bound on calls of ReleaseHostIP

ASSUME SubnetsAssumption ==
  /\ Size \in Nat /\ Size > 2
  /\ Subnets \in Seq(Range(Subnets)) \ {<<>>}
  /\ \A i, j \in DOMAIN Subnets : Subnets[i] = Subnets[j] => i = j

ASSUME NamesAssumption ==
  /\ NoName \notin Hosts \cup Devices
  /\ Overlap \in {"none", "hosts", "all"}
  /\ Commands \subseteq {"ADD", "DEL", "CHECK", "RELEASE"}
  /\ MaxKills \in Nat /\ MaxErrors \in Nat /\ MaxReleases \in Nat

VARIABLES
  pool,         \* mycni/ipam/pool
  host,         \* mycni/ipam/<host>: its subnet
  gateway,      \* mycni/ipam/<host>/gateway
  hostPool,     \* mycni/ipam/<host>/pool: its free addresses
  dev,          \* mycni/ipam/<host>/<device>: the device's address
  pc,           \* where each process is
  req,          \* its command, host and device
  mem,          \* what it read: the list, and the subnet or address to store
  reply,        \* whether its call succeeded, with which address and gateway
  kills,        \* killed processes, for MaxKills only
  errors,       \* failed requests, for MaxErrors only
  releases      \* calls of ReleaseHostIP, for MaxReleases only

etcd == <<pool, host, gateway, hostPool, dev>>
counts == <<kills, errors, releases>>
vars == <<pool, host, gateway, hostPool, dev, pc, req, mem, reply, counts>>

-----------------------------------------------------------------------------
(* Strings *)

\* Mutant of Joined: an empty list stays one.
Unjoined(s) == s

\* strings.Join, as read back by strings.Split
Joined(s) == IF s = <<>> THEN <<Empty>> ELSE s

\* an address is <<subnet, last number>>
Addr(s, n) == <<s, n>>

GetGateway(s) == Addr(s, 1)

\* Mutant of GetValidIps: the gateway is not left out.
IpsWithGateway(s) == [i \in 1 .. Size - 1 |-> Addr(s, i)]

\* listIPv4Addr leaves out the numbers 0, 1 and 255, and not the broadcast
\* address of a subnet that ends elsewhere.
GetValidIps(s) == [i \in 1 .. Size - 2 |-> Addr(s, i + 1)]

Addresses == {Addr(s, n) : s \in Range(Subnets), n \in 0 .. Size - 1}

ASSUME EmptyAssumption == Empty \notin Range(Subnets) \cup Addresses

(* Processes *)

NoReq   == [cmd |-> "CHECK", host |-> NoName, dev |-> NoName]
NoMem   == [list |-> <<Empty>>, item |-> Empty]
NoReply == [ok |-> FALSE, addr |-> Empty, gw |-> Empty]

Goto(p, to) == pc' = [pc EXCEPT ![p] = to]

Here(p) == req[p].host

\* The call ends: with success ...
Succeed(p, a, g) ==
  /\ reply' = [reply EXCEPT ![p] = [ok |-> TRUE, addr |-> a, gw |-> g]]
  /\ Goto(p, "exit")

\* ... or with an error or a panic, which look the same from outside.
\* cmdAdd's clean-up after a failed AllocateIP2Pod is never reached: the
\* line before it dereferences the nil ipConf.
Fail(p) == Goto(p, "exit") /\ UNCHANGED reply

-----------------------------------------------------------------------------

Init ==
  /\ pool = <<Empty>>
  /\ host = [h \in Hosts |-> Empty]
  /\ gateway = [h \in Hosts |-> Empty]
  /\ hostPool = [h \in Hosts |-> <<Empty>>]
  /\ dev = [h \in Hosts |-> [d \in Devices |-> Empty]]
  /\ pc = [p \in Procs |-> "idle"]
  /\ req = [p \in Procs |-> NoReq]
  /\ mem = [p \in Procs |-> NoMem]
  /\ reply = [p \in Procs |-> NoReply]
  /\ kills = 0
  /\ errors = 0
  /\ releases = 0

Running == {p \in Procs : pc[p] # "idle"}

\* Which calls overlap: none in the cluster; none on a host, and none at all
\* before every host has its subnet; any.
MayStart(h) ==
  \/ Overlap = "all"
  \/ Running = {}
  \/ /\ Overlap = "hosts"
     /\ \A p \in Running : Here(p) # h
     /\ \A g \in Hosts : host[g] # Empty

\* The runtime of host h runs the plugin; one call per device at a time.
\* ReleaseHostIP "assume[s] pods on this host has been ALL released".
Call(p, cmd, h, d) ==
  /\ pc[p] = "idle"
  /\ MayStart(h)
  /\ \A q \in Running : Here(q) = h => req[q].dev # d
  /\ IF cmd = "RELEASE"
       THEN /\ Running = {} /\ dev[h] = [x \in Devices |-> Empty]
            /\ releases < MaxReleases
            /\ releases' = releases + 1
       ELSE UNCHANGED releases
  /\ req' = [req EXCEPT ![p] = [cmd |-> cmd, host |-> h, dev |-> d]]
  /\ Goto(p, CASE cmd = "ADD"     -> "status"
               [] cmd = "DEL"     -> "rdev"
               [] cmd = "CHECK"   -> "cdev"
               [] cmd = "RELEASE" -> "rhost")
  /\ UNCHANGED <<etcd, mem, reply, kills, errors>>

(* cmdAdd: the cluster's pool *)

\* GetInitPoolStatus in cmdAdd
PoolStatus(p) ==
  /\ pc[p] = "status"
  /\ Goto(p, IF pool # <<Empty>> THEN "host" ELSE "recheck")
  /\ UNCHANGED <<etcd, req, mem, reply, counts>>

\* Mutant of PoolStatusAgain: InitPool does not look again.
InitUnchecked(p) ==
  /\ pc[p] = "recheck"
  /\ Goto(p, "initput")
  /\ UNCHANGED <<etcd, req, mem, reply, counts>>

\* GetInitPoolStatus again, in InitPool
PoolStatusAgain(p) ==
  /\ pc[p] = "recheck"
  /\ Goto(p, IF pool # <<Empty>> THEN "host" ELSE "initput")
  /\ UNCHANGED <<etcd, req, mem, reply, counts>>

\* InitPool stores every subnet of the cluster.
InitPool(p) ==
  /\ pc[p] = "initput"
  /\ pool' = Subnets
  /\ Goto(p, "host")
  /\ UNCHANGED <<host, gateway, hostPool, dev, req, mem, reply, counts>>

(* AllocateIP2Pod, and AllocateIP2Host when the host has no subnet *)

\* Both read the host's subnet: first at "host", then at "host2".
ReadHost(p) ==
  /\ pc[p] \in {"host", "host2"}
  /\ Goto(p, IF host[Here(p)] # Empty THEN "gw"
             ELSE IF pc[p] = "host" THEN "host2" ELSE "pool")
  /\ UNCHANGED <<etcd, req, mem, reply, counts>>

\* GetOneIPFromPool reads the pool ...
ReadPool(p) ==
  /\ pc[p] = "pool"
  /\ mem' = [mem EXCEPT ![p] = [list |-> Tail(pool), item |-> Head(pool)]]
  /\ Goto(p, "poolput")
  /\ UNCHANGED <<etcd, req, reply, counts>>

\* ... and stores it without its first element.
StorePool(p) ==
  /\ pc[p] = "poolput"
  /\ pool' = Joined(mem[p].list)
  /\ Goto(p, "hostput")
  /\ UNCHANGED <<host, gateway, hostPool, dev, req, mem, reply, counts>>

\* The host gets the subnet.  When the pool was empty the subnet is "" and
\* GetGateway("") panics on its missing mask.
StoreHost(p) ==
  /\ pc[p] = "hostput"
  /\ host' = [host EXCEPT ![Here(p)] = mem[p].item]
  /\ IF mem[p].item = Empty THEN Fail(p)
                            ELSE Goto(p, "gwput") /\ UNCHANGED reply
  /\ UNCHANGED <<pool, gateway, hostPool, dev, req, mem, counts>>

\* Mutant of StoreGateway: the gateway's key is forgotten.
GatewayForgotten(p) ==
  /\ pc[p] = "gwput"
  /\ Goto(p, "hpoolput")
  /\ UNCHANGED <<etcd, req, mem, reply, counts>>

StoreGateway(p) ==
  /\ pc[p] = "gwput"
  /\ gateway' = [gateway EXCEPT ![Here(p)] = GetGateway(mem[p].item)]
  /\ Goto(p, "hpoolput")
  /\ UNCHANGED <<pool, host, hostPool, dev, req, mem, reply, counts>>

StoreHostPool(p) ==
  /\ pc[p] = "hpoolput"
  /\ hostPool' = [hostPool EXCEPT ![Here(p)] = Joined(GetValidIps(mem[p].item))]
  /\ Goto(p, "gw")
  /\ UNCHANGED <<pool, host, gateway, dev, req, mem, reply, counts>>

ReadGateway(p) ==
  /\ pc[p] = "gw"
  /\ reply' = [reply EXCEPT ![p].gw = gateway[Here(p)]]
  /\ Goto(p, "dev")
  /\ UNCHANGED <<etcd, req, mem, counts>>

\* Mutant of ReadDev: a device that has an address gets another one.
DevNotRead(p) ==
  /\ pc[p] = "dev"
  /\ Goto(p, "hpool")
  /\ UNCHANGED <<etcd, req, mem, reply, counts>>

\* A device that has an address keeps it.
ReadDev(p) ==
  /\ pc[p] = "dev"
  /\ LET a == dev[Here(p)][req[p].dev]
     IN  IF a # Empty THEN Succeed(p, a, reply[p].gw)
                      ELSE Goto(p, "hpool") /\ UNCHANGED reply
  /\ UNCHANGED <<etcd, req, mem, counts>>

\* The first of the host's free addresses, "" when there is none.
TakeFrom(p, list) ==
  /\ mem' = [mem EXCEPT ![p] = [list |-> Tail(list), item |-> Head(list)]]
  /\ Goto(p, "hpooltail")

ReadHostPool(p) ==
  /\ pc[p] = "hpool"
  /\ TakeFrom(p, hostPool[Here(p)])
  /\ UNCHANGED <<etcd, req, reply, counts>>

\* Mutant of StoreHostPoolTail: the address taken is not taken off.
TailNotStored(p) ==
  /\ pc[p] = "hpooltail"
  /\ Goto(p, "devput")
  /\ UNCHANGED <<etcd, req, mem, reply, counts>>

StoreHostPoolTail(p) ==
  /\ pc[p] = "hpooltail"
  /\ hostPool' = [hostPool EXCEPT ![Here(p)] = Joined(mem[p].list)]
  /\ Goto(p, "devput")
  /\ UNCHANGED <<pool, host, gateway, dev, req, mem, reply, counts>>

\* The device's key; then the call succeeds, with a nil IP if it took "".
StoreDev(p) ==
  /\ pc[p] = "devput"
  /\ dev' = [dev EXCEPT ![Here(p)][req[p].dev] = mem[p].item]
  /\ Succeed(p, mem[p].item, reply[p].gw)
  /\ UNCHANGED <<pool, host, gateway, hostPool, req, mem, counts>>

(* cmdDel: ReleasePodIP *)

ReadDevToRelease(p) ==
  /\ pc[p] = "rdev"
  /\ LET a == dev[Here(p)][req[p].dev]
     IN  IF a = Empty
           THEN Succeed(p, Empty, Empty) /\ UNCHANGED mem
           ELSE /\ mem' = [mem EXCEPT ![p].item = a]
                /\ Goto(p, "rhpool")
                /\ UNCHANGED reply
  /\ UNCHANGED <<etcd, req, counts>>

\* The address goes to the end of the list, behind "" when that was empty.
AppendTo(p, list) ==
  /\ mem' = [mem EXCEPT ![p].list = Append(list, mem[p].item)]
  /\ Goto(p, "rput")

ReadHostPoolToRelease(p) ==
  /\ pc[p] = "rhpool"
  /\ AppendTo(p, hostPool[Here(p)])
  /\ UNCHANGED <<etcd, req, reply, counts>>

ReturnAddress(p) ==
  /\ pc[p] = "rput"
  /\ hostPool' = [hostPool EXCEPT ![Here(p)] = mem[p].list]
  /\ Goto(p, "rdel")
  /\ UNCHANGED <<pool, host, gateway, dev, req, mem, reply, counts>>

\* Mutant of DeleteDev: the device's key stays.
DevNotDeleted(p) ==
  /\ pc[p] = "rdel"
  /\ Succeed(p, Empty, Empty)
  /\ UNCHANGED <<etcd, req, mem, counts>>

DeleteDev(p) ==
  /\ pc[p] = "rdel"
  /\ dev' = [dev EXCEPT ![Here(p)][req[p].dev] = Empty]
  /\ Succeed(p, Empty, Empty)
  /\ UNCHANGED <<pool, host, gateway, hostPool, req, mem, counts>>

(* cmdCheck: FindByID *)

FindByID(p) ==
  /\ pc[p] = "cdev"
  /\ IF dev[Here(p)][req[p].dev] # Empty THEN Succeed(p, Empty, Empty)
                                         ELSE Fail(p)
  /\ UNCHANGED <<etcd, req, mem, counts>>

(* ReleaseHostIP: the host is done *)

ReadHostToRelease(p) ==
  /\ pc[p] = "rhost"
  /\ IF host[Here(p)] = Empty
       THEN Succeed(p, Empty, Empty)
       ELSE Goto(p, "rhostdel") /\ UNCHANGED reply
  /\ UNCHANGED <<etcd, req, mem, counts>>

DeleteHost(p) ==
  /\ pc[p] = "rhostdel"
  /\ host' = [host EXCEPT ![Here(p)] = Empty]
  /\ Goto(p, "rgwdel")
  /\ UNCHANGED <<pool, gateway, hostPool, dev, req, mem, reply, counts>>

\* Mutant of DeleteGateway: the gateway's key stays.
GatewayKept(p) ==
  /\ pc[p] = "rgwdel"
  /\ Succeed(p, Empty, Empty)
  /\ UNCHANGED <<etcd, req, mem, counts>>

DeleteGateway(p) ==
  /\ pc[p] = "rgwdel"
  /\ gateway' = [gateway EXCEPT ![Here(p)] = Empty]
  /\ Succeed(p, Empty, Empty)
  /\ UNCHANGED <<pool, host, hostPool, dev, req, mem, counts>>

\* The process is gone; it starts over with nothing.
Forget(p) ==
  /\ Goto(p, "idle")
  /\ req' = [req EXCEPT ![p] = NoReq]
  /\ mem' = [mem EXCEPT ![p] = NoMem]
  /\ reply' = [reply EXCEPT ![p] = NoReply]

Exit(p) ==
  /\ pc[p] = "exit"
  /\ Forget(p)
  /\ UNCHANGED <<etcd, counts>>

-----------------------------------------------------------------------------
(* Failures *)

Error == errors < MaxErrors /\ errors' = errors + 1

\* A Get fails.  It is an error of the call, but for GetInitPoolStatus,
\* which takes it for "not ready", and for the host's free addresses, which
\* it takes for "".
ReadError(p) ==
  /\ Error
  /\ \/ /\ pc[p] = "status" /\ Goto(p, "recheck") /\ UNCHANGED <<mem, reply>>
     \/ /\ pc[p] = "recheck" /\ Goto(p, "initput") /\ UNCHANGED <<mem, reply>>
     \/ /\ pc[p] = "hpool" /\ TakeFrom(p, <<Empty>>) /\ UNCHANGED reply
     \/ /\ pc[p] = "rhpool" /\ AppendTo(p, <<Empty>>) /\ UNCHANGED reply
     \/ /\ pc[p] \in {"host", "host2", "pool", "gw", "dev", "rdev", "cdev", "rhost"}
        /\ Fail(p)
        /\ UNCHANGED mem
  /\ UNCHANGED <<etcd, req, kills, releases>>

\* A Put or Delete fails and changes nothing.  The host's free addresses are
\* stored without looking at the error.  (A request that fails after it was
\* applied ends the call like Kill does after the step.)
WriteError(p) ==
  /\ Error
  /\ \/ /\ pc[p] = "hpoolput" /\ Goto(p, "gw") /\ UNCHANGED reply
     \/ /\ pc[p] = "hpooltail" /\ Goto(p, "devput") /\ UNCHANGED reply
     \/ /\ pc[p] = "rput" /\ Goto(p, "rdel") /\ UNCHANGED reply
     \/ /\ pc[p] \in {"initput", "poolput", "hostput", "gwput", "devput",
                      "rdel", "rhostdel", "rgwdel"}
        /\ Fail(p)
  /\ UNCHANGED <<etcd, req, mem, kills, releases>>

Kill(p) ==
  /\ kills < MaxKills
  /\ kills' = kills + 1
  /\ pc[p] # "idle"
  /\ Forget(p)
  /\ UNCHANGED <<etcd, errors, releases>>

-----------------------------------------------------------------------------

Add(p) ==
  \/ PoolStatus(p) \/ PoolStatusAgain(p) \/ InitPool(p)
  \/ ReadHost(p) \/ ReadPool(p) \/ StorePool(p)
  \/ StoreHost(p) \/ StoreGateway(p) \/ StoreHostPool(p)
  \/ ReadGateway(p) \/ ReadDev(p)
  \/ ReadHostPool(p) \/ StoreHostPoolTail(p) \/ StoreDev(p)

Del(p) ==
  \/ ReadDevToRelease(p) \/ ReadHostPoolToRelease(p)
  \/ ReturnAddress(p) \/ DeleteDev(p)

Release(p) == ReadHostToRelease(p) \/ DeleteHost(p) \/ DeleteGateway(p)

Next ==
  \E p \in Procs :
    \/ \E cmd \in Commands, h \in Hosts, d \in Devices : Call(p, cmd, h, d)
    \/ Add(p) \/ Del(p) \/ FindByID(p) \/ Release(p) \/ Exit(p)
    \/ ReadError(p) \/ WriteError(p) \/ Kill(p)

Spec == Init /\ [][Next]_vars

-----------------------------------------------------------------------------
(* Properties *)

Item == Addresses \cup Range(Subnets) \cup {Empty}

Locations ==
  {"idle", "status", "recheck", "initput", "host", "host2", "pool", "poolput",
   "hostput", "gwput", "hpoolput", "gw", "dev", "hpool", "hpooltail", "devput",
   "rdev", "rhpool", "rput", "rdel", "cdev", "rhost", "rhostdel", "rgwdel",
   "exit"}

\* Every variable holds values of its type; in particular a process that
\* panicked has left no key with a value of another kind, and no stored list
\* is the empty sequence, on which ippool[0] and ips[0] would panic.
TypeOK ==
  /\ pool \in Seq(Range(Subnets) \cup {Empty}) \ {<<>>}
  /\ host \in [Hosts -> Range(Subnets) \cup {Empty}]
  /\ gateway \in [Hosts -> Addresses \cup {Empty}]
  /\ hostPool \in [Hosts -> Seq(Addresses \cup {Empty}) \ {<<>>}]
  /\ dev \in [Hosts -> [Devices -> Addresses \cup {Empty}]]
  /\ pc \in [Procs -> Locations]
  /\ req \in [Procs -> [cmd : {"ADD", "DEL", "CHECK", "RELEASE"},
                        host : Hosts \cup {NoName}, dev : Devices \cup {NoName}]]
  /\ mem \in [Procs -> [list : Seq(Item), item : Item]]
  /\ reply \in [Procs -> [ok : BOOLEAN, addr : Addresses \cup {Empty},
                          gw : Addresses \cup {Empty}]]
  /\ kills \in 0 .. MaxKills
  /\ errors \in 0 .. MaxErrors
  /\ releases \in 0 .. MaxReleases

\* The addresses a host may give out.
Usable(h) == {Addr(host[h], n) : n \in 2 .. Size - 1}

Quiet(h) == \A p \in Running : Here(p) # h

\* On a host where no call runs, every address of its subnet is exactly once
\* either free or held by a device, and nothing else is: no release or
\* allocation lost one, doubled one or mixed in one of another subnet.
FreeOrHeld ==
  \A h \in Hosts : Quiet(h) /\ host[h] # Empty =>
    /\ Range(hostPool[h]) \ {Empty} \subseteq Usable(h)
    /\ Range(dev[h]) \ {Empty} \subseteq Usable(h)
    /\ \A a \in Usable(h) :
         Cardinality({i \in DOMAIN hostPool[h] : hostPool[h][i] = a})
           + Cardinality({d \in Devices : dev[h][d] = a}) = 1

Added(p) == pc[p] = "exit" /\ req[p].cmd = "ADD" /\ reply[p].ok

\* What ADD reports fits together: the gateway is that of the subnet of the
\* address, and both are of the host's subnet.
ReplyFits ==
  \A p \in Procs : Added(p) /\ reply[p].addr # Empty =>
    /\ reply[p].addr \in Usable(Here(p))
    /\ reply[p].gw = Addr(host[Here(p)], 1)

\* No two hosts have the same subnet.
SubnetsDistinct ==
  \A g, h \in Hosts : host[g] # Empty /\ host[g] = host[h] => g = h

\* Devices have addresses of their own host's subnet, never its gateway, also
\* when calls were killed or requests failed on the way.
DevicesInSubnet ==
  \A h \in Hosts, d \in Devices :
    dev[h][d] # Empty => host[h] # Empty /\ dev[h][d] \in Usable(h)

\* Two devices of a host never have the same address.  The code keeps it only
\* where FreeOrHeld holds: not for overlapping calls or failed requests.
DevicesDistinct ==
  \A h \in Hosts, c, d \in Devices :
    dev[h][c] # Empty /\ dev[h][c] = dev[h][d] => c = d

\* A successful ADD reports an address.  The code does not keep it on a host
\* without free addresses.
AddHasAddress == \A p \in Procs : Added(p) => reply[p].addr # Empty

\* Broadcast addresses are not given to devices.  The code does not keep it.
NoBroadcast ==
  \A h \in Hosts, d \in Devices :
    host[h] # Empty => dev[h][d] # Addr(host[h], Size - 1)

\* The gateway of a host at rest is that of its subnet: a release leaves none
\* behind, and the ADD after it, that may get another subnet, stores a new one.
GatewayOfSubnet ==
  \A h \in Hosts : Quiet(h) =>
    gateway[h] = IF host[h] = Empty THEN Empty ELSE Addr(host[h], 1)

\* A device's address is neither replaced nor dropped but by its release,
\* however often the device is added, checked or released half-way.
DeviceStable ==
  [][\A h \in Hosts, d \in Devices :
       dev[h][d] # Empty =>
         \/ dev'[h][d] = dev[h][d]
         \/ /\ dev'[h][d] = Empty
            /\ \E p \in Procs : pc[p] = "rdel" /\ Here(p) = h /\ req[p].dev = d]_vars

\* The subnet of a host that is done goes back to the pool.  The code does not
\* keep it.
SubnetReturned ==
  [][\A p \in Procs :
       pc[p] = "rgwdel" /\ pc'[p] = "exit" /\ reply'[p].ok
         => \A s \in Range(Subnets) :
              s \in Range(pool') \/ \E h \in Hosts : host'[h] = s]_vars

\* With calls of one host not overlapping and no failures, the plugin
\* implements the table of reservations, one step of one call at a time.
Holders == Hosts \X Devices

Nobody == <<NoName, NoName>>

Assignable == {Addr(s, n) : s \in Range(Subnets), n \in 2 .. Size - 1}

Owner == [a \in Assignable |->
  IF \E c \in Holders : dev[c[1]][c[2]] = a
    THEN CHOOSE c \in Holders : dev[c[1]][c[2]] = a
    ELSE Nobody]

Abstract == INSTANCE AddressPool WITH
  Containers <- Holders, Addrs <- Assignable, NoOne <- Nobody,
  owner <- Owner, usable <- TRUE

Refines == Abstract!Spec

-----------------------------------------------------------------------------
(* Why they hold: the inductive invariants *)

Device(p) == req[p].dev

DevAddr(p) == dev[Here(p)][Device(p)]

\* What a process holds is what it is about to store.
MemInv ==
  \A p \in Procs :
    LET m == mem[p]
    IN  /\ pc[p] = "poolput" => m.list \in Seq(Range(Subnets) \cup {Empty})
        /\ pc[p] \in {"poolput", "hostput"} => m.item \in Range(Subnets) \cup {Empty}
        /\ pc[p] \in {"gwput", "hpoolput"} => m.item \in Range(Subnets)
        /\ pc[p] \in {"hpooltail", "rput"} => m.list \in Seq(Addresses \cup {Empty})
        /\ pc[p] = "rput" => m.list # <<>>
        /\ pc[p] \in {"hpooltail", "devput", "rhpool", "rput", "rdel"}
             => m.item \in Addresses \cup {Empty}

\* The calls for a device come one after the other, whatever else overlaps:
\* what a call has read of the device's key is so until it writes the key.
CallsInv ==
  /\ \A p, q \in Running : Here(p) = Here(q) /\ Device(p) = Device(q) => p = q
  /\ \A p \in Running : Here(p) \in Hosts /\ Device(p) \in Devices
  /\ \A p \in Procs :
       /\ pc[p] \in {"hpool", "hpooltail", "devput"} => DevAddr(p) = Empty
       /\ pc[p] \in {"rhpool", "rput", "rdel"} => DevAddr(p) = mem[p].item
       /\ pc[p] \in {"rdev", "rhpool", "rput", "rdel"} => req[p].cmd = "DEL"
       /\ pc[p] = "cdev" => req[p].cmd = "CHECK"
       /\ pc[p] \in {"rhost", "rhostdel", "rgwdel"} => req[p].cmd = "RELEASE"
       /\ pc[p] # "exit" => ~ reply[p].ok

\* The invariant that the proofs step through, whatever overlaps and fails.
IInv == TypeOK /\ MemInv /\ CallsInv

\* With no two calls on a host at a time:
OnePerHost == \A p, q \in Running : Here(p) = Here(q) => p = q

Joining(p) == pc[p] \in {"host2", "pool", "poolput", "hostput"}

\* what a host gives out is of its subnet, in its keys and on the way there,
\* if no host is ever released;
InSubnet(h, S) == S \subseteq {Empty} \cup IF host[h] = Empty THEN {} ELSE Usable(h)

SubnetInv ==
  /\ OnePerHost
  /\ \A h \in Hosts : InSubnet(h, Range(hostPool[h])) /\ InSubnet(h, Range(dev[h]))
  /\ \A p \in Running :
       /\ Joining(p) => host[Here(p)] = Empty
       /\ pc[p] \in {"gwput", "hpoolput"} => host[Here(p)] = mem[p].item
       /\ pc[p] \in {"hpooltail", "rput"} => InSubnet(Here(p), Range(mem[p].list))
       /\ pc[p] \in {"hpooltail", "devput"} => InSubnet(Here(p), {mem[p].item})
       /\ req[p].cmd # "RELEASE"

\* and without failures, each address of a subnet is in one place: in a list
\* of free addresses, or at one of the devices.
Balanced(free, held, s) ==
  LET usable  == {Addr(s, n) : n \in 2 .. Size - 1}
      isFree(a) == \E i \in DOMAIN free : free[i] = a
      isHeld(a) == \E d \in Devices : held[d] = a
  IN  /\ Range(free) \cup Range(held) \subseteq usable \cup {Empty}
      /\ \A a \in usable :
           /\ isFree(a) \/ isHeld(a)
           /\ ~ (isFree(a) /\ isHeld(a))
           /\ \A i, j \in DOMAIN free : free[i] = a /\ free[j] = a => i = j
           /\ \A c, d \in Devices : held[c] = a /\ held[d] = a => c = d

NoDevices == [d \in Devices |-> Empty]

HasGateway(h) == host[h] # Empty /\ gateway[h] = GetGateway(host[h])

\* A host at rest: it has nothing, or all that a subnet comes with.
AtRest(h) ==
  \/ host[h] = Empty /\ gateway[h] = Empty /\ dev[h] = NoDevices
  \/ HasGateway(h) /\ Balanced(hostPool[h], dev[h], host[h])

\* The host of a call: at rest, or short of what the call is yet to store.
Underway(p) ==
  LET h == Here(p)
      stored(a) == [dev[h] EXCEPT ![Device(p)] = a]
  IN  /\ pc[p] \notin {"gwput", "hpoolput", "hpooltail", "devput", "rput", "rdel",
                       "rgwdel"} => AtRest(h)
      /\ Joining(p) => host[h] = Empty
      /\ pc[p] \in {"gwput", "hpoolput"}
           => host[h] = mem[p].item /\ dev[h] = NoDevices
      /\ pc[p] \in {"hpoolput", "gw", "dev", "hpool", "hpooltail", "devput", "rhpool",
                    "rput", "rdel"} => HasGateway(h)
      /\ pc[p] = "hpooltail"
           => Balanced(Joined(mem[p].list), stored(mem[p].item), host[h])
      /\ pc[p] = "devput" => Balanced(hostPool[h], stored(mem[p].item), host[h])
      /\ pc[p] = "rput" => Balanced(mem[p].list, stored(Empty), host[h])
      /\ pc[p] = "rdel" => Balanced(hostPool[h], stored(Empty), host[h])
      /\ pc[p] \in {"rhost", "rhostdel", "rgwdel"} => dev[h] = NoDevices
      /\ pc[p] = "rgwdel" => host[h] = Empty

\* What an ADD has found, and what it reports in the end.
ReplyOK(p) ==
  /\ pc[p] \in {"dev", "hpool", "hpooltail", "devput"}
       => reply[p].gw = GetGateway(host[Here(p)])
  /\ Added(p) /\ reply[p].addr # Empty =>
       /\ reply[p].addr \in Usable(Here(p))
       /\ reply[p].gw = Addr(host[Here(p)], 1)

HostsInv ==
  /\ OnePerHost
  /\ \A h \in Hosts : Quiet(h) => AtRest(h)
  /\ \A p \in Running : Underway(p) /\ ReplyOK(p)

\* With subnets enough for all hosts and for those that failures and releases
\* lose, and one failed request at most: the subnets are given out in their
\* order, and once the last is gone every host has one and keeps it.
Served == {h \in Hosts : host[h] # Empty}

Lost == releases + kills + errors

\* ReleaseHostIP, counted already, has yet to delete its host's subnet.
Parting(p) == pc[p] \in {"rhost", "rhostdel"}

Leaving == IF \E p \in Procs : Parting(p) THEN 1 ELSE 0

AllOut == Served = Hosts /\ releases = MaxReleases /\ Leaving = 0

Left(k) == Joined(SubSeq(Subnets, k + 1, Len(Subnets)))

Out(k) ==
  /\ \A h \in Served : host[h] \in {Subnets[i] : i \in 1 .. k}
  /\ k + Leaving <= Cardinality(Served) + Lost

Carries(p) == pc[p] = "hostput" /\ mem[p].item # Empty

Given(k) ==
  /\ Out(k)
  /\ \/ pool = Left(k) /\ \A p \in Procs : ~ Carries(p)
     \/ /\ k < Len(Subnets) /\ pool = Left(k + 1)
        /\ \E p \in Procs : Carries(p) /\ mem[p].item = Subnets[k + 1]

NotInitialised ==
  /\ pool = <<Empty>> /\ Served = {}
  /\ \A p \in Procs : ~ Joining(p) /\ pc[p] # "host"

\* Whoever is to join its host to the cluster is alone until it has a subnet.
PoolOK(p) ==
  /\ Joining(p) => host[Here(p)] = Empty
  /\ Joining(p) \/ pc[p] \in {"status", "recheck", "initput", "host"}
       => host[Here(p)] # Empty \/ Running = {p}
  /\ pc[p] = "recheck" => AllOut \/ NotInitialised \/ errors > 0
  /\ pc[p] = "initput" => AllOut \/ NotInitialised
  /\ pc[p] = "poolput" => mem[p] = [list |-> Tail(pool), item |-> Head(pool)]

PoolInv ==
  /\ SubnetsDistinct
  /\ OnePerHost
  /\ \A p, q \in Running : Parting(p) /\ Parting(q) => p = q
  /\ \A p \in Running : PoolOK(p)
  /\ \/ AllOut
     \/ NotInitialised
     \/ \E k \in 0 .. Len(Subnets) : Given(k)

\* Where nothing fails at all, no two devices have the same address.
HeldInv == DevicesInSubnet /\ DevicesDistinct

=============================================================================
