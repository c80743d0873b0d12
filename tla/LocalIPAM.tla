------------------------------ MODULE LocalIPAM ------------------------------
(***************************************************************************)
(* The file-backed IPAM plugin (plugins/ipam/local): every CNI call is an  *)
(* OS process of its own.  It reads subnet.json, opens the store of its    *)
(* network, takes the flock of the store's directory, loads the JSON file, *)
(* looks up, allocates or deletes, rewrites the file, drops the lock and   *)
(* prints its result.  Any process may be killed between two steps, any    *)
(* file operation may fail, and the node may reboot and come back with     *)
(* another subnet while the store, on disk, stays.                         *)
(***************************************************************************)
EXTENDS Naturals

CONSTANTS
  Procs,        \* slots for concurrently running plugin processes
  Containers,   \* CNI_CONTAINERID values
  Bases,        \* first addresses of the subnets the node may be given
  Size,         \* number of addresses of a subnet (256: mycnid writes /24)
  NoAddr,       \* no address: nil net.IP, "" in the file, no subnet.json
  NoOne,        \* the id of an address absent from Data.IPs
  MaxFaults     \* bound on kills, I/O errors and reboots

ASSUME AddressAssumption ==
  /\ Bases \subseteq Nat
  /\ Size \in Nat /\ Size > 2
  /\ NoAddr \notin Nat

ASSUME NamesAssumption ==
  /\ NoOne \notin Containers
  /\ MaxFaults \in Nat

VARIABLES
  subnet,       \* base address in /run/testcni/subnet.json, or NoAddr
  file,         \* the store's JSON file: absent, torn or ok, and its Data
  lock,         \* the processes that hold the flock
  pc,           \* where each process is
  req,          \* its command, container id and the subnet it read
  mem,          \* its Store.data
  start,        \* the cursor of AllocateIP's loop
  reply,        \* whether its call succeeded so far, and with which address
  granted,      \* what the runtime was told: the address of each live container
  faults        \* faults so far, for MaxFaults only

vars == <<subnet, file, lock, pc, req, mem, start, reply, granted, faults>>

-----------------------------------------------------------------------------
(* Addresses *)

Net(b) == b .. b + Size - 1

\* Mutant of Gateway: the subnet's own address.
NetworkAsGateway(b) == b

\* gateway = the first address after the subnet's own
Gateway(b) == b + 1

Addrs == UNION {Net(b) : b \in Bases}

(* Store.data, the parsed contents of the file *)

Data == [ips : [Addrs -> Containers \cup {NoOne}], last : Addrs \cup {NoAddr}]

\* Mutant of FreshData: the map that an absent "ips" key unmarshals to.
NilData == [ips |-> <<>>, last |-> NoAddr]

FreshData == [ips |-> [a \in Addrs |-> NoOne], last |-> NoAddr]

Contain(d, ip) == d.ips[ip] # NoOne

GetIPByID(d, c) == {a \in Addrs : d.ips[a] = c}

Absent == [st |-> "absent", data |-> FreshData]
Torn   == [st |-> "torn",   data |-> FreshData]
Saved(d) == [st |-> "ok", data |-> d]

(* Processes *)

Commands == {"ADD", "DEL", "CHECK"}

NoReq   == [cmd |-> "CHECK", id |-> NoOne, base |-> NoAddr]
NoReply == [ok |-> FALSE, addr |-> NoAddr]

Locations ==
  {"idle", "lock", "load", "create", "init", "decide", "scan", "store",
   "write", "unlock", "exit"}

\* Locations between the flock being granted and being dropped.
Inside == Locations \ {"idle", "lock", "exit"}

Goto(p, to) == pc' = [pc EXCEPT ![p] = to]

At(p, from, cmd) == pc[p] = from /\ req[p].cmd = cmd

-----------------------------------------------------------------------------

Init ==
  /\ subnet = NoAddr
  /\ file = Absent
  /\ lock = {}
  /\ pc = [p \in Procs |-> "idle"]
  /\ req = [p \in Procs |-> NoReq]
  /\ mem = [p \in Procs |-> FreshData]
  /\ start = [p \in Procs |-> NoAddr]
  /\ reply = [p \in Procs |-> NoReply]
  /\ granted = [c \in Containers |-> NoAddr]
  /\ faults = 0

\* The runtime runs the plugin.  It never runs two calls for one container
\* at a time, and counts the container as gone once it asks for DEL.  The
\* plugin reads subnet.json before it takes any lock, and fails without it.
Call(p, cmd, c) ==
  /\ pc[p] = "idle"
  /\ \A q \in Procs : pc[q] # "idle" => req[q].id # c
  /\ req' = [req EXCEPT ![p] = [cmd |-> cmd, id |-> c, base |-> subnet]]
  /\ Goto(p, IF subnet = NoAddr THEN "exit" ELSE "lock")
  /\ granted' = IF cmd = "DEL" THEN [granted EXCEPT ![c] = NoAddr] ELSE granted
  /\ UNCHANGED <<subnet, file, lock, mem, start, reply, faults>>

\* Mutant of Compatible: nobody waits.
LockIgnored(p) == p \in Procs

Compatible(p) ==
  \A q \in lock : req[p].cmd = "CHECK" /\ req[q].cmd = "CHECK"

\* flock(LOCK_SH) for CHECK, flock(LOCK_EX) for ADD and DEL
Lock(p) ==
  /\ pc[p] = "lock"
  /\ Compatible(p)
  /\ lock' = lock \cup {p}
  /\ Goto(p, "load")
  /\ UNCHANGED <<subnet, file, req, mem, start, reply, granted, faults>>

\* Mutant of LoadData: any failure to read the data starts a new store.
TornAsNew(p) ==
  /\ pc[p] = "load"
  /\ IF file.st = "ok"
       THEN mem' = [mem EXCEPT ![p] = file.data] /\ Goto(p, "decide")
       ELSE mem' = [mem EXCEPT ![p] = FreshData] /\ Goto(p, "create")
  /\ UNCHANGED <<subnet, file, lock, req, start, reply, granted, faults>>

\* Store.LoadData up to the parse.  An empty or cut file is no JSON object.
LoadData(p) ==
  /\ pc[p] = "load"
  /\ \/ /\ file.st = "absent"
        /\ mem' = [mem EXCEPT ![p] = FreshData]
        /\ Goto(p, "create")
     \/ /\ file.st = "ok"
        /\ mem' = [mem EXCEPT ![p] = file.data]
        /\ Goto(p, "decide")
     \/ /\ file.st = "torn"
        /\ Goto(p, "unlock")
        /\ UNCHANGED mem
  /\ UNCHANGED <<subnet, file, lock, req, start, reply, granted, faults>>

\* LoadData's os.Create: the file exists and is empty, whatever it was.
CreateFile(p) ==
  /\ pc[p] = "create"
  /\ file' = Torn
  /\ Goto(p, "init")
  /\ UNCHANGED <<subnet, lock, req, mem, start, reply, granted, faults>>

\* LoadData's f.Write([]byte("{}"))
InitFile(p) ==
  /\ pc[p] = "init"
  /\ file' = Saved(FreshData)
  /\ Goto(p, "decide")
  /\ UNCHANGED <<subnet, lock, req, mem, start, reply, granted, faults>>

\* Mutant of LastOf: first fit.
AlwaysGateway(p) == Gateway(req[p].base)

\* Store.Last, or the gateway when nothing was ever allocated
LastOf(p) ==
  IF mem[p].last = NoAddr THEN Gateway(req[p].base) ELSE mem[p].last

\* Mutant of LookupForAdd: every ADD allocates.
NoLookup(p) ==
  /\ At(p, "decide", "ADD")
  /\ start' = [start EXCEPT ![p] = LastOf(p)]
  /\ Goto(p, "scan")
  /\ UNCHANGED <<subnet, file, lock, req, mem, reply, granted, faults>>

\* AllocateIP before its loop: a container that has an address keeps it.
LookupForAdd(p) ==
  /\ At(p, "decide", "ADD")
  /\ \/ \E a \in GetIPByID(mem[p], req[p].id) :
          /\ reply' = [reply EXCEPT ![p] = [ok |-> TRUE, addr |-> a]]
          /\ Goto(p, "unlock")
          /\ UNCHANGED start
     \/ /\ GetIPByID(mem[p], req[p].id) = {}
        /\ start' = [start EXCEPT ![p] = LastOf(p)]
        /\ Goto(p, "scan")
        /\ UNCHANGED reply
  /\ UNCHANGED <<subnet, file, lock, req, mem, granted, faults>>

InSubnet(p, ip) == ip \in Net(req[p].base)

\* Mutant of ScanOverflow: the end of the subnet is the end of the search.
NoWrapAround(p) ==
  /\ pc[p] = "scan"
  /\ ~ InSubnet(p, start[p] + 1)
  /\ Goto(p, "unlock")
  /\ UNCHANGED <<subnet, file, lock, req, mem, start, reply, granted, faults>>

\* The loop ran off the subnet: back to the gateway, or, when it began
\* there, IPOverflowError.
ScanOverflow(p) ==
  /\ pc[p] = "scan"
  /\ ~ InSubnet(p, start[p] + 1)
  /\ IF LastOf(p) # Gateway(req[p].base)
       THEN start' = [start EXCEPT ![p] = Gateway(req[p].base)] /\ UNCHANGED pc
       ELSE Goto(p, "unlock") /\ UNCHANGED start
  /\ UNCHANGED <<subnet, file, lock, req, mem, reply, granted, faults>>

\* Mutant of ScanUsed: the loop never compares with the last address.
NeverGivesUp(p) ==
  /\ pc[p] = "scan"
  /\ InSubnet(p, start[p] + 1)
  /\ Contain(mem[p], start[p] + 1)
  /\ start' = [start EXCEPT ![p] = @ + 1]
  /\ UNCHANGED <<subnet, file, lock, pc, req, mem, reply, granted, faults>>

\* The loop stands on an address in use: go on, or give up ("no available
\* ip") when it is the last allocated one.
ScanUsed(p) ==
  LET next == start[p] + 1
  IN  /\ pc[p] = "scan"
      /\ InSubnet(p, next)
      /\ Contain(mem[p], next)
      /\ start' = [start EXCEPT ![p] = next]
      /\ Goto(p, IF next = LastOf(p) THEN "unlock" ELSE "scan")
      /\ UNCHANGED <<subnet, file, lock, req, mem, reply, granted, faults>>

\* Mutant of ScanFree: AllocateIP returns the address whatever Store.Add says.
AddErrorDropped(p) ==
  LET next == start[p] + 1
  IN  /\ pc[p] = "scan"
      /\ InSubnet(p, next)
      /\ ~ Contain(mem[p], next)
      /\ mem' = [mem EXCEPT ![p] =
                   [ips |-> [@.ips EXCEPT ![next] = req[p].id], last |-> next]]
      /\ reply' = [reply EXCEPT ![p] = [ok |-> TRUE, addr |-> next]]
      /\ Goto(p, "store")
      /\ UNCHANGED <<subnet, file, lock, req, start, granted, faults>>

\* The loop found a free address: Store.Add records it in memory.
ScanFree(p) ==
  LET next == start[p] + 1
  IN  /\ pc[p] = "scan"
      /\ InSubnet(p, next)
      /\ ~ Contain(mem[p], next)
      /\ mem' = [mem EXCEPT ![p] =
                   [ips |-> [@.ips EXCEPT ![next] = req[p].id], last |-> next]]
      /\ reply' = [reply EXCEPT ![p].addr = next]
      /\ Goto(p, "store")
      /\ UNCHANGED <<subnet, file, lock, req, start, granted, faults>>

\* ReleaseIP: Store.Del removes the container's record, if there is one.
LookupForDel(p) ==
  /\ At(p, "decide", "DEL")
  /\ \/ \E a \in GetIPByID(mem[p], req[p].id) :
          /\ mem' = [mem EXCEPT ![p].ips[a] = NoOne]
          /\ Goto(p, "store")
          /\ UNCHANGED reply
     \/ /\ GetIPByID(mem[p], req[p].id) = {}
        /\ reply' = [reply EXCEPT ![p].ok = TRUE]
        /\ Goto(p, "unlock")
        /\ UNCHANGED mem
  /\ UNCHANGED <<subnet, file, lock, req, start, granted, faults>>

\* CheckIP: succeeds when the container has a record.
LookupForCheck(p) ==
  /\ At(p, "decide", "CHECK")
  /\ reply' = [reply EXCEPT ![p].ok = GetIPByID(mem[p], req[p].id) # {}]
  /\ Goto(p, "unlock")
  /\ UNCHANGED <<subnet, file, lock, req, mem, start, granted, faults>>

\* os.WriteFile opens the file with O_TRUNC ...
Truncate(p) ==
  /\ pc[p] = "store"
  /\ file' = Torn
  /\ Goto(p, "write")
  /\ UNCHANGED <<subnet, lock, req, mem, start, reply, granted, faults>>

\* ... and then writes the marshalled data.
Write(p) ==
  /\ pc[p] = "write"
  /\ file' = Saved(mem[p])
  /\ reply' = [reply EXCEPT ![p].ok = TRUE]
  /\ Goto(p, "unlock")
  /\ UNCHANGED <<subnet, lock, req, mem, start, granted, faults>>

\* The deferred Unlock or RUnlock.
Unlock(p) ==
  /\ pc[p] = "unlock"
  /\ lock' = lock \ {p}
  /\ Goto(p, "exit")
  /\ UNCHANGED <<subnet, file, req, mem, start, reply, granted, faults>>

\* The process is gone; it starts over with nothing.
Forget(p) ==
  /\ Goto(p, "idle")
  /\ req' = [req EXCEPT ![p] = NoReq]
  /\ mem' = [mem EXCEPT ![p] = FreshData]
  /\ start' = [start EXCEPT ![p] = NoAddr]
  /\ reply' = [reply EXCEPT ![p] = NoReply]

\* cmdAdd, cmdDel or cmdCheck returns; a successful ADD prints its address.
Exit(p) ==
  /\ pc[p] = "exit"
  /\ granted' = IF req[p].cmd = "ADD" /\ reply[p].ok
                  THEN [granted EXCEPT ![req[p].id] = reply[p].addr]
                  ELSE granted
  /\ Forget(p)
  /\ UNCHANGED <<subnet, file, lock, faults>>

-----------------------------------------------------------------------------
(* The environment *)

Fault == faults < MaxFaults /\ faults' = faults + 1

\* A file operation returns an error and the call gives up.  The file stays
\* as it is: already truncated when the write is what failed.
IOError(p) ==
  /\ Fault
  /\ pc[p] \in {"lock", "load", "create", "init", "store", "write"}
  /\ Goto(p, IF pc[p] = "lock" THEN "exit" ELSE "unlock")
  /\ UNCHANGED <<subnet, file, lock, req, mem, start, reply, granted>>

\* The process is killed; the kernel drops its flock.
Kill(p) ==
  /\ Fault
  /\ pc[p] # "idle"
  /\ lock' = lock \ {p}
  /\ Forget(p)
  /\ UNCHANGED <<subnet, file, granted>>

\* The node reboots: processes, containers and /run are gone, the store in
\* /var/lib/testcni is not.
Reboot ==
  /\ Fault
  /\ subnet' = NoAddr
  /\ lock' = {}
  /\ pc' = [p \in Procs |-> "idle"]
  /\ req' = [p \in Procs |-> NoReq]
  /\ mem' = [p \in Procs |-> FreshData]
  /\ start' = [p \in Procs |-> NoAddr]
  /\ reply' = [p \in Procs |-> NoReply]
  /\ granted' = [c \in Containers |-> NoAddr]
  /\ UNCHANGED file

\* mycnid writes subnet.json when there is none.
WriteSubnet(b) ==
  /\ subnet = NoAddr
  /\ subnet' = b
  /\ UNCHANGED <<file, lock, pc, req, mem, start, reply, granted, faults>>

-----------------------------------------------------------------------------

Step(p) ==
  \/ LoadData(p) \/ CreateFile(p) \/ InitFile(p)
  \/ LookupForAdd(p) \/ LookupForDel(p) \/ LookupForCheck(p)
  \/ ScanOverflow(p) \/ ScanUsed(p) \/ ScanFree(p)
  \/ Truncate(p) \/ Write(p) \/ Unlock(p) \/ Exit(p)

Next ==
  \/ \E p \in Procs :
       \/ \E cmd \in Commands, c \in Containers : Call(p, cmd, c)
       \/ Lock(p)
       \/ Step(p)
       \/ IOError(p)
       \/ Kill(p)
  \/ Reboot
  \/ \E b \in Bases : WriteSubnet(b)

Spec == Init /\ [][Next]_vars

\* A running process keeps running; a waiter of the flock is woken in turn.
Fairness == \A p \in Procs : WF_vars(Step(p)) /\ SF_vars(Lock(p))

FairSpec == Spec /\ Fairness

-----------------------------------------------------------------------------
(* What the store says, between and during its rewrites *)

\* A process that has emptied the file, or is about to, and will write it.
Writing(p) == pc[p] \in {"create", "init", "write"}

Broken == file.st = "torn" /\ \A p \in Procs : ~ Writing(p)

\* The records the next call will find once the writer, if any, is done.
LogicalIPs ==
  IF file.st # "torn" THEN file.data.ips
  ELSE IF Broken THEN FreshData.ips
  ELSE mem[CHOOSE p \in Procs : Writing(p)].ips

Recorded(c) == \E a \in Addrs : LogicalIPs[a] = c

\* The addresses meant for containers: neither the network's nor the gateway.
Pool(b) == b + 2 .. b + Size - 1

-----------------------------------------------------------------------------
(* Properties *)

\* Every variable holds values of its type; in particular Data.IPs is always
\* a map over the addresses, also after LoadData of the file "{}".
TypeOK ==
  /\ subnet \in Bases \cup {NoAddr}
  /\ file \in [st : {"absent", "torn", "ok"}, data : Data]
  /\ lock \subseteq Procs
  /\ pc \in [Procs -> Locations]
  /\ req \in [Procs -> [cmd : Commands, id : Containers \cup {NoOne},
                        base : Bases \cup {NoAddr}]]
  /\ mem \in [Procs -> Data]
  /\ start \in [Procs -> Addrs \cup {NoAddr}]
  /\ reply \in [Procs -> [ok : BOOLEAN, addr : Addrs \cup {NoAddr}]]
  /\ granted \in [Containers -> Addrs \cup {NoAddr}]
  /\ faults \in 0 .. MaxFaults

\* Two live containers never have the same address, whatever calls overlap,
\* are killed, fail half-way or are separated by a reboot.
UniqueGrants ==
  \A c, d \in Containers :
    granted[c] # NoAddr /\ granted[c] = granted[d] => c = d

\* The address of a live container stays recorded under its id for as long
\* as the store can be read: nobody can allocate or release it.
GrantsBacked ==
  Broken \/ \A c \in Containers :
              granted[c] # NoAddr => LogicalIPs[granted[c]] = c

Answered(p, cmd) ==
  pc[p] \in {"unlock", "exit"} /\ req[p].cmd = cmd /\ reply[p].ok

\* A call that reports success tells the truth until the runtime hears it,
\* although others may run once it dropped the lock: ADD's address is the
\* container's, DEL left it none, CHECK found one.
RepliesTrue ==
  Broken \/ \A p \in Procs :
    /\ Answered(p, "ADD") => LogicalIPs[reply[p].addr] = req[p].id
    /\ Answered(p, "DEL") => ~ Recorded(req[p].id)
    /\ Answered(p, "CHECK") => Recorded(req[p].id)

\* A container never has two records, so GetIPByID and Del, which stop at
\* the first one a map iteration meets, have no choice to make.
OneRecordPerContainer ==
  \A a, b \in Addrs :
    LogicalIPs[a] # NoOne /\ LogicalIPs[a] = LogicalIPs[b] => a = b

\* Neither a network address nor a gateway is ever recorded for a container.
RecordsInPool ==
  \A a \in Addrs : LogicalIPs[a] # NoOne => \E b \in Bases : a \in Pool(b)

\* The free address AllocateIP is to find: the first one above the last
\* allocated, else the first of the subnet.
NextFree(b, d) ==
  LET free  == {a \in Pool(b) : ~ Contain(d, a)}
      above == {a \in free : a > (IF d.last = NoAddr THEN 0 ELSE d.last)}
      from  == IF above = {} THEN free ELSE above
  IN  CHOOSE a \in from : \A x \in from : a <= x

\* The loop's wrap-around is next fit: the address chosen is the first free
\* one after the last allocated, going round the subnet once.
NextFit ==
  [][\A p \in Procs :
       pc[p] = "scan" /\ pc'[p] = "store"
         => reply'[p].addr = NextFree(req[p].base, mem[p])]_vars

\* ADD gives up only when every address of its subnet is taken.
NoFalseExhaustion ==
  [][\A p \in Procs :
       pc[p] = "scan" /\ pc'[p] = "unlock"
         => \A a \in Pool(req[p].base) : Contain(mem[p], a)]_vars

\* Repeated ADDs never move a live container to another address.
StableGrant ==
  [][\A c \in Containers :
       granted[c] # NoAddr => granted'[c] \in {granted[c], NoAddr}]_vars

\* Every call the runtime makes comes back, and with it the flock.
CallsReturn == \A p \in Procs : pc[p] # "idle" ~> pc[p] = "idle"

-----------------------------------------------------------------------------
(* Why UniqueGrants holds: the inductive invariant *)

\* A running call is for a container, and once past subnet.json for a subnet.
CallsInv ==
  \A p \in Procs :
    /\ pc[p] # "idle" => req[p].id \in Containers
    /\ pc[p] \in Inside \cup {"lock"} => req[p].base \in Bases
    /\ pc[p] \in {"scan", "store", "write"} => req[p].cmd # "CHECK"
    /\ pc[p] = "scan" => req[p].cmd = "ADD"
    /\ pc[p] \notin {"unlock", "exit"} => ~ reply[p].ok
    /\ req[p].cmd = "ADD" /\ (reply[p].ok \/ pc[p] \in {"store", "write"})
         => reply[p].addr \in Addrs

\* The runtime serialises the calls for a container, and DEL comes when the
\* container is gone.
SerialInv ==
  /\ \A p, q \in Procs :
       pc[p] # "idle" /\ pc[q] # "idle" /\ req[p].id = req[q].id => p = q
  /\ \A p \in Procs :
       pc[p] # "idle" /\ req[p].cmd = "DEL" => granted[req[p].id] = NoAddr

\* The flock is held exactly inside, and shared by CHECKs only.
LockInv ==
  /\ lock = {p \in Procs : pc[p] \in Inside}
  /\ \A p, q \in lock : p = q \/ (req[p].cmd = "CHECK" /\ req[q].cmd = "CHECK")

\* c was told a, or is about to be.
Claims(c, a) ==
  \/ granted[c] = a /\ a # NoAddr
  \/ \E p \in Procs : Answered(p, "ADD") /\ req[p].id = c /\ reply[p].addr = a

NoClaims == \A c \in Containers, a \in Addrs : ~ Claims(c, a)

ClaimsIn(ips) == \A c \in Containers, a \in Addrs : Claims(c, a) => ips[a] = c

\* What a process between LoadData and the end of Store holds in memory.
MemOK(p) ==
  /\ pc[p] \in {"create", "init"} => mem[p] = FreshData /\ NoClaims
  /\ pc[p] = "decide" /\ req[p].cmd # "CHECK" => file = Saved(mem[p])
  /\ pc[p] = "scan" => file = Saved(mem[p])
  /\ pc[p] = "store" => file.st = "ok" /\ ClaimsIn(mem[p].ips)
  /\ pc[p] = "write" => file.st = "torn" /\ ClaimsIn(mem[p].ips)
  /\ pc[p] \in {"store", "write"} /\ req[p].cmd = "ADD"
       => mem[p].ips[reply[p].addr] = req[p].id

MemInv == \A p \in Procs : MemOK(p)

\* Claims are recorded wherever the records are, and never two on an address.
ClaimsInv ==
  /\ file.st = "absent" => NoClaims
  /\ file.st = "ok" => ClaimsIn(file.data.ips)
  /\ \A c, d \in Containers, a \in Addrs : Claims(c, a) /\ Claims(d, a) => c = d

\* Nobody has two of the records.
Single(ips) ==
  \A a, b \in Addrs : ips[a] # NoOne /\ ips[a] = ips[b] => a = b

\* A call changes the records of its own container only, and by one: ADD adds
\* one to a free address of the subnet, DEL removes the only one.
ChangeOK(p) ==
  LET old == file.data.ips
      c   == req[p].id
  IN  \/ /\ req[p].cmd = "ADD"
         /\ \A a \in Addrs : old[a] # c
         /\ old[reply[p].addr] = NoOne /\ reply[p].addr \in Net(req[p].base)
         /\ mem[p].ips = [old EXCEPT ![reply[p].addr] = c]
      \/ /\ req[p].cmd = "DEL"
         /\ \E a \in Addrs : old[a] = c /\ mem[p].ips = [old EXCEPT ![a] = NoOne]

\* What a process knows of the table: the subnet of this boot, a new store
\* that has no records yet, the records it looks them up in, and what it is
\* about to change.
TableOK(p) ==
  /\ pc[p] # "idle" => req[p].base \in {NoAddr, subnet}
  /\ pc[p] \in {"create", "init"} => file.data = FreshData
  /\ pc[p] = "decide" => mem[p].ips = file.data.ips
  /\ pc[p] = "scan" => \A a \in Addrs : mem[p].ips[a] # req[p].id
  /\ pc[p] = "store" => ChangeOK(p)
  /\ pc[p] \in {"store", "write"} =>
       /\ Single(mem[p].ips)
       /\ req[p].cmd = "DEL" => \A a \in Addrs : mem[p].ips[a] # req[p].id

\* The records as one table, whoever is rewriting the file: a file that is not
\* there or is cut short has none, and a container has and claims one at most.
TableInv ==
  /\ file.st # "ok" => file.data = FreshData
  /\ Single(file.data.ips)
  /\ \A c \in Containers, a, b \in Addrs : Claims(c, a) /\ Claims(c, b) => a = b
  /\ \A p \in Procs : TableOK(p)

\* The invariant that the proofs step through.
IInv ==
  /\ TypeOK /\ CallsInv /\ SerialInv /\ LockInv /\ MemInv /\ ClaimsInv
  /\ TableInv /\ RepliesTrue

-----------------------------------------------------------------------------
(* Why the search is sound: the invariant of AllocateIP's loop *)

\* The node's subnets neither overlap nor touch.
Apart == \A b, d \in Bases : b # d => b + Size < d \/ d + Size < b

PoolAddrs == UNION {Pool(b) : b \in Bases}

\* What is recorded, and where the next search begins, is in a pool.
InPool(d) ==
  /\ d.last \in PoolAddrs \cup {NoAddr}
  /\ \A a \in Addrs : Contain(d, a) => a \in PoolAddrs

PoolInv == InPool(file.data) /\ \A p \in Procs : InPool(mem[p])

\* All addresses between two points of the pool are in use.
UsedIn(p, from, to) ==
  \A a \in Pool(req[p].base) : from < a /\ a <= to => Contain(mem[p], a)

\* The loop is on its way up from the last address, and found all in use ...
FirstPass(p) ==
  /\ start[p] >= LastOf(p)
  /\ start[p] # LastOf(p) =>
       start[p] \in Pool(req[p].base) /\ LastOf(p) \in Net(req[p].base)
  /\ UsedIn(p, LastOf(p), start[p])

\* ... or it went on from the gateway, once it had seen what is above the last.
SecondPass(p) ==
  LET b == req[p].base
  IN  /\ LastOf(p) # Gateway(b)
      /\ start[p] \in Gateway(b) .. b + Size - 1
      /\ LastOf(p) \in Pool(b) => UsedIn(p, LastOf(p), b + Size - 1)
      /\ UsedIn(p, Gateway(b), start[p])

ScanInv == \A p \in Procs : pc[p] = "scan" => FirstPass(p) \/ SecondPass(p)

\* How many rounds the search has left, at most, if it began in the subnet.
RoundsLeft(p) ==
  LET b == req[p].base
  IN  IF start[p] >= LastOf(p)
        THEN (b + Size - start[p]) + (LastOf(p) - Gateway(b))
        ELSE LastOf(p) - start[p]

Round(p) == ScanOverflow(p) \/ ScanUsed(p) \/ ScanFree(p)

\* A search that begins in the node's subnet goes round it once at most.
SearchAdvances ==
  [][\A p \in Procs :
       Round(p) /\ LastOf(p) \in Net(req[p].base) =>
         /\ RoundsLeft(p) \in 1 .. Size - 1
         /\ pc'[p] = "scan" => RoundsLeft(p)' = RoundsLeft(p) - 1]_vars

-----------------------------------------------------------------------------
(* Refinement *)

\* The address a successful ADD of c is about to print.
AnswerFor(c) ==
  LET done == {p \in Procs : Answered(p, "ADD") /\ req[p].id = c}
  IN  IF done = {} THEN NoAddr ELSE reply[CHOOSE p \in done : TRUE].addr

\* The file, or what its writer holds, is the table; the replies past the
\* store are the answers.
Abstract ==
  INSTANCE NodePool WITH
    Subnets <- Bases, None <- NoAddr,
    owner <- LogicalIPs, usable <- ~ Broken,
    answer <- [c \in Containers |-> AnswerFor(c)], live <- granted

\* The plugin implements the abstract node: one step of one call changes the
\* table, within the subnet of this boot; an answer is of a reservation; what
\* a live container goes by is never released; a store that cannot be parsed
\* is never served from or replaced.
Refines == Abstract!Spec

=============================================================================
