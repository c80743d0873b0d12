---------------------------- MODULE EtcdIPAMProofs ----------------------------
(***************************************************************************)
(* Proofs about EtcdIPAM, for any number of processes, hosts, devices and  *)
(* subnets and subnets of any size.                                        *)
(***************************************************************************)
EXTENDS EtcdIPAM, SequenceTheorems, FiniteSetTheorems, TLAPS

-----------------------------------------------------------------------------
(* Lists *)

Name == Range(Subnets) \cup {Empty}

AddrOrNone == Addresses \cup {Empty}

\* Storing a list and reading it back gives a list, never the empty sequence.
LEMMA JoinedType ==
  ASSUME NEW S, Empty \in S, NEW s \in Seq(S)
  PROVE  Joined(s) \in Seq(S) \ {<<>>}
<1>1. <<Empty>> \in Seq(S) /\ <<Empty>> # <<>>
  OBVIOUS
<1> QED
  BY <1>1 DEF Joined

\* The addresses of a new host.
LEMMA ValidIpsType ==
  ASSUME NEW s \in Range(Subnets)
  PROVE  /\ GetValidIps(s) \in Seq(AddrOrNone)
         /\ GetGateway(s) \in Addresses
<1>1. Size - 2 \in Nat /\ Size - 2 > 0
  BY SubnetsAssumption
<1>2. \A n \in 0 .. Size - 1 : Addr(s, n) \in Addresses
  BY DEF Addresses
<1>3. \A i \in 1 .. Size - 2 : Addr(s, i + 1) \in AddrOrNone
  BY <1>1, <1>2, SubnetsAssumption DEF AddrOrNone
<1>4. GetValidIps(s) \in [1 .. Size - 2 -> AddrOrNone]
  BY <1>3 DEF GetValidIps
<1>5. GetValidIps(s) \in Seq(AddrOrNone)
  BY <1>1, <1>4, SeqDef
<1>6. 1 \in 0 .. Size - 1
  BY SubnetsAssumption
<1> QED
  BY <1>2, <1>5, <1>6 DEF GetGateway

\* A list of names or addresses is one of items.
LEMMA ItemLists ==
  /\ Name \subseteq Item /\ AddrOrNone \subseteq Item
  /\ Seq(Name) \subseteq Seq(Item) /\ Seq(AddrOrNone) \subseteq Seq(Item)
<1>1. Name \subseteq Item /\ AddrOrNone \subseteq Item
  BY DEF Name, AddrOrNone, Item
<1> QED
  BY <1>1, SeqMonotonic

\* Head and tail of a stored list.
LEMMA HeadTail ==
  ASSUME NEW S, NEW s \in Seq(S) \ {<<>>}
  PROVE  Head(s) \in S /\ Tail(s) \in Seq(S)
BY HeadTailProperties

-----------------------------------------------------------------------------
(* Steps *)

ProcStep(p) ==
  \/ Add(p) \/ Del(p) \/ FindByID(p) \/ Release(p) \/ Exit(p)
  \/ ReadError(p) \/ WriteError(p) \/ Kill(p)


\* A step of one process is not seen in the locals of another.
LEMMA OthersLocals ==
  ASSUME TypeOK, NEW p \in Procs, NEW q \in Procs, q # p,
         \/ ProcStep(p)
         \/ \E cmd \in Commands, h \in Hosts, d \in Devices : Call(p, cmd, h, d)
  PROVE  /\ pc'[q] = pc[q] /\ req'[q] = req[q]
         /\ mem'[q] = mem[q] /\ reply'[q] = reply[q]
<1> USE DEF Goto, Fail, Succeed, Forget, etcd
<1>0. /\ pc \in [Procs -> Locations] /\ DOMAIN req = Procs
      /\ DOMAIN mem = Procs /\ DOMAIN reply = Procs
  BY DEF TypeOK
<1> HIDE DEF TypeOK
<1>1. ASSUME NEW cmd \in Commands, NEW h \in Hosts, NEW d \in Devices,
             Call(p, cmd, h, d)
      PROVE  /\ pc'[q] = pc[q] /\ req'[q] = req[q]
             /\ mem'[q] = mem[q] /\ reply'[q] = reply[q]
  BY <1>0, <1>1 DEF Call
<1>2. CASE Add(p)
  BY <1>0, <1>2
  DEF Add, PoolStatus, PoolStatusAgain, InitPool, ReadHost, ReadPool, StorePool,
      StoreHost, StoreGateway, StoreHostPool, ReadGateway, ReadDev, ReadHostPool,
      TakeFrom, StoreHostPoolTail, StoreDev
<1>3. CASE Del(p) \/ FindByID(p)
  BY <1>0, <1>3
  DEF Del, ReadDevToRelease, ReadHostPoolToRelease, AppendTo, ReturnAddress,
      DeleteDev, FindByID
<1>4. CASE Release(p) \/ Exit(p) \/ Kill(p)
  BY <1>0, <1>4
  DEF Release, ReadHostToRelease, DeleteHost, DeleteGateway, Exit, Kill
<1>5. CASE ReadError(p) \/ WriteError(p)
  BY <1>0, <1>5 DEF ReadError, WriteError, TakeFrom, AppendTo
<1> QED
  BY <1>1, <1>2, <1>3, <1>4, <1>5 DEF ProcStep

\* A step writes the keys of the process's own host only.
LEMMA OthersKeys ==
  ASSUME TypeOK, NEW p \in Procs, ProcStep(p), NEW h \in Hosts, h # Here(p)
  PROVE  /\ host'[h] = host[h] /\ gateway'[h] = gateway[h]
         /\ hostPool'[h] = hostPool[h] /\ dev'[h] = dev[h]
<1> USE DEF etcd
<1>0. /\ DOMAIN host = Hosts /\ DOMAIN gateway = Hosts
      /\ DOMAIN hostPool = Hosts /\ DOMAIN dev = Hosts
  BY DEF TypeOK
<1>2. CASE Add(p)
  BY <1>0, <1>2
  DEF Add, PoolStatus, PoolStatusAgain, InitPool, ReadHost, ReadPool, StorePool,
      StoreHost, StoreGateway, StoreHostPool, ReadGateway, ReadDev, ReadHostPool,
      StoreHostPoolTail, StoreDev
<1>3. CASE Del(p) \/ FindByID(p)
  BY <1>0, <1>3
  DEF Del, ReadDevToRelease, ReadHostPoolToRelease, ReturnAddress, DeleteDev,
      FindByID
<1>4. CASE Release(p) \/ Exit(p) \/ Kill(p)
  BY <1>0, <1>4
  DEF Release, ReadHostToRelease, DeleteHost, DeleteGateway, Exit, Kill
<1>5. CASE ReadError(p) \/ WriteError(p)
  BY <1>0, <1>5 DEF ReadError, WriteError
<1> QED
  BY <1>2, <1>3, <1>4, <1>5 DEF ProcStep
-----------------------------------------------------------------------------
(* Types *)

\* What a running process is about.
LEMMA RunningHost ==
  ASSUME CallsInv, NEW p \in Procs, pc[p] # "idle"
  PROVE  Here(p) \in Hosts /\ Device(p) \in Devices
BY DEF CallsInv, Running

\* Every step keeps the types, given what a process holds.
LEMMA TypesStep == IInv /\ [Next]_vars => TypeOK'
<1> SUFFICES ASSUME IInv, [Next]_vars PROVE TypeOK'
  OBVIOUS
<1>0. TypeOK /\ MemInv /\ CallsInv
  BY DEF IInv
<1> USE NamesAssumption DEF TypeOK, Goto, Name, AddrOrNone
<1>l. "idle" \in Locations /\ "exit" \in Locations
  BY DEF Locations
<1>1. ASSUME NEW p \in Procs, NEW cmd \in Commands, NEW h \in Hosts,
             NEW d \in Devices, Call(p, cmd, h, d)
      PROVE  TypeOK'
  <2>1. [cmd |-> cmd, host |-> h, dev |-> d]
          \in [cmd : {"ADD", "DEL", "CHECK", "RELEASE"},
               host : Hosts \cup {NoName}, dev : Devices \cup {NoName}]
    OBVIOUS
  <2>2. pc' \in [Procs -> Locations]
    BY <1>0, <1>1 DEF Call, Locations
  <2>3. releases' \in 0 .. MaxReleases
    BY <1>0, <1>1 DEF Call
  <2> QED
    BY <1>0, <1>1, <2>1, <2>2, <2>3 DEF Call, etcd
<1>2. ASSUME NEW p \in Procs, PoolStatus(p) \/ PoolStatusAgain(p) \/ ReadHost(p)
      PROVE  TypeOK'
  BY <1>0, <1>2
  DEF PoolStatus, PoolStatusAgain, ReadHost, Locations, etcd, counts
<1>3. ASSUME NEW p \in Procs, InitPool(p) PROVE TypeOK'
  <2>1. Subnets \in Seq(Name) \ {<<>>}
    BY SubnetsAssumption, SeqMonotonic
  <2> QED
    BY <1>0, <1>3, <2>1 DEF InitPool, Locations, counts
<1>4. ASSUME NEW p \in Procs, ReadPool(p) PROVE TypeOK'
  <2>1. Head(pool) \in Item /\ Tail(pool) \in Seq(Item)
    BY <1>0, HeadTail, ItemLists
  <2>2. [list |-> Tail(pool), item |-> Head(pool)] \in [list : Seq(Item), item : Item]
    BY <2>1
  <2> QED
    BY <1>0, <1>4, <2>2 DEF ReadPool, Locations, etcd, counts
<1>5. ASSUME NEW p \in Procs, StorePool(p) PROVE TypeOK'
  <2>1. Joined(mem[p].list) \in Seq(Name) \ {<<>>}
    BY <1>0, <1>5, JoinedType DEF StorePool, MemInv
  <2> QED
    BY <1>0, <1>5, <2>1 DEF StorePool, Locations, counts
<1>6. ASSUME NEW p \in Procs, StoreHost(p) PROVE TypeOK'
  <2>1. mem[p].item \in Name
    BY <1>0, <1>6 DEF StoreHost, MemInv
  <2>2. pc' \in [Procs -> Locations] /\ UNCHANGED reply
    BY <1>0, <1>6 DEF StoreHost, Fail, Locations
  <2> QED
    BY <1>0, <1>6, <2>1, <2>2 DEF StoreHost, counts
<1>7. ASSUME NEW p \in Procs, StoreGateway(p) PROVE TypeOK'
  <2>1. GetGateway(mem[p].item) \in Addresses
    BY <1>0, <1>7, ValidIpsType DEF StoreGateway, MemInv
  <2> QED
    BY <1>0, <1>7, <2>1 DEF StoreGateway, Locations, counts
<1>8. ASSUME NEW p \in Procs, StoreHostPool(p) PROVE TypeOK'
  <2>1. Joined(GetValidIps(mem[p].item)) \in Seq(AddrOrNone) \ {<<>>}
    BY <1>0, <1>8, ValidIpsType, JoinedType DEF StoreHostPool, MemInv
  <2> QED
    BY <1>0, <1>8, <2>1 DEF StoreHostPool, Locations, counts
<1>9. ASSUME NEW p \in Procs, ReadGateway(p) PROVE TypeOK'
  <2>1. Here(p) \in Hosts
    BY <1>0, <1>9, RunningHost DEF ReadGateway
  <2>2. reply' \in [Procs -> [ok : BOOLEAN, addr : AddrOrNone, gw : AddrOrNone]]
    <3>1. gateway[Here(p)] \in AddrOrNone
      BY <1>0, <2>1
    <3>2. reply[p] \in [ok : BOOLEAN, addr : AddrOrNone, gw : AddrOrNone]
      BY <1>0
    <3>3. [reply[p] EXCEPT !.gw = gateway[Here(p)]]
            \in [ok : BOOLEAN, addr : AddrOrNone, gw : AddrOrNone]
      BY <3>1, <3>2, Zenon
    <3>4. reply' = [reply EXCEPT ![p] = [reply[p] EXCEPT !.gw = gateway[Here(p)]]]
      BY <1>9 DEF ReadGateway
    <3> QED
      BY <1>0, <3>3, <3>4, Zenon
  <2> QED
    BY <1>0, <1>9, <2>2 DEF ReadGateway, Locations, etcd, counts
<1>s. ASSUME NEW p \in Procs, NEW a \in AddrOrNone, NEW g \in AddrOrNone,
             Succeed(p, a, g)
      PROVE  /\ reply' \in [Procs -> [ok : BOOLEAN, addr : AddrOrNone, gw : AddrOrNone]]
             /\ pc' \in [Procs -> Locations]
  <2>1. [ok |-> TRUE, addr |-> a, gw |-> g]
          \in [ok : BOOLEAN, addr : AddrOrNone, gw : AddrOrNone]
    OBVIOUS
  <2> QED
    BY <1>0, <1>l, <1>s, <2>1 DEF Succeed
<1>h. ASSUME NEW p \in Procs, pc[p] # "idle"
      PROVE  /\ DevAddr(p) \in AddrOrNone
             /\ hostPool[Here(p)] \in Seq(AddrOrNone) \ {<<>>}
             /\ reply[p].gw \in AddrOrNone
  BY <1>0, <1>h, RunningHost DEF DevAddr, Device
<1>10. ASSUME NEW p \in Procs, ReadDev(p) PROVE TypeOK'
  <2>1. /\ reply' \in [Procs -> [ok : BOOLEAN, addr : AddrOrNone, gw : AddrOrNone]]
        /\ pc' \in [Procs -> Locations]
    BY <1>0, <1>10, <1>s, <1>h DEF ReadDev, DevAddr, Device, Locations
  <2> QED
    BY <1>0, <1>10, <2>1 DEF ReadDev, etcd, counts
<1>t. ASSUME NEW p \in Procs, NEW l \in Seq(AddrOrNone) \ {<<>>}, TakeFrom(p, l)
      PROVE  /\ mem' \in [Procs -> [list : Seq(Item), item : Item]]
             /\ pc' \in [Procs -> Locations]
  <2>1. [list |-> Tail(l), item |-> Head(l)] \in [list : Seq(Item), item : Item]
    BY HeadTail, ItemLists
  <2> QED
    BY <1>0, <1>t, <2>1 DEF TakeFrom, Locations
<1>a. ASSUME NEW p \in Procs, NEW l \in Seq(AddrOrNone), pc[p] = "rhpool",
             AppendTo(p, l)
      PROVE  /\ mem' \in [Procs -> [list : Seq(Item), item : Item]]
             /\ pc' \in [Procs -> Locations]
  <2>1. Append(l, mem[p].item) \in Seq(Item)
    BY <1>0, <1>a, AppendProperties, ItemLists DEF MemInv
  <2>2. mem' \in [Procs -> [list : Seq(Item), item : Item]]
    <3>1. [mem[p] EXCEPT !.list = Append(l, mem[p].item)]
            \in [list : Seq(Item), item : Item]
      <4>1. mem[p] \in [list : Seq(Item), item : Item]
        BY <1>0
      <4> QED
        BY <2>1, <4>1, Zenon
    <3>2. mem' = [mem EXCEPT ![p] = [mem[p] EXCEPT !.list = Append(l, mem[p].item)]]
      BY <1>a DEF AppendTo
    <3> QED
      BY <1>0, <3>1, <3>2, Zenon
  <2> QED
    BY <1>0, <1>a, <2>2 DEF AppendTo, Locations
<1>11. ASSUME NEW p \in Procs, ReadHostPool(p) PROVE TypeOK'
  <2>1. /\ mem' \in [Procs -> [list : Seq(Item), item : Item]]
        /\ pc' \in [Procs -> Locations]
    BY <1>11, <1>t, <1>h DEF ReadHostPool
  <2> QED
    BY <1>0, <1>11, <2>1 DEF ReadHostPool, etcd, counts
<1>12. ASSUME NEW p \in Procs, StoreHostPoolTail(p) PROVE TypeOK'
  <2>1. Joined(mem[p].list) \in Seq(AddrOrNone) \ {<<>>}
    BY <1>0, <1>12, JoinedType DEF StoreHostPoolTail, MemInv
  <2> QED
    BY <1>0, <1>12, <2>1 DEF StoreHostPoolTail, Locations, counts
<1>13. ASSUME NEW p \in Procs, StoreDev(p) PROVE TypeOK'
  <2>1. mem[p].item \in AddrOrNone
    BY <1>0, <1>13 DEF StoreDev, MemInv
  <2>2. /\ reply' \in [Procs -> [ok : BOOLEAN, addr : AddrOrNone, gw : AddrOrNone]]
        /\ pc' \in [Procs -> Locations]
    BY <1>13, <1>s, <1>h, <2>1 DEF StoreDev
  <2>3. dev' \in [Hosts -> [Devices -> AddrOrNone]]
    BY <1>0, <1>13, <2>1 DEF StoreDev
  <2> QED
    BY <1>0, <1>13, <2>2, <2>3 DEF StoreDev, counts
<1>e. Empty \in AddrOrNone
  OBVIOUS
<1>14. ASSUME NEW p \in Procs, ReadDevToRelease(p) PROVE TypeOK'
  <2>1. CASE DevAddr(p) = Empty
    <3>1. Succeed(p, Empty, Empty) /\ UNCHANGED mem
      BY <1>14, <2>1 DEF ReadDevToRelease, DevAddr, Device
    <3> QED
      BY <1>0, <1>14, <1>s, <1>e, <3>1 DEF ReadDevToRelease, etcd, counts
  <2>2. CASE DevAddr(p) # Empty
    <3>1. /\ mem' = [mem EXCEPT ![p].item = DevAddr(p)]
          /\ Goto(p, "rhpool") /\ UNCHANGED reply
      BY <1>14, <2>2 DEF ReadDevToRelease, DevAddr, Device
    <3>2. mem' \in [Procs -> [list : Seq(Item), item : Item]]
      <4>1. DevAddr(p) \in Item
        BY <1>14, <1>h, ItemLists DEF ReadDevToRelease
      <4>2. [mem[p] EXCEPT !.item = DevAddr(p)] \in [list : Seq(Item), item : Item]
        <5>1. mem[p] \in [list : Seq(Item), item : Item]
          BY <1>0
        <5> QED
          BY <4>1, <5>1, Zenon
      <4>3. mem' = [mem EXCEPT ![p] = [mem[p] EXCEPT !.item = DevAddr(p)]]
        BY <3>1
      <4> QED
        BY <1>0, <4>2, <4>3, Zenon
    <3> QED
      BY <1>0, <1>14, <3>1, <3>2 DEF ReadDevToRelease, etcd, counts, Locations
  <2> QED
    BY <2>1, <2>2
<1>15. ASSUME NEW p \in Procs, ReadHostPoolToRelease(p) PROVE TypeOK'
  <2>1. /\ mem' \in [Procs -> [list : Seq(Item), item : Item]]
        /\ pc' \in [Procs -> Locations]
    BY <1>15, <1>a, <1>h DEF ReadHostPoolToRelease
  <2> QED
    BY <1>0, <1>15, <2>1 DEF ReadHostPoolToRelease, etcd, counts
<1>16. ASSUME NEW p \in Procs, ReturnAddress(p) PROVE TypeOK'
  BY <1>0, <1>16 DEF ReturnAddress, MemInv, Locations, counts
<1>17. ASSUME NEW p \in Procs, DeleteDev(p) PROVE TypeOK'
  <2>1. dev' \in [Hosts -> [Devices -> AddrOrNone]]
    BY <1>0, <1>17 DEF DeleteDev
  <2> QED
    BY <1>0, <1>17, <1>s, <1>e, <2>1 DEF DeleteDev, counts
<1>18. ASSUME NEW p \in Procs, FindByID(p) PROVE TypeOK'
  <2>1. /\ reply' \in [Procs -> [ok : BOOLEAN, addr : AddrOrNone, gw : AddrOrNone]]
        /\ pc' \in [Procs -> Locations]
    <3>1. CASE Succeed(p, Empty, Empty)
      BY <1>s, <1>e, <3>1
    <3>2. CASE Fail(p)
      BY <1>0, <1>l, <3>2 DEF Fail
    <3> QED
      BY <1>18, <3>1, <3>2 DEF FindByID
  <2> QED
    BY <1>0, <1>18, <2>1 DEF FindByID, etcd, counts
<1>19. ASSUME NEW p \in Procs, ReadHostToRelease(p) PROVE TypeOK'
  <2>1. /\ reply' \in [Procs -> [ok : BOOLEAN, addr : AddrOrNone, gw : AddrOrNone]]
        /\ pc' \in [Procs -> Locations]
    BY <1>0, <1>19, <1>s, <1>e DEF ReadHostToRelease, Locations
  <2> QED
    BY <1>0, <1>19, <2>1 DEF ReadHostToRelease, etcd, counts
<1>20. ASSUME NEW p \in Procs, DeleteHost(p) PROVE TypeOK'
  BY <1>0, <1>20 DEF DeleteHost, Locations, counts
<1>21. ASSUME NEW p \in Procs, DeleteGateway(p) PROVE TypeOK'
  BY <1>0, <1>21, <1>s, <1>e DEF DeleteGateway, counts
<1>f. ASSUME NEW p \in Procs, Forget(p)
      PROVE  /\ pc' \in [Procs -> Locations]
             /\ req' \in [Procs -> [cmd : {"ADD", "DEL", "CHECK", "RELEASE"},
                        host : Hosts \cup {NoName}, dev : Devices \cup {NoName}]]
             /\ mem' \in [Procs -> [list : Seq(Item), item : Item]]
             /\ reply' \in [Procs -> [ok : BOOLEAN, addr : AddrOrNone, gw : AddrOrNone]]
  <2>1. NoMem \in [list : Seq(Item), item : Item]
    BY DEF NoMem, Item
  <2>2. NoReply \in [ok : BOOLEAN, addr : AddrOrNone, gw : AddrOrNone]
    BY <1>e DEF NoReply
  <2>3. NoReq \in [cmd : {"ADD", "DEL", "CHECK", "RELEASE"},
                   host : Hosts \cup {NoName}, dev : Devices \cup {NoName}]
    BY DEF NoReq
  <2> QED
    BY <1>0, <1>l, <1>f, <2>1, <2>2, <2>3 DEF Forget
<1>22. ASSUME NEW p \in Procs, Exit(p) PROVE TypeOK'
  BY <1>0, <1>22, <1>f DEF Exit, etcd, counts
<1>23. ASSUME NEW p \in Procs, Kill(p) PROVE TypeOK'
  BY <1>0, <1>23, <1>f DEF Kill, etcd
<1>24. ASSUME NEW p \in Procs, ReadError(p) PROVE TypeOK'
  <2>1. errors' \in 0 .. MaxErrors
    BY <1>0, <1>24 DEF ReadError, Error
  <2>2. <<Empty>> \in Seq(AddrOrNone) \ {<<>>}
    OBVIOUS
  <2>3. /\ mem' \in [Procs -> [list : Seq(Item), item : Item]]
        /\ pc' \in [Procs -> Locations]
    BY <1>0, <1>24, <1>t, <1>a, <2>2 DEF ReadError, Fail, Locations
  <2>4. UNCHANGED reply
    BY <1>24 DEF ReadError, Fail
  <2> QED
    BY <1>0, <1>24, <2>1, <2>3, <2>4 DEF ReadError, etcd
<1>25. ASSUME NEW p \in Procs, WriteError(p) PROVE TypeOK'
  <2>1. errors' \in 0 .. MaxErrors
    BY <1>0, <1>25 DEF WriteError, Error
  <2>2. pc' \in [Procs -> Locations] /\ UNCHANGED reply
    BY <1>0, <1>25 DEF WriteError, Fail, Locations
  <2> QED
    BY <1>0, <1>25, <2>1, <2>2 DEF WriteError, etcd
<1>26. CASE UNCHANGED vars
  BY <1>0, <1>26 DEF vars, counts
<1> QED
  BY <1>1, <1>2, <1>3, <1>4, <1>5, <1>6, <1>7, <1>8, <1>9, <1>10, <1>11, <1>12,
     <1>13, <1>14, <1>15, <1>16, <1>17, <1>18, <1>19, <1>20, <1>21, <1>22, <1>23,
     <1>24, <1>25, <1>26 DEF Next, Add, Del, Release
-----------------------------------------------------------------------------
(* What processes hold, and whose keys they write *)


\* What MemInv says of one process.
MemOK(p) ==
  LET m == mem[p]
  IN  /\ pc[p] = "poolput" => m.list \in Seq(Name)
      /\ pc[p] \in {"poolput", "hostput"} => m.item \in Name
      /\ pc[p] \in {"gwput", "hpoolput"} => m.item \in Range(Subnets)
      /\ pc[p] \in {"hpooltail", "rput"} => m.list \in Seq(AddrOrNone)
      /\ pc[p] = "rput" => m.list # <<>>
      /\ pc[p] \in {"hpooltail", "devput", "rhpool", "rput", "rdel"}
           => m.item \in AddrOrNone

\* MemInv, process by process.
LEMMA MemInvOK == MemInv <=> \A p \in Procs : MemOK(p)
BY DEF MemInv, MemOK, Name, AddrOrNone

\* Each step of a process, and what it carries from one to the next.
LEMMA MemStep == IInv /\ [Next]_vars => MemInv'
<1> SUFFICES ASSUME IInv, [Next]_vars PROVE MemInv'
  OBVIOUS
<1>0. TypeOK /\ MemInv /\ CallsInv
  BY DEF IInv
<1>p. pc \in [Procs -> Locations] /\ mem \in [Procs -> [list : Seq(Item), item : Item]]
  BY <1>0 DEF TypeOK
<1>m. \A q \in Procs : MemOK(q)
  BY <1>0, MemInvOK
<1> SUFFICES \A q \in Procs : MemOK(q)'
  BY DEF MemInv, MemOK, Name, AddrOrNone
<1>s. ASSUME NEW p \in Procs, pc'[p] \in {"idle", "status", "recheck", "initput",
               "host", "host2", "pool", "gw", "dev", "hpool", "rdev", "cdev",
               "rhost", "rhostdel", "rgwdel", "exit"}
      PROVE  MemOK(p)'
  BY <1>s DEF MemOK
<1>h. ASSUME NEW p \in Procs, pc[p] # "idle"
      PROVE  /\ DevAddr(p) \in AddrOrNone
             /\ hostPool[Here(p)] \in Seq(AddrOrNone) \ {<<>>}
  BY <1>0, <1>h, RunningHost DEF DevAddr, Device, TypeOK, AddrOrNone
<1>e. <<Empty>> \in Seq(AddrOrNone) \ {<<>>}
  BY DEF AddrOrNone
<1> USE DEF Goto
<1>1. ASSUME NEW p \in Procs, NEW cmd \in Commands, NEW h \in Hosts,
             NEW d \in Devices, Call(p, cmd, h, d)
      PROVE  MemOK(p)'
  BY <1>p, <1>1, <1>s, NamesAssumption DEF Call
<1>2. ASSUME NEW p \in Procs,
             \/ PoolStatus(p) \/ PoolStatusAgain(p) \/ ReadHost(p) \/ InitPool(p)
             \/ StoreHostPool(p) \/ ReadGateway(p) \/ FindByID(p)
             \/ ReadHostToRelease(p) \/ DeleteHost(p) \/ DeleteGateway(p)
             \/ Exit(p) \/ Kill(p) \/ ReadDev(p) \/ StoreDev(p) \/ DeleteDev(p)
      PROVE  MemOK(p)'
  BY <1>p, <1>2, <1>s
  DEF PoolStatus, PoolStatusAgain, ReadHost, InitPool, StoreHostPool, ReadGateway,
      FindByID, ReadHostToRelease, DeleteHost, DeleteGateway, Exit, Kill, ReadDev,
      StoreDev, DeleteDev, Succeed, Fail, Forget
<1>3. ASSUME NEW p \in Procs, ReadPool(p) PROVE MemOK(p)'
  <2>1. Head(pool) \in Name /\ Tail(pool) \in Seq(Name)
    BY <1>0, HeadTail DEF TypeOK, Name
  <2> QED
    BY <1>p, <1>3, <2>1 DEF ReadPool, MemOK
<1>4. ASSUME NEW p \in Procs, StorePool(p) \/ StoreHost(p) \/ StoreGateway(p)
      PROVE  MemOK(p)'
  BY <1>p, <1>m, <1>4 DEF StorePool, StoreHost, StoreGateway, Fail, MemOK, Name
<1>5. ASSUME NEW p \in Procs, NEW l \in Seq(AddrOrNone) \ {<<>>}, TakeFrom(p, l)
      PROVE  MemOK(p)'
  <2>1. Head(l) \in AddrOrNone /\ Tail(l) \in Seq(AddrOrNone)
    BY HeadTail
  <2> QED
    BY <1>p, <1>5, <2>1 DEF TakeFrom, MemOK
<1>6. ASSUME NEW p \in Procs, NEW l \in Seq(AddrOrNone), pc[p] = "rhpool",
             AppendTo(p, l)
      PROVE  MemOK(p)'
  <2>1. mem[p].item \in AddrOrNone
    BY <1>m, <1>6 DEF MemOK
  <2>2. /\ Append(l, mem[p].item) \in Seq(AddrOrNone)
        /\ Append(l, mem[p].item) # <<>>
    BY <2>1, AppendProperties
  <2>3. /\ mem'[p].list = Append(l, mem[p].item) /\ mem'[p].item = mem[p].item
        /\ pc'[p] = "rput"
    BY <1>p, <1>6 DEF AppendTo
  <2> QED
    BY <2>1, <2>2, <2>3 DEF MemOK
<1>7. ASSUME NEW p \in Procs, StoreHostPoolTail(p) \/ ReturnAddress(p)
      PROVE  MemOK(p)'
  BY <1>p, <1>m, <1>7 DEF StoreHostPoolTail, ReturnAddress, MemOK
<1>8. ASSUME NEW p \in Procs, ReadHostPool(p) \/ ReadHostPoolToRelease(p)
      PROVE  MemOK(p)'
  BY <1>5, <1>6, <1>8, <1>h DEF ReadHostPool, ReadHostPoolToRelease
<1>9. ASSUME NEW p \in Procs, ReadDevToRelease(p) PROVE MemOK(p)'
  <2>1. CASE DevAddr(p) = Empty
    BY <1>p, <1>9, <1>s, <2>1 DEF ReadDevToRelease, Succeed, DevAddr, Device
  <2>2. CASE DevAddr(p) # Empty
    <3>1. mem'[p].item = DevAddr(p) /\ pc'[p] = "rhpool"
      BY <1>p, <1>9, <2>2 DEF ReadDevToRelease, DevAddr, Device
    <3> QED
      BY <1>9, <1>h, <3>1 DEF MemOK, ReadDevToRelease
  <2> QED
    BY <2>1, <2>2
<1>10. ASSUME NEW p \in Procs, ReadError(p) PROVE MemOK(p)'
  BY <1>p, <1>s, <1>5, <1>6, <1>e, <1>10 DEF ReadError, Fail
<1>11. ASSUME NEW p \in Procs, WriteError(p) PROVE MemOK(p)'
  <2>1. CASE pc[p] \in {"hpooltail", "rput"}
    BY <1>p, <1>m, <1>11, <2>1 DEF WriteError, MemOK, Fail
  <2>2. CASE pc[p] \notin {"hpooltail", "rput"}
    BY <1>p, <1>s, <1>11, <2>2 DEF WriteError, Fail
  <2> QED
    BY <2>1, <2>2
<1>12. ASSUME NEW p \in Procs, NEW q \in Procs, q # p,
              \/ ProcStep(p)
              \/ \E cmd \in Commands, h \in Hosts, d \in Devices : Call(p, cmd, h, d)
       PROVE  MemOK(q)'
  BY <1>0, <1>m, <1>12, OthersLocals DEF MemOK
<1>13. CASE UNCHANGED vars
  BY <1>m, <1>13 DEF vars, MemOK
<1>14. ASSUME NEW p \in Procs, ProcStep(p) PROVE MemOK(p)'
  BY <1>2, <1>3, <1>4, <1>7, <1>8, <1>9, <1>10, <1>11, <1>14
  DEF ProcStep, Add, Del, Release
<1> QED
  BY <1>1, <1>12, <1>13, <1>14 DEF Next, ProcStep

\* A step writes the key of no device but the process's own.
LEMMA OthersDevices ==
  ASSUME TypeOK, NEW p \in Procs, ProcStep(p), NEW h \in Hosts, NEW d \in Devices,
         ~ (h = Here(p) /\ d = Device(p))
  PROVE  dev'[h][d] = dev[h][d]
<1>0. dev \in [Hosts -> [Devices -> AddrOrNone]]
  BY DEF TypeOK, AddrOrNone
<1>1. CASE StoreDev(p)
  BY <1>0, <1>1 DEF StoreDev, Device
<1>2. CASE DeleteDev(p)
  BY <1>0, <1>2 DEF DeleteDev, Device
<1>3. CASE ~ StoreDev(p) /\ ~ DeleteDev(p)
  <2>1. dev' = dev
    BY <1>3
    DEF ProcStep, Add, PoolStatus, PoolStatusAgain, InitPool, ReadHost, ReadPool,
        StorePool, StoreHost, StoreGateway, StoreHostPool, ReadGateway, ReadDev,
        ReadHostPool, StoreHostPoolTail, Del, ReadDevToRelease,
        ReadHostPoolToRelease, ReturnAddress, FindByID, Release,
        ReadHostToRelease, DeleteHost, DeleteGateway, Exit, Kill, ReadError,
        WriteError, etcd
  <2> QED
    BY <2>1
<1> QED
  BY <1>1, <1>2, <1>3

\* A process runs the call it has until it is done.
LEMMA SameCall ==
  ASSUME TypeOK, NEW p \in Procs, ProcStep(p), pc'[p] # "idle"
  PROVE  pc[p] # "idle" /\ req' = req
<1>0. pc \in [Procs -> Locations]
  BY DEF TypeOK
<1> QED
  BY <1>0
  DEF ProcStep, Add, PoolStatus, PoolStatusAgain, InitPool, ReadHost, ReadPool,
      StorePool, StoreHost, StoreGateway, StoreHostPool, ReadGateway, ReadDev,
      ReadHostPool, StoreHostPoolTail, StoreDev, Del, ReadDevToRelease,
      ReadHostPoolToRelease, ReturnAddress, DeleteDev, FindByID, Release,
      ReadHostToRelease, DeleteHost, DeleteGateway, Exit, Kill, ReadError,
      WriteError, Forget, Goto

\* What CallsInv says of one process.
CallOK(p) ==
  /\ pc[p] \in {"hpool", "hpooltail", "devput"} => DevAddr(p) = Empty
  /\ pc[p] \in {"rhpool", "rput", "rdel"} => DevAddr(p) = mem[p].item
  /\ pc[p] \in {"rdev", "rhpool", "rput", "rdel"} => req[p].cmd = "DEL"
  /\ pc[p] = "cdev" => req[p].cmd = "CHECK"
  /\ pc[p] \in {"rhost", "rhostdel", "rgwdel"} => req[p].cmd = "RELEASE"
  /\ pc[p] # "exit" => ~ reply[p].ok

\* Calls for one device never overlap, and what one has read of the device's
\* key stays true until it writes the key itself.
LEMMA CallsStep == IInv /\ [Next]_vars => CallsInv'
<1> SUFFICES ASSUME IInv, [Next]_vars PROVE CallsInv'
  OBVIOUS
<1>0. TypeOK /\ MemInv /\ CallsInv
  BY DEF IInv
<1>p. /\ pc \in [Procs -> Locations] /\ DOMAIN req = Procs
      /\ mem \in [Procs -> [list : Seq(Item), item : Item]]
      /\ dev \in [Hosts -> [Devices -> AddrOrNone]]
      /\ DOMAIN reply = Procs
  BY <1>0 DEF TypeOK, AddrOrNone
<1>c. \A q \in Procs : CallOK(q)
  BY <1>0 DEF CallsInv, CallOK
<1>r. \A p \in Procs : pc[p] # "idle" => Here(p) \in Hosts /\ Device(p) \in Devices
  BY <1>0, RunningHost
<1>d. \A p, q \in Procs : pc[p] # "idle" /\ pc[q] # "idle" /\ p # q
        => ~ (Here(q) = Here(p) /\ Device(q) = Device(p))
  BY <1>0 DEF CallsInv, Running
<1> USE DEF Goto, Here, Device, DevAddr
<1>1. ASSUME NEW p \in Procs, NEW cmd \in Commands, NEW h \in Hosts,
             NEW d \in Devices, Call(p, cmd, h, d)
      PROVE  CallsInv'
  <2>1. /\ pc[p] = "idle" /\ dev' = dev /\ reply' = reply /\ mem' = mem
        /\ req'[p] = [cmd |-> cmd, host |-> h, dev |-> d]
        /\ \A q \in Procs : q # p => pc'[q] = pc[q] /\ req'[q] = req[q]
        /\ \A q \in Procs : pc[q] # "idle" => ~ (req[q].host = h /\ req[q].dev = d)
    BY <1>p, <1>1 DEF Call, etcd, Running
  <2>2. /\ pc'[p] \in {"status", "rdev", "cdev", "rhost"}
        /\ pc'[p] = "rdev" => cmd = "DEL"
        /\ pc'[p] = "cdev" => cmd = "CHECK"
        /\ pc'[p] = "rhost" => cmd = "RELEASE"
    BY <1>p, <1>1, NamesAssumption DEF Call
  <2>3. ~ reply[p].ok
    BY <1>c, <2>1 DEF CallOK
  <2>4. req'[p].cmd = cmd /\ req'[p].host = h /\ req'[p].dev = d
    BY <2>1
  <2>5. CallOK(p)'
    BY <2>1, <2>2, <2>3, <2>4 DEF CallOK
  <2>6. ASSUME NEW q \in Procs, q # p PROVE CallOK(q)'
    BY <1>c, <2>1, <2>6 DEF CallOK
  <2>7. \A q \in Procs : CallOK(q)'
    BY <2>5, <2>6
  <2>8. \A q \in Procs : pc'[q] # "idle" =>
           req'[q].host \in Hosts /\ req'[q].dev \in Devices
    BY <1>r, <2>1, <2>4
  <2>9. ASSUME NEW q \in Procs, NEW r \in Procs, pc'[q] # "idle", pc'[r] # "idle",
               req'[q].host = req'[r].host, req'[q].dev = req'[r].dev
        PROVE  q = r
    BY <1>d, <2>1, <2>4, <2>9
  <2> QED
    BY <2>7, <2>8, <2>9 DEF CallsInv, CallOK, Running
<1>2. ASSUME NEW p \in Procs, ProcStep(p), CallOK(p)'
      PROVE  CallsInv'
  <2>1. ASSUME NEW q \in Procs, pc'[q] # "idle"
        PROVE  pc[q] # "idle" /\ req'[q] = req[q]
    BY <1>0, <1>2, <2>1, OthersLocals, SameCall
  <2>2. ASSUME NEW q \in Procs, q # p PROVE CallOK(q)'
    <3>1. /\ pc'[q] = pc[q] /\ req'[q] = req[q] /\ mem'[q] = mem[q]
          /\ reply'[q] = reply[q]
      BY <1>0, <1>2, <2>2, OthersLocals
    <3>2. CASE pc[q] = "idle"
      BY <1>c, <3>1, <3>2 DEF CallOK
    <3>3. CASE pc[q] # "idle"
      <4>1. pc[p] # "idle"
        BY <1>p, <1>2
        DEF ProcStep, Add, PoolStatus, PoolStatusAgain, InitPool, ReadHost,
            ReadPool, StorePool, StoreHost, StoreGateway, StoreHostPool,
            ReadGateway, ReadDev, ReadHostPool, StoreHostPoolTail, StoreDev, Del,
            ReadDevToRelease, ReadHostPoolToRelease, ReturnAddress, DeleteDev,
            FindByID, Release, ReadHostToRelease, DeleteHost, DeleteGateway,
            Exit, Kill, ReadError, WriteError
      <4>2. dev'[Here(q)][Device(q)] = dev[Here(q)][Device(q)]
        BY <1>0, <1>2, <1>r, <1>d, <2>2, <3>3, <4>1, OthersDevices
      <4> QED
        BY <1>c, <3>1, <4>2 DEF CallOK
    <3> QED
      BY <3>2, <3>3
  <2>3. \A q \in Procs : CallOK(q)'
    BY <1>2, <2>2
  <2>4. \A q \in Procs : pc'[q] # "idle" =>
           req'[q].host \in Hosts /\ req'[q].dev \in Devices
    BY <1>r, <2>1
  <2>5. ASSUME NEW q \in Procs, NEW r \in Procs, pc'[q] # "idle", pc'[r] # "idle",
               req'[q].host = req'[r].host, req'[q].dev = req'[r].dev
        PROVE  q = r
    BY <1>d, <2>1, <2>5
  <2> QED
    BY <2>3, <2>4, <2>5 DEF CallsInv, CallOK, Running
<1>3. ASSUME NEW p \in Procs,
             \/ PoolStatus(p) \/ PoolStatusAgain(p) \/ InitPool(p) \/ ReadHost(p)
             \/ ReadPool(p) \/ StorePool(p) \/ StoreHost(p) \/ StoreGateway(p)
             \/ StoreHostPool(p)
      PROVE  CallOK(p)'
  <2>1. /\ reply' = reply /\ req' = req
        /\ pc'[p] \in {"host", "recheck", "initput", "host2", "gw", "pool",
                       "poolput", "hostput", "gwput", "hpoolput", "exit"}
        /\ pc[p] # "exit"
    BY <1>p, <1>3
    DEF PoolStatus, PoolStatusAgain, InitPool, ReadHost, ReadPool, StorePool,
        StoreHost, StoreGateway, StoreHostPool, Fail
  <2> QED
    BY <1>c, <2>1 DEF CallOK
<1>4. ASSUME NEW p \in Procs, ReadGateway(p) PROVE CallOK(p)'
  <2>1. reply'[p].ok = reply[p].ok /\ pc'[p] = "dev" /\ pc[p] = "gw"
    BY <1>p, <1>4 DEF ReadGateway
  <2> QED
    BY <1>c, <2>1 DEF CallOK
<1>5. ASSUME NEW p \in Procs, ReadDev(p) PROVE CallOK(p)'
  <2>1. CASE DevAddr(p) = Empty
    <3>1. /\ reply' = reply /\ req' = req /\ dev' = dev
          /\ pc'[p] = "hpool" /\ pc[p] = "dev"
      BY <1>p, <1>5, <2>1 DEF ReadDev, etcd
    <3> QED
      BY <1>c, <2>1, <3>1 DEF CallOK
  <2>2. CASE DevAddr(p) # Empty
    BY <1>p, <1>5, <2>2 DEF ReadDev, Succeed, CallOK
  <2> QED
    BY <2>1, <2>2
<1>6. ASSUME NEW p \in Procs,
             ReadHostPool(p) \/ StoreHostPoolTail(p) \/ ReturnAddress(p)
      PROVE  CallOK(p)'
  <2>1. /\ reply' = reply /\ req' = req /\ dev' = dev
        /\ \/ pc[p] = "hpool" /\ pc'[p] = "hpooltail"
           \/ pc[p] = "hpooltail" /\ pc'[p] = "devput"
           \/ pc[p] = "rput" /\ pc'[p] = "rdel" /\ mem' = mem
    BY <1>p, <1>6
    DEF ReadHostPool, TakeFrom, StoreHostPoolTail, ReturnAddress, etcd
  <2> QED
    BY <1>c, <2>1 DEF CallOK
<1>7. ASSUME NEW p \in Procs,
             \/ StoreDev(p) \/ DeleteDev(p) \/ FindByID(p) \/ DeleteGateway(p)
      PROVE  CallOK(p)'
  <2>1. pc'[p] = "exit"
    BY <1>p, <1>7 DEF StoreDev, DeleteDev, FindByID, DeleteGateway, Succeed, Fail
  <2> QED
    BY <2>1 DEF CallOK
<1>8. ASSUME NEW p \in Procs, ReadDevToRelease(p) PROVE CallOK(p)'
  <2>1. CASE DevAddr(p) = Empty
    BY <1>p, <1>8, <2>1 DEF ReadDevToRelease, Succeed, CallOK
  <2>2. CASE DevAddr(p) # Empty
    <3>1. /\ mem' = [mem EXCEPT ![p].item = DevAddr(p)]
          /\ reply' = reply /\ req' = req /\ dev' = dev
          /\ pc'[p] = "rhpool" /\ pc[p] = "rdev"
      BY <1>p, <1>8, <2>2 DEF ReadDevToRelease, etcd
    <3>2. mem'[p].item = DevAddr(p)
      BY <1>p, <3>1
    <3> QED
      BY <1>c, <3>1, <3>2 DEF CallOK
  <2> QED
    BY <2>1, <2>2
<1>a. ASSUME NEW p \in Procs, NEW l, AppendTo(p, l), pc[p] = "rhpool",
             UNCHANGED <<reply, req, dev>>
      PROVE  CallOK(p)'
  <2>1. mem'[p].item = mem[p].item /\ pc'[p] = "rput"
    BY <1>p, <1>a DEF AppendTo
  <2> QED
    BY <1>c, <1>a, <2>1 DEF CallOK
<1>9. ASSUME NEW p \in Procs, ReadHostPoolToRelease(p) PROVE CallOK(p)'
  BY <1>a, <1>9 DEF ReadHostPoolToRelease, etcd
<1>10. ASSUME NEW p \in Procs, ReadHostToRelease(p) \/ DeleteHost(p)
       PROVE  CallOK(p)'
  <2>1. CASE pc'[p] = "exit"
    BY <2>1 DEF CallOK
  <2>2. CASE pc'[p] # "exit"
    <3>1. /\ reply' = reply /\ req' = req
          /\ \/ pc[p] = "rhost" /\ pc'[p] = "rhostdel"
             \/ pc[p] = "rhostdel" /\ pc'[p] = "rgwdel"
      BY <1>p, <1>10, <2>2 DEF ReadHostToRelease, DeleteHost, Succeed
    <3> QED
      BY <1>c, <3>1 DEF CallOK
  <2> QED
    BY <2>1, <2>2
<1>11. ASSUME NEW p \in Procs, Exit(p) \/ Kill(p) PROVE CallOK(p)'
  <2>1. pc'[p] = "idle" /\ reply'[p].ok = FALSE
    BY <1>p, <1>11 DEF Exit, Kill, Forget, NoReply
  <2> QED
    BY <2>1 DEF CallOK
<1>12. ASSUME NEW p \in Procs, ReadError(p) PROVE CallOK(p)'
  <2>1. CASE pc[p] = "rhpool"
    BY <1>a, <1>12, <2>1 DEF ReadError, etcd
  <2>2. CASE pc[p] = "hpool"
    <3>1. /\ reply' = reply /\ req' = req /\ dev' = dev
          /\ pc'[p] = "hpooltail"
      BY <1>p, <1>12, <2>2 DEF ReadError, TakeFrom, etcd
    <3> QED
      BY <1>c, <2>2, <3>1 DEF CallOK
  <2>3. CASE pc[p] \notin {"hpool", "rhpool"}
    <3>1. /\ reply' = reply /\ pc'[p] \in {"recheck", "initput", "exit"}
          /\ pc[p] # "exit"
      BY <1>p, <1>12, <2>3 DEF ReadError, Fail
    <3> QED
      BY <1>c, <3>1 DEF CallOK
  <2> QED
    BY <2>1, <2>2, <2>3
<1>13. ASSUME NEW p \in Procs, WriteError(p) PROVE CallOK(p)'
  <2>1. /\ reply' = reply /\ req' = req /\ dev' = dev /\ mem' = mem /\ pc[p] # "exit"
        /\ \/ pc'[p] \in {"gw", "exit"}
           \/ pc[p] = "hpooltail" /\ pc'[p] = "devput"
           \/ pc[p] = "rput" /\ pc'[p] = "rdel"
    BY <1>p, <1>13 DEF WriteError, Fail, etcd
  <2> QED
    BY <1>c, <2>1 DEF CallOK
<1>14. CASE UNCHANGED vars
  BY <1>0, <1>14 DEF vars, CallsInv, Running
<1>15. ASSUME NEW p \in Procs, ProcStep(p) PROVE CallOK(p)'
  BY <1>3, <1>4, <1>5, <1>6, <1>7, <1>8, <1>9, <1>10, <1>11, <1>12, <1>13, <1>15
  DEF ProcStep, Add, Del, Release
<1> QED
  BY <1>1, <1>2, <1>14, <1>15 DEF Next, ProcStep

-----------------------------------------------------------------------------
(* The theorems, whatever overlaps and fails *)

\* The invariant holds in an empty cluster.
LEMMA Initially == Init => IInv
<1> SUFFICES ASSUME Init PROVE IInv
  OBVIOUS
<1>1. TypeOK
  <2>1. 0 \in 0 .. MaxKills /\ 0 \in 0 .. MaxErrors /\ 0 \in 0 .. MaxReleases
    BY NamesAssumption
  <2>2. NoMem \in [list : Seq(Item), item : Item]
    BY DEF NoMem, Item
  <2>3. NoReply \in [ok : BOOLEAN, addr : AddrOrNone, gw : AddrOrNone]
    BY DEF NoReply, AddrOrNone
  <2>4. NoReq \in [cmd : {"ADD", "DEL", "CHECK", "RELEASE"},
                   host : Hosts \cup {NoName}, dev : Devices \cup {NoName}]
    BY DEF NoReq
  <2>5. /\ <<Empty>> \in Seq(Name) \ {<<>>}
        /\ <<Empty>> \in Seq(AddrOrNone) \ {<<>>}
    BY DEF Name, AddrOrNone
  <2> QED
    BY <2>1, <2>2, <2>3, <2>4, <2>5
    DEF Init, TypeOK, Locations, Name, AddrOrNone
<1>2. MemInv
  BY DEF Init, MemInv
<1>3. CallsInv
  BY DEF Init, CallsInv, Running, NoReply
<1> QED
  BY <1>1, <1>2, <1>3 DEF IInv

\* IInv is an invariant: the types, what processes hold and the calls for one
\* device stay in line under any overlap, kills and failed requests.
THEOREM Invariant == Spec => []IInv
<1>1. IInv /\ [Next]_vars => IInv'
  BY TypesStep, MemStep, CallsStep DEF IInv
<1> QED
  BY <1>1, Initially, PTL DEF Spec

\* Type correctness: in particular no stored list is ever the empty sequence,
\* whose first element the code takes without looking.
THEOREM TypeCorrect == Spec => []TypeOK
<1>1. IInv => TypeOK
  BY DEF IInv
<1> QED
  BY <1>1, Invariant, PTL

\* A device's address is replaced by none and dropped only by the DEL that
\* releases it, under any overlap of the calls for other devices.
THEOREM DevicesStable == Spec => DeviceStable
<1>1. ASSUME IInv, [Next]_vars, NEW h \in Hosts, NEW d \in Devices,
             dev[h][d] # Empty, dev'[h][d] # dev[h][d]
      PROVE  /\ dev'[h][d] = Empty
             /\ \E p \in Procs : pc[p] = "rdel" /\ Here(p) = h /\ req[p].dev = d
  <2>0. TypeOK /\ CallsInv
    BY <1>1 DEF IInv
  <2>1. PICK p \in Procs : ProcStep(p)
    <3>1. ~ UNCHANGED vars
      BY <1>1 DEF vars
    <3>2. ASSUME NEW p \in Procs, NEW cmd \in Commands, NEW g \in Hosts,
                 NEW c \in Devices, Call(p, cmd, g, c)
          PROVE  FALSE
      BY <1>1, <3>2 DEF Call, etcd
    <3> QED
      BY <1>1, <3>1, <3>2 DEF Next, ProcStep
  <2>2. Here(p) = h /\ Device(p) = d
    BY <1>1, <2>0, <2>1, OthersDevices
  <2>3. ~ StoreDev(p)
    BY <1>1, <2>0, <2>2 DEF StoreDev, CallsInv, DevAddr
  <2>4. DeleteDev(p)
    BY <1>1, <2>1, <2>3
    DEF ProcStep, Add, PoolStatus, PoolStatusAgain, InitPool, ReadHost, ReadPool,
        StorePool, StoreHost, StoreGateway, StoreHostPool, ReadGateway, ReadDev,
        ReadHostPool, StoreHostPoolTail, Del, ReadDevToRelease,
        ReadHostPoolToRelease, ReturnAddress, FindByID, Release,
        ReadHostToRelease, DeleteHost, DeleteGateway, Exit, Kill, ReadError,
        WriteError, etcd
  <2> QED
    BY <2>0, <2>2, <2>4 DEF DeleteDev, TypeOK, Device
<1>2. IInv /\ [Next]_vars =>
        [\A h \in Hosts, d \in Devices :
           dev[h][d] # Empty =>
             \/ dev'[h][d] = dev[h][d]
             \/ /\ dev'[h][d] = Empty
                /\ \E p \in Procs : pc[p] = "rdel" /\ Here(p) = h /\ req[p].dev = d]_vars
  BY <1>1
<1> QED
  BY <1>2, Invariant, PTL DEF Spec, DeviceStable

-----------------------------------------------------------------------------
(* One call on a host at a time *)

\* What the elements of a list become.
LEMMA Ranges ==
  ASSUME NEW S, NEW s \in Seq(S)
  PROVE  /\ Range(Joined(s)) \subseteq Range(s) \cup {Empty}
         /\ s # <<>> => Head(s) \in Range(s) /\ Range(Tail(s)) \subseteq Range(s)
         /\ \A e \in S : Range(Append(s, e)) = Range(s) \cup {e}
<1>1. Range(Joined(s)) \subseteq Range(s) \cup {Empty}
  BY DEF Joined, Range
<1>2. ASSUME s # <<>>
      PROVE  Head(s) \in Range(s) /\ Range(Tail(s)) \subseteq Range(s)
  BY <1>2 DEF Range
<1>3. ASSUME NEW e \in S
      PROVE  Range(Append(s, e)) = Range(s) \cup {e}
  BY RangeConcatenation, AppendIsConcat DEF Range
<1> QED
  BY <1>1, <1>2, <1>3

\* The addresses of a subnet that may be given out.
LEMMA ValidIps ==
  ASSUME NEW s
  PROVE  Range(GetValidIps(s)) = {Addr(s, n) : n \in 2 .. Size - 1}
<1>1. ASSUME NEW n \in 2 .. Size - 1
      PROVE  Addr(s, n) \in Range(GetValidIps(s))
  <2>1. n - 1 \in 1 .. Size - 2 /\ (n - 1) + 1 = n
    BY SubnetsAssumption
  <2>2. GetValidIps(s)[n - 1] = Addr(s, n)
    BY <2>1 DEF GetValidIps
  <2> QED
    BY <2>1, <2>2 DEF Range, GetValidIps
<1>2. ASSUME NEW i \in 1 .. Size - 2
      PROVE  i + 1 \in 2 .. Size - 1
  BY SubnetsAssumption
<1> QED
  BY <1>1, <1>2 DEF Range, GetValidIps

\* A call starts on a host where none runs.
LEMMA OnePerHostStep ==
  ASSUME Overlap # "all", IInv, OnePerHost, [Next]_vars
  PROVE  OnePerHost'
<1>0. TypeOK /\ DOMAIN req = Procs /\ DOMAIN pc = Procs
  BY DEF IInv, TypeOK
<1>1. ASSUME NEW p \in Procs, NEW cmd \in Commands, NEW h \in Hosts,
             NEW d \in Devices, Call(p, cmd, h, d)
      PROVE  OnePerHost'
  <2>1. /\ pc[p] = "idle" /\ req'[p].host = h
        /\ \A q \in Procs : q # p => pc'[q] = pc[q] /\ req'[q] = req[q]
        /\ \A q \in Procs : pc[q] # "idle" => req[q].host # h
    BY <1>0, <1>1 DEF Call, Goto, MayStart, Running, Here
  <2> QED
    BY <2>1 DEF OnePerHost, Running, Here
<1>2. ASSUME NEW p \in Procs, ProcStep(p) PROVE OnePerHost'
  <2>1. ASSUME NEW q \in Procs, pc'[q] # "idle"
        PROVE  pc[q] # "idle" /\ req'[q] = req[q]
    BY <1>0, <1>2, <2>1, OthersLocals, SameCall
  <2> QED
    BY <2>1 DEF OnePerHost, Running, Here
<1>3. CASE UNCHANGED vars
  BY <1>3 DEF vars, OnePerHost, Running, Here
<1> QED
  BY <1>1, <1>2, <1>3 DEF Next, ProcStep

\* Then a step of one call is seen neither by another nor on its host.
LEMMA Frame ==
  ASSUME IInv, OnePerHost, NEW p \in Procs, ProcStep(p)
  PROVE  /\ pc[p] # "idle" /\ Here(p) \in Hosts /\ Device(p) \in Devices
         /\ pc'[p] # "idle" => req' = req
         /\ \A h \in Hosts : h # Here(p) =>
              /\ host'[h] = host[h] /\ gateway'[h] = gateway[h]
              /\ hostPool'[h] = hostPool[h] /\ dev'[h] = dev[h]
         /\ \A q \in Procs : q # p =>
              /\ pc'[q] = pc[q] /\ req'[q] = req[q]
              /\ mem'[q] = mem[q] /\ reply'[q] = reply[q]
         /\ \A q \in Procs : q # p /\ pc[q] # "idle" =>
              Here(q) \in Hosts /\ Here(q) # Here(p)
<1>0. TypeOK /\ CallsInv
  BY DEF IInv
<1>1. pc[p] # "idle"
  BY <1>0
  DEF ProcStep, Add, PoolStatus, PoolStatusAgain, InitPool, ReadHost, ReadPool,
      StorePool, StoreHost, StoreGateway, StoreHostPool, ReadGateway, ReadDev,
      ReadHostPool, StoreHostPoolTail, StoreDev, Del, ReadDevToRelease,
      ReadHostPoolToRelease, ReturnAddress, DeleteDev, FindByID, Release,
      ReadHostToRelease, DeleteHost, DeleteGateway, Exit, Kill, ReadError,
      WriteError
<1>2. Here(p) \in Hosts /\ Device(p) \in Devices
  BY <1>0, <1>1, RunningHost
<1>3. \A q \in Procs : q # p /\ pc[q] # "idle" =>
        Here(q) \in Hosts /\ Here(q) # Here(p)
  BY <1>0, <1>1, RunningHost DEF OnePerHost, Running
<1> QED
  BY <1>0, <1>1, <1>2, <1>3, OthersLocals, OthersKeys, SameCall

-----------------------------------------------------------------------------
(* Addresses stay in their subnet *)

\* What may be in the lists and keys of host h.
Of(h) == {Empty} \cup IF host[h] = Empty THEN {} ELSE Usable(h)

\* What SubnetInv says of one process.
SubnetOK(p) ==
  /\ Joining(p) => host[Here(p)] = Empty
  /\ pc[p] \in {"gwput", "hpoolput"} => host[Here(p)] = mem[p].item
  /\ pc[p] \in {"hpooltail", "rput"} => Range(mem[p].list) \subseteq Of(Here(p))
  /\ pc[p] \in {"hpooltail", "devput"} => mem[p].item \in Of(Here(p))
  /\ req[p].cmd # "RELEASE"

\* Every step leaves what a host gives out in its subnet.
LEMMA SubnetStep ==
  ASSUME Overlap # "all", MaxReleases = 0, IInv, SubnetInv, [Next]_vars
  PROVE  SubnetInv'
<1>0. TypeOK /\ MemInv /\ CallsInv /\ OnePerHost
  BY DEF IInv, SubnetInv
<1>p. /\ pc \in [Procs -> Locations] /\ DOMAIN req = Procs
      /\ mem \in [Procs -> [list : Seq(Item), item : Item]]
      /\ host \in [Hosts -> Name]
      /\ hostPool \in [Hosts -> Seq(AddrOrNone) \ {<<>>}]
      /\ dev \in [Hosts -> [Devices -> AddrOrNone]]
      /\ releases = 0
  BY <1>0 DEF TypeOK, AddrOrNone, Name
<1>h. \A h \in Hosts : Range(hostPool[h]) \subseteq Of(h) /\ Range(dev[h]) \subseteq Of(h)
  BY DEF SubnetInv, InSubnet, Of
<1>o. \A q \in Procs : pc[q] # "idle" => SubnetOK(q)
  BY DEF SubnetInv, InSubnet, Of, Running, SubnetOK
<1> SUFFICES /\ \A h \in Hosts : /\ Range(hostPool'[h]) \subseteq Of(h)'
                                 /\ Range(dev'[h]) \subseteq Of(h)'
             /\ \A q \in Procs : pc'[q] # "idle" => SubnetOK(q)'
  BY OnePerHostStep, SubnetInv DEF SubnetInv, InSubnet, Of, Running, SubnetOK
<1>1. ASSUME NEW p \in Procs, NEW cmd \in Commands, NEW h \in Hosts,
             NEW d \in Devices, Call(p, cmd, h, d)
      PROVE  /\ \A g \in Hosts : /\ Range(hostPool'[g]) \subseteq Of(g)'
                                 /\ Range(dev'[g]) \subseteq Of(g)'
             /\ \A q \in Procs : pc'[q] # "idle" => SubnetOK(q)'
  <2>1. cmd # "RELEASE"
    BY <1>p, <1>1 DEF Call
  <2>2. /\ pc'[p] \in {"status", "rdev", "cdev"} /\ req'[p].cmd = cmd
        /\ \A q \in Procs : q # p =>
             pc'[q] = pc[q] /\ req'[q] = req[q] /\ mem'[q] = mem[q]
        /\ UNCHANGED <<host, hostPool, dev>>
    BY <1>p, <1>1, <2>1, NamesAssumption DEF Call, Goto, etcd
  <2>3. SubnetOK(p)'
    BY <2>1, <2>2 DEF SubnetOK, Joining
  <2>4. ASSUME NEW q \in Procs, q # p, pc'[q] # "idle" PROVE SubnetOK(q)'
    BY <1>o, <2>2, <2>4 DEF SubnetOK, Joining, Here, Of, Usable
  <2> QED
    BY <1>h, <2>2, <2>3, <2>4 DEF Of, Usable
<1>2. ASSUME NEW p \in Procs, ProcStep(p), NEW h \in Hosts, h = Here(p),
             Range(hostPool'[h]) \subseteq Of(h)', Range(dev'[h]) \subseteq Of(h)',
             pc'[p] # "idle" => SubnetOK(p)'
      PROVE  /\ \A g \in Hosts : /\ Range(hostPool'[g]) \subseteq Of(g)'
                                 /\ Range(dev'[g]) \subseteq Of(g)'
             /\ \A q \in Procs : pc'[q] # "idle" => SubnetOK(q)'
  <2>1. /\ pc'[p] # "idle" => req' = req
        /\ \A g \in Hosts : g # Here(p) =>
             host'[g] = host[g] /\ hostPool'[g] = hostPool[g] /\ dev'[g] = dev[g]
        /\ \A q \in Procs : q # p =>
             pc'[q] = pc[q] /\ req'[q] = req[q] /\ mem'[q] = mem[q]
        /\ \A q \in Procs : q # p /\ pc[q] # "idle" =>
             Here(q) \in Hosts /\ Here(q) # Here(p)
    BY <1>0, <1>2, Frame
  <2>2. ASSUME NEW g \in Hosts, g # Here(p)
        PROVE  /\ Range(hostPool'[g]) \subseteq Of(g)'
               /\ Range(dev'[g]) \subseteq Of(g)'
    BY <1>h, <2>1, <2>2 DEF Of, Usable
  <2>4. ASSUME NEW q \in Procs, q # p, pc'[q] # "idle" PROVE SubnetOK(q)'
    <3>1. SubnetOK(q) /\ Here(q) \in Hosts /\ Here(q) # Here(p)
      BY <1>o, <2>1, <2>4
    <3>2. Here(q)' = Here(q) /\ host'[Here(q)] = host[Here(q)]
      BY <2>1, <2>4, <3>1 DEF Here
    <3> QED
      BY <2>1, <2>4, <3>1, <3>2 DEF SubnetOK, Joining, Of, Usable
  <2> QED
    BY <1>2, <2>2, <2>4
<1>3. ASSUME NEW p \in Procs, ProcStep(p), NEW h \in Hosts, h = Here(p)
      PROVE  /\ Range(hostPool'[h]) \subseteq Of(h)'
             /\ Range(dev'[h]) \subseteq Of(h)'
             /\ pc'[p] # "idle" => SubnetOK(p)'
  <2>0. /\ pc[p] # "idle" /\ Device(p) \in Devices
        /\ pc'[p] # "idle" => req'[p] = req[p]
    BY <1>0, <1>3, Frame
  <2>1. /\ Range(hostPool[h]) \subseteq Of(h) /\ Range(dev[h]) \subseteq Of(h)
        /\ SubnetOK(p) /\ hostPool[h] \in Seq(AddrOrNone) \ {<<>>}
        /\ dev[h] \in [Devices -> AddrOrNone]
    BY <1>h, <1>o, <1>p, <2>0
  <2>2. Empty \in Of(h) /\ (host' = host => Of(h)' = Of(h))
    BY DEF Of, Usable
  <2>m. MemOK(p) /\ req[p].cmd # "RELEASE"
    BY <1>0, <2>1, MemInvOK DEF SubnetOK
  <2> USE DEF Goto
  <2>3. CASE \/ PoolStatus(p) \/ PoolStatusAgain(p) \/ InitPool(p) \/ ReadGateway(p)
             \/ ReadDev(p) \/ ReadDevToRelease(p) \/ FindByID(p) \/ Exit(p)
             \/ Kill(p)
    <3>1. UNCHANGED <<host, hostPool, dev>>
      BY <2>3 DEF PoolStatus, PoolStatusAgain, InitPool, ReadGateway, ReadDev,
                  ReadDevToRelease, FindByID, Exit, Kill, etcd
    <3>2. pc'[p] \in {"host", "recheck", "initput", "dev", "hpool", "exit",
                      "rhpool", "idle"}
      BY <1>p, <2>3
      DEF PoolStatus, PoolStatusAgain, InitPool, ReadGateway, ReadDev, Succeed,
          ReadDevToRelease, FindByID, Fail, Exit, Kill, Forget
    <3>3. pc'[p] # "idle" => SubnetOK(p)'
      BY <2>0, <2>m, <3>2 DEF SubnetOK, Joining
    <3> QED
      BY <2>1, <2>2, <3>1, <3>3
  <2>4. CASE ReadHost(p) \/ ReadPool(p) \/ StorePool(p)
    <3>1. UNCHANGED <<host, hostPool, dev>>
      BY <2>4 DEF ReadHost, ReadPool, StorePool, etcd
    <3>2. /\ req' = req
          /\ pc'[p] \in {"gw", "host2", "pool", "poolput", "hostput"}
          /\ pc'[p] # "gw" => host[h] = Empty
      BY <1>p, <1>3, <2>1, <2>4
      DEF ReadHost, ReadPool, StorePool, SubnetOK, Joining
    <3>3. SubnetOK(p)'
      BY <1>3, <2>m, <3>1, <3>2 DEF SubnetOK, Joining, Here
    <3> QED
      BY <2>1, <2>2, <3>1, <3>3
  <2>5. CASE StoreHost(p)
    <3>1. /\ host[h] = Empty /\ host'[h] = mem[p].item /\ mem' = mem
          /\ req' = req /\ UNCHANGED <<hostPool, dev>>
          /\ pc'[p] \in {"gwput", "exit"}
      BY <1>p, <1>3, <2>1, <2>5 DEF StoreHost, SubnetOK, Joining, Fail
    <3>2. Of(h) \subseteq Of(h)'
      BY <3>1 DEF Of
    <3>3. SubnetOK(p)'
      BY <1>3, <2>m, <3>1 DEF SubnetOK, Joining, Here
    <3> QED
      BY <2>1, <3>1, <3>2, <3>3
  <2>6. CASE StoreGateway(p)
    <3>1. /\ UNCHANGED <<host, hostPool, dev, mem, req>>
          /\ pc[p] = "gwput" /\ pc'[p] = "hpoolput"
      BY <1>p, <2>6 DEF StoreGateway
    <3>2. SubnetOK(p)'
      BY <2>1, <3>1 DEF SubnetOK, Joining, Here
    <3> QED
      BY <2>1, <2>2, <3>1, <3>2
  <2>7. CASE StoreHostPool(p)
    <3>1. /\ UNCHANGED <<host, dev, mem, req>> /\ pc[p] = "hpoolput" /\ pc'[p] = "gw"
          /\ hostPool'[h] = Joined(GetValidIps(mem[p].item))
      BY <1>p, <1>3, <2>7 DEF StoreHostPool
    <3>2. mem[p].item \in Range(Subnets) /\ host[h] = mem[p].item
      BY <1>3, <2>1, <2>m, <3>1 DEF SubnetOK, MemOK
    <3>3. Range(GetValidIps(host[h])) = Usable(h) /\ host[h] # Empty
      BY <3>2, ValidIps, EmptyAssumption DEF Usable
    <3>4. Range(hostPool'[h]) \subseteq Of(h)
      <4>1. GetValidIps(mem[p].item) \in Seq(AddrOrNone)
        BY <3>2, ValidIpsType
      <4> QED
        BY <3>1, <3>2, <3>3, <4>1, Ranges DEF Of
    <3>5. SubnetOK(p)'
      BY <2>m, <3>1 DEF SubnetOK, Joining
    <3> QED
      BY <2>1, <2>2, <3>1, <3>4, <3>5
  <2>8. CASE \/ ReadHostPool(p)
             \/ ReadError(p) /\ pc[p] = "hpool"
    <3>1. PICK l \in Seq(AddrOrNone) \ {<<>>} :
            TakeFrom(p, l) /\ Range(l) \subseteq Of(h)
      <4>1. <<Empty>> \in Seq(AddrOrNone) \ {<<>>} /\ Range(<<Empty>>) = {Empty}
        BY DEF AddrOrNone, Range
      <4> QED
        BY <1>3, <2>1, <2>2, <2>8, <4>1 DEF ReadHostPool, ReadError
    <3>2. UNCHANGED <<host, hostPool, dev, req>>
      BY <2>8 DEF ReadHostPool, ReadError, etcd
    <3>3. /\ pc'[p] = "hpooltail" /\ mem'[p].list = Tail(l) /\ mem'[p].item = Head(l)
      BY <1>p, <3>1 DEF TakeFrom
    <3>4. Range(Tail(l)) \subseteq Of(h) /\ Head(l) \in Of(h)
      BY <3>1, Ranges
    <3>5. SubnetOK(p)'
      BY <1>3, <2>2, <2>m, <3>2, <3>3, <3>4 DEF SubnetOK, Joining, Here
    <3> QED
      BY <2>1, <2>2, <3>2, <3>5
  <2>9. CASE StoreHostPoolTail(p)
    <3>1. /\ UNCHANGED <<host, dev, mem, req>>
          /\ pc[p] = "hpooltail" /\ pc'[p] = "devput"
          /\ hostPool'[h] = Joined(mem[p].list)
      BY <1>p, <1>3, <2>9 DEF StoreHostPoolTail
    <3>2. Range(hostPool'[h]) \subseteq Of(h)
      BY <1>3, <2>1, <2>2, <2>m, <3>1, Ranges DEF SubnetOK, MemOK
    <3>3. SubnetOK(p)'
      BY <1>3, <2>1, <2>2, <3>1 DEF SubnetOK, Joining, Here
    <3> QED
      BY <2>1, <2>2, <3>1, <3>2, <3>3
  <2>10. CASE StoreDev(p) \/ DeleteDev(p)
    <3>1. PICK a \in Of(h) : dev' = [dev EXCEPT ![h][Device(p)] = a]
      BY <1>3, <2>1, <2>2, <2>10 DEF StoreDev, DeleteDev, SubnetOK, Device
    <3>2. UNCHANGED <<host, hostPool, req>> /\ pc'[p] = "exit"
      BY <1>p, <2>10 DEF StoreDev, DeleteDev, Succeed
    <3>3. dev'[h] = [dev[h] EXCEPT ![Device(p)] = a]
      BY <1>p, <3>1
    <3>4. Range(dev'[h]) \subseteq Range(dev[h]) \cup {a}
      BY <2>1, <3>3 DEF Range
    <3>5. SubnetOK(p)'
      BY <2>m, <3>2 DEF SubnetOK, Joining
    <3> QED
      BY <2>1, <2>2, <3>1, <3>2, <3>4, <3>5
  <2>11. CASE \/ ReadHostPoolToRelease(p)
              \/ ReadError(p) /\ pc[p] = "rhpool"
    <3>0. pc[p] = "rhpool"
      BY <2>11 DEF ReadHostPoolToRelease
    <3>1. PICK l \in Seq(AddrOrNone) : AppendTo(p, l) /\ Range(l) \subseteq Of(h)
      <4>1. <<Empty>> \in Seq(AddrOrNone) \ {<<>>} /\ Range(<<Empty>>) = {Empty}
        BY DEF AddrOrNone, Range
      <4> QED
        BY <1>3, <2>1, <2>2, <2>11, <4>1 DEF ReadHostPoolToRelease, ReadError
    <3>2. UNCHANGED <<host, hostPool, dev, req>>
      BY <2>11 DEF ReadHostPoolToRelease, ReadError, etcd
    <3>3. /\ pc'[p] = "rput" /\ mem'[p].list = Append(l, mem[p].item)
      BY <1>p, <3>1 DEF AppendTo
    <3>4. mem[p].item \in AddrOrNone /\ mem[p].item \in Of(h)
      <4>1. mem[p].item = dev[h][Device(p)]
        BY <1>0, <1>3, <3>0 DEF CallsInv, DevAddr
      <4> QED
        BY <2>0, <2>1, <4>1 DEF Range
    <3>5. Range(Append(l, mem[p].item)) \subseteq Of(h)
      BY <3>1, <3>4, Ranges
    <3>6. SubnetOK(p)'
      BY <1>3, <2>2, <2>m, <3>2, <3>3, <3>5 DEF SubnetOK, Joining, Here
    <3> QED
      BY <2>1, <2>2, <3>2, <3>6
  <2>12. CASE ReturnAddress(p)
    <3>1. /\ UNCHANGED <<host, dev, mem, req>> /\ pc[p] = "rput" /\ pc'[p] = "rdel"
          /\ hostPool'[h] = mem[p].list
      BY <1>p, <1>3, <2>12 DEF ReturnAddress
    <3>2. Range(hostPool'[h]) \subseteq Of(h)
      BY <1>3, <2>1, <3>1 DEF SubnetOK
    <3>3. SubnetOK(p)'
      BY <2>m, <3>1 DEF SubnetOK, Joining
    <3> QED
      BY <2>1, <2>2, <3>1, <3>2, <3>3
  <2>13. ~ ReadHostToRelease(p) /\ ~ DeleteHost(p) /\ ~ DeleteGateway(p)
    BY <1>0, <2>m DEF ReadHostToRelease, DeleteHost, DeleteGateway, CallsInv
  <2>14. CASE ReadError(p) /\ pc[p] \notin {"hpool", "rhpool"}
    <3>1. /\ UNCHANGED <<host, hostPool, dev, req>>
          /\ pc'[p] \in {"recheck", "initput", "exit"}
      BY <1>p, <2>14 DEF ReadError, Fail, etcd
    <3>2. SubnetOK(p)'
      BY <2>m, <3>1 DEF SubnetOK, Joining
    <3> QED
      BY <2>1, <2>2, <3>1, <3>2
  <2>15. CASE WriteError(p)
    <3>1. UNCHANGED <<host, hostPool, dev, req, mem>>
      BY <2>15 DEF WriteError, etcd
    <3>2. pc'[p] \in {"gw", "rdel", "exit"} \/ (pc[p] = "hpooltail" /\ pc'[p] = "devput")
      BY <1>p, <2>15 DEF WriteError, Fail
    <3>3. SubnetOK(p)'
      BY <1>3, <2>1, <2>2, <2>m, <3>1, <3>2 DEF SubnetOK, Joining, Here
    <3> QED
      BY <2>1, <2>2, <3>1, <3>3
  <2> QED
    BY <1>3, <2>3, <2>4, <2>5, <2>6, <2>7, <2>8, <2>9, <2>10, <2>11, <2>12, <2>13,
       <2>14, <2>15 DEF ProcStep, Add, Del, Release
<1>4. ASSUME NEW p \in Procs, ProcStep(p)
      PROVE  /\ \A g \in Hosts : /\ Range(hostPool'[g]) \subseteq Of(g)'
                                 /\ Range(dev'[g]) \subseteq Of(g)'
             /\ \A q \in Procs : pc'[q] # "idle" => SubnetOK(q)'
  <2>1. Here(p) \in Hosts
    BY <1>0, <1>4, Frame
  <2> QED
    BY <1>2, <1>3, <1>4, <2>1
<1>5. CASE UNCHANGED vars
  <2>1. UNCHANGED <<host, hostPool, dev, pc, req, mem>>
    BY <1>5 DEF vars
  <2>2. \A h \in Hosts : Of(h)' = Of(h)
    BY <2>1 DEF Of, Usable
  <2>3. ASSUME NEW q \in Procs, pc'[q] # "idle" PROVE SubnetOK(q)'
    BY <1>o, <2>1, <2>3 DEF SubnetOK, Joining, Of, Usable, Here
  <2> QED
    BY <1>h, <2>1, <2>2, <2>3
<1> QED
  BY <1>1, <1>4, <1>5 DEF Next, ProcStep

\* Devices have addresses of their own host's subnet, whatever is killed or
\* fails, as long as the calls on a host do not overlap and no host is given
\* up.
THEOREM SubnetsKept ==
  ASSUME Overlap # "all", MaxReleases = 0 PROVE Spec => []DevicesInSubnet
<1>1. Init => SubnetInv
  BY DEF Init, SubnetInv, OnePerHost, Running, InSubnet, Range
<1>2. IInv /\ SubnetInv /\ [Next]_vars => SubnetInv'
  BY SubnetStep
<1>3. IInv /\ SubnetInv => DevicesInSubnet
  <2> SUFFICES ASSUME IInv, SubnetInv, NEW h \in Hosts, NEW d \in Devices,
                      dev[h][d] # Empty
               PROVE  host[h] # Empty /\ dev[h][d] \in Usable(h)
    BY DEF DevicesInSubnet
  <2>1. dev[h] \in [Devices -> AddrOrNone]
    BY DEF IInv, TypeOK, AddrOrNone
  <2>2. dev[h][d] \in Range(dev[h])
    BY <2>1 DEF Range
  <2> QED
    BY <2>2 DEF SubnetInv, InSubnet
<1> QED
  BY <1>1, <1>2, <1>3, Invariant, PTL DEF Spec

-----------------------------------------------------------------------------
(* Each address in one place *)

Within(l, a) == \E i \in DOMAIN l : l[i] = a

Once(l, a) == \A i, j \in DOMAIN l : l[i] = a /\ l[j] = a => i = j

\* What storing a list and taking from or adding to it does to an address.
LEMMA Places ==
  ASSUME NEW S, NEW l \in Seq(S), NEW a
  PROVE  /\ a # Empty =>
              /\ Within(Joined(l), a) <=> Within(l, a)
              /\ Once(l, a) => Once(Joined(l), a)
         /\ l # <<>> =>
              /\ Within(l, a) <=> Head(l) = a \/ Within(Tail(l), a)
              /\ Once(l, a) =>
                   Once(Tail(l), a) /\ ~ (Head(l) = a /\ Within(Tail(l), a))
         /\ \A e \in S :
              /\ Within(Append(l, e), a) <=> Within(l, a) \/ e = a
              /\ Once(l, a) /\ ~ (Within(l, a) /\ e = a) => Once(Append(l, e), a)
<1> USE DEF Within, Once
<1>1. ASSUME a # Empty
      PROVE  /\ Within(Joined(l), a) <=> Within(l, a)
             /\ Once(l, a) => Once(Joined(l), a)
  BY <1>1 DEF Joined
<1>2. ASSUME l # <<>>
      PROVE  /\ Within(l, a) <=> Head(l) = a \/ Within(Tail(l), a)
             /\ Once(l, a) =>
                  Once(Tail(l), a) /\ ~ (Head(l) = a /\ Within(Tail(l), a))
  <2>1. /\ Len(l) \in Nat \ {0} /\ DOMAIN l = 1 .. Len(l)
        /\ Tail(l) \in Seq(S) /\ Len(Tail(l)) = Len(l) - 1
        /\ DOMAIN Tail(l) = 1 .. Len(l) - 1
        /\ \A i \in 1 .. Len(l) - 1 : Tail(l)[i] = l[i + 1]
        /\ Head(l) = l[1]
    BY <1>2
  <2>2. \A i \in DOMAIN l : i = 1 \/ (i - 1 \in DOMAIN Tail(l) /\ Tail(l)[i - 1] = l[i])
    BY <2>1
  <2>3. \A i \in DOMAIN Tail(l) : i + 1 \in DOMAIN l /\ i + 1 # 1
    BY <2>1
  <2>4. 1 \in DOMAIN l
    BY <2>1
  <2>5. Within(l, a) <=> Head(l) = a \/ Within(Tail(l), a)
    BY <2>1, <2>2, <2>3, <2>4
  <2>6. ASSUME Once(l, a)
        PROVE  Once(Tail(l), a) /\ ~ (Head(l) = a /\ Within(Tail(l), a))
    <3>1. \A i, j \in DOMAIN Tail(l) : i + 1 = j + 1 => i = j
      BY <2>1
    <3> QED
      BY <2>1, <2>3, <2>4, <2>6, <3>1
  <2> QED
    BY <2>5, <2>6
<1>3. ASSUME NEW e \in S
      PROVE  /\ Within(Append(l, e), a) <=> Within(l, a) \/ e = a
             /\ Once(l, a) /\ ~ (Within(l, a) /\ e = a) => Once(Append(l, e), a)
  <2>1. /\ Len(l) \in Nat /\ DOMAIN l = 1 .. Len(l)
        /\ DOMAIN Append(l, e) = 1 .. Len(l) + 1
        /\ \A i \in 1 .. Len(l) : Append(l, e)[i] = l[i]
        /\ Append(l, e)[Len(l) + 1] = e
    BY AppendProperties
  <2>2. \A i \in DOMAIN Append(l, e) : i \in DOMAIN l \/ i = Len(l) + 1
    BY <2>1
  <2>3. DOMAIN l \subseteq DOMAIN Append(l, e) /\ Len(l) + 1 \in DOMAIN Append(l, e)
    BY <2>1
  <2> QED
    BY <2>1, <2>2, <2>3
<1> QED
  BY <1>1, <1>2, <1>3

UsableOf(s) == {Addr(s, n) : n \in 2 .. Size - 1}

\* Balanced, address by address.
LEMMA BalancedPlaces ==
  ASSUME NEW free, NEW held, NEW s
  PROVE  Balanced(free, held, s) <=>
           /\ Range(free) \subseteq UsableOf(s) \cup {Empty}
           /\ Range(held) \subseteq UsableOf(s) \cup {Empty}
           /\ \A a \in UsableOf(s) :
                /\ Within(free, a) \/ \E d \in Devices : held[d] = a
                /\ ~ (Within(free, a) /\ \E d \in Devices : held[d] = a)
                /\ Once(free, a)
                /\ \A c, d \in Devices : held[c] = a /\ held[d] = a => c = d
BY DEF Balanced, Within, Once, UsableOf

\* The addresses given out are no empty strings.
LEMMA UsableNotEmpty ==
  ASSUME NEW s \in Range(Subnets)
  PROVE  Empty \notin UsableOf(s) /\ UsableOf(s) \subseteq Addresses
<1>1. \A n \in 2 .. Size - 1 : n \in 0 .. Size - 1
  BY SubnetsAssumption
<1> QED
  BY <1>1, EmptyAssumption DEF UsableOf, Addresses

\* A new host has its whole subnet to give out.
LEMMA FreshBalanced ==
  ASSUME NEW s \in Range(Subnets)
  PROVE  Balanced(Joined(GetValidIps(s)), NoDevices, s)
<1> DEFINE l == GetValidIps(s)
<1>1. l \in Seq(AddrOrNone) /\ Range(l) = UsableOf(s) /\ Empty \notin UsableOf(s)
  BY ValidIpsType, ValidIps, UsableNotEmpty DEF UsableOf
<1>2. \A a \in UsableOf(s) : Within(l, a)
  BY <1>1 DEF Within, Range
<1>3. \A a : Once(l, a)
  <2>1. \A i, j \in 1 .. Size - 2 : i + 1 = j + 1 => i = j
    BY SubnetsAssumption
  <2> QED
    BY <2>1 DEF Once, GetValidIps, Addr
<1> HIDE DEF l
<1>4. Range(Joined(l)) \subseteq UsableOf(s) \cup {Empty}
  BY <1>1, Ranges
<1>5. \A a \in UsableOf(s) : Within(Joined(l), a) /\ Once(Joined(l), a)
  BY <1>1, <1>2, <1>3, Places
<1>6. Range(NoDevices) \subseteq {Empty}
  BY DEF NoDevices, Range
<1>7. \A d \in Devices : NoDevices[d] = Empty
  BY DEF NoDevices
<1>8. Balanced(Joined(l), NoDevices, s)
  BY <1>1, <1>4, <1>5, <1>6, <1>7, BalancedPlaces
<1> QED
  BY <1>8 DEF l

\* An address taken off the list is the device's.
LEMMA TakenBalanced ==
  ASSUME NEW s \in Range(Subnets), NEW l \in Seq(AddrOrNone) \ {<<>>},
         NEW held \in [Devices -> AddrOrNone], NEW d \in Devices, held[d] = Empty,
         Balanced(l, held, s)
  PROVE  Balanced(Joined(Tail(l)), [held EXCEPT ![d] = Head(l)], s)
<1> DEFINE taken == [held EXCEPT ![d] = Head(l)]
<1>1. Empty \notin UsableOf(s) /\ Tail(l) \in Seq(AddrOrNone)
  BY UsableNotEmpty, HeadTail
<1>2. /\ Range(Joined(Tail(l))) \subseteq UsableOf(s) \cup {Empty}
      /\ Head(l) \in UsableOf(s) \cup {Empty}
  BY <1>1, Ranges, BalancedPlaces
<1>3. Range(taken) \subseteq UsableOf(s) \cup {Empty}
  BY <1>2, BalancedPlaces DEF Range
<1>4. taken[d] = Head(l) /\ \A c \in Devices : c # d => taken[c] = held[c]
  OBVIOUS
<1> HIDE DEF taken
<1>5. ASSUME NEW a \in UsableOf(s)
      PROVE  /\ Within(Joined(Tail(l)), a) \/ \E c \in Devices : taken[c] = a
             /\ ~ (Within(Joined(Tail(l)), a) /\ \E c \in Devices : taken[c] = a)
             /\ Once(Joined(Tail(l)), a)
             /\ \A b, c \in Devices : taken[b] = a /\ taken[c] = a => b = c
  <2>1. /\ Within(l, a) \/ \E c \in Devices : held[c] = a
        /\ ~ (Within(l, a) /\ \E c \in Devices : held[c] = a)
        /\ Once(l, a)
        /\ \A b, c \in Devices : held[b] = a /\ held[c] = a => b = c
    BY BalancedPlaces
  <2>2. /\ Within(l, a) <=> Head(l) = a \/ Within(Tail(l), a)
        /\ Once(Tail(l), a) /\ ~ (Head(l) = a /\ Within(Tail(l), a))
    BY <2>1, Places
  <2>3. /\ Within(Joined(Tail(l)), a) <=> Within(Tail(l), a)
        /\ Once(Joined(Tail(l)), a)
    BY <1>1, <2>2, Places
  <2> QED
    BY <1>1, <1>4, <2>1, <2>2, <2>3
<1>6. Balanced(Joined(Tail(l)), taken, s)
  BY <1>2, <1>3, <1>5, BalancedPlaces
<1> QED
  BY <1>6 DEF taken

\* An address given back is at the end of the list.
LEMMA ReturnedBalanced ==
  ASSUME NEW s \in Range(Subnets), NEW l \in Seq(AddrOrNone),
         NEW held \in [Devices -> AddrOrNone], NEW d \in Devices,
         Balanced(l, held, s)
  PROVE  Balanced(Append(l, held[d]), [held EXCEPT ![d] = Empty], s)
<1> DEFINE left == [held EXCEPT ![d] = Empty]
<1>1. Empty \notin UsableOf(s) /\ held[d] \in AddrOrNone
  BY UsableNotEmpty
<1>2. Range(left) \subseteq UsableOf(s) \cup {Empty}
  BY BalancedPlaces DEF Range
<1>3. Range(Append(l, held[d])) \subseteq UsableOf(s) \cup {Empty}
  <2>1. held[d] \in Range(held)
    BY DEF Range
  <2> QED
    BY <1>1, <2>1, Ranges, BalancedPlaces
<1>4. left[d] = Empty /\ \A c \in Devices : c # d => left[c] = held[c]
  OBVIOUS
<1> HIDE DEF left
<1>5. ASSUME NEW a \in UsableOf(s)
      PROVE  /\ Within(Append(l, held[d]), a) \/ \E c \in Devices : left[c] = a
             /\ ~ (Within(Append(l, held[d]), a) /\ \E c \in Devices : left[c] = a)
             /\ Once(Append(l, held[d]), a)
             /\ \A b, c \in Devices : left[b] = a /\ left[c] = a => b = c
  <2>1. /\ Within(l, a) \/ \E c \in Devices : held[c] = a
        /\ ~ (Within(l, a) /\ \E c \in Devices : held[c] = a)
        /\ Once(l, a)
        /\ \A b, c \in Devices : held[b] = a /\ held[c] = a => b = c
    BY BalancedPlaces
  <2>2. /\ Within(Append(l, held[d]), a) <=> Within(l, a) \/ held[d] = a
        /\ Once(Append(l, held[d]), a)
    BY <1>1, <2>1, Places
  <2> QED
    BY <1>1, <1>4, <2>1, <2>2
<1>6. Balanced(Append(l, held[d]), left, s)
  BY <1>2, <1>3, <1>5, BalancedPlaces
<1> QED
  BY <1>6 DEF left

-----------------------------------------------------------------------------
(* Hosts at rest and underway *)

\* A host at rest and the host of a call, in terms of what its keys and the
\* call's memory hold.
Rest(s, g, free, held) ==
  \/ s = Empty /\ g = Empty /\ held = NoDevices
  \/ s # Empty /\ g = GetGateway(s) /\ Balanced(free, held, s)

Order(at, s, g, free, held, d, m) ==
  /\ at \notin {"gwput", "hpoolput", "hpooltail", "devput", "rput", "rdel",
                "rgwdel"} => Rest(s, g, free, held)
  /\ at \in {"host2", "pool", "poolput", "hostput"} => s = Empty
  /\ at \in {"gwput", "hpoolput"} => s = m.item /\ held = NoDevices
  /\ at \in {"hpoolput", "gw", "dev", "hpool", "hpooltail", "devput", "rhpool",
             "rput", "rdel"} => s # Empty /\ g = GetGateway(s)
  /\ at = "hpooltail" => Balanced(Joined(m.list), [held EXCEPT ![d] = m.item], s)
  /\ at = "devput" => Balanced(free, [held EXCEPT ![d] = m.item], s)
  /\ at = "rput" => Balanced(m.list, [held EXCEPT ![d] = Empty], s)
  /\ at = "rdel" => Balanced(free, [held EXCEPT ![d] = Empty], s)
  /\ at \in {"rhost", "rhostdel", "rgwdel"} => held = NoDevices
  /\ at = "rgwdel" => s = Empty

\* These are the definitions of the invariant.
LEMMA RestIs ==
  ASSUME NEW h
  PROVE  /\ AtRest(h) <=> Rest(host[h], gateway[h], hostPool[h], dev[h])
         /\ AtRest(h)' <=> Rest(host'[h], gateway'[h], hostPool'[h], dev'[h])
<1>1. AtRest(h) <=> Rest(host[h], gateway[h], hostPool[h], dev[h])
  BY DEF AtRest, Rest, HasGateway
<1>2. AtRest(h)' <=> Rest(host'[h], gateway'[h], hostPool'[h], dev'[h])
  <2>1. \A a, b, c : Balanced(a, b, c)' <=> Balanced(a, b, c)
    BY DEF Balanced
  <2> QED
    BY DEF AtRest, Rest, HasGateway
<1> QED
  BY <1>1, <1>2

\* The same of a call's host, before and after a step.
LEMMA OrderIs ==
  ASSUME NEW p
  PROVE  /\ Underway(p) <=>
              Order(pc[p], host[Here(p)], gateway[Here(p)], hostPool[Here(p)],
                    dev[Here(p)], Device(p), mem[p])
         /\ req'[p] = req[p] =>
              (Underway(p)' <=>
                 Order(pc'[p], host'[Here(p)], gateway'[Here(p)],
                       hostPool'[Here(p)], dev'[Here(p)], Device(p), mem'[p]))
<1>1. Underway(p) <=>
        Order(pc[p], host[Here(p)], gateway[Here(p)], hostPool[Here(p)],
              dev[Here(p)], Device(p), mem[p])
  BY RestIs DEF Underway, Order, HasGateway, Joining
<1>2. ASSUME req'[p] = req[p]
      PROVE  Underway(p)' <=>
               Order(pc'[p], host'[Here(p)], gateway'[Here(p)],
                     hostPool'[Here(p)], dev'[Here(p)], Device(p), mem'[p])
  <2>1. Here(p)' = Here(p) /\ Device(p)' = Device(p)
    BY <1>2 DEF Here, Device
  <2> QED
    BY <2>1, RestIs DEF Underway, Order, HasGateway, Joining
<1> QED
  BY <1>1, <1>2

\* Nothing of a host at rest depends on another.
LEMMA SameRest ==
  ASSUME NEW h, host'[h] = host[h], gateway'[h] = gateway[h],
         hostPool'[h] = hostPool[h], dev'[h] = dev[h]
  PROVE  AtRest(h)' <=> AtRest(h)
BY RestIs

\* Nor of a call's host, while the call waits.
LEMMA SameUnderway ==
  ASSUME NEW p, pc'[p] = pc[p], req'[p] = req[p], mem'[p] = mem[p],
         reply'[p] = reply[p],
         host'[Here(p)] = host[Here(p)], gateway'[Here(p)] = gateway[Here(p)],
         hostPool'[Here(p)] = hostPool[Here(p)], dev'[Here(p)] = dev[Here(p)]
  PROVE  Underway(p) /\ ReplyOK(p) => Underway(p)' /\ ReplyOK(p)'
<1>1. Here(p)' = Here(p)
  BY DEF Here
<1>2. ReplyOK(p) => ReplyOK(p)'
  BY <1>1 DEF ReplyOK, Added, Usable
<1>3. Underway(p) => Underway(p)'
  BY OrderIs
<1> QED
  BY <1>2, <1>3

\* The addresses in balance are of the subnet.
LEMMA BalancedIn ==
  ASSUME NEW free, NEW held, NEW s, Balanced(free, held, s), NEW d \in DOMAIN held
  PROVE  held[d] \in UsableOf(s) \cup {Empty}
BY BalancedPlaces DEF Range

\* The step of a call keeps its host in order, when nothing fails.
LEMMA HostStep ==
  ASSUME MaxKills = 0, MaxErrors = 0, IInv, OnePerHost,
         NEW p \in Procs, ProcStep(p), NEW h \in Hosts, h = Here(p),
         Underway(p), ReplyOK(p)
  PROVE  /\ pc'[p] # "idle" => Underway(p)' /\ ReplyOK(p)'
         /\ pc'[p] = "idle" => AtRest(h)'
<1>0. TypeOK /\ MemInv /\ CallsInv
  BY DEF IInv
<1>p. /\ pc \in [Procs -> Locations] /\ DOMAIN req = Procs
      /\ mem \in [Procs -> [list : Seq(Item), item : Item]]
      /\ reply \in [Procs -> [ok : BOOLEAN, addr : AddrOrNone, gw : AddrOrNone]]
      /\ host \in [Hosts -> Name] /\ gateway \in [Hosts -> AddrOrNone]
      /\ hostPool \in [Hosts -> Seq(AddrOrNone) \ {<<>>}]
      /\ dev \in [Hosts -> [Devices -> AddrOrNone]]
      /\ kills = 0 /\ errors = 0
  BY <1>0 DEF TypeOK, AddrOrNone, Name
<1>1. /\ pc[p] # "idle" /\ Device(p) \in Devices
      /\ pc'[p] # "idle" => req' = req
  BY <1>0, Frame
<1>m. MemOK(p)
  BY <1>0, MemInvOK
<1>2. host[h] # Empty => host[h] \in Range(Subnets)
  BY <1>p DEF Name
<1>3. Order(pc[p], host[h], gateway[h], hostPool[h], dev[h], Device(p), mem[p])
  BY OrderIs
<1>4. ASSUME req' = req,
             Order(pc'[p], host'[h], gateway'[h], hostPool'[h], dev'[h], Device(p),
                   mem'[p]),
             ReplyOK(p)'
      PROVE  Underway(p)' /\ ReplyOK(p)'
  BY <1>4, OrderIs
<1>5. pc[p] # "exit" => ~ reply[p].ok
  BY <1>0 DEF CallsInv
<1>6. ASSUME req' = req, pc'[p] \notin {"dev", "hpool", "hpooltail", "devput", "exit"}
      PROVE  ReplyOK(p)'
  BY <1>6 DEF ReplyOK, Added
<1>7. ASSUME req' = req, pc'[p] = "exit", ~ reply'[p].ok \/ req[p].cmd # "ADD"
      PROVE  ReplyOK(p)'
  BY <1>7 DEF ReplyOK, Added
<1> USE DEF Goto
<1>8. CASE \/ PoolStatus(p) \/ PoolStatusAgain(p) \/ InitPool(p) \/ ReadHost(p)
           \/ ReadPool(p) \/ StorePool(p)
  <2>1. UNCHANGED <<host, gateway, hostPool, dev, req>>
    BY <1>8 DEF PoolStatus, PoolStatusAgain, InitPool, ReadHost, ReadPool, StorePool,
       etcd
  <2>2. /\ pc[p] \in {"status", "recheck", "initput", "host", "host2", "pool",
                      "poolput"}
        /\ pc'[p] \in {"host", "recheck", "initput", "host2", "pool", "poolput",
                       "hostput", "gw"}
        /\ pc'[p] = "gw" => host[h] # Empty
        /\ pc'[p] \in {"host2", "pool", "poolput", "hostput"} =>
             host[h] = Empty \/ pc[p] \in {"pool", "poolput"}
    BY <1>p, <1>8 DEF PoolStatus, PoolStatusAgain, InitPool, ReadHost, ReadPool,
       StorePool
  <2>3. Order(pc'[p], host'[h], gateway'[h], hostPool'[h], dev'[h], Device(p),
              mem'[p])
    BY <1>3, <2>1, <2>2 DEF Order, Rest
  <2> QED
    BY <1>4, <1>6, <2>1, <2>2, <2>3
<1>9. CASE StoreHost(p)
  <2>1. /\ UNCHANGED <<gateway, hostPool, dev, req, mem>> /\ pc[p] = "hostput"
        /\ host'[h] = mem[p].item
        /\ \/ mem[p].item = Empty /\ pc'[p] = "exit" /\ reply' = reply
           \/ mem[p].item # Empty /\ pc'[p] = "gwput"
    BY <1>p, <1>9 DEF StoreHost, Fail
  <2>2. Order(pc'[p], host'[h], gateway'[h], hostPool'[h], dev'[h], Device(p),
              mem'[p])
    BY <1>3, <2>1 DEF Order, Rest
  <2> QED
    BY <1>4, <1>5, <1>6, <1>7, <2>1, <2>2
<1>10. CASE StoreGateway(p)
  <2>1. /\ UNCHANGED <<host, hostPool, dev, req, mem>> /\ pc[p] = "gwput"
        /\ gateway'[h] = GetGateway(mem[p].item) /\ pc'[p] = "hpoolput"
    BY <1>p, <1>10 DEF StoreGateway
  <2>2. mem[p].item # Empty
    BY <1>m, <2>1, EmptyAssumption DEF MemOK
  <2>3. Order(pc'[p], host'[h], gateway'[h], hostPool'[h], dev'[h], Device(p),
              mem'[p])
    BY <1>3, <2>1, <2>2 DEF Order, Rest
  <2> QED
    BY <1>4, <1>6, <2>1, <2>3
<1>11. CASE StoreHostPool(p)
  <2>1. /\ UNCHANGED <<host, gateway, dev, req, mem>> /\ pc[p] = "hpoolput"
        /\ hostPool'[h] = Joined(GetValidIps(mem[p].item)) /\ pc'[p] = "gw"
    BY <1>p, <1>11 DEF StoreHostPool
  <2>2. /\ host[h] = mem[p].item /\ host[h] # Empty /\ dev[h] = NoDevices
        /\ gateway[h] = GetGateway(host[h])
    BY <1>3, <2>1 DEF Order
  <2>3. Balanced(hostPool'[h], dev'[h], host'[h])
    BY <1>2, <2>1, <2>2, FreshBalanced
  <2>4. Order(pc'[p], host'[h], gateway'[h], hostPool'[h], dev'[h], Device(p),
              mem'[p])
    BY <2>1, <2>2, <2>3 DEF Order, Rest
  <2> QED
    BY <1>4, <1>6, <2>1, <2>4
<1>12. CASE ReadGateway(p)
  <2>1. /\ UNCHANGED <<host, gateway, hostPool, dev, req, mem>> /\ pc[p] = "gw"
        /\ reply'[p].gw = gateway[h] /\ pc'[p] = "dev"
    BY <1>p, <1>12 DEF ReadGateway, etcd
  <2>2. Order(pc'[p], host'[h], gateway'[h], hostPool'[h], dev'[h], Device(p),
              mem'[p])
    BY <1>3, <2>1 DEF Order, Rest
  <2>3. ReplyOK(p)'
    BY <1>3, <2>1 DEF ReplyOK, Order, Added, Here
  <2> QED
    BY <1>4, <2>1, <2>2, <2>3
<1>13. CASE ReadDev(p)
  <2>1. /\ UNCHANGED <<host, gateway, hostPool, dev, req, mem>> /\ pc[p] = "dev"
    BY <1>13 DEF ReadDev, etcd
  <2>2. \/ /\ dev[h][Device(p)] # Empty /\ pc'[p] = "exit"
           /\ reply'[p].addr = dev[h][Device(p)] /\ reply'[p].gw = reply[p].gw
        \/ dev[h][Device(p)] = Empty /\ pc'[p] = "hpool" /\ reply' = reply
    BY <1>p, <1>13 DEF ReadDev, Succeed, Device
  <2>3. /\ Rest(host[h], gateway[h], hostPool[h], dev[h]) /\ host[h] # Empty
        /\ gateway[h] = GetGateway(host[h])
    BY <1>3, <2>1 DEF Order
  <2>4. Order(pc'[p], host'[h], gateway'[h], hostPool'[h], dev'[h], Device(p),
              mem'[p])
    BY <2>1, <2>2, <2>3 DEF Order
  <2>5. reply[p].gw = GetGateway(host[h])
    BY <2>1 DEF ReplyOK
  <2>6. dev[h][Device(p)] \in UsableOf(host[h]) \cup {Empty}
    BY <1>p, <1>1, <2>3, BalancedIn DEF Rest
  <2>7. ReplyOK(p)'
    BY <2>1, <2>2, <2>5, <2>6 DEF ReplyOK, Here, Usable, UsableOf, GetGateway,
       Added
  <2> QED
    BY <1>4, <2>1, <2>2, <2>4, <2>7
<1>14. CASE ReadHostPool(p)
  <2>1. /\ UNCHANGED <<host, gateway, hostPool, dev, req, reply>> /\ pc[p] = "hpool"
        /\ pc'[p] = "hpooltail" /\ mem'[p].list = Tail(hostPool[h])
        /\ mem'[p].item = Head(hostPool[h])
    BY <1>p, <1>14 DEF ReadHostPool, TakeFrom, etcd
  <2>2. /\ Balanced(hostPool[h], dev[h], host[h]) /\ host[h] # Empty
        /\ gateway[h] = GetGateway(host[h])
    BY <1>3, <2>1 DEF Order, Rest
  <2>3. dev[h][Device(p)] = Empty
    BY <1>0, <2>1 DEF CallsInv, DevAddr
  <2>4. Balanced(Joined(mem'[p].list), [dev[h] EXCEPT ![Device(p)] = mem'[p].item],
                 host[h])
    BY <1>p, <1>1, <1>2, <2>1, <2>2, <2>3, TakenBalanced
  <2>5. Order(pc'[p], host'[h], gateway'[h], hostPool'[h], dev'[h], Device(p),
              mem'[p])
    BY <2>1, <2>2, <2>4 DEF Order
  <2>6. ReplyOK(p)'
    BY <2>1 DEF ReplyOK, Here, Added
  <2> QED
    BY <1>4, <2>1, <2>5, <2>6
<1>15. CASE StoreHostPoolTail(p)
  <2>1. /\ UNCHANGED <<host, gateway, dev, req, mem, reply>> /\ pc[p] = "hpooltail"
        /\ pc'[p] = "devput" /\ hostPool'[h] = Joined(mem[p].list)
    BY <1>p, <1>15 DEF StoreHostPoolTail
  <2>2. Order(pc'[p], host'[h], gateway'[h], hostPool'[h], dev'[h], Device(p),
              mem'[p])
    BY <1>3, <2>1 DEF Order
  <2>3. ReplyOK(p)'
    BY <2>1 DEF ReplyOK, Here, Added
  <2> QED
    BY <1>4, <2>1, <2>2, <2>3
<1>16. CASE StoreDev(p)
  <2>1. /\ UNCHANGED <<host, gateway, hostPool, req, mem>> /\ pc[p] = "devput"
        /\ pc'[p] = "exit" /\ reply'[p].addr = mem[p].item
        /\ reply'[p].gw = reply[p].gw
    BY <1>p, <1>16 DEF StoreDev, Succeed
  <2>2. dev'[h] = [dev[h] EXCEPT ![Device(p)] = mem[p].item]
    BY <1>p, <1>16 DEF StoreDev, Device
  <2>3. /\ Balanced(hostPool'[h], dev'[h], host'[h]) /\ host[h] # Empty
        /\ gateway[h] = GetGateway(host[h])
    BY <1>3, <2>1, <2>2 DEF Order
  <2>4. Order(pc'[p], host'[h], gateway'[h], hostPool'[h], dev'[h], Device(p),
              mem'[p])
    BY <2>1, <2>3 DEF Order, Rest
  <2>5. reply[p].gw = GetGateway(host[h])
    BY <2>1 DEF ReplyOK
  <2>6. mem[p].item \in UsableOf(host[h]) \cup {Empty}
    <3>1. Device(p) \in DOMAIN dev'[h] /\ dev'[h][Device(p)] = mem[p].item
      BY <1>p, <1>1, <2>2
    <3> QED
      BY <2>1, <2>3, <3>1, BalancedIn
  <2>7. ReplyOK(p)'
    BY <2>1, <2>5, <2>6 DEF ReplyOK, Here, Usable, UsableOf, GetGateway
  <2> QED
    BY <1>4, <2>1, <2>4, <2>7
<1>17. CASE ReadDevToRelease(p) \/ FindByID(p) \/ ReadHostToRelease(p)
  <2>1. UNCHANGED <<host, gateway, hostPool, dev, req>>
    BY <1>17 DEF ReadDevToRelease, FindByID, ReadHostToRelease, etcd
  <2>2. /\ req[p].cmd # "ADD"
        /\ pc[p] \in {"rdev", "cdev", "rhost"}
        /\ pc'[p] \in {"exit", "rhpool", "rhostdel"}
        /\ pc'[p] = "rhostdel" => pc[p] = "rhost"
        /\ pc'[p] = "rhpool" => dev[h][Device(p)] # Empty
    BY <1>0, <1>p, <1>17 DEF ReadDevToRelease, FindByID, ReadHostToRelease, Succeed,
       Fail, CallsInv, Device
  <2>3. pc'[p] = "rhpool" => host[h] # Empty /\ gateway[h] = GetGateway(host[h])
    BY <1>1, <1>3, <2>2 DEF Order, Rest, NoDevices
  <2>4. Order(pc'[p], host'[h], gateway'[h], hostPool'[h], dev'[h], Device(p),
              mem'[p])
    BY <1>3, <2>1, <2>2, <2>3 DEF Order
  <2> QED
    BY <1>4, <1>6, <1>7, <2>1, <2>2, <2>4
<1>18. CASE ReadHostPoolToRelease(p)
  <2>1. /\ UNCHANGED <<host, gateway, hostPool, dev, req>> /\ pc[p] = "rhpool"
        /\ pc'[p] = "rput" /\ mem'[p].list = Append(hostPool[h], mem[p].item)
    BY <1>p, <1>18 DEF ReadHostPoolToRelease, AppendTo, etcd
  <2>2. mem[p].item = dev[h][Device(p)]
    BY <1>0, <2>1 DEF CallsInv, DevAddr
  <2>3. /\ Balanced(hostPool[h], dev[h], host[h]) /\ host[h] # Empty
        /\ gateway[h] = GetGateway(host[h])
    BY <1>3, <2>1 DEF Order, Rest
  <2>4. Balanced(mem'[p].list, [dev[h] EXCEPT ![Device(p)] = Empty], host[h])
    <3>1. /\ host[h] \in Range(Subnets) /\ hostPool[h] \in Seq(AddrOrNone)
          /\ dev[h] \in [Devices -> AddrOrNone]
      BY <1>p, <1>2, <2>3
    <3>2. Balanced(Append(hostPool[h], dev[h][Device(p)]),
                   [dev[h] EXCEPT ![Device(p)] = Empty], host[h])
      BY <1>1, <2>3, <3>1, ReturnedBalanced
    <3> QED
      BY <2>1, <2>2, <3>2
  <2>5. Order(pc'[p], host'[h], gateway'[h], hostPool'[h], dev'[h], Device(p),
              mem'[p])
    BY <2>1, <2>3, <2>4 DEF Order
  <2> QED
    BY <1>4, <1>6, <2>1, <2>5
<1>19. CASE ReturnAddress(p)
  <2>1. /\ UNCHANGED <<host, gateway, dev, req, mem>> /\ pc[p] = "rput"
        /\ pc'[p] = "rdel" /\ hostPool'[h] = mem[p].list
    BY <1>p, <1>19 DEF ReturnAddress
  <2>2. Order(pc'[p], host'[h], gateway'[h], hostPool'[h], dev'[h], Device(p),
              mem'[p])
    BY <1>3, <2>1 DEF Order
  <2> QED
    BY <1>4, <1>6, <2>1, <2>2
<1>20. CASE DeleteDev(p)
  <2>1. /\ UNCHANGED <<host, gateway, hostPool, req, mem>> /\ pc[p] = "rdel"
        /\ pc'[p] = "exit" /\ dev'[h] = [dev[h] EXCEPT ![Device(p)] = Empty]
    BY <1>p, <1>20 DEF DeleteDev, Succeed, Device
  <2>2. Order(pc'[p], host'[h], gateway'[h], hostPool'[h], dev'[h], Device(p),
              mem'[p])
    BY <1>3, <2>1 DEF Order, Rest
  <2>3. req[p].cmd # "ADD"
    BY <1>0, <2>1 DEF CallsInv
  <2> QED
    BY <1>4, <1>7, <2>1, <2>2, <2>3
<1>21. CASE DeleteHost(p) \/ DeleteGateway(p)
  <2>1. UNCHANGED <<hostPool, dev, req>>
    BY <1>21 DEF DeleteHost, DeleteGateway
  <2>2. /\ host'[h] = Empty
        /\ \/ pc[p] = "rhostdel" /\ pc'[p] = "rgwdel"
           \/ pc[p] = "rgwdel" /\ pc'[p] = "exit" /\ gateway'[h] = Empty
    BY <1>p, <1>3, <1>21 DEF DeleteHost, DeleteGateway, Succeed, Order
  <2>3. Order(pc'[p], host'[h], gateway'[h], hostPool'[h], dev'[h], Device(p),
              mem'[p])
    BY <1>3, <2>1, <2>2 DEF Order, Rest
  <2>4. req[p].cmd # "ADD"
    BY <1>0, <2>2 DEF CallsInv
  <2> QED
    BY <1>4, <1>6, <1>7, <2>1, <2>2, <2>3, <2>4
<1>22. CASE Exit(p)
  <2>1. /\ UNCHANGED <<host, gateway, hostPool, dev>> /\ pc[p] = "exit"
        /\ pc'[p] = "idle"
    BY <1>p, <1>22 DEF Exit, Forget, etcd
  <2> QED
    BY <1>3, <2>1, RestIs DEF Order
<1>23. ~ ReadError(p) /\ ~ WriteError(p) /\ ~ Kill(p)
  BY <1>p DEF ReadError, WriteError, Kill, Error
<1> QED
  BY <1>8, <1>9, <1>10, <1>11, <1>12, <1>13, <1>14, <1>15, <1>16, <1>17, <1>18, <1>19,
     <1>20, <1>21, <1>22, <1>23 DEF ProcStep, Add, Del, Release

\* The hosts stay in order when nothing fails, and so do the replies.
LEMMA HostsStep ==
  ASSUME Overlap # "all", MaxKills = 0, MaxErrors = 0, IInv, HostsInv, [Next]_vars
  PROVE  HostsInv'
<1>0. TypeOK /\ CallsInv /\ OnePerHost
  BY DEF IInv, HostsInv
<1>p. /\ pc \in [Procs -> Locations] /\ DOMAIN req = Procs
  BY <1>0 DEF TypeOK
<1>1. OnePerHost'
  BY <1>0, OnePerHostStep
<1>2. ASSUME NEW p \in Procs, NEW cmd \in Commands, NEW h \in Hosts,
             NEW d \in Devices, Call(p, cmd, h, d)
      PROVE  HostsInv'
  <2>1. /\ UNCHANGED <<host, gateway, hostPool, dev, mem, reply>>
        /\ pc[p] = "idle" /\ Quiet(h)
    BY <1>2 DEF Call, etcd, MayStart, Quiet
  <2>2. /\ pc'[p] \in {"status", "rdev", "cdev", "rhost"}
        /\ pc'[p] = "rhost" => dev[h] = NoDevices
        /\ req'[p].host = h /\ req'[p].dev = d
        /\ \A q \in Procs : q # p => pc'[q] = pc[q] /\ req'[q] = req[q]
    <3>1. cmd \in {"ADD", "DEL", "CHECK", "RELEASE"}
      BY NamesAssumption
    <3> QED
      BY <1>p, <1>2, <3>1 DEF Call, Goto, NoDevices
  <2>3. AtRest(h)'
    BY <2>1, SameRest DEF HostsInv
  <2>4. \A g \in Hosts : Quiet(g)' => Quiet(g)
    BY <2>1, <2>2 DEF Quiet, Running, Here
  <2>5. Underway(p)' /\ ReplyOK(p)'
    <3>1. Here(p)' = h
      BY <2>2 DEF Here
    <3>2. Underway(p)'
      BY <2>1, <2>2, <2>3, <3>1 DEF Underway, Joining
    <3>3. ReplyOK(p)'
      BY <2>2 DEF ReplyOK, Added
    <3> QED
      BY <3>2, <3>3
  <2>6. ASSUME NEW q \in Procs, pc'[q] # "idle" PROVE Underway(q)' /\ ReplyOK(q)'
    <3>1. CASE q # p
      BY <2>1, <2>2, <2>6, <3>1, SameUnderway DEF HostsInv, Running
    <3> QED
      BY <2>5, <3>1
  <2>7. ASSUME NEW g \in Hosts, Quiet(g)' PROVE AtRest(g)'
    BY <2>1, <2>4, <2>7, SameRest DEF HostsInv
  <2> QED
    BY <1>1, <2>6, <2>7 DEF HostsInv, Running
<1>3. ASSUME NEW p \in Procs, ProcStep(p)
      PROVE  HostsInv'
  <2>1. /\ pc[p] # "idle" /\ Here(p) \in Hosts
        /\ pc'[p] # "idle" => req' = req
        /\ \A h \in Hosts : h # Here(p) =>
              /\ host'[h] = host[h] /\ gateway'[h] = gateway[h]
              /\ hostPool'[h] = hostPool[h] /\ dev'[h] = dev[h]
        /\ \A q \in Procs : q # p =>
              /\ pc'[q] = pc[q] /\ req'[q] = req[q]
              /\ mem'[q] = mem[q] /\ reply'[q] = reply[q]
        /\ \A q \in Procs : q # p /\ pc[q] # "idle" =>
              Here(q) \in Hosts /\ Here(q) # Here(p)
    BY <1>0, <1>3, Frame
  <2>2. /\ pc'[p] # "idle" => Underway(p)' /\ ReplyOK(p)'
        /\ \A h \in Hosts : h = Here(p) /\ pc'[p] = "idle" => AtRest(h)'
    <3> SUFFICES ASSUME NEW h \in Hosts, h = Here(p)
                 PROVE  /\ pc'[p] # "idle" => Underway(p)' /\ ReplyOK(p)'
                        /\ pc'[p] = "idle" => AtRest(h)'
      BY <2>1
    <3>1. Underway(p) /\ ReplyOK(p)
      BY <2>1 DEF HostsInv, Running
    <3> QED
      BY <1>0, <1>3, <3>1, HostStep
  <2>3. ASSUME NEW q \in Procs, pc'[q] # "idle" PROVE Underway(q)' /\ ReplyOK(q)'
    <3>1. CASE q # p
      BY <2>1, <2>3, <3>1, SameUnderway DEF HostsInv, Running
    <3> QED
      BY <2>2, <2>3, <3>1
  <2>4. ASSUME NEW g \in Hosts, Quiet(g)' PROVE AtRest(g)'
    <3>1. CASE g # Here(p)
      <4>1. Quiet(g)
        BY <2>1, <2>4, <3>1 DEF Quiet, Running, Here
      <4> QED
        BY <2>1, <3>1, <4>1, SameRest DEF HostsInv
    <3>2. CASE g = Here(p)
      <4>1. pc'[p] = "idle"
        BY <2>1, <2>4, <3>2 DEF Quiet, Running, Here
      <4> QED
        BY <2>2, <3>2, <4>1
    <3> QED
      BY <3>1, <3>2
  <2> QED
    BY <1>1, <2>3, <2>4 DEF HostsInv, Running
<1>4. CASE UNCHANGED vars
  <2>1. UNCHANGED <<host, gateway, hostPool, dev, pc, req, mem, reply>>
    BY <1>4 DEF vars
  <2>2. ASSUME NEW q \in Procs, pc'[q] # "idle" PROVE Underway(q)' /\ ReplyOK(q)'
    BY <2>1, <2>2, SameUnderway DEF HostsInv, Running
  <2>3. ASSUME NEW g \in Hosts, Quiet(g)' PROVE AtRest(g)'
    <3>1. Quiet(g)
      BY <2>1, <2>3 DEF Quiet, Running, Here
    <3> QED
      BY <2>1, <3>1, SameRest DEF HostsInv
  <2> QED
    BY <1>1, <2>2, <2>3 DEF HostsInv, Running
<1> QED
  BY <1>2, <1>3, <1>4 DEF Next, ProcStep

\* At first no host has anything.
LEMMA HostsInitially == Init => HostsInv
BY DEF Init, HostsInv, OnePerHost, Running, Quiet, AtRest, NoDevices

\* Where the calls on a host do not overlap and nothing fails, every host is
\* at rest or as far as its call has brought it, and the calls report what they
\* stored.
THEOREM HostsInOrder ==
  ASSUME Overlap # "all", MaxKills = 0, MaxErrors = 0 PROVE Spec => []HostsInv
<1>1. IInv /\ HostsInv /\ [Next]_vars => HostsInv'
  BY HostsStep
<1> QED
  BY <1>1, HostsInitially, Invariant, PTL DEF Spec

\* Then a host at rest has the gateway of its subnet, or neither.
THEOREM GatewaysOfSubnets ==
  ASSUME Overlap # "all", MaxKills = 0, MaxErrors = 0
  PROVE  Spec => []GatewayOfSubnet
<1>1. HostsInv => GatewayOfSubnet
  BY DEF HostsInv, GatewayOfSubnet, AtRest, HasGateway, GetGateway
<1> QED
  BY <1>1, HostsInOrder, PTL

\* An ADD reports an address and the gateway of the subnet its host has.
THEOREM RepliesFit ==
  ASSUME Overlap # "all", MaxKills = 0, MaxErrors = 0 PROVE Spec => []ReplyFits
<1>1. HostsInv => ReplyFits
  BY DEF HostsInv, ReplyFits, ReplyOK, Added, Running
<1> QED
  BY <1>1, HostsInOrder, PTL

\* The places of an address, as the property counts them.
LEMMA CountOne ==
  ASSUME NEW S, NEW f, NEW a,
         \A i, j \in S : f[i] = a /\ f[j] = a => i = j
  PROVE  Cardinality({i \in S : f[i] = a}) = IF \E i \in S : f[i] = a THEN 1 ELSE 0
<1>1. CASE \E i \in S : f[i] = a
  <2>1. PICK i \in S : f[i] = a
    BY <1>1
  <2>2. {j \in S : f[j] = a} = {i}
    BY <2>1
  <2> QED
    BY <1>1, <2>2, FS_Singleton
<1>2. CASE ~ \E i \in S : f[i] = a
  <2>1. {j \in S : f[j] = a} = {}
    BY <1>2
  <2> QED
    BY <1>2, <2>1, FS_EmptySet
<1> QED
  BY <1>1, <1>2

\* On a host at rest each address of its subnet is free or a device's, once.
THEOREM EachFreeOrHeld ==
  ASSUME Overlap # "all", MaxKills = 0, MaxErrors = 0 PROVE Spec => []FreeOrHeld
<1>1. ASSUME HostsInv, TypeOK, NEW h \in Hosts, Quiet(h), host[h] # Empty
      PROVE  /\ Range(hostPool[h]) \ {Empty} \subseteq Usable(h)
             /\ Range(dev[h]) \ {Empty} \subseteq Usable(h)
             /\ \A a \in Usable(h) :
                  Cardinality({i \in DOMAIN hostPool[h] : hostPool[h][i] = a})
                    + Cardinality({d \in Devices : dev[h][d] = a}) = 1
  <2>1. Balanced(hostPool[h], dev[h], host[h]) /\ Usable(h) = UsableOf(host[h])
    BY <1>1 DEF HostsInv, AtRest, Usable, UsableOf
  <2>2. ASSUME NEW a \in Usable(h)
        PROVE  Cardinality({i \in DOMAIN hostPool[h] : hostPool[h][i] = a})
                 + Cardinality({d \in Devices : dev[h][d] = a}) = 1
    <3>1. /\ Within(hostPool[h], a) \/ \E d \in Devices : dev[h][d] = a
          /\ ~ (Within(hostPool[h], a) /\ \E d \in Devices : dev[h][d] = a)
          /\ Once(hostPool[h], a)
          /\ \A c, d \in Devices : dev[h][c] = a /\ dev[h][d] = a => c = d
      BY <2>1, <2>2, BalancedPlaces
    <3>2. Cardinality({i \in DOMAIN hostPool[h] : hostPool[h][i] = a})
            = IF Within(hostPool[h], a) THEN 1 ELSE 0
      <4> DEFINE list == hostPool[h]
                 places == DOMAIN list
      <4>1. \A i, j \in places : list[i] = a /\ list[j] = a => i = j
        BY <3>1 DEF Once
      <4>2. Within(hostPool[h], a) <=> \E i \in places : list[i] = a
        BY DEF Within
      <4>3. Cardinality({i \in places : list[i] = a})
              = IF \E i \in places : list[i] = a THEN 1 ELSE 0
        <5> HIDE DEF list, places
        <5> QED
          BY <4>1, CountOne
      <4> QED
        BY <4>2, <4>3
    <3>3. Cardinality({d \in Devices : dev[h][d] = a})
            = IF \E d \in Devices : dev[h][d] = a THEN 1 ELSE 0
      <4> DEFINE held == dev[h]
      <4>1. \A c, d \in Devices : held[c] = a /\ held[d] = a => c = d
        BY <3>1
      <4> HIDE DEF held
      <4>2. Cardinality({d \in Devices : held[d] = a})
              = IF \E d \in Devices : held[d] = a THEN 1 ELSE 0
        BY <4>1, CountOne
      <4> QED
        BY <4>2 DEF held
    <3> QED
      BY <3>1, <3>2, <3>3
  <2> QED
    BY <2>1, <2>2, BalancedPlaces
<1>2. IInv /\ HostsInv => FreeOrHeld
  BY <1>1 DEF FreeOrHeld, IInv
<1> QED
  BY <1>2, HostsInOrder, Invariant, PTL

-----------------------------------------------------------------------------
(* Each subnet given out once *)

\* What is left of the cluster's subnets, after the first k.
LEMMA Lefts ==
  ASSUME NEW k \in 0 .. Len(Subnets)
  PROVE  /\ Left(k) = <<Empty>> <=> k = Len(Subnets)
         /\ k < Len(Subnets) =>
              /\ Head(Left(k)) = Subnets[k + 1] /\ Subnets[k + 1] # Empty
              /\ Joined(Tail(Left(k))) = Left(k + 1)
         /\ Left(0) = Subnets
<1> DEFINE n == Len(Subnets)
<1>1. /\ Subnets \in Seq(Range(Subnets)) /\ n \in Nat /\ n > 0
      /\ DOMAIN Subnets = 1 .. n
  BY SubnetsAssumption
<1>2. \A i \in 1 .. n : Subnets[i] \in Range(Subnets) /\ Subnets[i] # Empty
  BY <1>1, EmptyAssumption
<1>3. ASSUME k < n
      PROVE  /\ Left(k) = SubSeq(Subnets, k + 1, n)
             /\ Head(Left(k)) = Subnets[k + 1]
             /\ Tail(Left(k)) = SubSeq(Subnets, k + 2, n)
  <2>1. /\ k + 1 \in 1 .. n /\ n \in k + 1 .. n /\ k + 1 <= n
        /\ k + 1 \in Int /\ n \in Int /\ n - (k + 1) + 1 # 0 /\ (k + 1) + 1 = k + 2
    <3>1. k \in Nat /\ n \in Nat /\ k < n
      BY <1>1, <1>3
    <3> HIDE DEF n
    <3> QED
      BY <3>1
  <2>2. SubSeq(Subnets, k + 1, n) # <<>>
    <3>1. \A i \in k + 1 .. n : Subnets[i] \in Range(Subnets)
      BY <1>1, <1>2
    <3>2. Len(SubSeq(Subnets, k + 1, n)) = n - (k + 1) + 1
      BY <2>1, <3>1, SubSeqProperties
    <3> QED
      BY <2>1, <3>2
  <2> QED
    BY <1>1, <2>1, <2>2, HeadTailOfSubSeq DEF Left, Joined
<1>4. ASSUME k = n PROVE Left(k) = <<Empty>>
  <2>1. n < k + 1 /\ k + 1 \in Int /\ n \in Int
    BY <1>1, <1>4
  <2>2. SubSeq(Subnets, k + 1, n) = <<>>
    BY <2>1, SubSeqEmpty
  <2> QED
    BY <2>2 DEF Left, Joined
<1>5. ASSUME k < n PROVE Left(k) # <<Empty>>
  BY <1>1, <1>2, <1>3, <1>5
<1>6. ASSUME k < n PROVE Joined(Tail(Left(k))) = Left(k + 1)
  <2>1. (k + 1) + 1 = k + 2
    BY <1>1
  <2> QED
    BY <1>3, <1>6, <2>1 DEF Left
<1>7. Left(0) = Subnets
  <2>1. SubSeq(Subnets, 1, n) = Subnets
    BY <1>1, SubSeqFull
  <2> QED
    BY <1>1, <2>1, SubnetsAssumption DEF Left, Joined
<1>8. k < n \/ k = n
  <2>1. k \in Nat /\ n \in Nat /\ k <= n
    BY <1>1
  <2> HIDE DEF n
  <2> QED
    BY <2>1
<1>9. k < n => Subnets[k + 1] # Empty
  BY <1>1, <1>2
<1> QED
  BY <1>1, <1>3, <1>4, <1>5, <1>6, <1>7, <1>8, <1>9

\* The hosts with a subnet: how many there are, with one more or less.
LEMMA ServedCount ==
  ASSUME IsFiniteSet(Hosts), NEW S \in SUBSET Hosts
  PROVE  /\ Cardinality(S) \in Nat /\ Cardinality(Hosts) \in Nat
         /\ Cardinality(S) <= Cardinality(Hosts)
         /\ Cardinality(S) >= Cardinality(Hosts) => S = Hosts
         /\ \A h \in Hosts \ S : Cardinality(S \cup {h}) = Cardinality(S) + 1
         /\ \A h \in S : Cardinality(S \ {h}) = Cardinality(S) - 1
<1>1. IsFiniteSet(S) /\ Cardinality(S) <= Cardinality(Hosts)
  BY FS_Subset
<1>2. Cardinality(S) \in Nat /\ Cardinality(Hosts) \in Nat
  BY <1>1, FS_CardinalityType
<1>3. Cardinality(S) >= Cardinality(Hosts) => S = Hosts
  BY <1>1, <1>2, FS_Subset
<1>4. \A h \in Hosts \ S : Cardinality(S \cup {h}) = Cardinality(S) + 1
  <2> SUFFICES ASSUME NEW h \in Hosts \ S
               PROVE  Cardinality(S \cup {h}) = Cardinality(S) + 1
    OBVIOUS
  <2>1. h \notin S
    OBVIOUS
  <2> QED
    BY ONLY <1>1, <2>1, FS_AddElement
<1>5. \A h \in S : Cardinality(S \ {h}) = Cardinality(S) - 1
  <2> SUFFICES ASSUME NEW h \in S
               PROVE  Cardinality(S \ {h}) = Cardinality(S) - 1
    OBVIOUS
  <2> QED
    BY ONLY <1>1, FS_RemoveElement
<1> QED
  BY <1>1, <1>2, <1>3, <1>4, <1>5

\* What can be lost is bounded, and there are subnets enough.
Enough ==
  /\ Overlap # "all" /\ MaxErrors <= 1
  /\ IsFiniteSet(Hosts)
  /\ Cardinality(Hosts) + MaxKills + MaxErrors + MaxReleases <= Len(Subnets)

\* What is out stays out; it may be more by one host, or fewer.
LEMMA OutStep ==
  ASSUME IsFiniteSet(Hosts), NEW k \in 0 .. Len(Subnets), Out(k), DOMAIN host = Hosts,
         Lost \in Nat, Lost' \in Nat, Leaving \in Nat, Leaving' \in Nat
  PROVE  /\ host' = host /\ Leaving' + Lost <= Leaving + Lost' => Out(k)'
         /\ host' = host /\ Leaving' + Lost + 1 <= Leaving + Lost' => Out(k + 1)'
         /\ \A h \in Hosts :
              /\ Leaving' + Lost <= Leaving + Lost'
              /\ host[h] = Empty /\ Subnets[k + 1] # Empty
              /\ host' = [host EXCEPT ![h] = Subnets[k + 1]]
              => Out(k + 1)'
         /\ \A h \in Hosts :
              /\ Leaving' + Lost + 1 <= Leaving + Lost'
              /\ host' = [host EXCEPT ![h] = Empty]
              => Out(k)'
<1>1. k \in Nat /\ (\A i \in 1 .. k : i \in 1 .. k + 1) /\ k + 1 \in 1 .. k + 1
  BY SubnetsAssumption
<1>2. /\ Cardinality(Served) \in Nat /\ k + Leaving <= Cardinality(Served) + Lost
      /\ \A h \in Served : host[h] \in {Subnets[i] : i \in 1 .. k}
      /\ Served \in SUBSET Hosts
  BY ServedCount DEF Served, Out
<1>3. \A a, b, c, d, e, n \in Nat :
        /\ n + a <= b + c /\ d + c <= a + e => n + d <= b + e
        /\ n + a <= b + c /\ d + c + 1 <= a + e => n + 1 + d <= b + e
        /\ n + a <= b + c /\ d + c <= a + e => n + 1 + d <= b + 1 + e
        /\ n + a <= b + c /\ d + c + 1 <= a + e => n + d <= b - 1 + e
  OBVIOUS
<1>9. \A a, c, d, e \in Nat : d + c + 1 <= a + e => d + c <= a + e
  OBVIOUS
<1>4. host' = host => Served' = Served
  BY DEF Served
<1>5. ASSUME host' = host, Leaving' + Lost <= Leaving + Lost' PROVE Out(k)'
  <2>1. k + Leaving' <= Cardinality(Served) + Lost'
    BY <1>1, <1>2, <1>3, <1>5, Zenon
  <2> QED
    BY <1>2, <1>4, <1>5, <2>1 DEF Out
<1>6. ASSUME host' = host, Leaving' + Lost + 1 <= Leaving + Lost' PROVE Out(k + 1)'
  <2>1. k + 1 + Leaving' <= Cardinality(Served) + Lost'
    BY <1>1, <1>2, <1>3, <1>6, Zenon
  <2>2. \A h \in Served : host[h] \in {Subnets[i] : i \in 1 .. k + 1}
    BY <1>1, <1>2
  <2> QED
    BY <1>4, <1>6, <2>1, <2>2 DEF Out
<1>7. ASSUME NEW h \in Hosts, Leaving' + Lost <= Leaving + Lost', host[h] = Empty,
             Subnets[k + 1] # Empty, host' = [host EXCEPT ![h] = Subnets[k + 1]]
      PROVE  Out(k + 1)'
  <2>1. Served' = Served \cup {h} /\ h \in Hosts \ Served
    BY <1>7 DEF Served
  <2>2. Cardinality(Served') = Cardinality(Served) + 1
    BY <1>2, <2>1, ServedCount
  <2>3. \A g \in Served' : host'[g] \in {Subnets[i] : i \in 1 .. k + 1}
    BY <1>1, <1>2, <1>7, <2>1 DEF Served
  <2>4. k + 1 + Leaving' <= Cardinality(Served) + 1 + Lost'
    BY <1>1, <1>2, <1>3, <1>7, Zenon
  <2> QED
    BY <2>2, <2>3, <2>4 DEF Out
<1>8. ASSUME NEW h \in Hosts, Leaving' + Lost + 1 <= Leaving + Lost',
             host' = [host EXCEPT ![h] = Empty]
      PROVE  Out(k)'
  <2>1. Served' = Served \ {h}
    BY <1>8 DEF Served
  <2>2. \A g \in Served' : host'[g] \in {Subnets[i] : i \in 1 .. k}
    BY <1>2, <1>8, <2>1 DEF Served
  <2>3. CASE h \in Served
    <3>1. Cardinality(Served') = Cardinality(Served) - 1
      BY <1>2, <2>1, <2>3, ServedCount
    <3>2. k + Leaving' <= Cardinality(Served) - 1 + Lost'
      BY <1>1, <1>2, <1>3, <1>8, Zenon
    <3> QED
      BY <2>2, <3>1, <3>2 DEF Out
  <2>4. CASE h \notin Served
    <3>1. Served' = Served
      BY <2>1, <2>4
    <3>2. k + Leaving' <= Cardinality(Served) + Lost'
      <4>1. Leaving' + Lost <= Leaving + Lost'
        BY <1>8, <1>9, Zenon
      <4> QED
        BY <1>1, <1>2, <1>3, <4>1, Zenon
    <3> QED
      BY <2>2, <3>1, <3>2 DEF Out
  <2> QED
    BY <2>3, <2>4
<1> QED
  BY <1>5, <1>6, <1>7, <1>8

\* Once the last subnet is out, every host has one, and keeps it.
LEMMA AllServed ==
  ASSUME Enough, TypeOK, Out(Len(Subnets)) PROVE AllOut
<1>1. /\ Cardinality(Served) \in Nat /\ Cardinality(Hosts) \in Nat
      /\ Cardinality(Served) <= Cardinality(Hosts)
      /\ Cardinality(Served) >= Cardinality(Hosts) => Served = Hosts
  BY ServedCount DEF Served, Enough
<1>2. /\ kills \in Nat /\ kills <= MaxKills /\ errors \in Nat /\ errors <= MaxErrors
      /\ releases \in Nat /\ releases <= MaxReleases
      /\ MaxKills \in Nat /\ MaxErrors \in Nat /\ MaxReleases \in Nat
  BY NamesAssumption DEF TypeOK
<1>3. Len(Subnets) \in Nat /\ Leaving \in Nat
  BY SubnetsAssumption DEF Leaving
<1>4. /\ Len(Subnets) + Leaving <= Cardinality(Served) + (releases + kills + errors)
      /\ Cardinality(Hosts) + MaxKills + MaxErrors + MaxReleases <= Len(Subnets)
  BY DEF Enough, Out, Lost
<1>5. /\ Cardinality(Served) >= Cardinality(Hosts) /\ releases = MaxReleases
      /\ Leaving = 0
  BY <1>1, <1>2, <1>3, <1>4
<1> QED
  BY <1>1, <1>5 DEF AllOut

\* What a step does to the counts.
LEMMA CountsStep ==
  ASSUME TypeOK, NEW p \in Procs, ProcStep(p)
  PROVE  /\ Lost \in Nat /\ Lost' \in Nat /\ Leaving \in Nat /\ Leaving' \in Nat
         /\ Leaving' <= Leaving /\ Leaving' + Lost <= Leaving + Lost'
         /\ errors \in Nat /\ errors' \in Nat /\ errors' >= errors
         /\ releases' = releases
         /\ \A q \in Procs : Parting(q)' => Parting(q)
<1>1. /\ kills \in Nat /\ errors \in Nat /\ releases \in Nat
      /\ pc \in [Procs -> Locations]
  BY NamesAssumption DEF TypeOK
<1>2. /\ kills' \in Nat /\ errors' \in Nat /\ kills' >= kills /\ errors' >= errors
      /\ releases' = releases
  BY <1>1 DEF ProcStep, Add, Del, Release, Exit, FindByID, ReadError,
     WriteError, Kill, Error, counts, PoolStatus, PoolStatusAgain, InitPool,
     ReadHost, ReadPool, StorePool, StoreHost, StoreGateway, StoreHostPool,
     ReadGateway, ReadDev, ReadHostPool, StoreHostPoolTail, StoreDev,
     ReadDevToRelease, ReadHostPoolToRelease, ReturnAddress, DeleteDev,
     ReadHostToRelease, DeleteHost, DeleteGateway
<1>3. Parting(p)' => Parting(p)
  BY <1>1 DEF ProcStep, Add, Del, Release, Exit, FindByID, ReadError,
     WriteError, Kill, Forget, Goto, Succeed, Fail, TakeFrom, AppendTo, PoolStatus,
     PoolStatusAgain, InitPool, ReadHost, ReadPool, StorePool, StoreHost,
     StoreGateway, StoreHostPool, ReadGateway, ReadDev, ReadHostPool,
     StoreHostPoolTail, StoreDev, ReadDevToRelease, ReadHostPoolToRelease,
     ReturnAddress, DeleteDev, ReadHostToRelease, DeleteHost, DeleteGateway, Parting
<1>4. \A q \in Procs : q # p => (Parting(q)' <=> Parting(q))
  BY OthersLocals DEF Parting
<1>5. Leaving \in Nat /\ Leaving' \in Nat /\ Leaving' <= Leaving
  BY <1>3, <1>4 DEF Leaving
<1>6. Lost \in Nat /\ Lost' \in Nat /\ Lost <= Lost'
  <2>1. \A a, b, c, d, e \in Nat :
          /\ a + b + c \in Nat
          /\ d >= b /\ e >= c => a + b + c <= a + d + e
    OBVIOUS
  <2> QED
    BY <1>1, <1>2, <2>1, Zenon DEF Lost
<1>7. Leaving' + Lost <= Leaving + Lost'
  <2>1. \A a, b, c, d \in Nat : a <= b /\ c <= d => a + c <= b + d
    OBVIOUS
  <2> QED
    BY <1>5, <1>6, <2>1, Zenon
<1> QED
  BY <1>1, <1>2, <1>3, <1>4, <1>5, <1>6, <1>7

\* Where the pool stands.
Stage == AllOut \/ NotInitialised \/ \E k \in 0 .. Len(Subnets) : Given(k)

\* The same, if the process p is the only one that may be joining its host.
StageOf(p) ==
  \/ AllOut
  \/ pool = <<Empty>> /\ Served = {} /\ ~ Joining(p) /\ pc[p] # "host"
  \/ \E k \in 0 .. Len(Subnets) : Out(k) /\ pool = Left(k) /\ ~ Carries(p)
  \/ \E k \in 0 .. Len(Subnets) :
       /\ Out(k) /\ k < Len(Subnets) /\ pool = Left(k + 1)
       /\ Carries(p) /\ mem[p].item = Subnets[k + 1]

\* It is, before and after a step.
LEMMA StageIs ==
  ASSUME NEW p \in Procs
  PROVE  /\ (\A q \in Procs : q # p =>
               ~ Joining(q) /\ (Served = {} => pc[q] # "host"))
              => (Stage <=> StageOf(p))
         /\ (\A q \in Procs : q # p =>
               ~ Joining(q)' /\ (Served' = {} => pc'[q] # "host"))
              => (Stage' <=> StageOf(p)')
<1>1. ASSUME \A q \in Procs : q # p =>
               ~ Joining(q) /\ (Served = {} => pc[q] # "host")
      PROVE  Stage <=> StageOf(p)
  <2>1. \A q \in Procs : q # p => ~ Carries(q)
    BY <1>1 DEF Carries, Joining
  <2>2. \A k : Given(k) <=>
               \/ Out(k) /\ pool = Left(k) /\ ~ Carries(p)
               \/ /\ Out(k) /\ k < Len(Subnets) /\ pool = Left(k + 1)
                  /\ Carries(p) /\ mem[p].item = Subnets[k + 1]
    BY <2>1 DEF Given
  <2> QED
    BY <1>1, <2>2 DEF Stage, StageOf, NotInitialised
<1>2. ASSUME \A q \in Procs : q # p =>
               ~ Joining(q)' /\ (Served' = {} => pc'[q] # "host")
      PROVE  Stage' <=> StageOf(p)'
  <2>1. \A q \in Procs : q # p => ~ Carries(q)'
    BY <1>2 DEF Carries, Joining
  <2>2. \A k : Given(k)' <=>
               \/ Out(k)' /\ pool' = Left(k) /\ ~ Carries(p)'
               \/ /\ Out(k)' /\ k < Len(Subnets) /\ pool' = Left(k + 1)
                  /\ Carries(p)' /\ mem'[p].item = Subnets[k + 1]
    BY <2>1 DEF Given, Left
  <2> QED
    BY <1>2, <2>2 DEF Stage, StageOf, NotInitialised, Left
<1> QED
  BY <1>1, <1>2

\* While one process runs, no other is joining its host; and if another asks
\* for the pool, its host has a subnet.
LEMMA OthersServed ==
  ASSUME IInv, PoolInv, NEW p \in Procs, ProcStep(p)
  PROVE  \A q \in Procs : q # p =>
           /\ ~ Joining(q) /\ ~ Joining(q)'
           /\ pc[q] \in {"status", "recheck", "initput", "host"} =>
                /\ Here(q) \in Hosts /\ host[Here(q)] # Empty
                /\ host'[Here(q)] # Empty
<1>1. /\ pc[p] # "idle" /\ OnePerHost
      /\ \A q \in Procs : q # p =>
           pc'[q] = pc[q] /\ (pc[q] # "idle" => Here(q) \in Hosts /\ Here(q) # Here(p))
  BY Frame DEF PoolInv
<1>2. SUFFICES ASSUME NEW q \in Procs, q # p, pc[q] # "idle"
               PROVE  /\ ~ Joining(q)
                      /\ pc[q] \in {"status", "recheck", "initput", "host"} =>
                           host[Here(q)] # Empty /\ host'[Here(q)] # Empty
  BY <1>1 DEF Joining
<1>3. PoolOK(q) /\ Running # {q}
  BY <1>1, <1>2 DEF PoolInv, Running
<1>4. host'[Here(q)] = host[Here(q)]
  BY <1>1, <1>2, Frame
<1> QED
  BY <1>3, <1>4 DEF PoolOK

\* Once every subnet is out that ever will be, it stays so.
LEMMA AllOutStep ==
  ASSUME IInv, PoolInv, AllOut, NEW p \in Procs, ProcStep(p)
  PROVE  AllOut'
<1>0. TypeOK /\ pc[p] # "idle" /\ Here(p) \in Hosts
  BY Frame DEF IInv, PoolInv
<1>1. ~ StoreHost(p)
  BY <1>0 DEF PoolInv, PoolOK, Running, AllOut, Served, Joining, StoreHost
<1>2. ~ DeleteHost(p)
  BY DEF AllOut, Leaving, Parting, DeleteHost
<1>3. host' = host
  BY <1>1, <1>2
  DEF ProcStep, Add, PoolStatus, PoolStatusAgain, InitPool, ReadHost, ReadPool,
      StorePool, StoreGateway, StoreHostPool, ReadGateway, ReadDev, ReadHostPool,
      StoreHostPoolTail, StoreDev, Del, ReadDevToRelease, ReadHostPoolToRelease,
      ReturnAddress, DeleteDev, FindByID, Release, ReadHostToRelease,
      DeleteGateway, Exit, Kill, ReadError, WriteError, etcd
<1>4. releases' = releases /\ Leaving' = 0
  <2>1. Leaving' \in Nat /\ Leaving' <= 0
    BY <1>0, CountsStep DEF AllOut
  <2> QED
    BY <1>0, <2>1, CountsStep
<1> QED
  BY <1>3, <1>4 DEF AllOut, Served

\* What holds of the other processes stays so.
LEMMA OthersPool ==
  ASSUME IInv, PoolInv, NEW p \in Procs, ProcStep(p), NEW q \in Procs, q # p,
         pc[q] # "idle"
  PROVE  PoolOK(q)'
<1>1. /\ pc'[q] = pc[q] /\ Here(q)' = Here(q) /\ ~ Joining(q) /\ ~ Joining(q)'
      /\ TypeOK /\ PoolOK(q)
  BY Frame, OthersServed DEF PoolInv, Here, Running, IInv
<1>2. pc[q] \in {"status", "recheck", "initput", "host"} =>
        host'[Here(q)] # Empty /\ ~ NotInitialised
  BY OthersServed DEF NotInitialised, Served
<1>3. errors \in Nat /\ errors' \in Nat /\ errors' >= errors
  BY <1>1, CountsStep
<1>4. AllOut => AllOut'
  BY AllOutStep
<1>5. errors > 0 => errors' > 0
  BY <1>3
<1> QED
  BY <1>1, <1>2, <1>4, <1>5 DEF PoolOK, Joining

\* The steps that neither give a subnet out nor lose one on the way.
Bystander(p) ==
  /\ UNCHANGED <<pool, host>>
  /\ pc[p] # "hostput" /\ pc'[p] # "hostput"
  /\ pc'[p] \in {"status", "recheck", "initput", "host"} =>
       pc[p] \in {"status", "recheck"}
  /\ pc'[p] \in {"host2", "pool"} =>
       pc[p] \in {"host", "host2"} /\ host[Here(p)] = Empty
  /\ pc'[p] = "poolput" =>
       pc[p] = "pool" /\ mem'[p] = [list |-> Tail(pool), item |-> Head(pool)]
  /\ pc'[p] = "host" => pool # <<Empty>>
  /\ pc'[p] = "recheck" => pool = <<Empty>> \/ errors' > 0
  /\ pc'[p] = "initput" =>
       pc[p] = "recheck" /\ (pool = <<Empty>> \/ errors < MaxErrors)

\* Which steps there are.
LEMMA PoolSteps ==
  ASSUME IInv, NEW p \in Procs, ProcStep(p)
  PROVE  \/ InitPool(p) \/ StorePool(p) \/ StoreHost(p) \/ DeleteHost(p)
         \/ (WriteError(p) \/ Kill(p)) /\ pc[p] = "hostput"
         \/ Bystander(p)
<1>p. pc \in [Procs -> Locations] /\ mem \in [Procs -> [list : Seq(Item), item : Item]]
      /\ errors \in Nat
  BY NamesAssumption DEF IInv, TypeOK
<1> USE DEF Goto
<1>1. CASE PoolStatus(p) \/ PoolStatusAgain(p)
  <2>1. UNCHANGED <<pool, host>>
    BY <1>1 DEF PoolStatus, PoolStatusAgain, etcd
  <2> QED
    BY <1>p, <1>1, <2>1 DEF PoolStatus, PoolStatusAgain, Bystander
<1>2. CASE ReadHost(p) \/ ReadPool(p)
  <2>1. UNCHANGED <<pool, host>>
    BY <1>2 DEF ReadHost, ReadPool, etcd
  <2> QED
    BY <1>p, <1>2, <2>1 DEF ReadHost, ReadPool, Bystander
<1>3. CASE ReadError(p)
  <2>1. UNCHANGED <<pool, host>>
    BY <1>3 DEF ReadError, etcd
  <2> QED
    BY <1>p, <1>3, <2>1 DEF ReadError, Error, TakeFrom, AppendTo, Fail, Bystander
<1>4. CASE \/ StoreGateway(p) \/ StoreHostPool(p) \/ ReadGateway(p) \/ ReadDev(p)
           \/ ReadHostPool(p) \/ StoreHostPoolTail(p) \/ StoreDev(p) \/ FindByID(p)
           \/ Del(p) \/ Exit(p) \/ ReadHostToRelease(p) \/ DeleteGateway(p)
  <2>1. /\ UNCHANGED <<pool, host>> /\ pc[p] # "hostput"
        /\ pc'[p] \in {"hpoolput", "gw", "dev", "hpool", "hpooltail", "devput",
                       "rhpool", "rput", "rdel", "rhostdel", "exit", "idle"}
    BY <1>p, <1>4 DEF StoreGateway, StoreHostPool, ReadGateway, ReadDev,
       ReadHostPool, TakeFrom, StoreHostPoolTail, StoreDev, FindByID, Del,
       ReadDevToRelease, ReadHostPoolToRelease, AppendTo, ReturnAddress,
       DeleteDev, ReadHostToRelease, DeleteGateway, Exit, Forget, Succeed, Fail, etcd
  <2> QED
    BY <2>1 DEF Bystander
<1>5. CASE (WriteError(p) \/ Kill(p)) /\ pc[p] # "hostput"
  <2>1. /\ UNCHANGED <<pool, host>>
        /\ pc'[p] \in {"gw", "devput", "rdel", "exit", "idle"}
    BY <1>p, <1>5 DEF WriteError, Kill, Forget, Fail, etcd
  <2> QED
    BY <1>5, <2>1 DEF Bystander
<1> QED
  BY <1>1, <1>2, <1>3, <1>4, <1>5 DEF ProcStep, Add, Release

\* A step of a running process gives each subnet to one host, and loses one at
\* most when it fails.
LEMMA PoolStepOf ==
  ASSUME Enough, IInv, PoolInv, NEW p \in Procs, ProcStep(p)
  PROVE  SubnetsDistinct' /\ Stage' /\ (pc'[p] # "idle" => PoolOK(p)')
<1>0. TypeOK /\ OnePerHost /\ SubnetsDistinct /\ Stage
  BY DEF IInv, PoolInv, Stage
<1>p. /\ pc \in [Procs -> Locations] /\ DOMAIN req = Procs
      /\ mem \in [Procs -> [list : Seq(Item), item : Item]]
      /\ host \in [Hosts -> Name]
  BY <1>0 DEF TypeOK, Name
<1>n. /\ Len(Subnets) \in Nat /\ IsFiniteSet(Hosts)
      /\ Subnets # <<Empty>> /\ \A k \in 0 .. Len(Subnets) :
          /\ k < Len(Subnets) => k + 1 \in 0 .. Len(Subnets)
          /\ 0 \in 0 .. Len(Subnets)
  <2>1. Len(Subnets) \in Nat /\ IsFiniteSet(Hosts) /\ Len(Subnets) # 0
    BY SubnetsAssumption, EmptySeq DEF Enough
  <2>2. 0 \in 0 .. Len(Subnets) /\ 0 # Len(Subnets)
    BY <2>1
  <2> QED
    BY <2>1, <2>2, Lefts
<1> USE DEF Goto
<1>1. /\ pc[p] # "idle" /\ Here(p) \in Hosts /\ p \in Running /\ PoolOK(p)
      /\ pc'[p] # "idle" => req' = req
      /\ \A q \in Procs : q # p => pc'[q] = pc[q]
  BY <1>0, Frame DEF PoolInv, Running
<1>2. /\ Lost \in Nat /\ Lost' \in Nat /\ Leaving \in Nat /\ Leaving' \in Nat
      /\ Leaving' + Lost <= Leaving + Lost'
      /\ errors \in Nat /\ errors' \in Nat /\ errors' >= errors
  BY <1>0, CountsStep
<1>3. /\ \A q \in Procs : q # p => ~ Joining(q) /\ ~ Joining(q)'
      /\ Served = {} => \A q \in Procs : q # p => pc[q] # "host" /\ pc'[q] # "host"
      /\ Served' = {} => \A q \in Procs : q # p => pc'[q] # "host"
  BY <1>1, OthersServed DEF Served
<1>4. StageOf(p) /\ (StageOf(p)' => Stage')
  BY <1>0, <1>3, StageIs
<1>5. AllOut => AllOut'
  BY AllOutStep
<1>6. \A k \in 0 .. Len(Subnets) : Out(k) /\ host' = host => Out(k)'
  BY <1>n, <1>p, <1>2, OutStep
<1>7. Joining(p) => host[Here(p)] = Empty /\ Served # Hosts /\ ~ AllOut
  BY <1>1 DEF PoolOK, Served, AllOut
<1>8. \A k \in 0 .. Len(Subnets) : Out(k) /\ pool = Left(k) /\ pool = <<Empty>>
                                    => AllOut
  BY <1>0, AllServed, Lefts
<1>9. CASE Bystander(p)
  <2>1. /\ pool' = pool /\ host' = host /\ SubnetsDistinct' /\ Served' = Served
        /\ ~ Carries(p) /\ ~ Carries(p)'
    BY <1>0, <1>9 DEF Bystander, SubnetsDistinct, Served, Carries
  <2>2. ASSUME pool = <<Empty>>, ~ Joining(p), pc[p] # "host"
        PROVE  ~ Joining(p)' /\ pc'[p] # "host"
    BY <1>9, <2>2 DEF Bystander, Joining
  <2>3. StageOf(p)'
    BY <1>4, <1>5, <1>6, <2>1, <2>2 DEF StageOf, Left
  <2>4. ASSUME pool = <<Empty>>, pc[p] \in {"status", "recheck"},
               pc'[p] \in {"recheck", "initput"}
        PROVE  AllOut' \/ NotInitialised'
    <3>1. ~ Joining(p)' /\ pc'[p] # "host"
      BY <2>4 DEF Joining
    <3>2. CASE AllOut
      BY <1>5, <3>2
    <3>3. CASE Served = {}
      BY <1>1, <1>3, <2>1, <2>4, <3>1, <3>3 DEF NotInitialised
    <3> QED
      BY <1>4, <1>8, <2>1, <2>4, <3>2, <3>3 DEF StageOf
  <2>5. ASSUME pc'[p] # "idle" PROVE PoolOK(p)'
    <3>1. Here(p)' = Here(p) /\ host'[Here(p)] = host[Here(p)]
      BY <1>1, <2>1, <2>5 DEF Here
    <3>2. Joining(p)' => host[Here(p)] = Empty
      BY <1>1, <1>9 DEF Bystander, Joining, PoolOK
    <3>3. Joining(p)' \/ pc'[p] \in {"status", "recheck", "initput", "host"}
            => host[Here(p)] # Empty \/ Running' = {p}
      <4>1. Joining(p)' \/ pc'[p] \in {"status", "recheck", "initput", "host"}
              => host[Here(p)] # Empty \/ Running = {p}
        BY <1>1, <1>9 DEF Bystander, Joining, PoolOK
      <4>2. Running = {p} => Running' = {p}
        BY <1>1, <2>5 DEF Running
      <4> QED
        BY <4>1, <4>2
    <3>4. pc'[p] = "recheck" => AllOut' \/ NotInitialised' \/ errors' > 0
      BY <1>1, <1>9, <2>4 DEF Bystander
    <3>5. pc'[p] = "initput" => AllOut' \/ NotInitialised'
      <4>1. errors < MaxErrors => ~ (errors > 0)
        BY <1>2, NamesAssumption DEF Enough
      <4>2. pc'[p] = "initput" /\ pool # <<Empty>> => AllOut
        BY <1>1, <1>9, <4>1 DEF Bystander, PoolOK, NotInitialised
      <4> QED
        BY <1>5, <1>9, <2>4, <4>2 DEF Bystander
    <3> QED
      BY <1>9, <2>1, <3>1, <3>2, <3>3, <3>4, <3>5 DEF Bystander, PoolOK
  <2> QED
    BY <1>4, <2>1, <2>3, <2>5
<1>10. CASE InitPool(p)
  <2>1. /\ UNCHANGED <<host, req, mem>> /\ pool' = Subnets
        /\ pc[p] = "initput" /\ pc'[p] = "host"
    BY <1>p, <1>10 DEF InitPool
  <2>2. /\ ~ Joining(p)' /\ ~ Carries(p)' /\ Here(p)' = Here(p) /\ Served' = Served
        /\ SubnetsDistinct' /\ Running' = Running
    BY <1>0, <1>1, <2>1
    DEF Joining, Carries, Here, Served, SubnetsDistinct, Running
  <2>3. PoolOK(p)'
    BY <1>1, <2>1, <2>2 DEF PoolOK
  <2>4. ASSUME NotInitialised PROVE StageOf(p)'
    <3>1. host[Here(p)] = Empty /\ Running = {p}
      BY <1>1, <2>1, <2>4 DEF NotInitialised, PoolOK, Served
    <3>2. Leaving = 0
      BY <2>1, <3>1 DEF Leaving, Parting, Running
    <3>3. Out(0)
      <4>1. Cardinality({}) = 0 /\ 0 + 0 <= 0 + Lost
        BY <1>2, FS_EmptySet
      <4> QED
        BY <2>4, <3>2, <4>1 DEF Out, NotInitialised
    <3>4. Out(0)' /\ pool' = Left(0)
      BY <1>6, <1>n, <2>1, <3>3, Lefts
    <3> QED
      BY <1>n, <2>2, <3>4 DEF StageOf, Left
  <2>5. AllOut => StageOf(p)'
    BY <1>5 DEF StageOf
  <2> QED
    BY <1>1, <1>4, <2>1, <2>2, <2>3, <2>4, <2>5 DEF PoolOK
<1>11. CASE StorePool(p)
  <2>1. /\ UNCHANGED <<host, req, mem>>
        /\ pool' = Joined(mem[p].list) /\ pc[p] = "poolput" /\ pc'[p] = "hostput"
    BY <1>p, <1>11 DEF StorePool
  <2>2. /\ mem[p] = [list |-> Tail(pool), item |-> Head(pool)]
        /\ Joining(p) /\ ~ Carries(p) /\ Here(p)' = Here(p) /\ Served' = Served
        /\ SubnetsDistinct' /\ Running' = Running
    BY <1>0, <1>1, <2>1
    DEF PoolOK, Joining, Carries, Here, Served, SubnetsDistinct, Running
  <2>3. PICK k \in 0 .. Len(Subnets) : Out(k) /\ pool = Left(k)
    BY <1>4, <1>7, <2>2 DEF StageOf
  <2>4. k < Len(Subnets)
    <3>1. k # Len(Subnets)
      BY <1>7, <1>8, <2>2, <2>3, Lefts
    <3> QED
      BY <1>n, <3>1
  <2>5. /\ pool' = Left(k + 1) /\ mem'[p].item = Subnets[k + 1]
        /\ mem'[p].item # Empty
    BY <2>1, <2>2, <2>3, <2>4, Lefts
  <2>6. Out(k)' /\ Carries(p)'
    BY <1>6, <2>1, <2>3, <2>5 DEF Carries
  <2>7. StageOf(p)'
    BY <2>4, <2>5, <2>6 DEF StageOf, Left
  <2>8. PoolOK(p)'
    BY <1>1, <2>1, <2>2 DEF PoolOK, Joining
  <2> QED
    BY <1>4, <2>2, <2>7, <2>8
<1>12. CASE StoreHost(p)
  <2>1. /\ UNCHANGED <<pool, req, mem>>
        /\ host' = [host EXCEPT ![Here(p)] = mem[p].item] /\ pc[p] = "hostput"
        /\ pc'[p] \in {"exit", "gwput"}
    BY <1>p, <1>12 DEF StoreHost, Fail
  <2>2. Joining(p) /\ ~ Joining(p)' /\ ~ Carries(p)' /\ pc'[p] # "host"
    BY <2>1 DEF Joining, Carries
  <2>3. PoolOK(p)'
    BY <2>1, <2>2 DEF PoolOK
  <2>4. CASE mem[p].item = Empty
    <3>1. host' = host /\ ~ Carries(p) /\ Served' = Served
      BY <1>p, <1>7, <2>1, <2>2, <2>4 DEF Carries, Served
    <3>2. StageOf(p)' /\ SubnetsDistinct'
      BY <1>0, <1>4, <1>6, <1>7, <2>1, <2>2, <3>1
      DEF StageOf, SubnetsDistinct, Left
    <3> QED
      BY <1>4, <2>3, <3>2
  <2>5. CASE mem[p].item # Empty
    <3>1. Carries(p)
      BY <2>1, <2>5 DEF Carries
    <3>2. PICK k \in 0 .. Len(Subnets) :
            /\ Out(k) /\ k < Len(Subnets) /\ pool = Left(k + 1)
            /\ mem[p].item = Subnets[k + 1]
      BY <1>4, <1>7, <2>2, <3>1 DEF StageOf
    <3>3. Out(k + 1)' /\ pool' = Left(k + 1)
      BY <1>n, <1>p, <1>1, <1>2, <1>7, <2>1, <2>2, <2>5, <3>2, OutStep
    <3>4. \A g \in Hosts : host[g] # Subnets[k + 1]
      <4>1. ASSUME NEW g \in Hosts, host[g] = Subnets[k + 1] PROVE FALSE
        <5>1. PICK i \in 1 .. k : host[g] = Subnets[i]
          BY <2>5, <3>2, <4>1 DEF Out, Served
        <5>2. i \in DOMAIN Subnets /\ k + 1 \in DOMAIN Subnets /\ i # k + 1
          BY <1>n, <3>2, SubnetsAssumption
        <5> QED
          BY <4>1, <5>1, <5>2, SubnetsAssumption
      <4> QED
        BY <4>1
    <3>5. SubnetsDistinct'
      BY <1>p, <1>0, <1>1, <2>1, <3>2, <3>4 DEF SubnetsDistinct
    <3>6. StageOf(p)'
      BY <1>n, <2>2, <3>2, <3>3 DEF StageOf, Left
    <3> QED
      BY <1>4, <2>3, <3>5, <3>6
  <2> QED
    BY <2>4, <2>5
<1>13. CASE DeleteHost(p)
  <2>1. /\ UNCHANGED <<pool, req, mem>> /\ host' = [host EXCEPT ![Here(p)] = Empty]
        /\ pc[p] = "rhostdel" /\ pc'[p] = "rgwdel" /\ UNCHANGED counts
    BY <1>p, <1>13 DEF DeleteHost
  <2>2. ~ Carries(p) /\ ~ Carries(p)' /\ ~ Joining(p)' /\ ~ AllOut /\ Parting(p)
    BY <2>1 DEF Carries, Joining, AllOut, Leaving, Parting
  <2>3. Leaving = 1 /\ Leaving' = 0 /\ Lost' = Lost
    <3>1. \A q \in Procs : ~ Parting(q)'
      BY <1>1, <2>1, <2>2 DEF PoolInv, Parting, Running
    <3> QED
      BY <2>1, <2>2, <3>1 DEF Leaving, Lost, counts
  <2>4. \A k \in 0 .. Len(Subnets) : Out(k) => Out(k)'
    <3>1. Leaving' + Lost + 1 <= Leaving + Lost'
      BY <1>2, <2>3
    <3> QED
      BY <1>n, <1>p, <1>1, <1>2, <2>1, <3>1, OutStep
  <2>5. Served = {} => Served' = {}
    BY <1>p, <2>1 DEF Served
  <2>6. StageOf(p)'
    BY <1>4, <2>1, <2>2, <2>4, <2>5 DEF StageOf, Left
  <2>7. SubnetsDistinct' /\ PoolOK(p)'
    BY <1>p, <1>0, <2>1, <2>2 DEF SubnetsDistinct, PoolOK
  <2> QED
    BY <1>4, <2>6, <2>7
<1>14. CASE (WriteError(p) \/ Kill(p)) /\ pc[p] = "hostput"
  <2>1. /\ UNCHANGED <<pool, host, releases>> /\ pc'[p] \in {"exit", "idle"}
        /\ \/ kills' = kills + 1 /\ errors' = errors
           \/ kills' = kills /\ errors' = errors + 1
    BY <1>p, <1>14 DEF WriteError, Kill, Error, Fail, Forget, etcd
  <2>2. ~ Joining(p)' /\ ~ Carries(p)' /\ Served' = Served /\ Joining(p)
    BY <1>14, <2>1 DEF Joining, Carries, Served
  <2>3. Leaving' = Leaving
    <3>1. \A q \in Procs : Parting(q)' <=> Parting(q)
      BY <1>1, <1>14, <2>1 DEF Parting
    <3> QED
      BY <3>1 DEF Leaving
  <2>4. Leaving' + Lost + 1 <= Leaving + Lost'
    <3>1. /\ kills \in Nat /\ errors \in Nat /\ releases \in Nat
      BY <1>0, NamesAssumption DEF TypeOK
    <3>2. Lost' = Lost + 1
      BY <2>1, <3>1 DEF Lost
    <3> QED
      BY <1>2, <2>3, <3>2
  <2>5. \A k \in 0 .. Len(Subnets) : Out(k) => Out(k)' /\ Out(k + 1)'
    BY <1>n, <1>p, <1>2, <1>6, <2>1, <2>4, OutStep
  <2>6. StageOf(p)' /\ SubnetsDistinct' /\ PoolOK(p)'
    BY <1>n, <1>0, <1>4, <1>7, <2>1, <2>2, <2>5
    DEF StageOf, SubnetsDistinct, PoolOK, Left
  <2> QED
    BY <1>4, <2>6
<1> QED
  BY <1>9, <1>10, <1>11, <1>12, <1>13, <1>14, PoolSteps

\* Each subnet goes to one host, whatever steps are taken.
LEMMA PoolStep ==
  ASSUME Enough, IInv, PoolInv, [Next]_vars PROVE PoolInv'
<1>0. TypeOK /\ Overlap # "all" /\ OnePerHost
  BY DEF IInv, Enough, PoolInv
<1>p. pc \in [Procs -> Locations] /\ DOMAIN req = Procs
  BY <1>0 DEF TypeOK
<1>h. OnePerHost'
  BY <1>0, OnePerHostStep
<1>1. ASSUME NEW p \in Procs, NEW cmd \in Commands, NEW h \in Hosts,
             NEW d \in Devices, Call(p, cmd, h, d)
      PROVE  PoolInv'
  <2>1. /\ UNCHANGED <<pool, host, gateway, mem, kills, errors>> /\ pc[p] = "idle"
        /\ \A q \in Procs : q # p => pc'[q] = pc[q] /\ req'[q] = req[q]
        /\ Running = {} \/ \A g \in Hosts : host[g] # Empty
        /\ Here(p)' = h /\ pc'[p] \in {"status", "rdev", "cdev", "rhost"}
    BY <1>0, <1>p, <1>1, NamesAssumption DEF Call, etcd, MayStart, Goto, Here
  <2>2. /\ ~ Joining(p) /\ ~ Joining(p)' /\ ~ Carries(p) /\ ~ Carries(p)'
        /\ pc[p] # "host" /\ pc'[p] # "host" /\ Served' = Served
        /\ \A q \in Procs : /\ Joining(q)' <=> Joining(q)
                            /\ Carries(q)' <=> Carries(q)
    BY <2>1 DEF Joining, Carries, Served
  <2>3. \/ Leaving' = Leaving /\ releases' = releases
        \/ /\ Running = {} /\ Leaving = 0 /\ Leaving' = 1 /\ releases' = releases + 1
           /\ releases < MaxReleases
    <3>1. CASE cmd = "RELEASE"
      <4>1. /\ Running = {} /\ releases' = releases + 1 /\ pc'[p] = "rhost"
            /\ releases < MaxReleases
        BY <1>p, <1>1, <3>1 DEF Call, Goto
      <4>2. Leaving = 0 /\ Leaving' = 1
        BY <4>1 DEF Leaving, Parting, Running
      <4> QED
        BY <4>1, <4>2
    <3>2. CASE cmd # "RELEASE"
      <4>1. releases' = releases /\ pc'[p] # "rhost"
        BY <1>p, <1>1, <3>2, NamesAssumption DEF Call, Goto
      <4>2. \A q \in Procs : Parting(q)' <=> Parting(q)
        BY <2>1, <4>1 DEF Parting
      <4> QED
        BY <4>1, <4>2 DEF Leaving
    <3> QED
      BY <3>1, <3>2
  <2>4. /\ Lost \in Nat /\ Lost' \in Nat /\ Leaving \in Nat /\ Leaving' \in Nat
        /\ Leaving' + Lost <= Leaving + Lost'
    <3>1. kills \in Nat /\ errors \in Nat /\ releases \in Nat /\ Leaving \in Nat
      BY <1>0, NamesAssumption DEF TypeOK, Leaving
    <3>2. Lost \in Nat /\ Lost' = releases' + kills + errors
      BY <2>1, <3>1 DEF Lost
    <3> QED
      BY <2>3, <3>1, <3>2 DEF Lost
  <2>5. \A k \in 0 .. Len(Subnets) : Out(k) => Out(k)'
    BY <1>0, <2>1, <2>4, OutStep DEF Enough, TypeOK
  <2>6. \A k \in 0 .. Len(Subnets) : Given(k) => Given(k)'
    BY <2>1, <2>2, <2>5 DEF Given, Left
  <2>7. NotInitialised => NotInitialised'
    BY <2>1, <2>2 DEF NotInitialised
  <2>8. AllOut => AllOut'
    <3>1. releases < MaxReleases => releases # MaxReleases
      BY <1>0, NamesAssumption DEF TypeOK
    <3> QED
      BY <2>2, <2>3, <3>1 DEF AllOut
  <2>9. ASSUME NEW q \in Running' PROVE PoolOK(q)'
    <3>1. CASE q = p
      <4>1. host'[h] # Empty \/ Running' = {p}
        BY <2>1 DEF Running
      <4> QED
        BY <2>1, <2>2, <3>1, <4>1 DEF PoolOK
    <3>2. CASE q # p
      <4>0. q \in Procs /\ pc[q] # "idle"
        BY <2>1, <2>9, <3>2 DEF Running
      <4>1. PoolOK(q) /\ Here(q) \in Hosts /\ host[Here(q)] # Empty
        BY <2>1, <4>0, RunningHost DEF PoolInv, Running, IInv
      <4>2. Here(q)' = Here(q) /\ pc'[q] = pc[q] /\ mem'[q] = mem[q]
        BY <2>1, <3>2, <4>0 DEF Here
      <4> QED
        BY <2>1, <2>2, <2>7, <2>8, <4>0, <4>1, <4>2 DEF PoolOK
    <3> QED
      BY <3>1, <3>2
  <2>10. \A q, r \in Running' : Parting(q)' /\ Parting(r)' => q = r
    <3>1. CASE pc'[p] = "rhost"
      <4>1. Running = {}
        BY <1>p, <1>1, <3>1, NamesAssumption DEF Call, Goto
      <4> QED
        BY <2>1, <4>1 DEF Running
    <3>2. CASE pc'[p] # "rhost"
      BY <2>1, <3>2 DEF PoolInv, Parting, Running
    <3> QED
      BY <3>1, <3>2
  <2> QED
    BY <1>h, <2>1, <2>6, <2>7, <2>8, <2>9, <2>10 DEF PoolInv, SubnetsDistinct
<1>2. ASSUME NEW p \in Procs, ProcStep(p)
      PROVE  PoolInv'
  <2>1. /\ \A q \in Running' : PoolOK(q)'
        /\ SubnetsDistinct' /\ Stage'
    <3>1. ASSUME NEW q \in Running', q # p PROVE PoolOK(q)'
      <4>1. pc[q] # "idle"
        BY <1>0, <1>2, <3>1, OthersLocals DEF Running
      <4> QED
        BY <1>2, <3>1, <4>1, OthersPool DEF Running
    <3> QED
      BY <1>2, <3>1, PoolStepOf DEF Running
  <2>2. \A q, r \in Running' : Parting(q)' /\ Parting(r)' => q = r
    BY <1>0, <1>2, CountsStep DEF PoolInv, Running, Parting
  <2> QED
    BY <1>h, <2>1, <2>2 DEF PoolInv, Stage
<1>3. CASE UNCHANGED vars
  <2>1. UNCHANGED <<pool, host, pc, req, mem, kills, errors, releases>>
    BY <1>3 DEF vars, counts
  <2>2. (\A k : Given(k)' <=> Given(k)) /\ (AllOut' <=> AllOut)
        /\ (NotInitialised' <=> NotInitialised)
    BY <2>1 DEF Given, Out, Served, Carries, Left, AllOut, Leaving, Parting, Lost,
       NotInitialised, Joining
  <2> QED
    BY <1>h, <2>1, <2>2 DEF PoolInv, PoolOK, SubnetsDistinct, Running, Joining, Here,
       Parting
<1> QED
  BY <1>1, <1>2, <1>3 DEF Next, ProcStep

\* No two hosts get the same subnet, where the calls on a host do not overlap,
\* hosts join one after the other, one request at most fails, and there are
\* subnets for all hosts and for those that failures and releases lose.
THEOREM SubnetsGivenOnce ==
  ASSUME Enough PROVE Spec => []SubnetsDistinct
<1>1. Init => PoolInv
  BY DEF Init, PoolInv, SubnetsDistinct, OnePerHost, Running, Joining,
     NotInitialised, Served
<1>2. IInv /\ PoolInv /\ [Next]_vars => PoolInv'
  BY PoolStep
<1>3. PoolInv => SubnetsDistinct
  BY DEF PoolInv
<1> QED
  BY <1>1, <1>2, <1>3, Invariant, PTL DEF Spec

-----------------------------------------------------------------------------
(* One table of addresses *)

\* What is proved of the hosts and of the subnets, and what follows for the
\* devices, where nothing fails.
TableInv == HostsInv /\ PoolInv /\ HeldInv

\* Devices of a host whose addresses are in balance are in its subnet, and no
\* two of them have the same address.
LEMMA BalancedHeld ==
  ASSUME NEW free, NEW held, NEW s, Balanced(free, held, s), DOMAIN held = Devices
  PROVE  \A c, d \in Devices : held[d] # Empty =>
           held[d] \in UsableOf(s) /\ (held[c] = held[d] => c = d)
<1>1. \A d \in Devices : held[d] \in UsableOf(s) \cup {Empty}
  BY BalancedIn
<1>2. \A a \in UsableOf(s) : \A c, d \in Devices : held[c] = a /\ held[d] = a => c = d
  BY BalancedPlaces
<1> QED
  BY <1>1, <1>2

\* What HeldInv says of one host.
HeldOn(h) ==
  \A c, d \in Devices : dev[h][d] # Empty =>
    /\ host[h] # Empty /\ dev[h][d] \in UsableOf(host[h])
    /\ dev[h][c] = dev[h][d] => c = d

\* HeldInv, host by host.
LEMMA HeldIs == HeldInv <=> \A h \in Hosts : HeldOn(h)
BY DEF HeldInv, DevicesInSubnet, DevicesDistinct, HeldOn, Usable, UsableOf

\* The same, after a step.
LEMMA HeldIsNext == HeldInv' <=> (\A h \in Hosts : HeldOn(h))'
BY HeldIs, PTL

\* A step leaves the devices of the process's host with addresses of their
\* own.
LEMMA HeldStepOf ==
  ASSUME MaxKills = 0, MaxErrors = 0, IInv, HostsInv, HeldInv,
         NEW p \in Procs, ProcStep(p), NEW h \in Hosts, h = Here(p)
  PROVE  HeldOn(h)'
<1>0. TypeOK /\ CallsInv
  BY DEF IInv
<1>p. /\ pc \in [Procs -> Locations] /\ DOMAIN req = Procs
      /\ host \in [Hosts -> Name] /\ dev \in [Hosts -> [Devices -> AddrOrNone]]
      /\ kills = 0 /\ errors = 0
  BY <1>0 DEF TypeOK, AddrOrNone, Name
<1>1. pc[p] # "idle" /\ Device(p) \in Devices
  BY <1>0, Frame DEF HostsInv
<1>2. Order(pc[p], host[h], gateway[h], hostPool[h], dev[h], Device(p), mem[p])
  BY <1>1, OrderIs DEF HostsInv, Running
<1>3. HeldOn(h)
  BY HeldIs
<1>4. \A g, l : (g = host'[h] /\ l = dev'[h] /\ DOMAIN l = Devices /\ g # Empty
                   /\ \E f : Balanced(f, l, g)) => HeldOn(h)'
  BY BalancedHeld DEF HeldOn, UsableOf
<1>5. CASE StoreDev(p)
  <2>1. /\ pc[p] = "devput" /\ host' = host
        /\ dev'[h] = [dev[h] EXCEPT ![Device(p)] = mem[p].item]
    BY <1>p, <1>5 DEF StoreDev, Device
  <2>2. Balanced(hostPool[h], dev'[h], host'[h]) /\ host'[h] # Empty
    BY <1>2, <2>1 DEF Order
  <2>3. DOMAIN dev'[h] = Devices
    BY <1>p, <2>1
  <2> QED
    BY <1>4, <2>2, <2>3
<1>6. CASE DeleteDev(p)
  <2>1. /\ pc[p] = "rdel" /\ host' = host
        /\ dev'[h] = [dev[h] EXCEPT ![Device(p)] = Empty]
    BY <1>p, <1>6 DEF DeleteDev, Device
  <2>2. Balanced(hostPool[h], dev'[h], host'[h]) /\ host'[h] # Empty
    BY <1>2, <2>1 DEF Order
  <2>3. DOMAIN dev'[h] = Devices
    BY <1>p, <2>1
  <2> QED
    BY <1>4, <2>2, <2>3
<1>7. CASE StoreHost(p)
  <2>1. pc[p] = "hostput" /\ dev' = dev
    BY <1>7 DEF StoreHost
  <2>2. host[h] = Empty
    BY <1>2, <2>1 DEF Order
  <2>3. \A d \in Devices : dev'[h][d] = Empty
    BY <1>3, <2>1, <2>2 DEF HeldOn
  <2> QED
    BY <2>3 DEF HeldOn
<1>8. CASE DeleteHost(p)
  <2>1. pc[p] = "rhostdel" /\ dev' = dev
    BY <1>8 DEF DeleteHost
  <2>2. dev[h] = NoDevices
    BY <1>2, <2>1 DEF Order
  <2>3. \A d \in Devices : dev'[h][d] = Empty
    BY <2>1, <2>2 DEF NoDevices
  <2> QED
    BY <2>3 DEF HeldOn
<1>9. CASE ~ StoreDev(p) /\ ~ DeleteDev(p) /\ ~ StoreHost(p) /\ ~ DeleteHost(p)
  <2>1. dev' = dev /\ host' = host
    BY <1>p, <1>9
    DEF ProcStep, Add, PoolStatus, PoolStatusAgain, InitPool, ReadHost, ReadPool,
        StorePool, StoreGateway, StoreHostPool, ReadGateway, ReadDev,
        ReadHostPool, StoreHostPoolTail, Del, ReadDevToRelease,
        ReadHostPoolToRelease, ReturnAddress, FindByID, Release,
        ReadHostToRelease, DeleteGateway, Exit, Kill, ReadError,
        WriteError, etcd
  <2> QED
    BY <1>3, <2>1 DEF HeldOn, UsableOf
<1> QED
  BY <1>5, <1>6, <1>7, <1>8, <1>9

\* So does every step, on every host.
LEMMA HeldStep ==
  ASSUME MaxKills = 0, MaxErrors = 0, IInv, HostsInv, HeldInv, [Next]_vars
  PROVE  HeldInv'
<1>0. TypeOK
  BY DEF IInv
<1> SUFFICES ASSUME NEW h \in Hosts PROVE HeldOn(h)'
  BY HeldIsNext
<1>1. HeldOn(h)
  BY HeldIs
<1>2. ASSUME dev'[h] = dev[h], host'[h] = host[h] PROVE HeldOn(h)'
  BY <1>1, <1>2 DEF HeldOn, UsableOf
<1>3. ASSUME NEW p \in Procs, NEW cmd \in Commands, NEW g \in Hosts,
             NEW d \in Devices, Call(p, cmd, g, d)
      PROVE  HeldOn(h)'
  BY <1>2, <1>3 DEF Call, etcd
<1>4. ASSUME NEW p \in Procs, ProcStep(p) PROVE HeldOn(h)'
  BY <1>0, <1>2, <1>4, HeldStepOf, OthersKeys
<1>5. CASE UNCHANGED vars
  BY <1>2, <1>5 DEF vars
<1> QED
  BY <1>3, <1>4, <1>5 DEF Next, ProcStep

\* Without failures and with subnets enough, TableInv is an invariant.
LEMMA TableInvariant ==
  ASSUME Enough, MaxKills = 0, MaxErrors = 0 PROVE Spec => []TableInv
<1>1. Init => TableInv
  <2>1. Init => PoolInv
    BY DEF Init, PoolInv, SubnetsDistinct, OnePerHost, Running, Joining,
       NotInitialised, Served
  <2>2. Init => HeldInv
    BY DEF Init, HeldInv, DevicesInSubnet, DevicesDistinct
  <2> QED
    BY <2>1, <2>2, HostsInitially DEF TableInv
<1>2. IInv /\ TableInv /\ [Next]_vars => TableInv'
  BY HostsStep, PoolStep, HeldStep DEF TableInv, Enough
<1> QED
  BY <1>1, <1>2, Invariant, PTL DEF Spec

\* Where calls of one host do not overlap and nothing fails, no device has an
\* address outside its host's subnet, even when hosts are released and join
\* again.
THEOREM DevicesKept ==
  ASSUME Overlap # "all", MaxKills = 0, MaxErrors = 0
  PROVE  Spec => [](DevicesInSubnet /\ DevicesDistinct)
<1>1. Init => HeldInv
  BY DEF Init, HeldInv, DevicesInSubnet, DevicesDistinct
<1>2. IInv /\ HostsInv /\ HeldInv /\ [Next]_vars => HeldInv'
  BY HeldStep
<1>3. HeldInv => DevicesInSubnet /\ DevicesDistinct
  BY DEF HeldInv
<1> QED
  BY <1>1, <1>2, <1>3, HostsInOrder, Invariant, PTL DEF Spec

OwnerIs ==
  \A a \in Assignable :
    /\ \A c \in Holders : dev[c[1]][c[2]] = a => Owner[a] = c
    /\ (\A c \in Holders : dev[c[1]][c[2]] # a) => Owner[a] = Nobody

\* In the whole cluster an address is at one device: the devices of a host
\* differ, and so do the subnets of hosts.
LEMMA OneHolder == TypeOK /\ HeldInv /\ SubnetsDistinct => OwnerIs
<1> SUFFICES ASSUME TypeOK, HeldInv, SubnetsDistinct, NEW a \in Assignable
             PROVE  /\ \A c \in Holders : dev[c[1]][c[2]] = a => Owner[a] = c
                    /\ (\A c \in Holders : dev[c[1]][c[2]] # a) => Owner[a] = Nobody
  BY DEF OwnerIs
<1>0. a # Empty
  <2>1. a \in Addresses
    BY SubnetsAssumption DEF Assignable, Addresses
  <2> QED
    BY <2>1, EmptyAssumption
<1>1. ASSUME NEW g \in Hosts, NEW h \in Hosts, NEW c \in Devices, NEW d \in Devices,
             dev[g][c] = a, dev[h][d] = a
      PROVE  g = h /\ c = d
  <2>1. /\ host[g] # Empty /\ host[h] # Empty
        /\ a \in UsableOf(host[g]) /\ a \in UsableOf(host[h])
    BY <1>0, <1>1, HeldIs DEF HeldOn
  <2>2. host[g] = host[h]
    BY <2>1 DEF UsableOf, Addr
  <2>3. g = h
    BY <2>1, <2>2 DEF SubnetsDistinct
  <2> QED
    BY <1>0, <1>1, <2>3 DEF HeldInv, DevicesDistinct
<1>2. \A c, e \in Holders :
        dev[c[1]][c[2]] = a /\ dev[e[1]][e[2]] = a => c = e
  BY <1>1 DEF Holders
<1>3. Owner[a] = IF \E c \in Holders : dev[c[1]][c[2]] = a
                   THEN CHOOSE c \in Holders : dev[c[1]][c[2]] = a
                   ELSE Nobody
  BY DEF Owner
<1> QED
  BY <1>2, <1>3

\* The same, after a step.
LEMMA OneHolderNext == TypeOK' /\ HeldInv' /\ SubnetsDistinct' => OwnerIs'
BY OneHolder, PTL

\* A host has a name, so nobody is no device.
LEMMA NobodyHolds == Nobody \notin Holders
BY NamesAssumption DEF Nobody, Holders

\* Who holds an address depends on the devices' keys only.
LEMMA OwnerStays ==
  ASSUME \A h \in Hosts, d \in Devices : dev'[h][d] = dev[h][d]
  PROVE  Owner' = Owner
<1>1. \A c \in Holders : dev'[c[1]][c[2]] = dev[c[1]][c[2]]
  BY DEF Holders
<1>2. \A a \in Assignable :
        /\ (\E c \in Holders : dev'[c[1]][c[2]] = a)
              <=> (\E c \in Holders : dev[c[1]][c[2]] = a)
        /\ (CHOOSE c \in Holders : dev'[c[1]][c[2]] = a)
              = (CHOOSE c \in Holders : dev[c[1]][c[2]] = a)
  BY <1>1
<1> QED
  BY <1>2 DEF Owner

\* A device's address is taken or given back: one entry of the table changes.
LEMMA OwnerChanges ==
  ASSUME OwnerIs, OwnerIs', TypeOK, NEW p \in Procs, ProcStep(p),
         Here(p) \in Hosts, Device(p) \in Devices,
         NEW a \in Assignable
  PROVE  LET c == <<Here(p), Device(p)>>
         IN  /\ DevAddr(p) = Empty /\ dev'[Here(p)][Device(p)] = a
                  => Owner' = [Owner EXCEPT ![a] = c]
             /\ DevAddr(p) = a /\ dev'[Here(p)][Device(p)] = Empty
                  => Owner' = [Owner EXCEPT ![a] = Nobody]
<1> DEFINE c == <<Here(p), Device(p)>>
<1>0. c \in Holders
  BY DEF Holders
<1>1. \A e \in Holders : e # c => dev'[e[1]][e[2]] = dev[e[1]][e[2]]
  <2> SUFFICES ASSUME NEW h \in Hosts, NEW d \in Devices, <<h, d>> # c
               PROVE  dev'[h][d] = dev[h][d]
    BY DEF Holders
  <2> QED
    BY OthersDevices
<1>2. Empty \notin Assignable
  <2>1. Assignable \subseteq Addresses
    BY SubnetsAssumption DEF Assignable, Addresses
  <2> QED
    BY <2>1, EmptyAssumption
<1>3. DOMAIN Owner = Assignable /\ DOMAIN Owner' = Assignable
  BY DEF Owner
<1>4. Owner = [b \in Assignable |-> Owner[b]] /\ Owner' = [b \in Assignable |-> Owner'[b]]
  BY DEF Owner
<1>5. ASSUME NEW b \in Assignable, b # dev[c[1]][c[2]], b # dev'[c[1]][c[2]]
      PROVE  Owner'[b] = Owner[b]
  <2>1. CASE \E e \in Holders : dev[e[1]][e[2]] = b
    <3>1. PICK e \in Holders : dev[e[1]][e[2]] = b
      BY <2>1
    <3>2. dev'[e[1]][e[2]] = b
      BY <1>1, <1>5, <3>1
    <3> QED
      BY <3>1, <3>2 DEF OwnerIs
  <2>2. CASE \A e \in Holders : dev[e[1]][e[2]] # b
    <3>1. \A e \in Holders : dev'[e[1]][e[2]] # b
      BY <1>1, <1>5, <2>2
    <3> QED
      BY <2>2, <3>1 DEF OwnerIs
  <2> QED
    BY <2>1, <2>2
<1>6. ASSUME DevAddr(p) = Empty, dev'[Here(p)][Device(p)] = a
      PROVE  Owner' = [Owner EXCEPT ![a] = c]
  <2>1. Owner'[a] = c
    BY <1>0, <1>6 DEF OwnerIs
  <2>2. \A b \in Assignable : b # a => Owner'[b] = Owner[b]
    BY <1>2, <1>5, <1>6 DEF DevAddr
  <2> QED
    BY <1>3, <1>4, <2>1, <2>2
<1>7. ASSUME DevAddr(p) = a, dev'[Here(p)][Device(p)] = Empty
      PROVE  Owner' = [Owner EXCEPT ![a] = Nobody]
  <2>1. \A e \in Holders : dev'[e[1]][e[2]] # a
    <3> SUFFICES ASSUME NEW e \in Holders, dev'[e[1]][e[2]] = a PROVE FALSE
      OBVIOUS
    <3>1. e # c
      BY <1>2, <1>7
    <3>2. dev[e[1]][e[2]] = a /\ dev[c[1]][c[2]] = a
      BY <1>1, <1>7, <3>1 DEF DevAddr
    <3> QED
      BY <1>0, <3>1, <3>2 DEF OwnerIs
  <2>2. Owner'[a] = Nobody
    BY <2>1 DEF OwnerIs
  <2>3. \A b \in Assignable : b # a => Owner'[b] = Owner[b]
    BY <1>2, <1>5, <1>7 DEF DevAddr
  <2> QED
    BY <1>3, <1>4, <2>2, <2>3
<1> QED
  BY <1>6, <1>7

\* Every step is one of the table's or none: a reservation where the device's
\* key is stored, a release where it is deleted.
LEMMA AbstractStep ==
  ASSUME IInv, IInv', TableInv, TableInv', [Next]_vars
  PROVE  [Abstract!Next]_(Abstract!vars)
<1>0. TypeOK /\ CallsInv /\ TypeOK'
  BY DEF IInv
<1>1. OwnerIs /\ OwnerIs'
  BY <1>0, OneHolder, OneHolderNext DEF TableInv, PoolInv
<1>2. ASSUME dev' = dev PROVE [Abstract!Next]_(Abstract!vars)
  BY <1>2, OwnerStays DEF Abstract!vars
<1>3. ASSUME NEW p \in Procs, ProcStep(p), dev' # dev
      PROVE  [Abstract!Next]_(Abstract!vars)
  <2>1. StoreDev(p) \/ DeleteDev(p)
    BY <1>3
    DEF ProcStep, Add, PoolStatus, PoolStatusAgain, InitPool, ReadHost, ReadPool,
        StorePool, StoreHost, StoreGateway, StoreHostPool, ReadGateway, ReadDev,
        ReadHostPool, StoreHostPoolTail, Del, ReadDevToRelease,
        ReadHostPoolToRelease, ReturnAddress, FindByID, Release,
        ReadHostToRelease, DeleteHost, DeleteGateway, Exit, Kill, ReadError,
        WriteError, etcd
  <2>2. pc[p] # "idle"
    BY <2>1 DEF StoreDev, DeleteDev
  <2>3. Here(p) \in Hosts /\ Device(p) \in Devices
    BY <1>0, <2>2, RunningHost
  <2> DEFINE c == <<Here(p), Device(p)>>
             a == mem[p].item
             kept == \A h \in Hosts, d \in Devices : dev'[h][d] = dev[h][d]
  <2>4. c \in Holders
    BY <2>3 DEF Holders
  <2>5. dev \in [Hosts -> [Devices -> AddrOrNone]]
    BY <1>0 DEF TypeOK, AddrOrNone
  <2>6. ASSUME dev'[Here(p)][Device(p)] = DevAddr(p) PROVE [Abstract!Next]_(Abstract!vars)
    <3>1. kept
      BY <1>0, <1>3, <2>6, OthersDevices DEF DevAddr
    <3> QED
      BY <3>1, OwnerStays DEF Abstract!vars
  <2>7. ASSUME NEW h \in Hosts, dev[h][Device(p)] # Empty
        PROVE  dev[h][Device(p)] \in Assignable
    <3>1. host[h] # Empty /\ dev[h][Device(p)] \in UsableOf(host[h])
      BY <2>3, <2>7, HeldIs DEF TableInv, HeldOn
    <3>2. host[h] \in Range(Subnets)
      BY <1>0, <3>1 DEF TypeOK
    <3> QED
      BY <3>1, <3>2 DEF UsableOf, Assignable
  <2>8. CASE StoreDev(p)
    <3>1. dev'[Here(p)][Device(p)] = a /\ DevAddr(p) = Empty
      BY <1>0, <2>3, <2>5, <2>8 DEF StoreDev, Device, CallsInv
    <3>2. CASE a = Empty
      BY <2>6, <3>1, <3>2
    <3>3. CASE a # Empty
      <4>1. a \in Assignable
        <5>1. ASSUME NEW h \in Hosts, h = Here(p)
              PROVE  host'[h] # Empty /\ a \in UsableOf(host'[h])
          <6>1. HeldOn(h)'
            BY HeldIsNext DEF TableInv
          <6>2. dev'[h][Device(p)] = a
            BY <3>1, <5>1
          <6> QED
            BY <2>3, <3>3, <6>1, <6>2 DEF HeldOn, UsableOf
        <5>2. host'[Here(p)] # Empty /\ a \in UsableOf(host'[Here(p)])
          BY <2>3, <5>1
        <5>3. host'[Here(p)] \in Range(Subnets)
          BY <1>0, <2>3, <5>2 DEF TypeOK
        <5> QED
          BY <5>2, <5>3 DEF UsableOf, Assignable
      <4>2. Owner[a] = Nobody
        <5> SUFFICES ASSUME NEW e \in Holders, dev[e[1]][e[2]] = a PROVE FALSE
          BY <1>1, <4>1 DEF OwnerIs
        <5>1. e # c
          BY <3>1, <3>3 DEF DevAddr
        <5>2. dev'[e[1]][e[2]] = a
          BY <1>0, <1>3, <5>1, OthersDevices DEF Holders
        <5>3. dev'[c[1]][c[2]] = a
          BY <3>1
        <5> QED
          BY <1>1, <2>4, <4>1, <5>1, <5>2, <5>3 DEF OwnerIs
      <4>3. \A b \in Assignable : Owner[b] # c
        <5> SUFFICES ASSUME NEW b \in Assignable, Owner[b] = c PROVE FALSE
          OBVIOUS
        <5>1. PICK e \in Holders : dev[e[1]][e[2]] = b
          BY <1>1, <2>4, NobodyHolds DEF OwnerIs
        <5>2. e = c
          BY <1>1, <5>1 DEF OwnerIs
        <5>3. b = Empty
          BY <3>1, <5>1, <5>2 DEF DevAddr
        <5>4. b \in Addresses
          BY SubnetsAssumption DEF Assignable, Addresses
        <5> QED
          BY <5>3, <5>4, EmptyAssumption
      <4>4. Owner' = [Owner EXCEPT ![a] = c]
        BY <1>0, <1>1, <1>3, <2>3, <3>1, <4>1, OwnerChanges
      <4>5. Abstract!Reserve(c, a)
        BY <4>2, <4>3, <4>4 DEF Abstract!Reserve, Abstract!Holds
      <4> QED
        BY <2>4, <4>1, <4>5 DEF Abstract!Next
    <3> QED
      BY <3>2, <3>3
  <2>9. CASE DeleteDev(p)
    <3>1. dev'[Here(p)][Device(p)] = Empty /\ DevAddr(p) = a
      BY <1>0, <2>3, <2>5, <2>9 DEF DeleteDev, Device, CallsInv
    <3>2. CASE a = Empty
      BY <2>6, <3>1, <3>2
    <3>3. CASE a # Empty
      <4>1. a \in Assignable
        BY <2>3, <2>7, <3>1, <3>3 DEF DevAddr
      <4>2. Owner[a] = c
        BY <1>1, <2>4, <3>1, <4>1 DEF OwnerIs, DevAddr
      <4>3. Owner' = [Owner EXCEPT ![a] = Nobody]
        BY <1>0, <1>1, <1>3, <2>3, <3>1, <4>1, OwnerChanges
      <4>4. Abstract!Release(c, a)
        BY <4>2, <4>3 DEF Abstract!Release
      <4> QED
        BY <2>4, <4>1, <4>4 DEF Abstract!Next
    <3> QED
      BY <3>2, <3>3
  <2> QED
    BY <2>1, <2>8, <2>9
<1>4. ASSUME NEW p \in Procs, NEW cmd \in Commands, NEW g \in Hosts,
             NEW d \in Devices, Call(p, cmd, g, d)
      PROVE  dev' = dev
  BY <1>4 DEF Call, etcd
<1>5. UNCHANGED vars => dev' = dev
  BY DEF vars
<1> QED
  BY <1>2, <1>3, <1>4, <1>5 DEF Next, ProcStep

\* Before the first call nobody holds an address.
LEMMA AbstractInit == Init => Abstract!Init
<1> SUFFICES ASSUME Init PROVE Abstract!Init
  OBVIOUS
<1>1. \A c \in Holders : dev[c[1]][c[2]] = Empty
  BY DEF Init, Holders
<1>2. Empty \notin Assignable
  <2>1. Assignable \subseteq Addresses
    BY SubnetsAssumption DEF Assignable, Addresses
  <2> QED
    BY <2>1, EmptyAssumption
<1>3. Owner = [a \in Assignable |-> Nobody]
  BY <1>1, <1>2 DEF Owner
<1> QED
  BY <1>3 DEF Abstract!Init, Abstract!NoOwners

\* The plugin implements the one table of reservations of the whole cluster,
\* where the calls on a host do not overlap, nothing fails and there are
\* subnets for all hosts and those that releases lose.
THEOREM Refinement ==
  ASSUME Enough, MaxKills = 0, MaxErrors = 0 PROVE Spec => Refines
<1>1. IInv /\ IInv' /\ TableInv /\ TableInv' /\ [Next]_vars
        => [Abstract!Next]_(Abstract!vars)
  BY AbstractStep
<1> QED
  BY <1>1, AbstractInit, TableInvariant, Invariant, PTL
  DEF Spec, Refines, Abstract!Spec

=============================================================================
