---------------------------- MODULE LocalIPAMScan ----------------------------
(***************************************************************************)
(* AllocateIP's search, in subnets of any size that neither overlap nor    *)
(* touch: it finds the first free address after the last one, it gives up  *)
(* only when there is none, and it never leaves the pool.  (Where two      *)
(* subnets touch, it may step from the last address of one to the network  *)
(* address of the next.)                                                   *)
(***************************************************************************)
EXTENDS LocalIPAMProofs

-----------------------------------------------------------------------------
(* Pools *)

\* A pool is the subnet above its gateway, and no address of another subnet
\* is in this one or just below it.
LEMMA PoolFacts ==
  ASSUME Apart, NEW b \in Bases
  PROVE  /\ b \in Nat
         /\ Pool(b) = Gateway(b) + 1 .. b + Size - 1
         /\ Pool(b) \subseteq Net(b) /\ Pool(b) \subseteq PoolAddrs
         /\ \A l \in PoolAddrs : l \in Nat
         /\ \A l \in PoolAddrs : l \in Net(b) \/ l + 1 \in Net(b) => l \in Pool(b)
<1> USE AddressAssumption DEF Pool, Net, Gateway, PoolAddrs
<1>1. b \in Nat
  OBVIOUS
<1>2. ASSUME NEW l \in PoolAddrs
      PROVE  l \in Nat /\ (l \in Net(b) \/ l + 1 \in Net(b) => l \in Pool(b))
  <2>1. PICK d \in Bases : l \in Pool(d)
    BY <1>2
  <2>2. d \in Nat
    OBVIOUS
  <2> QED
    BY <1>1, <2>1, <2>2 DEF Apart
<1>3. Pool(b) \subseteq Net(b) /\ Pool(b) \subseteq PoolAddrs
  BY <1>1
<1> QED
  BY <1>1, <1>2, <1>3

\* Where a search begins: at the gateway or at an address of some pool.
LEMMA LastFacts ==
  ASSUME TypeOK, PoolInv, Apart, NEW p \in Procs, req[p].base \in Bases
  PROVE  /\ LastOf(p) \in Nat
         /\ LastOf(p) \in PoolAddrs \/ LastOf(p) = Gateway(req[p].base)
<1> DEFINE b == req[p].base
<1>1. b \in Nat /\ Gateway(b) \in Nat
  BY PoolFacts DEF Gateway
<1>2. mem[p].last \in PoolAddrs \cup {NoAddr}
  BY DEF PoolInv, InPool
<1> QED
  BY <1>1, <1>2, PoolFacts DEF LastOf

\* The cursor is a number, at the gateway or above, when it can go on.
LEMMA NextInPool ==
  ASSUME TypeOK, PoolInv, Apart, NEW p \in Procs, req[p].base \in Bases,
         FirstPass(p) \/ SecondPass(p)
  PROVE  /\ start[p] \in Nat
         /\ InSubnet(p, start[p] + 1) => start[p] + 1 \in Pool(req[p].base)
<1> DEFINE b == req[p].base
<1>1. /\ b \in Nat /\ Gateway(b) = b + 1
      /\ Pool(b) = Gateway(b) + 1 .. b + Size - 1
      /\ \A l \in PoolAddrs : l \in Nat
      /\ \A l \in PoolAddrs : l + 1 \in Net(b) => l \in Pool(b)
      /\ Size \in Nat
  BY PoolFacts, AddressAssumption DEF Gateway
<1>2. LastOf(p) \in Nat /\ (LastOf(p) \in PoolAddrs \/ LastOf(p) = Gateway(b))
  BY LastFacts
<1> HIDE DEF b
<1>3. CASE start[p] = LastOf(p)
  BY <1>1, <1>2, <1>3 DEF InSubnet, Net, b
<1>4. CASE start[p] # LastOf(p) /\ FirstPass(p)
  BY <1>1, <1>2, <1>4 DEF FirstPass, InSubnet, Net, b
<1>5. CASE SecondPass(p)
  BY <1>1, <1>2, <1>5 DEF SecondPass, InSubnet, Net, b
<1> QED
  BY <1>3, <1>4, <1>5

-----------------------------------------------------------------------------
(* The invariant *)

\* A new store has no records.
LEMMA InPoolFresh == InPool(FreshData)
BY DEF InPool, FreshData, Contain

\* Only a search that found a free address records one.
LEMMA PoolStep ==
  ASSUME TypeOK, CallsInv, PoolInv, ScanInv, Apart, [Next]_vars
  PROVE  PoolInv'
<1> USE InPoolFresh DEF TypeOK, Goto
<1>1. ASSUME NEW p \in Procs, ScanFree(p) PROVE PoolInv'
  <2> DEFINE next == start[p] + 1
             new  == [ips |-> [mem[p].ips EXCEPT ![next] = req[p].id], last |-> next]
  <2>1. req[p].base \in Bases /\ (FirstPass(p) \/ SecondPass(p))
    BY <1>1 DEF ScanFree, ScanInv, CallsInv, Inside, Locations
  <2>2. next \in Pool(req[p].base)
    BY <1>1, <2>1, NextInPool DEF ScanFree
  <2>3. next \in PoolAddrs
    BY <2>1, <2>2, PoolFacts
  <2>4. mem[p].ips \in [Addrs -> Containers \cup {NoOne}]
    BY DEF Data
  <2>5. InPool(mem[p])
    BY DEF PoolInv
  <2>6. /\ UNCHANGED file
        /\ \A q \in Procs : mem'[q] = IF q = p THEN new ELSE mem[q]
    BY <1>1 DEF ScanFree
  <2> HIDE DEF next
  <2>7. InPool(new)
    BY <2>3, <2>4, <2>5 DEF InPool, Contain
  <2> HIDE DEF new
  <2> QED
    BY <2>6, <2>7 DEF PoolInv
<1>2. ASSUME NEW p \in Procs, LookupForDel(p) PROVE PoolInv'
  <2>1. CASE UNCHANGED mem
    BY <1>2, <2>1 DEF LookupForDel, PoolInv
  <2>2. ASSUME NEW a \in Addrs, mem' = [mem EXCEPT ![p].ips[a] = NoOne]
        PROVE  PoolInv'
    <3>1. mem[p] \in Data /\ InPool(mem[p])
      BY DEF PoolInv
    <3>2. /\ mem'[p].last = mem[p].last
          /\ mem'[p].ips = [mem[p].ips EXCEPT ![a] = NoOne]
          /\ \A q \in Procs : q # p => mem'[q] = mem[q]
      BY <2>2, <3>1 DEF Data
    <3>3. InPool(mem'[p])
      BY <3>1, <3>2 DEF InPool, Contain, Data
    <3> QED
      BY <1>2, <3>2, <3>3 DEF LookupForDel, PoolInv
  <2> QED
    BY <1>2, <2>1, <2>2 DEF LookupForDel, GetIPByID
<1>3. ASSUME NEW p \in Procs, LoadData(p) PROVE PoolInv'
  BY <1>3 DEF LoadData, PoolInv
<1>4. ASSUME NEW p \in Procs,
             CreateFile(p) \/ InitFile(p) \/ Truncate(p) \/ Write(p)
      PROVE  PoolInv'
  BY <1>4 DEF CreateFile, InitFile, Truncate, Write, Torn, Saved, PoolInv
<1>5. ASSUME NEW p \in Procs, Exit(p) \/ Kill(p) PROVE PoolInv'
  BY <1>5 DEF Exit, Kill, Forget, PoolInv
<1>6. CASE Reboot
  BY <1>6 DEF Reboot, PoolInv
<1>7. CASE UNCHANGED <<file, mem>>
  BY <1>7 DEF PoolInv
<1> QED
  BY <1>1, <1>2, <1>3, <1>4, <1>5, <1>6, <1>7
  DEF Next, Step, Call, Lock, LookupForAdd, LookupForCheck, ScanOverflow,
      ScanUsed, Unlock, IOError, WriteSubnet, vars

\* One step of the loop: past an address in use, or back to the gateway.
LEMMA PassStep ==
  ASSUME TypeOK, PoolInv, Apart, NEW p \in Procs, req[p].base \in Bases,
         FirstPass(p) \/ SecondPass(p), ScanUsed(p) \/ ScanOverflow(p),
         pc'[p] = "scan"
  PROVE  FirstPass(p)' \/ SecondPass(p)'
<1> DEFINE b == req[p].base
           l == LastOf(p)
           s == start[p]
<1>1. /\ b \in Nat /\ Size \in Nat /\ Size > 2 /\ Gateway(b) = b + 1
      /\ Pool(b) = Gateway(b) + 1 .. b + Size - 1
      /\ \A x \in PoolAddrs : x \in Nat
      /\ \A x \in PoolAddrs : x \in Net(b) \/ x + 1 \in Net(b) => x \in Pool(b)
      /\ Net(b) = b .. b + Size - 1
  BY PoolFacts, AddressAssumption DEF Gateway, Net
<1>2. l \in Nat /\ (l \in PoolAddrs \/ l = Gateway(b))
  BY LastFacts
<1>3. s \in Nat /\ (s + 1 \in Net(b) => s + 1 \in Pool(b))
  BY NextInPool DEF InSubnet
<1>4. UNCHANGED <<mem, req>> /\ LastOf(p)' = LastOf(p) /\ pc[p] = "scan"
  BY DEF ScanUsed, ScanOverflow, LastOf
<1>5. /\ FirstPass(p) <=> /\ s >= l
                          /\ s # l => s \in Pool(b) /\ l \in Net(b)
                          /\ \A a \in Pool(b) : l < a /\ a <= s => Contain(mem[p], a)
      /\ SecondPass(p) <=>
           /\ l # Gateway(b)
           /\ s \in Gateway(b) .. b + Size - 1
           /\ l \in Pool(b) => \A a \in Pool(b) : l < a /\ a <= b + Size - 1
                                                    => Contain(mem[p], a)
           /\ \A a \in Pool(b) : Gateway(b) < a /\ a <= s => Contain(mem[p], a)
  BY DEF FirstPass, SecondPass, UsedIn
<1>6. /\ FirstPass(p)' <=>
           /\ start'[p] >= l
           /\ start'[p] # l => start'[p] \in Pool(b) /\ l \in Net(b)
           /\ \A a \in Pool(b) : l < a /\ a <= start'[p] => Contain(mem[p], a)
      /\ SecondPass(p)' <=>
           /\ l # Gateway(b)
           /\ start'[p] \in Gateway(b) .. b + Size - 1
           /\ l \in Pool(b) => \A a \in Pool(b) : l < a /\ a <= b + Size - 1
                                                    => Contain(mem[p], a)
           /\ \A a \in Pool(b) :
                Gateway(b) < a /\ a <= start'[p] => Contain(mem[p], a)
  BY <1>4 DEF FirstPass, SecondPass, UsedIn
<1>7. CASE ScanUsed(p)
  <2>1. s + 1 \in Net(b) /\ Contain(mem[p], s + 1) /\ start'[p] = s + 1
    BY <1>7 DEF ScanUsed, InSubnet, TypeOK
  <2> HIDE DEF b, l, s
  <2>2. ASSUME FirstPass(p) PROVE FirstPass(p)'
    <3>1. l \in Net(b)
      BY <1>1, <1>2, <1>3, <1>5, <2>1, <2>2
    <3>2. ASSUME NEW a \in Pool(b), l < a, a <= s + 1 PROVE Contain(mem[p], a)
      BY <1>1, <1>2, <1>3, <1>5, <2>1, <2>2, <3>2
    <3> QED
      BY <1>2, <1>3, <1>5, <1>6, <2>1, <2>2, <3>1, <3>2
  <2>3. ASSUME SecondPass(p) PROVE SecondPass(p)'
    <3>1. ASSUME NEW a \in Pool(b), Gateway(b) < a, a <= s + 1
          PROVE  Contain(mem[p], a)
      BY <1>1, <1>3, <1>5, <2>1, <2>3, <3>1
    <3> QED
      BY <1>1, <1>3, <1>5, <1>6, <2>1, <2>3, <3>1
  <2> QED
    BY <2>2, <2>3
<1>8. CASE ScanOverflow(p)
  <2>1. s + 1 \notin Net(b) /\ l # Gateway(b) /\ start'[p] = Gateway(b)
    BY <1>4, <1>8 DEF ScanOverflow, InSubnet, TypeOK, Goto
  <2> HIDE DEF b, l, s
  <2>2. ASSUME l \in Pool(b), NEW a \in Pool(b), l < a, a <= b + Size - 1
        PROVE  Contain(mem[p], a)
    BY <1>1, <1>2, <1>3, <1>5, <2>1, <2>2
  <2>3. SecondPass(p)'
    BY <1>1, <1>6, <2>1, <2>2
  <2> QED
    BY <2>3
<1> QED
  BY <1>7, <1>8

\* The loop keeps what it found out.
LEMMA ScanStep ==
  ASSUME TypeOK, CallsInv, PoolInv, ScanInv, Apart, [Next]_vars
  PROVE  ScanInv'
<1> SUFFICES ASSUME NEW q \in Procs, pc'[q] = "scan"
             PROVE  FirstPass(q)' \/ SecondPass(q)'
  BY DEF ScanInv
<1> USE DEF TypeOK, Goto
<1>1. CASE ScanUsed(q) \/ ScanOverflow(q)
  <2>1. req[q].base \in Bases /\ (FirstPass(q) \/ SecondPass(q))
    BY <1>1 DEF ScanUsed, ScanOverflow, ScanInv, CallsInv, Inside, Locations
  <2> QED
    BY <1>1, <2>1, PassStep
<1>2. CASE LookupForAdd(q)
  <2>1. req[q].base \in Bases
    BY <1>2 DEF LookupForAdd, At, CallsInv, Inside, Locations
  <2>2. LastOf(q) \in Nat
    BY <2>1, LastFacts
  <2>3. start'[q] = LastOf(q) /\ LastOf(q)' = LastOf(q)
    BY <1>2 DEF LookupForAdd, LastOf
  <2>4. \A a \in Pool(req'[q].base) : a \in Nat
    BY <1>2, <2>1, PoolFacts DEF LookupForAdd
  <2>5. FirstPass(q)'
    BY <2>2, <2>3, <2>4 DEF FirstPass, UsedIn
  <2> QED
    BY <2>5
<1>3. CASE ~ (ScanUsed(q) \/ ScanOverflow(q) \/ LookupForAdd(q))
  <2>1. pc[q] = "scan" /\ start'[q] = start[q] /\ mem'[q] = mem[q] /\ req'[q] = req[q]
    <3>1. ASSUME NEW p \in Procs, ProcStep(p), p # q
          PROVE  /\ pc[q] = "scan" /\ start'[q] = start[q]
                 /\ mem'[q] = mem[q] /\ req'[q] = req[q]
      <4>1. start'[q] = start[q]
        BY <3>1 DEF ProcStep, Step, Call, Lock, LoadData, CreateFile, InitFile,
            LookupForAdd, LookupForDel, LookupForCheck, ScanOverflow, ScanUsed,
            ScanFree, Truncate, Write, Unlock, Exit, Forget, IOError, Kill
      <4> QED
        BY <3>1, <4>1, OthersLocals
    <3>2. ~ ProcStep(q)
      BY <1>3
      DEF ProcStep, Step, Call, Lock, LoadData, CreateFile, InitFile,
          LookupForDel, LookupForCheck, ScanFree, Truncate, Write, Unlock,
          Exit, Forget, IOError, Kill
    <3>3. CASE (\E b \in Bases : WriteSubnet(b)) \/ UNCHANGED vars
      BY <3>3 DEF WriteSubnet, vars
    <3>4. ~ Reboot
      BY DEF Reboot
    <3> QED
      BY <3>1, <3>2, <3>3, <3>4 DEF Next, ProcStep
  <2> QED
    BY <2>1 DEF ScanInv, FirstPass, SecondPass, LastOf, UsedIn
<1> QED
  BY <1>1, <1>2, <1>3

\* Whatever was recorded before, every search runs as the invariant says.
LEMMA Searches == ASSUME Apart PROVE Spec => [](IInv /\ PoolInv /\ ScanInv)
<1>1. Init => PoolInv /\ ScanInv
  BY InPoolFresh DEF Init, Absent, PoolInv, ScanInv
<1>2. IInv /\ PoolInv /\ ScanInv /\ [Next]_vars => PoolInv' /\ ScanInv'
  BY PoolStep, ScanStep DEF IInv
<1> QED
  BY <1>1, <1>2, Invariant, PTL DEF Spec

-----------------------------------------------------------------------------
(* The theorems *)

\* Neither a network address nor a gateway is ever recorded for a container.
THEOREM PoolOnly == ASSUME Apart PROVE Spec => []RecordsInPool
<1>1. IInv /\ PoolInv => RecordsInPool
  <2> SUFFICES ASSUME IInv, PoolInv, NEW a \in Addrs, LogicalIPs[a] # NoOne
               PROVE  a \in PoolAddrs
    BY DEF RecordsInPool, PoolAddrs
  <2>1. TableIs
    BY Logical DEF IInv
  <2>2. InPool(file.data) /\ InPool(FreshData) /\ \A p \in Procs : InPool(mem[p])
    BY InPoolFresh DEF PoolInv
  <2> QED
    BY <2>1, <2>2 DEF TableIs, InPool, Contain
<1> QED
  BY <1>1, Searches, PTL

\* A set of numbers has one least element.
LEMMA LeastChosen ==
  ASSUME NEW S \in SUBSET Nat, NEW m \in S, \A x \in S : m <= x
  PROVE  (CHOOSE a \in S : \A x \in S : a <= x) = m
<1> DEFINE least == CHOOSE a \in S : \A x \in S : a <= x
<1>1. least \in S /\ \A x \in S : least <= x
  OBVIOUS
<1> HIDE DEF least
<1>2. least = m
  BY <1>1
<1> QED
  BY <1>2 DEF least

\* The address that the search ends with is the next free one.
THEOREM SearchFits == ASSUME Apart PROVE Spec => NextFit
<1> DEFINE Fits(p) ==
      pc[p] = "scan" /\ pc'[p] = "store"
        => reply'[p].addr = NextFree(req[p].base, mem[p])
<1>1. ASSUME IInv, PoolInv, ScanInv, [Next]_vars, NEW p \in Procs PROVE Fits(p)
  <2> SUFFICES ASSUME pc[p] = "scan", pc'[p] = "store"
               PROVE  reply'[p].addr = NextFree(req[p].base, mem[p])
    OBVIOUS
  <2> DEFINE b == req[p].base
             l == LastOf(p)
             s == start[p]
             last == mem[p].last
  <2>1. ScanFree(p)
    <3>1. ASSUME NEW q \in Procs, ProcStep(q) PROVE q = p
      BY <1>1, <3>1, OthersLocals DEF IInv
    <3>2. ~ Reboot /\ ~ (\E d \in Bases : WriteSubnet(d)) /\ ~ UNCHANGED vars
      BY DEF Reboot, WriteSubnet, vars
    <3>3. ProcStep(p)
      BY <1>1, <3>1, <3>2 DEF Next, ProcStep
    <3> QED
      BY <1>1, <3>3
      DEF IInv, TypeOK, ProcStep, Step, Goto, At, Call, Lock, LoadData,
          CreateFile, InitFile, LookupForAdd, LookupForDel, LookupForCheck,
          ScanOverflow, ScanUsed, Truncate, Write, Unlock, Exit, Forget,
          IOError, Kill
  <2>2. b \in Bases /\ (FirstPass(p) \/ SecondPass(p)) /\ TypeOK
    BY <1>1 DEF IInv, ScanInv, CallsInv, Inside, Locations
  <2>3. /\ b \in Nat /\ Size \in Nat /\ Gateway(b) = b + 1
        /\ Pool(b) = Gateway(b) + 1 .. b + Size - 1
        /\ \A x \in PoolAddrs : x \in Nat
        /\ \A x \in PoolAddrs : x \in Net(b) \/ x + 1 \in Net(b) => x \in Pool(b)
    BY <2>2, PoolFacts, AddressAssumption DEF Gateway
  <2>4. /\ l \in Nat /\ (l \in PoolAddrs \/ l = Gateway(b))
        /\ l = IF last = NoAddr THEN Gateway(b) ELSE last
        /\ last \in PoolAddrs \cup {NoAddr}
    BY <1>1, <2>2, LastFacts DEF LastOf, PoolInv, InPool
  <2>5. /\ s \in Nat /\ s + 1 \in Pool(b) /\ s + 1 \in Net(b)
        /\ ~ Contain(mem[p], s + 1) /\ reply'[p].addr = s + 1
    BY <1>1, <2>1, <2>2, NextInPool DEF ScanFree, InSubnet, TypeOK
  <2> DEFINE free  == {a \in Pool(b) : ~ Contain(mem[p], a)}
             above == {a \in free : a > (IF last = NoAddr THEN 0 ELSE last)}
             from  == IF above = {} THEN free ELSE above
  <2>6. NextFree(b, mem[p]) = CHOOSE a \in from : \A x \in from : a <= x
    BY DEF NextFree
  <2>7. s + 1 \in from /\ \A x \in from : s + 1 <= x
    <3>1. CASE FirstPass(p)
      <4>1. /\ s >= l /\ (s # l => s \in Pool(b) /\ l \in Net(b))
            /\ \A a \in Pool(b) : l < a /\ a <= s => Contain(mem[p], a)
        BY <3>1 DEF FirstPass, UsedIn
      <4> HIDE DEF b, l, s, last
      <4>2. s + 1 \in above
        BY <2>3, <2>4, <2>5, <4>1
      <4>3. ASSUME NEW x \in above PROVE s + 1 <= x
        BY <2>3, <2>4, <2>5, <4>1
      <4> QED
        BY <4>2, <4>3
    <3>2. CASE SecondPass(p)
      <4>1. /\ l # Gateway(b)
            /\ l \in Pool(b) => \A a \in Pool(b) : l < a /\ a <= b + Size - 1
                                                     => Contain(mem[p], a)
            /\ \A a \in Pool(b) : Gateway(b) < a /\ a <= s => Contain(mem[p], a)
        BY <3>2 DEF SecondPass, UsedIn
      <4> HIDE DEF b, l, s, last
      <4>2. s + 1 \in free /\ \A x \in free : s + 1 <= x
        BY <2>3, <2>5, <4>1
      <4>3. last = l /\ last \in Nat
        BY <2>4, <4>1
      <4>4. CASE l \in Pool(b)
        <5>1. above = {}
          BY <2>3, <4>1, <4>3, <4>4, AddressAssumption
        <5> QED
          BY <4>2, <5>1
      <4>5. CASE l \notin Pool(b)
        <5>1. l < b \/ l > b + Size - 1
          <6>1. l \in PoolAddrs /\ l \notin Net(b)
            BY <2>3, <2>4, <4>1, <4>5
          <6> QED
            BY <2>3, <2>4, <6>1 DEF Net
        <5>2. CASE l < b
          BY <2>3, <2>5, <4>2, <4>3, <5>2
        <5>3. CASE l > b + Size - 1
          <6>1. above = {}
            BY <2>3, <4>3, <5>3, AddressAssumption
          <6> QED
            BY <4>2, <6>1
        <5> QED
          BY <5>1, <5>2, <5>3
      <4> QED
        BY <4>4, <4>5
    <3> QED
      BY <2>2, <3>1, <3>2
  <2>8. from \in SUBSET Nat
    BY <2>3
  <2> HIDE DEF from
  <2> QED
    BY <2>5, <2>6, <2>7, <2>8, LeastChosen
<1>2. IInv /\ PoolInv /\ ScanInv /\ [Next]_vars => [\A p \in Procs : Fits(p)]_vars
  BY <1>1
<1> QED
  BY <1>2, Searches, PTL DEF Spec, NextFit

\* A search that fails has seen every address of the pool in use.
THEOREM NothingLeft == ASSUME Apart PROVE Spec => NoFalseExhaustion
<1> DEFINE Full(p) ==
      pc[p] = "scan" /\ pc'[p] = "unlock"
        => \A a \in Pool(req[p].base) : Contain(mem[p], a)
<1>1. ASSUME IInv, PoolInv, ScanInv, [Next]_vars, NEW p \in Procs PROVE Full(p)
  <2> SUFFICES ASSUME pc[p] = "scan", pc'[p] = "unlock",
                      NEW a \in Pool(req[p].base)
               PROVE  Contain(mem[p], a)
    OBVIOUS
  <2> DEFINE b == req[p].base
             l == LastOf(p)
             s == start[p]
  <2>1. ScanOverflow(p) \/ ScanUsed(p)
    <3>1. ASSUME NEW q \in Procs, ProcStep(q) PROVE q = p
      BY <1>1, <3>1, OthersLocals DEF IInv
    <3>2. ~ Reboot /\ ~ (\E d \in Bases : WriteSubnet(d)) /\ ~ UNCHANGED vars
      BY DEF Reboot, WriteSubnet, vars
    <3>3. ProcStep(p)
      BY <1>1, <3>1, <3>2 DEF Next, ProcStep
    <3> QED
      BY <1>1, <3>3
      DEF IInv, TypeOK, ProcStep, Step, Goto, At, Call, Lock, LoadData,
          CreateFile, InitFile, LookupForAdd, LookupForDel, LookupForCheck,
          ScanFree, Truncate, Write, Unlock, Exit, Forget, IOError, Kill
  <2>2. b \in Bases /\ (FirstPass(p) \/ SecondPass(p)) /\ TypeOK
    BY <1>1 DEF IInv, ScanInv, CallsInv, Inside, Locations
  <2>3. /\ b \in Nat /\ Size \in Nat /\ Size > 2 /\ Gateway(b) = b + 1
        /\ Pool(b) = Gateway(b) + 1 .. b + Size - 1
        /\ \A x \in PoolAddrs : x \in Nat
        /\ \A x \in PoolAddrs : x \in Net(b) \/ x + 1 \in Net(b) => x \in Pool(b)
        /\ Net(b) = b .. b + Size - 1
    BY <2>2, PoolFacts, AddressAssumption DEF Gateway, Net
  <2>4. l \in Nat /\ (l \in PoolAddrs \/ l = Gateway(b))
    BY <1>1, <2>2, LastFacts
  <2>5. s \in Nat
    BY <1>1, <2>2, NextInPool
  <2>6. FirstPass(p) =>
          /\ s >= l /\ (s # l => s \in Pool(b) /\ l \in Net(b))
          /\ \A x \in Pool(b) : l < x /\ x <= s => Contain(mem[p], x)
    BY DEF FirstPass, UsedIn
  <2>7. SecondPass(p) =>
          /\ l # Gateway(b) /\ s \in Gateway(b) .. b + Size - 1
          /\ l \in Pool(b) => \A x \in Pool(b) : l < x /\ x <= b + Size - 1
                                                   => Contain(mem[p], x)
          /\ \A x \in Pool(b) : Gateway(b) < x /\ x <= s => Contain(mem[p], x)
    BY DEF SecondPass, UsedIn
  <2>8. CASE ScanOverflow(p)
    <3>1. s + 1 \notin Net(b) /\ l = Gateway(b)
      BY <1>1, <2>8 DEF ScanOverflow, InSubnet, IInv, TypeOK
    <3> HIDE DEF b, l, s
    <3> QED
      BY <2>2, <2>3, <2>5, <2>6, <2>7, <3>1 DEF b
  <2>9. CASE ScanUsed(p)
    <3>1. s + 1 \in Net(b) /\ Contain(mem[p], s + 1) /\ s + 1 = l
      BY <1>1, <2>9 DEF ScanUsed, InSubnet, IInv, TypeOK, Goto
    <3> HIDE DEF b, l, s
    <3>2. SecondPass(p) /\ l \in Pool(b)
      BY <2>2, <2>3, <2>4, <2>5, <2>6, <2>7, <3>1
    <3>3. a \in Pool(b)
      BY DEF b
    <3>4. a <= s \/ a = s + 1 \/ a > l
      BY <2>3, <2>5, <3>1, <3>3
    <3> QED
      BY <2>3, <2>5, <2>7, <3>1, <3>2, <3>3, <3>4
  <2> QED
    BY <2>1, <2>8, <2>9
<1>2. IInv /\ PoolInv /\ ScanInv /\ [Next]_vars => [\A p \in Procs : Full(p)]_vars
  BY <1>1
<1> QED
  BY <1>2, Searches, PTL DEF Spec, NoFalseExhaustion

\* A search whose last address is of the node's subnet goes round it once at
\* most, and so ends: each round leaves one less of fewer than Size.  (After a
\* change of subnet it may never end; LocalIPAM_renumber shows how.)
THEOREM SearchRounds == ASSUME Apart PROVE Spec => SearchAdvances
<1> DEFINE Advances(p) ==
      Round(p) /\ LastOf(p) \in Net(req[p].base) =>
        /\ RoundsLeft(p) \in 1 .. Size - 1
        /\ pc'[p] = "scan" => RoundsLeft(p)' = RoundsLeft(p) - 1
<1>1. ASSUME IInv, PoolInv, ScanInv, NEW p \in Procs PROVE Advances(p)
  <2> SUFFICES ASSUME Round(p), LastOf(p) \in Net(req[p].base)
               PROVE  /\ RoundsLeft(p) \in 1 .. Size - 1
                      /\ pc'[p] = "scan" => RoundsLeft(p)' = RoundsLeft(p) - 1
    OBVIOUS
  <2> DEFINE b == req[p].base
             l == LastOf(p)
             s == start[p]
             Left(x) == IF x >= l THEN (b + Size - x) + (l - Gateway(b)) ELSE l - x
  <2>1. pc[p] = "scan"
    BY DEF Round, ScanOverflow, ScanUsed, ScanFree
  <2>2. b \in Bases /\ (FirstPass(p) \/ SecondPass(p)) /\ TypeOK
    BY <1>1, <2>1 DEF IInv, ScanInv, CallsInv, Inside, Locations
  <2>3. /\ b \in Nat /\ Size \in Nat /\ Size > 2 /\ Gateway(b) = b + 1
        /\ Pool(b) = Gateway(b) + 1 .. b + Size - 1
        /\ \A x \in PoolAddrs : x \in Net(b) => x \in Pool(b)
        /\ Net(b) = b .. b + Size - 1
    BY <2>2, PoolFacts, AddressAssumption DEF Gateway, Net
  <2>4. l \in Gateway(b) .. b + Size - 1
    <3>1. l \in PoolAddrs \/ l = Gateway(b)
      BY <1>1, <2>2, LastFacts
    <3> HIDE DEF b, l
    <3> QED
      BY <2>3, <3>1 DEF b, l
  <2>5. s \in Gateway(b) .. b + Size - 1
    <3>1. FirstPass(p) => s = l \/ s \in Pool(b)
      BY DEF FirstPass
    <3>2. SecondPass(p) => s \in Gateway(b) .. b + Size - 1
      BY DEF SecondPass
    <3> HIDE DEF b, l, s
    <3> QED
      BY <2>2, <2>3, <2>4, <3>1, <3>2
  <2>6. RoundsLeft(p) = Left(s)
    BY DEF RoundsLeft
  <2>7. Left(s) \in 1 .. Size - 1
    <3> HIDE DEF b, l, s
    <3> QED
      BY <2>3, <2>4, <2>5
  <2>8. ASSUME pc'[p] = "scan"
        PROVE  /\ RoundsLeft(p)' = Left(start'[p])
               /\ \/ s + 1 \notin Net(b) /\ l # Gateway(b) /\ start'[p] = Gateway(b)
                  \/ s + 1 # l /\ start'[p] = s + 1
    <3>1. ScanOverflow(p) \/ ScanUsed(p)
      BY <2>2, <2>8 DEF Round, ScanFree, Goto, TypeOK
    <3>2. UNCHANGED <<mem, req>>
      BY <3>1 DEF ScanOverflow, ScanUsed
    <3>3. RoundsLeft(p)' = Left(start'[p])
      BY <3>2 DEF RoundsLeft, LastOf
    <3>4. \/ s + 1 \notin Net(b) /\ l # Gateway(b) /\ start'[p] = Gateway(b)
          \/ s + 1 # l /\ start'[p] = s + 1
      BY <2>1, <2>2, <2>8, <3>1
      DEF ScanOverflow, ScanUsed, InSubnet, Goto, TypeOK
    <3> QED
      BY <3>3, <3>4
  <2>9. ASSUME NEW t, \/ s + 1 \notin Net(b) /\ l # Gateway(b) /\ t = Gateway(b)
                      \/ s + 1 # l /\ t = s + 1
        PROVE  Left(t) = Left(s) - 1
    <3> HIDE DEF b, l, s
    <3>1. CASE s + 1 \notin Net(b) /\ l # Gateway(b) /\ t = Gateway(b)
      <4>1. s = b + Size - 1 /\ s >= l /\ ~ (t >= l)
        BY <2>3, <2>4, <2>5, <3>1
      <4> QED
        BY <2>3, <2>4, <3>1, <4>1
    <3>2. CASE s + 1 # l /\ t = s + 1
      <4>1. t >= l <=> s >= l
        BY <2>3, <2>4, <2>5, <3>2
      <4> QED
        BY <2>3, <2>4, <2>5, <3>2, <4>1
    <3> QED
      BY <2>9, <3>1, <3>2
  <2> QED
    BY <2>6, <2>7, <2>8, <2>9
<1>2. IInv /\ PoolInv /\ ScanInv /\ [Next]_vars => [\A p \in Procs : Advances(p)]_vars
  BY <1>1
<1> QED
  BY <1>2, Searches, PTL DEF Spec, SearchAdvances

=============================================================================
