-------------------------- MODULE VxlanPluginProofs --------------------------
(***************************************************************************)
(* Proofs about VxlanPlugin, for any number of processes, pods, addresses, *)
(* calls and faults and any capacity of lxc_map.                           *)
(***************************************************************************)
EXTENDS VxlanPlugin, FiniteSetTheorems, TLAPS

-----------------------------------------------------------------------------
(* The steps *)

\* The steps of an ADD between its link and its end that leave its link, its
\* pod and lxc_map alone.
Plain(p) ==
  \/ FetchVeth(p) \/ LoadLxcMap(p) \/ PinLxcMap(p) \/ SetARP(p) \/ AttachVeth(p)
  \/ FindVxlan(p) \/ AddPart(p) \/ FindClsact(p) \/ SetVxlanMap(p)

\* What they have in common.
LEMMA PlainShape ==
  ASSUME pc \in [Procs -> Locations], ok \in [Procs -> BOOLEAN],
         NEW p \in Procs, Plain(p)
  PROVE  /\ pc[p] \in Configured
         /\ \E to \in Configured \cup {"undo"} : pc' = [pc EXCEPT ![p] = to]
         /\ UNCHANGED <<ipam, links, lxc, calls, got, faults>>
         /\ ok' = ok \/ (ok' = [ok EXCEPT ![p] = TRUE] /\ pc'[p] = "undo")
<1> USE DEF Goto, At, Configured, Parts, maps
<1>1. CASE FetchVeth(p) \/ LoadLxcMap(p) \/ PinLxcMap(p) \/ SetARP(p) \/ AttachVeth(p)
  BY <1>1 DEF FetchVeth, LoadLxcMap, PinLxcMap, SetARP, AttachVeth
<1>2. CASE FindVxlan(p) \/ FindClsact(p)
  BY <1>2 DEF FindVxlan, FindClsact
<1>3. CASE AddPart(p)
  BY <1>3 DEF AddPart, Fail, NextPart
<1>4. CASE SetVxlanMap(p)
  BY <1>4 DEF SetVxlanMap
<1> QED
  BY <1>1, <1>2, <1>3, <1>4 DEF Plain

-----------------------------------------------------------------------------
(* Types *)

\* TypeOK without the capacity of lxc_map.
Types ==
  /\ IPAM!TypeOK
  /\ netns \subseteq Pods
  /\ veth \in [Pods -> 0 .. MaxAdds]
  /\ addr \in [Pods -> Addrs \cup {NoAddr}]
  /\ pinned \in BOOLEAN
  /\ lxc \in [Addrs -> 0 .. MaxAdds]
  /\ vxlan \subseteq Parts
  /\ pc \in [Procs -> Locations]
  /\ req \in [Procs -> [cmd : {"ADD", "DEL"}, pod : Pods \cup {NoOne},
                        netns : BOOLEAN, index : 0 .. MaxAdds]]
  /\ got \in [Procs -> Addrs \cup {NoAddr}]
  /\ ok \in [Procs -> BOOLEAN]
  /\ live \in [Pods -> Addrs \cup {NoAddr}]
  /\ adds \in 0 .. MaxAdds
  /\ alone \subseteq Procs
  /\ faults \in 0 .. MaxFaults

Room == IsFiniteSet(Entries) /\ Cardinality(Entries) <= MaxEntries

\* The type invariant, in its two parts.
LEMMA TypesAndRoom == TypeOK /\ IsFiniteSet(Entries) <=> Types /\ Room
BY DEF TypeOK, Types, Room

\* What the IPAM plugin does to its table.
LEMMA TableTypes ==
  ASSUME IPAM!TypeOK
  PROVE  /\ \A c \in Pods, a \in Addrs :
              IPAM!Reserve(c, a) \/ IPAM!Release(c, a) => IPAM!TypeOK'
         /\ IPAM!Lose => IPAM!TypeOK'
         /\ UNCHANGED ipam => IPAM!TypeOK'
<1> USE DEF IPAM!TypeOK, ipam
<1>1. ASSUME NEW c \in Pods, NEW a \in Addrs, IPAM!Reserve(c, a)
      PROVE  IPAM!TypeOK'
  BY <1>1 DEF IPAM!Reserve
<1>2. ASSUME NEW c \in Pods, NEW a \in Addrs, IPAM!Release(c, a)
      PROVE  IPAM!TypeOK'
  BY <1>2 DEF IPAM!Release
<1>3. IPAM!Lose => IPAM!TypeOK'
  BY DEF IPAM!Lose, IPAM!NoOwners
<1> QED
  BY <1>1, <1>2, <1>3

\* A release keeps the types of the IPAM plugin's table.
LEMMA ReleaseTypes ==
  ASSUME IPAM!TypeOK, NEW p \in Procs, Pod(p) \in Pods, IpamRelease(p)
  PROVE  IPAM!TypeOK'
BY TableTypes DEF IpamRelease

\* Every step keeps the types, given what a call carries.
LEMMA TypesStep == Types /\ CallsInv /\ [Next]_vars => Types'
<1> SUFFICES ASSUME Types, CallsInv, [Next]_vars PROVE Types'
  OBVIOUS
<1>0. IPAM!TypeOK /\ (UNCHANGED ipam => IPAM!TypeOK')
  BY TableTypes DEF Types
<1>z. 0 \in 0 .. MaxAdds
  BY BoundsAssumption
<1> USE BoundsAssumption DEF Types, Goto, At
<1>1. ASSUME NEW p \in Procs, NEW c \in Pods, CallAdd(p, c) PROVE Types'
  <2>1. alone' \subseteq Procs
    BY <1>1 DEF CallAdd, Begins
  <2>2. req' \in [Procs -> [cmd : {"ADD", "DEL"}, pod : Pods \cup {NoOne},
                            netns : BOOLEAN, index : 0 .. MaxAdds]]
    BY <1>1 DEF CallAdd
  <2> QED
    BY <1>0, <1>1, <2>1, <2>2 DEF CallAdd, Locations, links, maps
<1>2. ASSUME NEW p \in Procs, NEW c \in Pods, CallDel(p, c) PROVE Types'
  <2>1. alone' \subseteq Procs
    BY <1>2 DEF CallDel, Begins
  <2>2. [cmd |-> "DEL", pod |-> c, netns |-> c \in netns, index |-> 0]
          \in [cmd : {"ADD", "DEL"}, pod : Pods \cup {NoOne},
               netns : BOOLEAN, index : 0 .. MaxAdds]
    OBVIOUS
  <2>3. req' \in [Procs -> [cmd : {"ADD", "DEL"}, pod : Pods \cup {NoOne},
                            netns : BOOLEAN, index : 0 .. MaxAdds]]
    BY <1>2, <2>2 DEF CallDel
  <2> QED
    BY <1>0, <1>2, <2>1, <2>3 DEF CallDel, Locations, links, maps
<1>3. ASSUME NEW p \in Procs, IpamAdd(p) PROVE Types'
  <2>1. Pod(p) \in Pods
    BY <1>3 DEF IpamAdd, CallsInv
  <2>2. IPAM!TypeOK'
    BY <1>0, <1>3, <2>1, TableTypes DEF IpamAdd
  <2> QED
    BY <1>3, <2>2 DEF IpamAdd, Locations, links, maps, calls
<1>4. ASSUME NEW p \in Procs, SetupVeth(p) PROVE Types'
  BY <1>0, <1>4 DEF SetupVeth, Fail, Locations, maps, calls, Pod
<1>5. ASSUME NEW p \in Procs, ConfigureIface(p) PROVE Types'
  BY <1>0, <1>5 DEF ConfigureIface, Locations, maps, calls
<1>6. ASSUME NEW p \in Procs, Plain(p) PROVE Types'
  <2>1. vxlan' \subseteq Parts /\ pinned' \in BOOLEAN
    BY <1>6 DEF Plain, FetchVeth, LoadLxcMap, PinLxcMap, SetARP, AttachVeth,
                FindVxlan, AddPart, FindClsact, SetVxlanMap, maps, Parts
  <2>2. pc' \in [Procs -> Locations]
    <3>1. PICK to \in Configured \cup {"undo"} : pc' = [pc EXCEPT ![p] = to]
      BY <1>6, PlainShape
    <3>2. to \in Locations
      BY DEF Configured, Locations
    <3> QED
      BY <3>1, <3>2
  <2>3. ok' \in [Procs -> BOOLEAN]
    <3>1. ok' = ok \/ ok' = [ok EXCEPT ![p] = TRUE]
      BY <1>6, PlainShape
    <3> QED
      BY <3>1
  <2>4. UNCHANGED <<ipam, links, lxc, calls, got, faults>>
    BY <1>6, PlainShape
  <2> QED
    BY <1>0, <2>1, <2>2, <2>3, <2>4 DEF links, calls
<1>7. ASSUME NEW p \in Procs, SetLxcMap(p) PROVE Types'
  BY <1>0, <1>7 DEF SetLxcMap, Locations, links, calls
<1>8. ASSUME NEW p \in Procs, Undo(p) PROVE Types'
  <2>1. IPAM!TypeOK'
    BY <1>0, <1>8, ReleaseTypes DEF Undo, CallsInv
  <2> QED
    BY <1>8, <2>1 DEF Undo, Locations, links, maps, calls
<1>9. ASSUME NEW p \in Procs, IpamDel(p) PROVE Types'
  <2>1. IPAM!TypeOK'
    BY <1>0, <1>9, ReleaseTypes DEF IpamDel, CallsInv
  <2> QED
    BY <1>9, <2>1 DEF IpamDel, Succeed, Locations, links, maps, calls
<1>10. ASSUME NEW p \in Procs, DelLink(p) PROVE Types'
  <2>1. addr[Pod(p)] \in Addrs \cup {NoAddr}
    BY <1>10 DEF DelLink, CallsInv
  <2>2. pc' \in [Procs -> Locations] /\ ok' \in [Procs -> BOOLEAN]
    BY <1>10 DEF DelLink, Succeed, Locations
  <2>3. /\ veth' \in [Pods -> 0 .. MaxAdds]
        /\ addr' \in [Pods -> Addrs \cup {NoAddr}]
        /\ got' \in [Procs -> Addrs \cup {NoAddr}]
    BY <1>z, <1>10, <2>1 DEF DelLink
  <2> QED
    BY <1>0, <1>10, <2>2, <2>3 DEF DelLink, maps, calls
<1>11. ASSUME NEW p \in Procs, DelKey(p) PROVE Types'
  <2>1. pc' \in [Procs -> Locations] /\ ok' \in [Procs -> BOOLEAN]
    BY <1>11 DEF DelKey, Succeed, Locations
  <2>2. lxc' \in [Addrs -> 0 .. MaxAdds]
    BY <1>z, <1>11 DEF DelKey
  <2> QED
    BY <1>0, <1>11, <2>1, <2>2 DEF DelKey, links, calls
<1>12. ASSUME NEW p \in Procs, Exit(p) PROVE Types'
  <2>1. pc' \in [Procs -> Locations] /\ ok' \in [Procs -> BOOLEAN]
    BY <1>12 DEF Exit, Forget, Locations
  <2>2. /\ live' \in [Pods -> Addrs \cup {NoAddr}]
        /\ got' \in [Procs -> Addrs \cup {NoAddr}]
    BY <1>12 DEF Exit, Forget
  <2>3. req' \in [Procs -> [cmd : {"ADD", "DEL"}, pod : Pods \cup {NoOne},
                            netns : BOOLEAN, index : 0 .. MaxAdds]]
    BY <1>12 DEF Exit, Forget, NoReq
  <2> QED
    BY <1>0, <1>12, <2>1, <2>2, <2>3 DEF Exit, links, maps
<1>13. ASSUME NEW p \in Procs, StepFails(p) PROVE Types'
  <2>1. pc' \in [Procs -> Locations] /\ ok' \in [Procs -> BOOLEAN]
    BY <1>13 DEF StepFails, Succeed, Fail, Locations, Parts
  <2> QED
    BY <1>0, <1>13, <2>1 DEF StepFails, Fault, links, maps, calls
<1>14. ASSUME NEW p \in Procs, Kill(p) PROVE Types'
  BY <1>0, <1>14 DEF Kill, Forget, NoReq, Fault, Locations, links, maps
<1>15. ASSUME NEW c \in Pods, NetnsGone(c) PROVE Types'
  BY <1>0, <1>15 DEF NetnsGone, Fault, maps, calls
<1>16. CASE Reboot
  <2>1. /\ pc' \in [Procs -> Locations] /\ ok' \in [Procs -> BOOLEAN]
        /\ netns' \subseteq Pods /\ pinned' \in BOOLEAN /\ vxlan' \subseteq Parts
    BY <1>16 DEF Reboot, Locations
  <2>2. req' \in [Procs -> [cmd : {"ADD", "DEL"}, pod : Pods \cup {NoOne},
                            netns : BOOLEAN, index : 0 .. MaxAdds]]
    BY <1>16 DEF Reboot, NoReq
  <2> QED
    BY <1>0, <1>16, <2>1, <2>2 DEF Reboot, Fault
<1>17. CASE LoseIpam
  BY <1>17, TableTypes DEF LoseIpam, Fault, links, maps, calls
<1>18. CASE UNCHANGED vars
  BY <1>0, <1>18 DEF vars, ipam
<1> QED
  BY <1>1, <1>2, <1>3, <1>4, <1>5, <1>6, <1>7, <1>8, <1>9, <1>10, <1>11, <1>12,
     <1>13, <1>14, <1>15, <1>16, <1>17, <1>18 DEF Next, Add, Del, Plain

\* An entry is stored only where there is room for it.
LEMMA RoomStep == Types /\ CallsInv /\ Room /\ [Next]_vars => Room'
<1> SUFFICES ASSUME Types, CallsInv, Room, [Next]_vars PROVE Room'
  OBVIOUS
<1> USE DEF Room
<1>0. MaxEntries \in Nat /\ Cardinality(Entries) \in Nat
  BY BoundsAssumption, FS_CardinalityType
<1>r. ASSUME NEW a
      PROVE  /\ IsFiniteSet(Entries \ {a})
             /\ Cardinality(Entries \ {a}) <= MaxEntries
  BY <1>0, FS_RemoveElement
<1>1. ASSUME NEW p \in Procs, SetLxcMap(p) PROVE Room'
  <2>1. CASE lxc' = lxc
    BY <2>1 DEF Entries
  <2>2. CASE lxc' = [lxc EXCEPT ![got[p]] = req[p].index] /\ got[p] \in Entries
    <3>1. Entries' = Entries \/ Entries' = Entries \ {got[p]}
      BY <2>2 DEF Types, Entries
    <3> QED
      BY <1>r, <3>1
  <2>3. CASE /\ lxc' = [lxc EXCEPT ![got[p]] = req[p].index]
             /\ got[p] \notin Entries /\ Cardinality(Entries) < MaxEntries
    <3>1. Entries' = Entries \/ Entries' = Entries \cup {got[p]}
      BY <2>3 DEF Types, Entries
    <3>2. /\ IsFiniteSet(Entries \cup {got[p]})
          /\ Cardinality(Entries \cup {got[p]}) = Cardinality(Entries) + 1
      BY <2>3, FS_AddElement
    <3> QED
      BY <1>0, <2>3, <3>1, <3>2
  <2> QED
    BY <1>1, <2>1, <2>2, <2>3 DEF SetLxcMap
<1>2. ASSUME NEW p \in Procs, DelKey(p) PROVE Room'
  <2>1. Entries' = Entries \/ Entries' = Entries \ {got[p]}
    BY <1>2 DEF DelKey, Types, Entries
  <2> QED
    BY <1>r, <2>1
<1>3. CASE Reboot
  <2>1. Entries' = {}
    BY <1>3 DEF Reboot, Entries
  <2> QED
    BY <1>0, <2>1, FS_EmptySet
<1>4. CASE UNCHANGED lxc
  BY <1>4 DEF Entries
<1> QED
  BY <1>1, <1>2, <1>3, <1>4, PlainShape
  DEF Next, Add, Del, Plain, CallAdd, CallDel, IpamAdd, SetupVeth,
      ConfigureIface, Undo, IpamDel, DelLink, Exit, StepFails, Kill, NetnsGone,
      LoseIpam, vars, maps, Types, IPAM!TypeOK, PinLxcMap, AttachVeth,
      FetchVeth, LoadLxcMap, SetARP, FindVxlan, AddPart, FindClsact, SetVxlanMap

-----------------------------------------------------------------------------
(* Calls, links and numbers *)

ProcStep(p) ==
  \/ \E c \in Pods : CallAdd(p, c) \/ CallDel(p, c)
  \/ Add(p) \/ Del(p) \/ Exit(p) \/ StepFails(p) \/ Kill(p)

\* A step of one process is not seen in the locals of another.
LEMMA OthersLocals ==
  ASSUME Types, NEW p \in Procs, ProcStep(p), NEW q \in Procs, q # p
  PROVE  /\ pc'[q] = pc[q] /\ req'[q] = req[q]
         /\ got'[q] = got[q] /\ ok'[q] = ok[q]
<1> USE DEF Types, Goto, calls
<1>1. CASE Plain(p)
  BY <1>1, PlainShape
<1>2. CASE ~ Plain(p)
  BY <1>2 DEF ProcStep, Add, Del, Plain, CallAdd, CallDel, IpamAdd, SetupVeth,
      ConfigureIface, SetLxcMap, Undo, IpamDel, DelLink, DelKey, Exit,
      StepFails, Kill, Forget, Fail, Succeed
<1> QED
  BY <1>1, <1>2

\* A new call, field by field.
LEMMA CallShape ==
  ASSUME Types, NEW p \in Procs, NEW c \in Pods, CallAdd(p, c) \/ CallDel(p, c)
  PROVE  /\ pc[p] = "idle" /\ (\A q \in Procs : pc[q] # "idle" => req[q].pod # c)
         /\ UNCHANGED <<netns, veth, addr, lxc, got, ok>>
         /\ \A q \in Procs : q # p => pc'[q] = pc[q] /\ req'[q] = req[q]
         /\ req'[p].pod = c
         /\ \/ /\ pc'[p] = "ipamadd" /\ req'[p].cmd = "ADD" /\ c \in netns
               /\ req'[p].index = adds + 1 /\ adds' = adds + 1 /\ UNCHANGED live
            \/ /\ pc'[p] = "ipamdel" /\ req'[p].cmd = "DEL" /\ UNCHANGED adds
               /\ live' = [live EXCEPT ![c] = NoAddr]
<1> USE DEF Types, Goto, At, Idle, Pod, links, maps
<1>1. CASE CallAdd(p, c)
  BY <1>1 DEF CallAdd
<1>2. CASE CallDel(p, c)
  <2> DEFINE new == [cmd |-> "DEL", pod |-> c, netns |-> c \in netns, index |-> 0]
  <2>1. new.cmd = "DEL" /\ new.pod = c
    OBVIOUS
  <2>2. req' = [req EXCEPT ![p] = new]
    BY <1>2 DEF CallDel
  <2> HIDE DEF new
  <2> QED
    BY <1>2, <2>1, <2>2 DEF CallDel
<1> QED
  BY <1>1, <1>2

\* What CallsInv says of one process.
CallOK(p) ==
  /\ ~ At(p, "idle") => Pod(p) \in Pods
  /\ pc[p] \in {"ipamadd", "veth", "addr", "undo"} \cup Configured => Adding(p)
  /\ pc[p] \in {"ipamdel", "dellink", "delkey"} => req[p].cmd = "DEL"
  /\ Adding(p) => req[p].index \in 1 .. adds /\ Pod(p) \in netns
  /\ ~ At(p, "idle") /\ req[p].cmd = "DEL" => live[Pod(p)] = NoAddr
  /\ pc[p] \notin Ends => ~ ok[p]
  /\ pc[p] \in {"veth", "addr", "delkey"} => got[p] \in Addrs

\* A step of one call leaves what is true of the others.
LEMMA CallsKept ==
  ASSUME CallsInv, NEW p \in Procs, pc[p] # "idle", CallOK(p)',
         UNCHANGED <<req, live, adds, netns>>,
         \A q \in Procs : q # p =>
           pc'[q] = pc[q] /\ got'[q] = got[q] /\ ok'[q] = ok[q]
  PROVE  CallsInv'
BY DEF CallsInv, CallOK, Adding, At, Pod

\* A new call is for a pod that no other call is for.
LEMMA CallsBegin ==
  ASSUME Types, CallsInv, NEW p \in Procs, NEW c \in Pods,
         CallAdd(p, c) \/ CallDel(p, c)
  PROVE  CallsInv'
<1>1. /\ \A q \in Procs : pc[q] # "idle" => req[q].pod # c
      /\ UNCHANGED <<netns, got, ok>>
      /\ \A q \in Procs : q # p => pc'[q] = pc[q] /\ req'[q] = req[q]
      /\ req'[p].pod = c /\ pc'[p] \in {"ipamadd", "ipamdel"} /\ pc[p] = "idle"
      /\ adds' \in {adds, adds + 1} /\ adds \in Nat /\ ~ ok[p]
      /\ \A d \in Pods : live'[d] = live[d] \/ (d = c /\ live'[d] = NoAddr)
  BY CallShape, BoundsAssumption DEF Types, CallsInv, Ends
<1>2. CallOK(p)'
  BY <1>1, CallShape DEF CallOK, Adding, At, Pod, Configured, Parts, Ends, Types
<1>3. ASSUME NEW q \in Procs, q # p PROVE CallOK(q)'
  <2>1. CallOK(q)
    BY DEF CallsInv, CallOK
  <2>2. Adding(q)' <=> Adding(q)
    BY <1>1, <1>3 DEF Adding, At
  <2>3. Adding(q) => req'[q].index \in 1 .. adds' /\ Pod(q)' \in netns'
    BY <1>1, <1>3, <2>1 DEF CallOK, Pod
  <2>4. pc[q] # "idle" /\ req[q].cmd = "DEL" => live'[req[q].pod] = NoAddr
    BY <1>1, <2>1 DEF CallOK, At, Pod
  <2> QED
    BY <1>1, <1>3, <2>1, <2>2, <2>3, <2>4 DEF CallOK, At, Pod
<1>4. \A q, r \in Procs :
        pc'[q] # "idle" /\ pc'[r] # "idle" /\ req'[q].pod = req'[r].pod => q = r
  BY <1>1 DEF CallsInv, At, Pod
<1> QED
  BY <1>2, <1>3, <1>4 DEF CallsInv, CallOK, At, Pod

\* Numbers can only become fewer, except in three steps.
LEMMA NumbersKept ==
  ASSUME Types, CallsInv, NumbersInv, UNCHANGED adds,
         \A q \in Procs :
           pc'[q] # "idle" => /\ pc[q] # "idle" /\ req'[q] = req[q]
                              /\ pc'[q] \in {"ipamadd", "veth", "addr"} =>
                                   pc[q] \in {"ipamadd", "veth", "addr"},
         \A c \in Pods : veth'[c] \in {0, veth[c]},
         \A a \in Addrs : lxc'[a] \in {0, lxc[a]}
  PROVE  NumbersInv'
<1>1. ASSUME NEW q \in Procs, Adding(q)'
      PROVE  Adding(q) /\ req'[q] = req[q] /\ req[q].index # 0
  BY <1>1, BoundsAssumption DEF Adding, At, CallsInv, Types
<1>2. \A c \in Pods : veth'[c] <= adds
  BY BoundsAssumption DEF NumbersInv, Types
<1>3. \A a \in Addrs : lxc'[a] <= adds
  BY BoundsAssumption DEF NumbersInv, Types
<1> QED
  BY <1>1, <1>2, <1>3 DEF NumbersInv, Adding, At, Pod

\* The runtime's promises, and where a call is.
LEMMA CallsStep == IInv /\ [Next]_vars => CallsInv'
<1> SUFFICES ASSUME IInv, [Next]_vars PROVE CallsInv'
  OBVIOUS
<1>0. Types /\ CallsInv
  BY TypesAndRoom DEF IInv
<1> USE <1>0 DEF Types, CallsInv, Adding, Ends, Configured, Parts, Goto, At, Pod
<1>1. ASSUME NEW p \in Procs, NEW c \in Pods, CallAdd(p, c) \/ CallDel(p, c)
      PROVE  CallsInv'
  BY <1>1, CallsBegin
<1>3. ASSUME NEW p \in Procs, IpamAdd(p) PROVE CallsInv'
  <2>1. pc[p] = "ipamadd" /\ UNCHANGED <<req, live, adds, netns, ok>>
    BY <1>3 DEF IpamAdd, links, calls
  <2>2. \/ got'[p] \in Addrs /\ pc'[p] = "veth"
        \/ pc'[p] = "exit"
    BY <1>3 DEF IpamAdd
  <2>3. \A q \in Procs : q # p => pc'[q] = pc[q] /\ got'[q] = got[q]
    BY <1>3 DEF IpamAdd
  <2>4. CallOK(p)'
    BY <2>1, <2>2 DEF CallOK
  <2> QED
    BY <2>1, <2>3, <2>4, CallsKept
<1>4. ASSUME NEW p \in Procs, SetupVeth(p) PROVE CallsInv'
  BY <1>4 DEF SetupVeth, Fail, maps, calls
<1>5. ASSUME NEW p \in Procs, ConfigureIface(p) PROVE CallsInv'
  BY <1>5 DEF ConfigureIface, maps, calls
<1>6. ASSUME NEW p \in Procs, Plain(p) PROVE CallsInv'
  BY <1>6, PlainShape DEF links, calls
<1>7. ASSUME NEW p \in Procs, SetLxcMap(p) PROVE CallsInv'
  BY <1>7 DEF SetLxcMap, links, calls
<1>8. ASSUME NEW p \in Procs, Undo(p) PROVE CallsInv'
  BY <1>8 DEF Undo, links, maps, calls
<1>9. ASSUME NEW p \in Procs, IpamDel(p) PROVE CallsInv'
  BY <1>9 DEF IpamDel, Succeed, links, maps, calls
<1>10. ASSUME NEW p \in Procs, DelLink(p) PROVE CallsInv'
  <2>1. pc[p] = "dellink" /\ UNCHANGED <<req, live, adds, netns>>
    BY <1>10 DEF DelLink, calls
  <2>2. \/ pc'[p] = "delkey" /\ got'[p] \in Addrs /\ ok' = ok
        \/ pc'[p] = "exit"
    BY <1>10 DEF DelLink, Succeed
  <2>3. \A q \in Procs : q # p => pc'[q] = pc[q] /\ got'[q] = got[q] /\ ok'[q] = ok[q]
    BY <1>10 DEF DelLink, Succeed
  <2>4. CallOK(p)'
    BY <2>1, <2>2 DEF CallOK
  <2> QED
    BY <2>1, <2>3, <2>4, CallsKept
<1>11. ASSUME NEW p \in Procs, DelKey(p) PROVE CallsInv'
  BY <1>11 DEF DelKey, Succeed, links, calls
<1>12. ASSUME NEW p \in Procs, Exit(p) PROVE CallsInv'
  BY <1>12 DEF Exit, Forget, links, maps
<1>13. ASSUME NEW p \in Procs, StepFails(p) PROVE CallsInv'
  <2>1. UNCHANGED <<req, live, adds, netns, got>> /\ pc[p] # "idle"
    BY <1>13 DEF StepFails, calls, links
  <2>2. \A q \in Procs : q # p => pc'[q] = pc[q] /\ ok'[q] = ok[q]
    BY <1>13 DEF StepFails, Fail, Succeed
  <2>3. \/ pc'[p] = "exit"
        \/ /\ pc'[p] \in {"undo", "arp", "link", "clsact"} /\ ok' = ok
           /\ pc[p] \in {"veth", "addr"} \cup Configured
    BY <1>13 DEF StepFails, Fail, Succeed
  <2>4. CallOK(p)'
    BY <2>1, <2>3 DEF CallOK
  <2> QED
    BY <2>1, <2>2, <2>4, CallsKept
<1>14. ASSUME NEW p \in Procs, Kill(p) PROVE CallsInv'
  BY <1>14 DEF Kill, Forget, links, maps
<1>15. ASSUME NEW c \in Pods, NetnsGone(c) PROVE CallsInv'
  BY <1>15 DEF NetnsGone, Idle, maps, calls
<1>16. CASE Reboot
  BY <1>16 DEF Reboot
<1>17. CASE LoseIpam
  BY <1>17 DEF LoseIpam, links, maps, calls
<1>18. CASE UNCHANGED vars
  BY <1>18 DEF vars, links, maps, calls
<1> QED
  BY <1>1, <1>3, <1>4, <1>5, <1>6, <1>7, <1>8, <1>9, <1>10, <1>11, <1>12,
     <1>13, <1>14, <1>15, <1>16, <1>17, <1>18 DEF Next, Add, Del, Plain

\* An ADD's link stays as it made it.
LEMMA LinksStep == IInv /\ [Next]_vars => LinksInv'
<1> SUFFICES ASSUME IInv, [Next]_vars PROVE LinksInv'
  OBVIOUS
<1>0. Types /\ CallsInv /\ LinksInv /\ LinkAsTold
  BY TypesAndRoom DEF IInv
<1> USE <1>0 DEF Types, CallsInv, LinksInv, HasLink, Adding, Ends,
    Configured, Parts, Goto, At, Pod
<1>1. ASSUME NEW p \in Procs, NEW c \in Pods, CallAdd(p, c) PROVE LinksInv'
  BY <1>1, CallShape
<1>2. ASSUME NEW p \in Procs, NEW c \in Pods, CallDel(p, c) PROVE LinksInv'
  BY <1>2, CallShape
<1>3. ASSUME NEW p \in Procs, IpamAdd(p) PROVE LinksInv'
  BY <1>3 DEF IpamAdd, links, maps, calls
<1>4. ASSUME NEW p \in Procs, SetupVeth(p) PROVE LinksInv'
  BY <1>4 DEF SetupVeth, Fail, maps, calls, LinkAsTold
<1>5. ASSUME NEW p \in Procs, ConfigureIface(p) PROVE LinksInv'
  BY <1>5 DEF ConfigureIface, maps, calls
<1>6. ASSUME NEW p \in Procs, Plain(p) PROVE LinksInv'
  BY <1>6, PlainShape DEF links, calls
<1>7. ASSUME NEW p \in Procs, SetLxcMap(p) PROVE LinksInv'
  BY <1>7 DEF SetLxcMap, links, calls
<1>8. ASSUME NEW p \in Procs, Undo(p) PROVE LinksInv'
  BY <1>8 DEF Undo, links, maps, calls
<1>9. ASSUME NEW p \in Procs, IpamDel(p) PROVE LinksInv'
  BY <1>9 DEF IpamDel, Succeed, links, maps, calls
<1>10. ASSUME NEW p \in Procs, DelLink(p) PROVE LinksInv'
  BY <1>10 DEF DelLink, Succeed, maps, calls
<1>11. ASSUME NEW p \in Procs, DelKey(p) PROVE LinksInv'
  BY <1>11 DEF DelKey, Succeed, links, calls
<1>12. ASSUME NEW p \in Procs, Exit(p) PROVE LinksInv'
  BY <1>12 DEF Exit, Forget, links, maps
<1>13. ASSUME NEW p \in Procs, StepFails(p) PROVE LinksInv'
  BY <1>13 DEF StepFails, Fail, Succeed, links, maps, calls
<1>14. ASSUME NEW p \in Procs, Kill(p) PROVE LinksInv'
  BY <1>14 DEF Kill, Forget, links, maps
<1>15. ASSUME NEW c \in Pods, NetnsGone(c) PROVE LinksInv'
  BY <1>15 DEF NetnsGone, Idle, maps, calls
<1>16. CASE Reboot
  BY <1>16 DEF Reboot
<1>17. CASE LoseIpam
  BY <1>17 DEF LoseIpam, links, maps, calls
<1>18. CASE UNCHANGED vars
  BY <1>18 DEF vars, links, maps, calls
<1> QED
  BY <1>1, <1>2, <1>3, <1>4, <1>5, <1>6, <1>7, <1>8, <1>9, <1>10, <1>11, <1>12,
     <1>13, <1>14, <1>15, <1>16, <1>17, <1>18 DEF Next, Add, Del, Plain

\* Numbers stay apart, and lxc_map follows the links.
LEMMA NumbersStep == IInv /\ [Next]_vars => NumbersInv'
<1> SUFFICES ASSUME IInv, [Next]_vars PROVE NumbersInv'
  OBVIOUS
<1>0. Types /\ CallsInv /\ LinksInv /\ NumbersInv
  BY TypesAndRoom DEF IInv
<1> USE <1>0 DEF Types, Goto, At
<1>1. ASSUME NEW p \in Procs, NEW c \in Pods, CallAdd(p, c) \/ CallDel(p, c)
      PROVE  NumbersInv'
  <2>1. CASE pc'[p] = "ipamdel"
    <3>1. UNCHANGED <<adds, veth, lxc>>
      BY <1>1, <2>1, CallShape
    <3>2. ASSUME NEW q \in Procs, Adding(q)'
          PROVE  Adding(q) /\ pc'[q] = pc[q] /\ req'[q] = req[q]
      BY <1>1, <2>1, <3>2, CallShape DEF Adding
    <3> QED
      BY <3>1, <3>2 DEF NumbersInv, Pod
  <2>2. CASE pc'[p] = "ipamadd"
    <3>1. /\ req'[p].index = adds + 1 /\ adds' = adds + 1 /\ adds \in Nat
          /\ req'[p].pod = c /\ UNCHANGED <<veth, lxc>>
          /\ \A q \in Procs : q # p => pc'[q] = pc[q] /\ req'[q] = req[q]
      BY <1>1, <2>2, CallShape, BoundsAssumption
    <3>2. \A q \in Procs : q # p => (Adding(q)' <=> Adding(q))
      BY <3>1 DEF Adding
    <3>3. /\ \A d \in Pods : veth'[d] < adds + 1 /\ veth'[d] <= adds'
          /\ \A a \in Addrs : lxc'[a] < adds + 1 /\ lxc'[a] <= adds'
      BY <3>1, BoundsAssumption DEF NumbersInv
    <3>4. \A q \in Procs : q # p /\ Adding(q)' => req'[q].index < adds + 1
      BY <3>1, <3>2, BoundsAssumption DEF CallsInv
    <3>5. ASSUME NEW q \in Procs, NEW r \in Procs, Adding(q)', Adding(r)',
                 req'[q].index = req'[r].index
          PROVE  q = r
      <4>1. CASE q # p /\ r # p
        BY <3>1, <3>2, <3>5, <4>1 DEF NumbersInv
      <4>2. CASE q = p \/ r = p
        BY <3>1, <3>4, <3>5, <4>2
      <4> QED
        BY <4>1, <4>2
    <3>6. ASSUME NEW q \in Procs, Adding(q)'
          PROVE  /\ \A d \in Pods : veth'[d] = req'[q].index => d = req'[q].pod
                 /\ pc'[q] \in {"ipamadd", "veth", "addr"} =>
                      \A a \in Addrs : lxc'[a] # req'[q].index
      <4>1. CASE q # p
        BY <3>1, <3>2, <3>6, <4>1 DEF NumbersInv, Pod
      <4>2. CASE q = p
        BY <3>1, <3>3, <4>2
      <4> QED
        BY <4>1, <4>2
    <3> QED
      BY <3>3, <3>5, <3>6 DEF NumbersInv, Pod
  <2> QED
    BY <1>1, <2>1, <2>2, CallShape
<1>2. ASSUME NEW p \in Procs, SetupVeth(p) PROVE NumbersInv'
  <2>1. CASE veth' = veth
    BY <1>2, <2>1, NumbersKept DEF SetupVeth, Fail, maps, calls
  <2>2. CASE veth' = [veth EXCEPT ![Pod(p)] = req[p].index]
    <3>1. /\ UNCHANGED <<adds, lxc, req>> /\ pc[p] = "veth"
          /\ \A q \in Procs : pc'[q] # pc[q] => q = p /\ pc'[p] \in {"addr", "undo"}
      BY <1>2 DEF SetupVeth, Fail, maps, calls
    <3>2. Adding(p) /\ req[p].index <= adds /\ req[p].pod \in Pods
      BY <3>1, BoundsAssumption DEF CallsInv, Adding, Pod
    <3>3. \A c \in Pods : veth'[c] = IF c = req[p].pod THEN req[p].index ELSE veth[c]
      BY <2>2, <3>2 DEF Pod
    <3>4. \A q \in Procs : Adding(q)' <=> Adding(q)
      BY <3>1 DEF Adding
    <3>5. \A c \in Pods : veth'[c] <= adds
      BY <3>2, <3>3 DEF NumbersInv
    <3>6. ASSUME NEW q \in Procs, Adding(q), NEW c \in Pods, veth'[c] = req[q].index
          PROVE  c = req[q].pod
      BY <3>2, <3>3, <3>6 DEF NumbersInv, Pod
    <3>7. \A q \in Procs : pc'[q] \in {"ipamadd", "veth", "addr"} =>
                             pc[q] \in {"ipamadd", "veth", "addr"}
      BY <3>1
    <3> QED
      BY <3>1, <3>4, <3>5, <3>6, <3>7 DEF NumbersInv, Pod
  <2> QED
    BY <1>2, <2>1, <2>2 DEF SetupVeth
<1>3. ASSUME NEW p \in Procs, SetLxcMap(p) PROVE NumbersInv'
  <2>1. CASE lxc' = lxc
    BY <1>3, <2>1, NumbersKept DEF SetLxcMap, links, calls
  <2>2. CASE lxc' = [lxc EXCEPT ![got[p]] = req[p].index]
    BY <1>3, <2>2, BoundsAssumption
    DEF SetLxcMap, links, calls, NumbersInv, CallsInv, Adding, Configured, Pod
  <2> QED
    BY <1>3, <2>1, <2>2 DEF SetLxcMap
<1>4. ASSUME NEW p \in Procs, Plain(p) PROVE NumbersInv'
  <2>1. \A q \in Procs : pc'[q] = pc[q]
            \/ (pc[q] # "idle" /\ pc'[q] \notin {"ipamadd", "veth", "addr"})
    BY <1>4, PlainShape DEF Configured, Parts
  <2> QED
    BY <1>4, <2>1, PlainShape, NumbersKept DEF links, calls
<1>5. ASSUME NEW p \in Procs, IpamAdd(p) PROVE NumbersInv'
  <2>1. \A q \in Procs : pc'[q] = pc[q]
            \/ (pc[q] = "ipamadd" /\ pc'[q] \in {"veth", "exit"})
    BY <1>5 DEF IpamAdd
  <2> QED
    BY <1>5, <2>1, NumbersKept DEF IpamAdd, links, maps, calls
<1>6. ASSUME NEW p \in Procs, ConfigureIface(p) \/ Undo(p) \/ IpamDel(p)
      PROVE  NumbersInv'
  BY <1>6, NumbersKept
  DEF ConfigureIface, Undo, IpamDel, Succeed, links, maps, calls
<1>7. ASSUME NEW p \in Procs, DelLink(p) \/ DelKey(p) PROVE NumbersInv'
  <2>1. /\ UNCHANGED <<adds, req>>
        /\ \A q \in Procs : pc'[q] = pc[q]
               \/ (pc[q] # "idle" /\ pc'[q] \in {"delkey", "exit"})
    BY <1>7 DEF DelLink, DelKey, Succeed, calls
  <2>2. \A c \in Pods : veth'[c] \in {0, veth[c]}
    BY <1>7 DEF DelLink, DelKey, links
  <2>3. \A a \in Addrs : lxc'[a] \in {0, lxc[a]}
    BY <1>7 DEF DelLink, DelKey, maps
  <2> QED
    BY <2>1, <2>2, <2>3, NumbersKept
<1>8. ASSUME NEW p \in Procs, StepFails(p) PROVE NumbersInv'
  <2>1. \A q \in Procs :
          pc'[q] = pc[q] \/ (pc[q] # "idle" /\ pc'[q] \notin {"ipamadd", "veth", "addr"})
    BY <1>8 DEF StepFails, Fail, Succeed, Parts
  <2> QED
    BY <1>8, <2>1, NumbersKept DEF StepFails, links, maps, calls
<1>9. ASSUME NEW p \in Procs, Exit(p) \/ Kill(p) PROVE NumbersInv'
  BY <1>9, NumbersKept DEF Exit, Kill, Forget, links, maps
<1>10. CASE Reboot
  BY <1>10, NumbersKept DEF Reboot
<1>11. ASSUME NEW c \in Pods, NetnsGone(c) PROVE NumbersInv'
  BY <1>11, NumbersKept DEF NetnsGone, maps, calls
<1>12. CASE LoseIpam \/ UNCHANGED vars
  BY <1>12, NumbersKept DEF LoseIpam, vars, links, maps, calls
<1> QED
  BY <1>1, <1>2, <1>3, <1>4, <1>5, <1>6, <1>7, <1>8, <1>9, <1>10, <1>11, <1>12
  DEF Next, Add, Del, Plain

\* No step takes a live pod's address off its link.
LEMMA ToldStep == IInv /\ [Next]_vars => LinkAsTold'
<1> SUFFICES ASSUME IInv, [Next]_vars PROVE LinkAsTold'
  OBVIOUS
<1>0. Types /\ CallsInv /\ LinksInv /\ LinkAsTold
  BY TypesAndRoom DEF IInv
<1> USE <1>0 DEF Types, CallsInv, LinksInv, HasLink, LinkAsTold, Adding, Ends,
    Configured, Parts, Goto, At, Pod
<1>1. ASSUME NEW p \in Procs, NEW c \in Pods, CallAdd(p, c) PROVE LinkAsTold'
  BY <1>1, CallShape
<1>2. ASSUME NEW p \in Procs, NEW c \in Pods, CallDel(p, c) PROVE LinkAsTold'
  BY <1>2, CallShape
<1>3. ASSUME NEW p \in Procs, IpamAdd(p) PROVE LinkAsTold'
  BY <1>3 DEF IpamAdd, links, maps, calls
<1>4. ASSUME NEW p \in Procs, SetupVeth(p) PROVE LinkAsTold'
  BY <1>4 DEF SetupVeth, Fail, maps, calls
<1>5. ASSUME NEW p \in Procs, ConfigureIface(p) PROVE LinkAsTold'
  BY <1>5 DEF ConfigureIface, maps, calls
<1>6. ASSUME NEW p \in Procs, Plain(p) PROVE LinkAsTold'
  BY <1>6, PlainShape DEF links, calls
<1>7. ASSUME NEW p \in Procs, SetLxcMap(p) PROVE LinkAsTold'
  BY <1>7 DEF SetLxcMap, links, calls
<1>8. ASSUME NEW p \in Procs, Undo(p) PROVE LinkAsTold'
  BY <1>8 DEF Undo, links, maps, calls
<1>9. ASSUME NEW p \in Procs, IpamDel(p) PROVE LinkAsTold'
  BY <1>9 DEF IpamDel, Succeed, links, maps, calls
<1>10. ASSUME NEW p \in Procs, DelLink(p) PROVE LinkAsTold'
  BY <1>10 DEF DelLink, Succeed, maps, calls
<1>11. ASSUME NEW p \in Procs, DelKey(p) PROVE LinkAsTold'
  BY <1>11 DEF DelKey, Succeed, links, calls
<1>12. ASSUME NEW p \in Procs, Exit(p) PROVE LinkAsTold'
  BY <1>12 DEF Exit, Forget, links, maps
<1>13. ASSUME NEW p \in Procs, StepFails(p) PROVE LinkAsTold'
  BY <1>13 DEF StepFails, Fail, Succeed, links, maps, calls
<1>14. ASSUME NEW p \in Procs, Kill(p) PROVE LinkAsTold'
  BY <1>14 DEF Kill, Forget, links, maps
<1>15. ASSUME NEW c \in Pods, NetnsGone(c) PROVE LinkAsTold'
  BY <1>15 DEF NetnsGone, Idle, maps, calls
<1>16. CASE Reboot
  BY <1>16 DEF Reboot
<1>17. CASE LoseIpam
  BY <1>17 DEF LoseIpam, links, maps, calls
<1>18. CASE UNCHANGED vars
  BY <1>18 DEF vars, links, maps, calls
<1> QED
  BY <1>1, <1>2, <1>3, <1>4, <1>5, <1>6, <1>7, <1>8, <1>9, <1>10, <1>11, <1>12,
     <1>13, <1>14, <1>15, <1>16, <1>17, <1>18 DEF Next, Add, Del, Plain

\* No step makes an entry lead to a link that has another address.
LEMMA HitsStep == IInv /\ [Next]_vars => RedirectsHit'
<1> SUFFICES ASSUME IInv, [Next]_vars PROVE RedirectsHit'
  OBVIOUS
<1>0. Types /\ CallsInv /\ LinksInv /\ NumbersInv /\ RedirectsHit
  BY TypesAndRoom DEF IInv
<1> USE <1>0 DEF Types, CallsInv, LinksInv, HasLink, NumbersInv, RedirectsHit, VethIngress,
    Adding, Configured, Parts, Goto, At, Pod
<1>1. ASSUME NEW p \in Procs, NEW c \in Pods, CallAdd(p, c) PROVE RedirectsHit'
  BY <1>1, CallShape
<1>2. ASSUME NEW p \in Procs, NEW c \in Pods, CallDel(p, c) PROVE RedirectsHit'
  BY <1>2, CallShape
<1>3. ASSUME NEW p \in Procs, IpamAdd(p) PROVE RedirectsHit'
  BY <1>3 DEF IpamAdd, links, maps, calls
<1>4. ASSUME NEW p \in Procs, SetupVeth(p) PROVE RedirectsHit'
  BY <1>4 DEF SetupVeth, Fail, maps, calls
<1>5. ASSUME NEW p \in Procs, ConfigureIface(p) PROVE RedirectsHit'
  BY <1>5 DEF ConfigureIface, maps, calls
<1>6. ASSUME NEW p \in Procs, Plain(p) PROVE RedirectsHit'
  BY <1>6, PlainShape DEF links, calls
<1>7. ASSUME NEW p \in Procs, SetLxcMap(p) PROVE RedirectsHit'
  BY <1>7 DEF SetLxcMap, links, calls
<1>8. ASSUME NEW p \in Procs, Undo(p) PROVE RedirectsHit'
  BY <1>8 DEF Undo, links, maps, calls
<1>9. ASSUME NEW p \in Procs, IpamDel(p) PROVE RedirectsHit'
  BY <1>9 DEF IpamDel, Succeed, links, maps, calls
<1>10. ASSUME NEW p \in Procs, DelLink(p) PROVE RedirectsHit'
  BY <1>10 DEF DelLink, Succeed, maps, calls
<1>11. ASSUME NEW p \in Procs, DelKey(p) PROVE RedirectsHit'
  BY <1>11 DEF DelKey, Succeed, links, calls
<1>12. ASSUME NEW p \in Procs, Exit(p) PROVE RedirectsHit'
  BY <1>12 DEF Exit, Forget, links, maps
<1>13. ASSUME NEW p \in Procs, StepFails(p) PROVE RedirectsHit'
  BY <1>13 DEF StepFails, Fail, Succeed, links, maps, calls
<1>14. ASSUME NEW p \in Procs, Kill(p) PROVE RedirectsHit'
  BY <1>14 DEF Kill, Forget, links, maps
<1>15. ASSUME NEW c \in Pods, NetnsGone(c) PROVE RedirectsHit'
  BY <1>15 DEF NetnsGone, Idle, maps, calls
<1>16. CASE Reboot
  BY <1>16 DEF Reboot
<1>17. CASE LoseIpam
  BY <1>17 DEF LoseIpam, links, maps, calls
<1>18. CASE UNCHANGED vars
  BY <1>18 DEF vars, links, maps, calls
<1> QED
  BY <1>1, <1>2, <1>3, <1>4, <1>5, <1>6, <1>7, <1>8, <1>9, <1>10, <1>11, <1>12,
     <1>13, <1>14, <1>15, <1>16, <1>17, <1>18 DEF Next, Add, Del, Plain
-----------------------------------------------------------------------------
(* The theorems, whatever goes wrong *)

\* The invariant holds on a node that has just started.
LEMMA Initially == Init => IInv
<1> SUFFICES ASSUME Init PROVE IInv
  OBVIOUS
<1> USE BoundsAssumption DEF Init
<1>1. Types
  <2>1. IPAM!TypeOK
    BY DEF IPAM!Init, IPAM!TypeOK, IPAM!NoOwners
  <2>2. 0 \in 0 .. MaxAdds /\ 0 \in 0 .. MaxFaults
    OBVIOUS
  <2>3. NoReq \in [cmd : {"ADD", "DEL"}, pod : Pods \cup {NoOne},
                   netns : BOOLEAN, index : 0 .. MaxAdds]
    BY <2>2 DEF NoReq
  <2>4. "idle" \in Locations
    BY DEF Locations
  <2>5. FALSE \in BOOLEAN
    OBVIOUS
  <2> QED
    BY <2>1, <2>2, <2>3, <2>4, <2>5, Zenon DEF Types
<1>2. Room
  <2>1. Entries = {}
    BY DEF Entries
  <2> QED
    BY <2>1, FS_EmptySet DEF Room
<1>3. CallsInv /\ LinksInv
  BY DEF CallsInv, LinksInv, Adding, Ends, Configured, Parts, At
<1>4. NumbersInv
  BY DEF NumbersInv, Adding, At
<1>5. LinkAsTold /\ RedirectsHit
  BY DEF LinkAsTold, RedirectsHit, VethIngress
<1> QED
  BY <1>1, <1>2, <1>3, <1>4, <1>5, TypesAndRoom DEF IInv

\* IInv is an invariant: calls, links and the numbers of the ADDs stay in line
\* whatever steps are taken.
THEOREM Invariant == Spec => []IInv
<1>1. IInv /\ [Next]_vars => Types' /\ Room'
  BY TypesStep, RoomStep, TypesAndRoom DEF IInv
<1>2. (Types /\ Room => TypeOK /\ IsFiniteSet(Entries))
  BY TypesAndRoom
<1>3. Types' /\ Room' => TypeOK' /\ IsFiniteSet(Entries)'
  BY <1>2, PTL
<1>4. IInv /\ [Next]_vars => IInv'
  BY <1>1, <1>3, CallsStep, LinksStep, NumbersStep, ToldStep, HitsStep DEF IInv
<1> QED
  BY Initially, <1>4, PTL DEF Spec

\* Every variable of VxlanPlugin always has its type, and lxc_map never has
\* more entries than it has room for.
THEOREM TypeCorrect == Spec => []TypeOK
BY Invariant, PTL DEF IInv

\* A live pod's interface has the address the runtime was told.
THEOREM LinksAreAsTold == Spec => []LinkAsTold
BY Invariant, PTL DEF IInv

\* veth_ingress never redirects a packet to a pod with another address.
THEOREM RedirectsAlwaysHit == Spec => []RedirectsHit
BY Invariant, PTL DEF IInv

-----------------------------------------------------------------------------
(* The theorems, where some things do not go wrong *)

\* Which steps change the table of the IPAM plugin, and how.
LEMMA TableSteps ==
  ASSUME IInv, [Next]_vars
  PROVE  \/ UNCHANGED ipam
         \/ \E p \in Procs : IpamAdd(p) /\ At(p, "ipamadd")
         \/ \E p \in Procs : (Undo(p) \/ IpamDel(p)) /\ IpamRelease(p)
         \/ IPAM!Lose
<1>1. ASSUME NEW p \in Procs, Plain(p) PROVE UNCHANGED ipam
  BY <1>1, PlainShape, TypesAndRoom DEF IInv, Types
<1> QED
  BY <1>1
  DEF Next, Add, Del, Plain, CallAdd, CallDel, IpamAdd, SetupVeth,
      ConfigureIface, SetLxcMap, Undo, IpamDel, DelLink, DelKey, Exit,
      StepFails, Kill, NetnsGone, Reboot, LoseIpam, vars, ipam

\* The table stays one, and a lost one empty.
LEMMA TableStep == IInv /\ TableInv /\ [Next]_vars => TableInv'
<1> SUFFICES ASSUME IInv, TableInv, [Next]_vars PROVE TableInv'
  OBVIOUS
<1>0. Types /\ CallsInv
  BY TypesAndRoom DEF IInv
<1> USE DEF TableInv, IPAM!OneAddressEach
<1>1. ASSUME NEW c \in Pods, NEW a \in Addrs, IPAM!Reserve(c, a) PROVE TableInv'
  BY <1>0, <1>1 DEF IPAM!Reserve, IPAM!Holds, Types, IPAM!TypeOK
<1>2. ASSUME NEW c \in Pods, NEW a \in Addrs, IPAM!Release(c, a) PROVE TableInv'
  BY <1>0, <1>2 DEF IPAM!Release, Types, IPAM!TypeOK
<1>3. CASE IPAM!Lose
  BY <1>3 DEF IPAM!Lose, IPAM!NoOwners
<1>4. CASE UNCHANGED ipam
  BY <1>4 DEF ipam, IPAM!NoOwners
<1>5. ASSUME NEW p \in Procs, IpamAdd(p) PROVE TableInv'
  <2>1. Pod(p) \in Pods
    BY <1>0, <1>5 DEF IpamAdd, CallsInv, At
  <2> QED
    BY <1>1, <1>4, <1>5, <2>1 DEF IpamAdd
<1>6. ASSUME NEW p \in Procs, Undo(p) \/ IpamDel(p), IpamRelease(p)
      PROVE  TableInv'
  <2>1. Pod(p) \in Pods
    BY <1>0, <1>6 DEF Undo, IpamDel, CallsInv, At
  <2> QED
    BY <1>2, <1>4, <1>6, <2>1 DEF IpamRelease
<1> QED
  BY <1>3, <1>4, <1>5, <1>6, TableSteps

\* After the undo, or after an ExecAdd that found nothing, the pod has no
\* reservation, and no other call makes one for it.
LEMMA ReleasedStep ==
  ASSUME "fail" \notin Kinds, IInv, TableInv, FailedAddReleases, [Next]_vars
  PROVE  FailedAddReleases'
<1> DEFINE Failed(p) == pc[p] = "exit" /\ req[p].cmd = "ADD" /\ ~ ok[p]
<1> SUFFICES ASSUME NEW q \in Procs, Failed(q)' PROVE ~ IPAM!Holds(Pod(q))'
  BY DEF FailedAddReleases, At
<1>0. Types /\ CallsInv
  BY TypesAndRoom DEF IInv
<1> USE <1>0 DEF Types, Goto, At
<1>1. CASE Undo(q)
  <2>1. req' = req /\ Pod(q) \in Pods /\ IpamRelease(q)
    BY <1>1 DEF Undo, calls, CallsInv
  <2>2. CASE IPAM!Holds(Pod(q))
    <3>1. PICK a \in Addrs : IPAM!Release(Pod(q), a)
      BY <2>1, <2>2 DEF IpamRelease
    <3>2. owner[a] = Pod(q) /\ \A b \in Addrs : b # a => owner[b] # Pod(q)
      BY <2>1, <3>1, NamesAssumption
      DEF IPAM!Release, TableInv, IPAM!OneAddressEach
    <3> QED
      BY <2>1, <3>1, <3>2, NamesAssumption
      DEF IPAM!Release, IPAM!Holds, IPAM!TypeOK, Pod
  <2>3. CASE ~ IPAM!Holds(Pod(q))
    BY <2>1, <2>3 DEF IpamRelease, ipam, IPAM!Holds, Pod
  <2> QED
    BY <2>2, <2>3
<1>2. CASE IpamAdd(q)
  <2>1. /\ req' = req /\ Pod(q) \in Pods /\ UNCHANGED ipam
        /\ ~ usable \/ \A a \in Addrs : owner[a] \notin {NoOne, Pod(q)}
    BY <1>2 DEF IpamAdd, calls, CallsInv
  <2> QED
    BY <2>1, NamesAssumption
    DEF ipam, IPAM!Holds, TableInv, IPAM!NoOwners, Pod
<1>3. CASE ~ Undo(q) /\ ~ IpamAdd(q)
  <2>1. Failed(q) /\ req'[q] = req[q] /\ Pod(q) \in Pods
    <3>1. ASSUME NEW p \in Procs, ProcStep(p), p # q
          PROVE  Failed(q) /\ req'[q] = req[q]
      BY <3>1, OthersLocals
    <3>2. ASSUME ProcStep(q)
          PROVE  Failed(q) /\ req'[q] = req[q]
      <4>1. ~ Plain(q) /\ ~ SetLxcMap(q)
        BY PlainShape DEF Configured, Parts, SetLxcMap
      <4>2. ~ (\E c \in Pods : CallAdd(q, c) \/ CallDel(q, c))
        BY DEF CallAdd, CallDel
      <4>3. ~ SetupVeth(q) /\ ~ ConfigureIface(q)
        BY DEF SetupVeth, Fail, ConfigureIface
      <4>4. ~ Exit(q) /\ ~ Kill(q)
        BY DEF Exit, Kill, Forget
      <4>5. ~ StepFails(q)
        BY DEF StepFails, Fault
      <4>6. CASE IpamDel(q) \/ DelLink(q) \/ DelKey(q)
        BY <4>6 DEF IpamDel, DelLink, DelKey, CallsInv, calls
      <4> QED
        BY <1>3, <3>2, <4>1, <4>2, <4>3, <4>4, <4>5, <4>6
        DEF ProcStep, Add, Del, Plain
    <3>3. CASE Reboot
      BY <3>3 DEF Reboot
    <3>4. ASSUME (\E c \in Pods : NetnsGone(c)) \/ LoseIpam \/ UNCHANGED vars
          PROVE  Failed(q) /\ req'[q] = req[q]
      <4>1. CASE \E c \in Pods : NetnsGone(c)
        BY <4>1 DEF NetnsGone, calls
      <4>2. CASE LoseIpam
        BY <4>2 DEF LoseIpam, calls
      <4>3. CASE UNCHANGED vars
        BY <4>3 DEF vars
      <4> QED
        BY <3>4, <4>1, <4>2, <4>3
    <3>5. Failed(q) /\ req'[q] = req[q]
      BY <3>1, <3>2, <3>3, <3>4 DEF Next, ProcStep
    <3> QED
      BY <3>5 DEF CallsInv
  <2>2. ~ IPAM!Holds(Pod(q))
    BY <2>1 DEF FailedAddReleases
  <2>3. \A a \in Addrs : owner[a] # Pod(q)
    BY <2>2 DEF IPAM!Holds
  <2> SUFFICES ASSUME NEW a \in Addrs PROVE owner'[a] # Pod(q)
    BY <2>1 DEF IPAM!Holds, Pod
  <2>4. ASSUME NEW p \in Procs, IpamAdd(p) PROVE owner'[a] # Pod(q)
    <3>1. Pod(p) # Pod(q)
      BY <1>3, <2>1, <2>4 DEF IpamAdd, CallsInv
    <3> QED
      BY <2>3, <2>4, <3>1
      DEF IpamAdd, ipam, IPAM!Reserve, IPAM!TypeOK
  <2>5. ASSUME NEW p \in Procs, IpamRelease(p) PROVE owner'[a] # Pod(q)
    BY <2>1, <2>3, <2>5, NamesAssumption
    DEF IpamRelease, ipam, IPAM!Release, IPAM!TypeOK
  <2>6. CASE IPAM!Lose
    BY <2>1, <2>6, NamesAssumption DEF IPAM!Lose, IPAM!NoOwners
  <2>7. CASE UNCHANGED ipam
    BY <2>3, <2>7 DEF ipam
  <2> QED
    BY <2>4, <2>5, <2>6, <2>7, TableSteps
<1> QED
  BY <1>1, <1>2, <1>3

\* A failed ADD leaves no reservation behind, unless the call of the IPAM
\* plugin that is to undo it fails itself.
THEOREM FailedAddsRelease ==
  ASSUME "fail" \notin Kinds PROVE Spec => []FailedAddReleases
<1>1. Init => TableInv /\ FailedAddReleases
  BY DEF Init, TableInv, FailedAddReleases, At, IPAM!OneAddressEach, IPAM!Init,
         IPAM!NoOwners
<1>2. IInv /\ TableInv /\ FailedAddReleases /\ [Next]_vars
        => TableInv' /\ FailedAddReleases'
  BY TableStep, ReleasedStep
<1> QED
  BY <1>1, <1>2, Invariant, PTL DEF Spec

-----------------------------------------------------------------------------
(* Entries without crashes *)

\* An entry loses its link only to the DEL that is about to remove it.
LEMMA EntriesStep ==
  ASSUME Kinds \cap {"fail", "kill", "netns"} = {}, IInv, EntriesLive,
         [Next]_vars
  PROVE  EntriesLive'
<1> DEFINE Reached(a) == \E c \in Pods : veth[c] = lxc[a] /\ addr[c] = a
           Leaving(a) == \E p \in Procs : pc[p] = "delkey" /\ got[p] = a
<1> SUFFICES ASSUME NEW a \in Addrs, lxc'[a] # 0
             PROVE  Reached(a)' \/ Leaving(a)'
  BY DEF EntriesLive, Entries, At
<1>0. Types /\ CallsInv /\ LinksInv /\ NumbersInv
  BY TypesAndRoom DEF IInv
<1>e. lxc[a] # 0 => Reached(a) \/ Leaving(a)
  BY DEF EntriesLive, Entries, At
<1>n. NoAddr # a
  BY NamesAssumption
<1> USE DEF Types, Goto, At
<1>1. ASSUME NEW p \in Procs, lxc'[a] # 0, ProcStep(p), pc[p] # "delkey",
             UNCHANGED <<veth, addr, lxc>>
      PROVE  Reached(a)' \/ Leaving(a)'
  <2>1. \A q \in Procs : pc[q] = "delkey" => pc'[q] = "delkey" /\ got'[q] = got[q]
    BY <1>0, <1>1, OthersLocals
  <2> QED
    BY <1>1, <1>e, <2>1
<1>2. ASSUME NEW p \in Procs, SetupVeth(p) PROVE Reached(a)' \/ Leaving(a)'
  <2>1. lxc' = lxc /\ addr' = addr /\ got' = got /\ pc[p] = "veth"
    BY <1>2 DEF SetupVeth, maps
  <2>2. \A q \in Procs : pc[q] = "delkey" => pc'[q] = "delkey"
    BY <1>0, <1>2 DEF SetupVeth, Fail
  <2>3. \A c \in Pods : veth[c] # 0 => veth'[c] = veth[c]
    BY <1>0, <1>2 DEF SetupVeth
  <2> QED
    BY <1>e, <2>1, <2>2, <2>3
<1>3. ASSUME NEW p \in Procs, ConfigureIface(p) PROVE Reached(a)' \/ Leaving(a)'
  <2>1. lxc' = lxc /\ veth' = veth /\ got' = got /\ pc[p] = "addr"
    BY <1>3 DEF ConfigureIface, maps
  <2>2. \A q \in Procs : pc[q] = "delkey" => pc'[q] = "delkey"
    BY <1>0, <1>3 DEF ConfigureIface
  <2>3. veth[Pod(p)] = req[p].index /\ lxc[a] # req[p].index
    BY <1>0, <2>1 DEF LinksInv, HasLink, NumbersInv, CallsInv
  <2>4. \A c \in Pods : veth[c] = lxc[a] => addr'[c] = addr[c]
    BY <1>0, <1>3, <2>3 DEF ConfigureIface
  <2> QED
    BY <1>e, <2>1, <2>2, <2>4
<1>4. ASSUME NEW p \in Procs, SetLxcMap(p) PROVE Reached(a)' \/ Leaving(a)'
  <2>1. /\ veth' = veth /\ addr' = addr /\ got' = got /\ pc[p] = "put"
        /\ lxc' = lxc \/ lxc' = [lxc EXCEPT ![got[p]] = req[p].index]
    BY <1>4 DEF SetLxcMap, links
  <2>2. \A q \in Procs : pc[q] = "delkey" => pc'[q] = "delkey"
    BY <1>0, <1>4 DEF SetLxcMap
  <2>3. veth[Pod(p)] = req[p].index /\ addr[Pod(p)] = got[p] /\ Pod(p) \in Pods
    BY <1>0, <2>1 DEF LinksInv, HasLink, CallsInv, Configured
  <2>4. CASE a = got[p] /\ lxc'[a] = req[p].index
    BY <2>1, <2>3, <2>4
  <2>5. CASE lxc'[a] = lxc[a]
    BY <1>e, <2>1, <2>2, <2>5
  <2> QED
    BY <1>0, <2>1, <2>4, <2>5
<1>5. ASSUME NEW p \in Procs, DelLink(p) PROVE Reached(a)' \/ Leaving(a)'
  <2>1. lxc' = lxc /\ pc[p] = "dellink" /\ Pod(p) \in Pods
    BY <1>0, <1>5 DEF DelLink, maps, CallsInv
  <2>2. \A q \in Procs : pc[q] = "delkey" => pc'[q] = "delkey" /\ got'[q] = got[q]
    BY <1>0, <1>5 DEF DelLink, Succeed
  <2>3. CASE Leaving(a)
    BY <2>2, <2>3
  <2>4. ASSUME NEW c \in Pods, veth[c] = lxc[a], addr[c] = a, c # Pod(p)
        PROVE  Reached(a)'
    BY <1>0, <1>5, <2>1, <2>4 DEF DelLink
  <2>5. CASE addr[Pod(p)] = a
    BY <1>0, <1>5, <1>n, <2>5 DEF DelLink
  <2> QED
    BY <1>e, <2>1, <2>3, <2>4, <2>5
<1>6. ASSUME NEW p \in Procs, DelKey(p) PROVE Reached(a)' \/ Leaving(a)'
  <2>1. /\ veth' = veth /\ addr' = addr /\ got' = got
        /\ a # got[p] /\ lxc'[a] = lxc[a]
    BY <1>0, <1>6 DEF DelKey, links
  <2>2. \A q \in Procs : pc[q] = "delkey" /\ q # p => pc'[q] = "delkey"
    BY <1>0, <1>6 DEF DelKey, Succeed
  <2> QED
    BY <1>e, <2>1, <2>2
<1>7. CASE Reboot
  BY <1>7 DEF Reboot
<1>8. CASE LoseIpam \/ UNCHANGED vars
  <2>1. UNCHANGED <<veth, addr, lxc, pc, got>>
    BY <1>8 DEF LoseIpam, links, maps, vars
  <2> QED
    BY <1>e, <2>1
<1>9. ASSUME NEW p \in Procs, ProcStep(p), ~ SetupVeth(p), ~ ConfigureIface(p),
             ~ SetLxcMap(p), ~ DelLink(p), ~ DelKey(p)
      PROVE  pc[p] # "delkey" /\ UNCHANGED <<veth, addr, lxc>>
  <2>1. CASE Plain(p)
    BY <1>0, <2>1, PlainShape DEF Configured, Parts, links
  <2>2. CASE ~ Plain(p)
    BY <1>9, <2>2
    DEF ProcStep, Add, Del, Plain, CallAdd, CallDel, IpamAdd, Undo, IpamDel,
        Exit, StepFails, Kill, Fault, links, maps
  <2> QED
    BY <2>1, <2>2
<1>10. ~ \E c \in Pods : NetnsGone(c)
  BY DEF NetnsGone, Fault
<1>11. ASSUME NEW p \in Procs, ProcStep(p) PROVE Reached(a)' \/ Leaving(a)'
  BY <1>1, <1>2, <1>3, <1>4, <1>5, <1>6, <1>9, <1>11
<1> QED
  BY <1>7, <1>8, <1>10, <1>11 DEF Next, ProcStep

\* As long as DEL gets to run, no entry of lxc_map leads to a link that is gone
\* or has another address, however the calls interleave; table losses and
\* restarts of the node included.
THEOREM NoStaleEntries ==
  ASSUME Kinds \cap {"fail", "kill", "netns"} = {} PROVE Spec => []EntriesLive
<1>1. Init => EntriesLive
  BY DEF Init, EntriesLive, Entries
<1>2. IInv /\ EntriesLive /\ [Next]_vars => EntriesLive'
  BY EntriesStep
<1> QED
  BY <1>1, <1>2, Invariant, PTL DEF Spec

-----------------------------------------------------------------------------
(* An ADD beside which nothing runs *)

\* What it has read of the map and stored in it is still so: a killed call, a
\* vanished namespace or a restart is not in its way.
LEMMA AloneStep ==
  ASSUME "fail" \notin Kinds, IsFiniteSet(Addrs), Cardinality(Addrs) <= MaxEntries,
         IInv, AloneInv, [Next]_vars
  PROVE  AloneInv'
<1> DEFINE Mapped == {"arp", "attach", "vxlan", "clsact?"} \cup Parts
           Stored(q) == lxc[got[q]] = req[q].index
           Others(q) == \A r \in Procs : r # q => pc[r] = "idle"
           Done(q) == pc[q] # "idle" /\ req[q].cmd = "ADD" /\ ok[q]
           Seen(q) == /\ pc[q] = "pin" => ~ pinned
                      /\ pc[q] \in Mapped \/ Done(q) => Stored(q)
<1> SUFFICES ASSUME NEW q \in Procs, q \in alone', pc'[q] # "idle"
             PROVE  Others(q)' /\ Seen(q)'
  BY TypesStep, TypesAndRoom DEF AloneInv, Adding, At, IInv, Types
<1>0. Types /\ CallsInv /\ LinksInv
  BY TypesAndRoom DEF IInv
<1>a. q \in alone /\ pc[q] # "idle" => Others(q) /\ Seen(q)
  BY DEF AloneInv, Adding, At
<1> USE DEF Types, Goto, At
<1>1. ASSUME NEW p \in Procs, NEW c \in Pods, CallAdd(p, c) \/ CallDel(p, c)
      PROVE  Others(q)' /\ Seen(q)'
  <2>1. q = p /\ Others(q)
    BY <1>1 DEF CallAdd, CallDel, Begins
  <2>2. Others(q)'
    BY <1>0, <1>1, <2>1, CallShape
  <2>3. pc'[q] \in {"ipamadd", "ipamdel"} /\ ~ ok'[q]
    BY <1>0, <1>1, <2>1, CallShape DEF CallsInv, Ends
  <2> QED
    BY <2>2, <2>3 DEF Parts
<1>2. ASSUME NEW p \in Procs, ProcStep(p),
             ~ \E c \in Pods : CallAdd(p, c) \/ CallDel(p, c)
      PROVE  Others(q)' /\ Seen(q)'
  <2>1. pc[p] # "idle" /\ alone' = alone
    <3>1. CASE Plain(p)
      BY <1>0, <3>1, PlainShape DEF Configured, Parts, calls
    <3>2. CASE ~ Plain(p)
      BY <1>2, <3>2
      DEF ProcStep, Add, Del, Plain, IpamAdd, SetupVeth, ConfigureIface,
          SetLxcMap, Undo, IpamDel, DelLink, DelKey, Exit, StepFails, Kill,
          Fault, calls
    <3> QED
      BY <3>1, <3>2
  <2>2. q = p
    BY <1>0, <1>2, <1>a, <2>1, OthersLocals
  <2>3. Others(p) /\ Seen(p)
    BY <1>a, <2>1, <2>2
  <2>4. Others(p)'
    BY <1>0, <1>2, <2>3, OthersLocals
  <2> SUFFICES Seen(p)'
    BY <2>2, <2>4
  <2>5. CASE IpamAdd(p) \/ SetupVeth(p) \/ ConfigureIface(p)
    BY <1>0, <2>5 DEF IpamAdd, SetupVeth, Fail, ConfigureIface, CallsInv, Ends, Parts
  <2>6. CASE LoadLxcMap(p) \/ PinLxcMap(p) \/ FetchVeth(p)
    <3>1. ~ ok[p] /\ ok' = ok
      BY <1>0, <2>6
      DEF LoadLxcMap, PinLxcMap, FetchVeth, CallsInv, Ends
    <3>2. pc'[p] \in {"put", "lxc"} \/ (pc'[p] = "pin" /\ ~ pinned')
      BY <1>0, <2>3, <2>6 DEF LoadLxcMap, PinLxcMap, FetchVeth, maps
    <3> QED
      BY <3>1, <3>2 DEF Parts
  <2>7. CASE SetLxcMap(p)
    <3>1. /\ got[p] \in Addrs /\ req' = req /\ got' = got /\ pc'[p] = "arp"
      BY <1>0, <2>7 DEF SetLxcMap, LinksInv, Configured, calls
    <3>2. got[p] \in Entries \/ Cardinality(Entries) < MaxEntries
      <4>1. CASE got[p] \notin Entries
        <5>1. Entries \subseteq Addrs \ {got[p]}
          BY <4>1 DEF Entries
        <5>2. /\ IsFiniteSet(Addrs \ {got[p]})
              /\ Cardinality(Addrs \ {got[p]}) = Cardinality(Addrs) - 1
          BY <3>1, FS_RemoveElement
        <5>3. /\ IsFiniteSet(Entries)
              /\ Cardinality(Entries) <= Cardinality(Addrs \ {got[p]})
          BY <5>1, <5>2, FS_Subset
        <5>4. Cardinality(Entries) \in Nat /\ Cardinality(Addrs) \in Nat
          BY <5>3, FS_CardinalityType
        <5> QED
          BY <5>2, <5>3, <5>4, BoundsAssumption
      <4> QED
        BY <4>1
    <3>3. lxc' = [lxc EXCEPT ![got[p]] = req[p].index]
      BY <2>7, <3>2 DEF SetLxcMap
    <3> QED
      BY <1>0, <3>1, <3>3
  <2>8. CASE /\ Plain(p)
             /\ ~ LoadLxcMap(p) /\ ~ PinLxcMap(p) /\ ~ FetchVeth(p)
    <3>1. pc[p] \in Mapped /\ pc'[p] # "pin"
      BY <1>0, <2>8 DEF Plain, SetARP, AttachVeth, FindVxlan, AddPart, Fail, NextPart,
                  FindClsact, SetVxlanMap, Parts
    <3>2. UNCHANGED <<lxc, got, req>>
      BY <1>0, <2>8, PlainShape DEF calls
    <3> QED
      BY <2>3, <3>1, <3>2
  <2>9. CASE Undo(p)
    <3>1. /\ UNCHANGED <<lxc, got, req, ok>> /\ pc[p] = "undo" /\ pc'[p] = "exit"
      BY <1>0, <2>9 DEF Undo, maps, calls
    <3> QED
      BY <2>3, <3>1 DEF Parts
  <2>10. CASE IpamDel(p) \/ DelLink(p) \/ DelKey(p)
    <3>1. req[p].cmd = "DEL" /\ req' = req
      BY <1>0, <2>10 DEF IpamDel, DelLink, DelKey, calls, CallsInv
    <3>2. pc'[p] \in {"exit", "dellink", "delkey"}
      BY <1>0, <2>10 DEF IpamDel, DelLink, DelKey, Succeed
    <3> QED
      BY <3>1, <3>2 DEF Parts
  <2>11. ~ Exit(p) /\ ~ Kill(p)
    BY <1>0, <2>2 DEF Exit, Kill, Forget
  <2>12. ~ StepFails(p)
    BY DEF StepFails, Fault
  <2> QED
    BY <1>2, <2>5, <2>6, <2>7, <2>8, <2>9, <2>10, <2>11, <2>12
    DEF ProcStep, Add, Del, Plain
<1>3. CASE (\E c \in Pods : NetnsGone(c)) \/ LoseIpam \/ UNCHANGED vars
  <2>1. UNCHANGED <<pc, req, got, ok, alone, pinned, lxc>>
    <3>1. ASSUME NEW c \in Pods, NetnsGone(c)
          PROVE  UNCHANGED <<pc, req, got, ok, alone, pinned, lxc>>
      BY <3>1 DEF NetnsGone, maps, calls
    <3>2. CASE LoseIpam
      BY <3>2 DEF LoseIpam, maps, calls
    <3>3. CASE UNCHANGED vars
      BY <3>3 DEF vars
    <3> QED
      BY <1>3, <3>1, <3>2, <3>3
  <2> QED
    BY <1>a, <2>1
<1>4. CASE Reboot
  BY <1>4 DEF Reboot
<1> QED
  BY <1>1, <1>2, <1>3, <1>4 DEF Next, ProcStep

\* An ADD that no other call runs beside has its entry in lxc_map when it
\* succeeds, if the map is as large as the subnet, whatever was killed, lost or
\* restarted before.
THEOREM LoneAddsMap ==
  ASSUME "fail" \notin Kinds, IsFiniteSet(Addrs), Cardinality(Addrs) <= MaxEntries
  PROVE  Spec => []LoneAddMaps
<1>1. Init => AloneInv
  BY DEF Init, AloneInv
<1>2. IInv /\ AloneInv /\ [Next]_vars => AloneInv'
  BY AloneStep
<1>3. AloneInv => LoneAddMaps
  BY DEF AloneInv, LoneAddMaps, Added, Adding, At
<1> QED
  BY <1>1, <1>2, <1>3, Invariant, PTL DEF Spec

-----------------------------------------------------------------------------
(* The vxlan device *)

\* Whoever finds a part missing adds it or fails because another call has.
LEMMA PartsStep ==
  ASSUME Kinds \cap {"fail", "kill"} = {}, IInv, PartsInv, [Next]_vars
  PROVE  PartsInv'
<1> DEFINE missing(part) == "link" \in vxlan /\ part \notin vxlan
           at(locs) == \E p \in Procs : pc[p] \in locs
           Device == {"address", "up", "clsact?", "clsact", "filters", "map"}
<1>0. Types /\ CallsInv
  BY TypesAndRoom DEF IInv
<1> USE <1>0 DEF Types, Goto, At
<1>1. ASSUME NEW p \in Procs, FindVxlan(p) PROVE PartsInv'
  <2>1. pc' = [pc EXCEPT ![p] = IF "link" \in vxlan THEN "clsact?" ELSE "link"]
        /\ pc[p] = "vxlan" /\ vxlan' = vxlan
    BY <1>1 DEF FindVxlan
  <2> QED
    BY <2>1 DEF PartsInv, Parts
<1>2. ASSUME NEW p \in Procs, FindClsact(p) PROVE PartsInv'
  <2>1. pc' = [pc EXCEPT ![p] = IF "clsact" \in vxlan THEN "filters" ELSE "clsact"]
        /\ pc[p] = "clsact?" /\ vxlan' = vxlan
    BY <1>2 DEF FindClsact
  <2> QED
    BY <2>1 DEF PartsInv, Parts
<1>3. ASSUME NEW p \in Procs, NEW part \in Parts \ {"map"}, pc[p] = part,
             vxlan' = vxlan \cup {part},
             IF part \in {"link", "clsact"} \cap vxlan
               THEN Fail(p) ELSE Goto(p, NextPart(part))
      PROVE  PartsInv'
  <2>1. CASE part \in {"link", "clsact"} \cap vxlan
    BY <1>3, <2>1 DEF PartsInv, Parts, Fail
  <2>2. CASE part = "link" /\ part \notin vxlan
    BY <1>3, <2>2 DEF PartsInv, Parts, NextPart
  <2>3. CASE part = "address"
    BY <1>3, <2>3 DEF PartsInv, Parts, NextPart
  <2>4. CASE part = "up"
    BY <1>3, <2>4 DEF PartsInv, Parts, NextPart
  <2>5. CASE part = "clsact" /\ part \notin vxlan
    BY <1>3, <2>5 DEF PartsInv, Parts, NextPart
  <2>6. CASE part = "filters"
    BY <1>3, <2>6 DEF PartsInv, Parts, NextPart
  <2> QED
    BY <2>1, <2>2, <2>3, <2>4, <2>5, <2>6 DEF Parts
<1>4. ASSUME NEW p \in Procs, SetVxlanMap(p) PROVE PartsInv'
  <2>1. pc' = [pc EXCEPT ![p] = "undo"] /\ pc[p] = "map"
        /\ vxlan' = vxlan \cup {"map"}
    BY <1>4 DEF SetVxlanMap
  <2> QED
    BY <2>1 DEF PartsInv, Parts
<1>5. ASSUME vxlan' = vxlan,
             \A q \in Procs : pc'[q] = pc[q] \/
               (pc[q] \notin Device /\ pc'[q] \notin Device \cup {"link"})
      PROVE  PartsInv'
  BY <1>5 DEF PartsInv, Parts
<1>6. ASSUME NEW p \in Procs, ProcStep(p), ~ FindVxlan(p), ~ FindClsact(p),
             ~ AddPart(p), ~ SetVxlanMap(p)
      PROVE  PartsInv'
  <2>1. \A q \in Procs : q # p => pc'[q] = pc[q]
    BY <1>6, OthersLocals
  <2>2. vxlan' = vxlan /\ pc[p] \notin Device /\ pc'[p] \notin Device \cup {"link"}
    <3>1. CASE FetchVeth(p) \/ LoadLxcMap(p) \/ PinLxcMap(p) \/ SetARP(p)
               \/ AttachVeth(p)
      BY <3>1 DEF FetchVeth, LoadLxcMap, PinLxcMap, SetARP, AttachVeth
    <3>2. CASE \E c \in Pods : CallAdd(p, c) \/ CallDel(p, c)
      BY <3>2 DEF CallAdd, CallDel
    <3>3. CASE IpamAdd(p) \/ SetupVeth(p) \/ ConfigureIface(p) \/ SetLxcMap(p)
               \/ Undo(p)
      BY <3>3 DEF IpamAdd, SetupVeth, Fail, ConfigureIface, SetLxcMap, Undo
    <3>4. CASE Del(p)
      BY <3>4 DEF Del, IpamDel, DelLink, DelKey, Succeed
    <3>5. CASE Exit(p)
      BY <3>5 DEF Exit, Forget
    <3>6. ~ StepFails(p) /\ ~ Kill(p)
      BY DEF StepFails, Kill, Fault
    <3> QED
      BY <1>6, <3>1, <3>2, <3>3, <3>4, <3>5, <3>6 DEF ProcStep, Add
  <2> QED
    BY <1>5, <2>1, <2>2
<1>7. CASE Reboot
  BY <1>7 DEF Reboot, PartsInv, Parts
<1>8. CASE (\E c \in Pods : NetnsGone(c)) \/ LoseIpam \/ UNCHANGED vars
  BY <1>5, <1>8 DEF NetnsGone, LoseIpam, vars
<1>9. ASSUME NEW p \in Procs, AddPart(p) PROVE PartsInv'
  BY <1>3, <1>9 DEF AddPart
<1> QED
  BY <1>1, <1>2, <1>4, <1>6, <1>7, <1>8, <1>9 DEF Next, ProcStep

\* Once all calls have returned the vxlan device is whole or not there,
\* however their set-ups raced, as long as none was killed and no command
\* failed of itself.
THEOREM DeviceSettles ==
  ASSUME Kinds \cap {"fail", "kill"} = {} PROVE Spec => []VxlanSettles
<1>1. Init => PartsInv
  BY DEF Init, PartsInv, Parts
<1>2. IInv /\ PartsInv /\ [Next]_vars => PartsInv'
  BY PartsStep
<1>3. IInv /\ PartsInv => VxlanSettles
  <2> SUFFICES ASSUME IInv, PartsInv, \A p \in Procs : pc[p] = "idle"
               PROVE  vxlan \in {{}, Parts}
    BY DEF VxlanSettles, At
  <2>1. vxlan \subseteq Parts
    BY DEF IInv, TypeOK
  <2>2. "link" \in vxlan => Parts \subseteq vxlan
    BY DEF PartsInv, Parts
  <2> QED
    BY <2>1, <2>2 DEF PartsInv
<1> QED
  BY <1>1, <1>2, <1>3, Invariant, PTL DEF Spec

=============================================================================
