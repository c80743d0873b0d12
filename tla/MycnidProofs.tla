----------------------------- MODULE MycnidProofs -----------------------------
(***************************************************************************)
(* Proofs about Mycnid, for any number of nodes, bits and faults.          *)
(***************************************************************************)
EXTENDS Mycnid, WellFoundedInduction, TLAPS

-----------------------------------------------------------------------------
(* The loop that looks for a '0' *)

\* Numbers have a least one among them.
LEMMA LeastElement ==
  ASSUME NEW S \in SUBSET Nat, S # {}
  PROVE  \E b \in S : \A x \in S : b <= x
<1>1. PICK b \in S : \A x \in S : ~ <<x, b>> \in OpToRel(<, Nat)
  BY NatLessThanWellFounded, WFMin
<1>2. \A x \in S : ~ (x < b)
  BY <1>1, Zenon DEF OpToRel
<1> QED
  BY <1>2

\* The position chosen is one of the mask, and is not set in it.
LEMMA FirstUnusedIsUnused ==
  ASSUME NEW m \in SUBSET Bits, ~ Bits \subseteq m
  PROVE  FirstUnused(m) \in Bits \ m
<1>1. Bits \ m \in SUBSET Nat /\ Bits \ m # {}
  BY DEF Bits
<1>2. \E b \in Bits \ m : \A x \in Bits \ m : b <= x
  BY <1>1, LeastElement
<1> QED
  BY <1>2 DEF FirstUnused

-----------------------------------------------------------------------------
(* Types *)

\* The initial state satisfies the invariant: nobody has a bit, so nothing
\* has to be in the mask.
LEMMA Initially == Init => IInv
<1> SUFFICES ASSUME Init PROVE IInv
  OBVIOUS
<1> USE DEF Init
<1>1. TypeOK
  <2>1. faults \in 0 .. MaxFaults
    BY BitsAssumption
  <2>2. overwritten \in BOOLEAN /\ expired \in BOOLEAN
    BY Zenon
  <2>3. mask \in (SUBSET Bits) \cup {None}
    OBVIOUS
  <2> QED
    BY <2>1, <2>2, <2>3 DEF TypeOK, Locations
<1>2. RunInv
  BY BitsAssumption DEF RunInv, Bits
<1>3. MaskInv
  BY BitsAssumption DEF MaskInv, Takes, Bits
<1> QED
  BY <1>1, <1>2, <1>3 DEF IInv

\* Every step keeps the types: the position chosen is of the mask because
\* the mask that was read has a '0', and the mask put back is a mask because
\* its run read one.
LEMMA TypeStep == TypeOK /\ RunInv /\ [Next]_vars => TypeOK'
<1> SUFFICES ASSUME TypeOK, RunInv, [Next]_vars PROVE TypeOK'
  OBVIOUS
<1> USE BitsAssumption DEF TypeOK, Goto, Locations, Ends, history
<1>1. ASSUME NEW n \in Nodes, Start(n) PROVE TypeOK'
  BY <1>1 DEF Start
<1>2. ASSUME NEW n \in Nodes, CheckFile(n) PROVE TypeOK'
  BY <1>2 DEF CheckFile
<1>3. ASSUME NEW n \in Nodes, InitBitMask(n) PROVE TypeOK'
  BY <1>3 DEF InitBitMask
<1>4. ASSUME NEW n \in Nodes, WatchBitMask(n) PROVE TypeOK'
  <2>1. CASE Ends(n, "fatal")
    BY <1>4, <2>1 DEF WatchBitMask
  <2>2. CASE mask # None /\ ~ Full
    <3>1. mask \in SUBSET Bits /\ ~ Bits \subseteq mask
      BY <2>2 DEF Full
    <3>2. FirstUnused(mask) \in Bits
      BY <3>1, FirstUnusedIsUnused
    <3> QED
      BY <1>4, <3>1, <3>2 DEF WatchBitMask
  <2> QED
    BY <1>4, <2>1, <2>2 DEF WatchBitMask
<1>5. ASSUME NEW n \in Nodes, RenewBitMask(n) PROVE TypeOK'
  <2>1. CASE mask = None
    BY <1>5, <2>1 DEF RenewBitMask
  <2>2. CASE mask # None
    <3>1. seen[n] \in SUBSET Bits /\ bit[n] \in Bits
      BY <1>5 DEF RenewBitMask, RunInv
    <3>2. mask' \in SUBSET Bits
      BY <1>5, <2>2, <3>1 DEF RenewBitMask
    <3>3. overwritten' \in BOOLEAN
      BY <1>5, <2>2 DEF RenewBitMask
    <3> QED
      BY <1>5, <2>2, <3>2, <3>3 DEF RenewBitMask
  <2> QED
    BY <2>1, <2>2
<1>6. ASSUME NEW n \in Nodes, TruncateFile(n) PROVE TypeOK'
  BY <1>6 DEF TruncateFile
<1>7. ASSUME NEW n \in Nodes, WriteFile(n) PROVE TypeOK'
  <2>1. bit[n] \in Bits
    BY <1>7 DEF WriteFile, RunInv
  <2> QED
    BY <1>7, <2>1 DEF WriteFile
<1>8. ASSUME NEW n \in Nodes, Report(n) PROVE TypeOK'
  BY <1>8 DEF Report
<1>9. ASSUME NEW n \in Nodes, Dies(n) PROVE TypeOK'
  BY <1>9 DEF Dies, Fault
<1>10. ASSUME NEW n \in Nodes, Reboot(n) PROVE TypeOK'
  BY <1>10 DEF Reboot, Fault
<1>11. CASE Expire
  BY <1>11 DEF Expire, runs
<1>12. CASE UNCHANGED vars
  BY <1>12 DEF vars, runs
<1> QED
  BY <1>1, <1>2, <1>3, <1>4, <1>5, <1>6, <1>7, <1>8, <1>9, <1>10, <1>11,
     <1>12 DEF Next, Run

-----------------------------------------------------------------------------
(* Runs *)

\* Every step keeps what a run knows of its file, its bit and its curBit.
LEMMA RunStep == TypeOK /\ RunInv /\ [Next]_vars => RunInv'
<1> SUFFICES ASSUME TypeOK, RunInv, [Next]_vars PROVE RunInv'
  OBVIOUS
<1> USE DEF TypeOK, RunInv, Goto, Ends
<1>1. ASSUME NEW n \in Nodes, Start(n) PROVE RunInv'
  BY <1>1 DEF Start
<1>2. ASSUME NEW n \in Nodes, CheckFile(n) PROVE RunInv'
  BY <1>2 DEF CheckFile
<1>3. ASSUME NEW n \in Nodes, InitBitMask(n) PROVE RunInv'
  BY <1>3 DEF InitBitMask
<1>4. ASSUME NEW n \in Nodes, WatchBitMask(n) PROVE RunInv'
  <2>1. CASE Ends(n, "fatal")
    BY <1>4, <2>1 DEF WatchBitMask
  <2>2. CASE mask # None /\ ~ Full
    <3>1. mask \in SUBSET Bits /\ ~ Bits \subseteq mask
      BY <2>2 DEF Full
    <3>2. FirstUnused(mask) \in Bits \ mask
      BY <3>1, FirstUnusedIsUnused
    <3> QED
      BY <1>4, <2>2, <3>1, <3>2 DEF WatchBitMask
  <2> QED
    BY <1>4, <2>1, <2>2 DEF WatchBitMask
<1>5. ASSUME NEW n \in Nodes, RenewBitMask(n) PROVE RunInv'
  BY <1>5 DEF RenewBitMask
<1>6. ASSUME NEW n \in Nodes, TruncateFile(n) PROVE RunInv'
  BY <1>6, BitsAssumption DEF TruncateFile, Bits
<1>7. ASSUME NEW n \in Nodes, WriteFile(n) PROVE RunInv'
  BY <1>7 DEF WriteFile
<1>8. ASSUME NEW n \in Nodes, Report(n) PROVE RunInv'
  BY <1>8 DEF Report
<1>9. ASSUME NEW n \in Nodes, Dies(n) PROVE RunInv'
  BY <1>9 DEF Dies
<1>10. ASSUME NEW n \in Nodes, Reboot(n) PROVE RunInv'
  BY <1>10 DEF Reboot
<1>11. CASE Expire
  BY <1>11 DEF Expire, runs
<1>12. CASE UNCHANGED vars
  BY <1>12 DEF vars, runs
<1> QED
  BY <1>1, <1>2, <1>3, <1>4, <1>5, <1>6, <1>7, <1>8, <1>9, <1>10, <1>11,
     <1>12 DEF Next, Run

-----------------------------------------------------------------------------
(* The mask *)

\* What a step may do to the mask and to the bits that are taken, while no
\* mask is lost: the mask only grows, and the one step that lets a node take a
\* bit is the put of a mask made from the one it replaces.  The bit is not in
\* that one, so nobody had it.
LEMMA TakesStep ==
  ASSUME IInv, [Next]_vars, ~ overwritten', ~ expired'
  PROVE  /\ ~ overwritten /\ ~ expired
         /\ mask # None => mask' # None /\ mask \subseteq mask'
         /\ \A n \in Nodes, b \in Bits :
              Takes(n, b)' =>
                \/ Takes(n, b)
                \/ /\ mask = None \/ b \notin mask
                   /\ mask' # None /\ b \in mask'
                   /\ \A m \in Nodes : Takes(m, b)' /\ ~ Takes(m, b) => m = n
<1> USE DEF IInv, TypeOK, Goto, Ends
<1> DEFINE Safe ==
      /\ ~ overwritten /\ ~ expired
      /\ mask # None => mask' # None /\ mask \subseteq mask'
<1> DEFINE Same == \A m \in Nodes, b \in Bits : Takes(m, b)' => Takes(m, b)
<1>1. ASSUME NEW n \in Nodes, Start(n) PROVE Safe /\ Same
  BY <1>1 DEF Start, Takes, history
<1>2. ASSUME NEW n \in Nodes, CheckFile(n) PROVE Safe /\ Same
  BY <1>2 DEF CheckFile, Takes, history
<1>3. ASSUME NEW n \in Nodes, InitBitMask(n) PROVE Safe /\ Same
  BY <1>3 DEF InitBitMask, Takes, history
<1>4. ASSUME NEW n \in Nodes, WatchBitMask(n) PROVE Safe /\ Same
  BY <1>4 DEF WatchBitMask, Takes, history
<1>5. ASSUME NEW n \in Nodes, RenewBitMask(n), mask = None
      PROVE  Safe /\ Same
  BY <1>5 DEF RenewBitMask, Takes
<1>6. ASSUME NEW n \in Nodes, RenewBitMask(n), mask # None
      PROVE  /\ Safe
             /\ mask' # None /\ bit[n] \in mask' /\ bit[n] \notin mask
             /\ \A m \in Nodes, b \in Bits :
                  Takes(m, b)' => Takes(m, b) \/ (m = n /\ b = bit[n])
  <2>1. mask = seen[n] /\ ~ overwritten /\ ~ expired
    BY <1>6 DEF RenewBitMask
  <2>2. bit[n] \in Bits /\ bit[n] \notin mask /\ mask' = mask \cup {bit[n]}
    BY <1>6, <2>1 DEF RenewBitMask, RunInv
  <2>3. mask' # None
    BY <1>6, <2>1, <2>2, BitsAssumption DEF Bits
  <2>4. \A m \in Nodes, b \in Bits :
          Takes(m, b)' => Takes(m, b) \/ (m = n /\ b = bit[n])
    BY <1>6 DEF RenewBitMask, Takes
  <2> QED
    BY <2>1, <2>2, <2>3, <2>4
<1>7. ASSUME NEW n \in Nodes, TruncateFile(n) PROVE Safe /\ Same
  BY <1>7, BitsAssumption DEF TruncateFile, Takes, Bits, history
<1>8. ASSUME NEW n \in Nodes, WriteFile(n) PROVE Safe /\ Same
  BY <1>8 DEF WriteFile, Takes, history
<1>9. ASSUME NEW n \in Nodes, Report(n) PROVE Safe /\ Same
  BY <1>9 DEF Report, Takes, history
<1>10. ASSUME NEW n \in Nodes, Dies(n) PROVE Safe /\ Same
  BY <1>10 DEF Dies, Takes, history
<1>11. ASSUME NEW n \in Nodes, Reboot(n) PROVE Safe /\ Same
  BY <1>11, BitsAssumption DEF Reboot, Takes, Bits, history
<1>12. CASE Expire
  BY <1>12 DEF Expire
<1>13. CASE UNCHANGED vars
  BY <1>13 DEF vars, runs, Takes, history
<1>14. CASE Safe /\ Same
  BY <1>14
<1> HIDE DEF Safe, Same
<1>15. ASSUME NEW n \in Nodes, RenewBitMask(n), mask # None
       PROVE  /\ Safe
              /\ \A m \in Nodes, b \in Bits :
                   Takes(m, b)' =>
                     \/ Takes(m, b)
                     \/ /\ b \notin mask
                        /\ mask' # None /\ b \in mask'
                        /\ \A k \in Nodes : Takes(k, b)' /\ ~ Takes(k, b) => k = m
  BY <1>6, <1>15
<1> QED
  BY <1>1, <1>2, <1>3, <1>4, <1>5, <1>7, <1>8, <1>9, <1>10, <1>11, <1>12,
     <1>13, <1>14, <1>15 DEF Next, Run, Safe

\* Every step keeps the mask's part of the invariant.
LEMMA MaskStep == IInv /\ [Next]_vars => MaskInv'
<1> SUFFICES ASSUME IInv, [Next]_vars, ~ overwritten', ~ expired',
                    NEW n \in Nodes, NEW b \in Bits, Takes(n, b)'
             PROVE  /\ mask' # None /\ b \in mask'
                    /\ \A m \in Nodes : Takes(m, b)' => m = n
  BY DEF MaskInv
<1>1. \A m \in Nodes :
        Takes(m, b) =>
          /\ mask # None /\ b \in mask
          /\ \A k \in Nodes : Takes(k, b) => k = m
  BY TakesStep DEF IInv, MaskInv
<1> QED
  BY <1>1, TakesStep

\* A step of the daemons keeps the invariant.
LEMMA Inductive == IInv /\ [Next]_vars => IInv'
BY TypeStep, RunStep, MaskStep DEF IInv

-----------------------------------------------------------------------------
(* Theorems *)

\* The invariant holds however the nodes' runs overlap, die, are started
\* again and lose the mask to its lease.
THEOREM Invariant == Spec => []IInv
BY Initially, Inductive, PTL DEF Spec

\* Every variable keeps its type: whatever mask a run reads, the position it
\* chooses is one of the mask (cmd/myetcd.go, watchBitMask).
THEOREM TypeCorrect == Spec => []TypeOK
BY Invariant, PTL DEF IInv

\* As long as no put replaces another mask than its run read, and the lease
\* has not run out, no two nodes have the same subnet.
THEOREM DistinctSubnets == Spec => []DistinctUnlessLost
<1>1. IInv => DistinctUnlessLost
  BY DEF IInv, MaskInv, Takes, DistinctUnlessLost, SubnetsDistinct
<1> QED
  BY <1>1, Invariant, PTL

\* Under the same conditions the bit of every subnet.json is set in the mask.
THEOREM BackedSubnets == Spec => []BackedUnlessLost
<1>1. IInv => BackedUnlessLost
  BY DEF IInv, MaskInv, Takes, BackedUnlessLost
<1> QED
  BY <1>1, Invariant, PTL

\* A run that reports success leaves a subnet.json the plugins can read, with
\* no condition on the mask.
THEOREM OkRunsHaveSubnet == Spec => []OkHasSubnet
<1>1. IInv => OkHasSubnet
  BY DEF IInv, RunInv, OkHasSubnet
<1> QED
  BY <1>1, Invariant, PTL

\* Once a node has its subnet only a reboot takes it away.
THEOREM SubnetsStay == Spec => SubnetKept
<1> DEFINE Kept(n) ==
      file[n] \in Bits =>
        file'[n] = file[n] \/ (file'[n] = None /\ Fault)
<1>1. ASSUME IInv, [Next]_vars, NEW n \in Nodes PROVE Kept(n)
  <2> USE DEF IInv, TypeOK
  <2>1. ASSUME NEW m \in Nodes, TruncateFile(m) \/ WriteFile(m) PROVE Kept(n)
    BY <1>1, <2>1 DEF RunInv, TruncateFile, WriteFile
  <2>2. ASSUME NEW m \in Nodes, Reboot(m) PROVE Kept(n)
    BY <1>1, <2>2 DEF Reboot
  <2>3. CASE UNCHANGED file
    BY <2>3
  <2> HIDE DEF Kept
  <2> QED
    BY <1>1, <2>1, <2>2, <2>3
    DEF Next, Run, Start, CheckFile, InitBitMask, WatchBitMask, RenewBitMask,
        Report, Dies, Expire, vars
<1>2. IInv /\ [Next]_vars => [\A n \in Nodes : Kept(n)]_vars
  BY <1>1
<1> QED
  BY <1>2, Invariant, PTL DEF Spec, SubnetKept

=============================================================================
