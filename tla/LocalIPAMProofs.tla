--------------------------- MODULE LocalIPAMProofs ---------------------------
(***************************************************************************)
(* Proofs about LocalIPAM, for any number of processes, containers,        *)
(* subnets, faults and any size of subnet.                                 *)
(***************************************************************************)
EXTENDS LocalIPAM, TLAPS

-----------------------------------------------------------------------------
(* Types *)

\* Addresses are numbers, and NoAddr is none of them.
LEMMA AddrsFacts ==
  /\ Addrs \subseteq Nat
  /\ NoAddr \notin Addrs
  /\ \A b \in Bases : Gateway(b) \in Addrs /\ Net(b) \subseteq Addrs
BY AddressAssumption DEF Addrs, Net, Gateway

\* The values that the program starts from have their types.
LEMMA FreshTypes ==
  /\ FreshData \in Data
  /\ NoReq \in [cmd : Commands, id : Containers \cup {NoOne},
                base : Bases \cup {NoAddr}]
  /\ NoReply \in [ok : BOOLEAN, addr : Addrs \cup {NoAddr}]
BY DEF FreshData, Data, NoReq, NoReply, Commands

\* The types hold before the first call.
LEMMA TypeInit == Init => TypeOK /\ CallsInv
<1> SUFFICES ASSUME Init PROVE TypeOK /\ CallsInv
  OBVIOUS
<1> USE DEF Init
<1>1. TypeOK
  BY FreshTypes, NamesAssumption DEF TypeOK, Locations, Absent
<1>2. CallsInv
  BY DEF CallsInv, Inside, Locations, NoReply
<1> QED
  BY <1>1, <1>2

\* Every step keeps the types, given what a call carries.
LEMMA TypeStep == TypeOK /\ CallsInv /\ [Next]_vars => TypeOK'
<1> SUFFICES ASSUME TypeOK, CallsInv, [Next]_vars PROVE TypeOK'
  OBVIOUS
<1> USE AddrsFacts, FreshTypes DEF TypeOK, Goto
<1>1. ASSUME NEW p \in Procs, NEW cmd \in Commands, NEW c \in Containers,
             Call(p, cmd, c)
      PROVE  TypeOK'
  BY <1>1 DEF Call, Locations
<1>2. ASSUME NEW p \in Procs, Lock(p) PROVE TypeOK'
  BY <1>2 DEF Lock, Locations
<1>3. ASSUME NEW p \in Procs, LoadData(p) PROVE TypeOK'
  <2>1. file.data \in Data
    OBVIOUS
  <2>2. mem' \in [Procs -> Data]
    BY <1>3, <2>1 DEF LoadData
  <2>3. pc' \in [Procs -> Locations]
    BY <1>3 DEF LoadData, Locations
  <2> QED
    BY <1>3, <2>2, <2>3 DEF LoadData
<1>4. ASSUME NEW p \in Procs, CreateFile(p) PROVE TypeOK'
  BY <1>4 DEF CreateFile, Torn, Locations
<1>5. ASSUME NEW p \in Procs, InitFile(p) PROVE TypeOK'
  BY <1>5 DEF InitFile, Saved, Locations
<1>6. ASSUME NEW p \in Procs, LookupForAdd(p) PROVE TypeOK'
  <2>1. LastOf(p) \in Addrs \cup {NoAddr}
    BY <1>6 DEF LookupForAdd, At, CallsInv, Inside, Locations, LastOf, Data
  <2>2. GetIPByID(mem[p], req[p].id) \subseteq Addrs
    BY DEF GetIPByID
  <2>3. pc' \in [Procs -> Locations]
    BY <1>6 DEF LookupForAdd, Locations
  <2>4. start' \in [Procs -> Addrs \cup {NoAddr}]
    BY <1>6, <2>1 DEF LookupForAdd
  <2>5. reply' \in [Procs -> [ok : BOOLEAN, addr : Addrs \cup {NoAddr}]]
    <3>1. ASSUME NEW a \in Addrs,
                 reply' = [reply EXCEPT ![p] = [ok |-> TRUE, addr |-> a]]
          PROVE  reply' \in [Procs -> [ok : BOOLEAN,
                                       addr : Addrs \cup {NoAddr}]]
      BY <3>1
    <3> QED
      BY <1>6, <2>2, <3>1 DEF LookupForAdd
  <2> QED
    BY <1>6, <2>3, <2>4, <2>5 DEF LookupForAdd
<1>7. ASSUME NEW p \in Procs, LookupForDel(p) PROVE TypeOK'
  <2>1. ASSUME NEW a \in Addrs
        PROVE  [mem[p] EXCEPT !.ips[a] = NoOne] \in Data
    BY DEF Data
  <2>2. pc' \in [Procs -> Locations]
    BY <1>7 DEF LookupForDel, Locations
  <2>3. mem' \in [Procs -> Data]
    <3>1. ASSUME NEW a \in Addrs, mem' = [mem EXCEPT ![p].ips[a] = NoOne]
          PROVE  mem' \in [Procs -> Data]
      BY <2>1, <3>1
    <3>2. CASE UNCHANGED mem
      BY <3>2
    <3> QED
      BY <1>7, <3>1, <3>2 DEF LookupForDel, GetIPByID
  <2>4. reply' \in [Procs -> [ok : BOOLEAN, addr : Addrs \cup {NoAddr}]]
    <3>1. CASE reply' = [reply EXCEPT ![p].ok = TRUE]
      BY <3>1
    <3>2. CASE UNCHANGED reply
      BY <3>2
    <3> QED
      BY <1>7, <3>1, <3>2 DEF LookupForDel
  <2> QED
    BY <1>7, <2>2, <2>3, <2>4 DEF LookupForDel
<1>8. ASSUME NEW p \in Procs, LookupForCheck(p) PROVE TypeOK'
  <2> DEFINE found == GetIPByID(mem[p], req[p].id) # {}
  <2>1. reply' = [reply EXCEPT ![p].ok = found]
    BY <1>8 DEF LookupForCheck
  <2>2. found \in BOOLEAN
    OBVIOUS
  <2> HIDE DEF found
  <2>3. reply' \in [Procs -> [ok : BOOLEAN, addr : Addrs \cup {NoAddr}]]
    BY <2>1, <2>2
  <2> QED
    BY <1>8, <2>3 DEF LookupForCheck, Locations
<1>9. ASSUME NEW p \in Procs, ScanOverflow(p) PROVE TypeOK'
  <2>1. Gateway(req[p].base) \in Addrs
    BY <1>9 DEF ScanOverflow, Locations, CallsInv, Inside
  <2>2. pc' \in [Procs -> Locations]
    BY <1>9 DEF ScanOverflow, Locations
  <2>3. start' \in [Procs -> Addrs \cup {NoAddr}]
    BY <1>9, <2>1 DEF ScanOverflow
  <2> QED
    BY <1>9, <2>2, <2>3 DEF ScanOverflow
<1>10. ASSUME NEW p \in Procs, ScanUsed(p) PROVE TypeOK'
  BY <1>10 DEF ScanUsed, Locations, InSubnet, CallsInv, Inside
<1>11. ASSUME NEW p \in Procs, ScanFree(p) PROVE TypeOK'
  <2> DEFINE next == start[p] + 1
  <2>1. next \in Addrs /\ req[p].id \in Containers
    BY <1>11 DEF ScanFree, InSubnet, CallsInv, Inside, Locations
  <2>2. [ips |-> [mem[p].ips EXCEPT ![next] = req[p].id], last |-> next]
          \in Data
    BY <2>1 DEF Data
  <2> QED
    BY <1>11, <2>1, <2>2 DEF ScanFree, Locations
<1>12. ASSUME NEW p \in Procs, Truncate(p) PROVE TypeOK'
  BY <1>12 DEF Truncate, Torn, Locations
<1>13. ASSUME NEW p \in Procs, Write(p) PROVE TypeOK'
  BY <1>13 DEF Write, Saved, Locations
<1>14. ASSUME NEW p \in Procs, Unlock(p) PROVE TypeOK'
  BY <1>14 DEF Unlock, Locations
<1>15. ASSUME NEW p \in Procs, Exit(p) PROVE TypeOK'
  BY <1>15 DEF Exit, Forget, Locations, CallsInv
<1>16. ASSUME NEW p \in Procs, IOError(p) PROVE TypeOK'
  BY <1>16, NamesAssumption DEF IOError, Fault, Locations
<1>17. ASSUME NEW p \in Procs, Kill(p) PROVE TypeOK'
  BY <1>17, NamesAssumption DEF Kill, Fault, Forget, Locations
<1>18. CASE Reboot
  BY <1>18, NamesAssumption DEF Reboot, Fault, Locations
<1>19. ASSUME NEW b \in Bases, WriteSubnet(b) PROVE TypeOK'
  BY <1>19 DEF WriteSubnet
<1>20. CASE UNCHANGED vars
  BY <1>20 DEF vars
<1> QED
  BY <1>1, <1>2, <1>3, <1>4, <1>5, <1>6, <1>7, <1>8, <1>9, <1>10, <1>11,
     <1>12, <1>13, <1>14, <1>15, <1>16, <1>17, <1>18, <1>19, <1>20
     DEF Next, Step

\* What a call carries, and where a reply may say ok.
LEMMA CallsStep == TypeOK /\ CallsInv /\ [Next]_vars => CallsInv'
<1> SUFFICES ASSUME TypeOK, CallsInv, [Next]_vars PROVE CallsInv'
  OBVIOUS
<1> USE AddrsFacts DEF TypeOK, CallsInv, Goto, Inside, Locations
<1>1. ASSUME NEW p \in Procs, NEW cmd \in Commands, NEW c \in Containers,
             Call(p, cmd, c)
      PROVE  CallsInv'
  BY <1>1 DEF Call
<1>2. ASSUME NEW p \in Procs, Lock(p) PROVE CallsInv'
  BY <1>2 DEF Lock
<1>3. ASSUME NEW p \in Procs, LoadData(p) PROVE CallsInv'
  BY <1>3 DEF LoadData
<1>4. ASSUME NEW p \in Procs, CreateFile(p) PROVE CallsInv'
  BY <1>4 DEF CreateFile
<1>5. ASSUME NEW p \in Procs, InitFile(p) PROVE CallsInv'
  BY <1>5 DEF InitFile
<1>6. ASSUME NEW p \in Procs, LookupForAdd(p) PROVE CallsInv'
  BY <1>6 DEF LookupForAdd, At, GetIPByID
<1>7. ASSUME NEW p \in Procs, LookupForDel(p) PROVE CallsInv'
  BY <1>7 DEF LookupForDel, At
<1>8. ASSUME NEW p \in Procs, LookupForCheck(p) PROVE CallsInv'
  BY <1>8 DEF LookupForCheck, At
<1>9. ASSUME NEW p \in Procs, ScanOverflow(p) PROVE CallsInv'
  BY <1>9 DEF ScanOverflow
<1>10. ASSUME NEW p \in Procs, ScanUsed(p) PROVE CallsInv'
  BY <1>10 DEF ScanUsed
<1>11. ASSUME NEW p \in Procs, ScanFree(p) PROVE CallsInv'
  <2>1. start[p] + 1 \in Addrs
    BY <1>11 DEF ScanFree, InSubnet
  <2> QED
    BY <1>11, <2>1 DEF ScanFree
<1>12. ASSUME NEW p \in Procs, Truncate(p) PROVE CallsInv'
  BY <1>12 DEF Truncate
<1>13. ASSUME NEW p \in Procs, Write(p) PROVE CallsInv'
  BY <1>13 DEF Write
<1>14. ASSUME NEW p \in Procs, Unlock(p) PROVE CallsInv'
  BY <1>14 DEF Unlock
<1>15. ASSUME NEW p \in Procs, Exit(p) PROVE CallsInv'
  BY <1>15 DEF Exit, Forget, NoReply
<1>16. ASSUME NEW p \in Procs, IOError(p) PROVE CallsInv'
  BY <1>16 DEF IOError
<1>17. ASSUME NEW p \in Procs, Kill(p) PROVE CallsInv'
  BY <1>17 DEF Kill, Forget, NoReply
<1>18. CASE Reboot
  BY <1>18 DEF Reboot, NoReply
<1>19. ASSUME NEW b \in Bases, WriteSubnet(b) PROVE CallsInv'
  BY <1>19 DEF WriteSubnet
<1>20. CASE UNCHANGED vars
  BY <1>20 DEF vars
<1> QED
  BY <1>1, <1>2, <1>3, <1>4, <1>5, <1>6, <1>7, <1>8, <1>9, <1>10, <1>11,
     <1>12, <1>13, <1>14, <1>15, <1>16, <1>17, <1>18, <1>19, <1>20
     DEF Next, Step

-----------------------------------------------------------------------------
(* Who runs, and who holds the flock *)

Work(p) ==
  \/ LoadData(p) \/ CreateFile(p) \/ InitFile(p)
  \/ LookupForAdd(p) \/ LookupForDel(p) \/ LookupForCheck(p)
  \/ ScanOverflow(p) \/ ScanUsed(p) \/ ScanFree(p)
  \/ Truncate(p) \/ Write(p)

\* The steps under the flock change neither the flock nor the calls.
LEMMA WorkShape ==
  ASSUME TypeOK, NEW p \in Procs, Work(p)
  PROVE  /\ pc[p] \in Inside
         /\ \E to \in Inside : pc' = [pc EXCEPT ![p] = to]
         /\ UNCHANGED <<subnet, lock, req, granted, faults>>
BY DEF TypeOK, Work, Goto, At, Inside, Locations, LoadData, CreateFile, InitFile,
       LookupForAdd, LookupForDel, LookupForCheck, ScanOverflow, ScanUsed,
       ScanFree, Truncate, Write

\* The runtime's promise survives every step.
LEMMA SerialStep ==
  TypeOK /\ CallsInv /\ SerialInv /\ [Next]_vars => SerialInv'
<1> SUFFICES ASSUME TypeOK, CallsInv, SerialInv, [Next]_vars PROVE SerialInv'
  OBVIOUS
<1> USE DEF TypeOK, SerialInv, Goto
<1>1. ASSUME NEW p \in Procs, NEW cmd \in Commands, NEW c \in Containers,
             Call(p, cmd, c)
      PROVE  SerialInv'
  BY <1>1 DEF Call, CallsInv
<1>2. ASSUME NEW p \in Procs, Lock(p) PROVE SerialInv'
  BY <1>2 DEF Lock
<1>3. ASSUME NEW p \in Procs, Work(p) PROVE SerialInv'
  BY <1>3, WorkShape DEF Inside
<1>4. ASSUME NEW p \in Procs, Unlock(p) PROVE SerialInv'
  BY <1>4 DEF Unlock
<1>5. ASSUME NEW p \in Procs, Exit(p) PROVE SerialInv'
  BY <1>5 DEF Exit, Forget
<1>6. ASSUME NEW p \in Procs, IOError(p) PROVE SerialInv'
  BY <1>6 DEF IOError
<1>7. ASSUME NEW p \in Procs, Kill(p) PROVE SerialInv'
  BY <1>7 DEF Kill, Forget
<1>8. CASE Reboot
  BY <1>8 DEF Reboot
<1>9. ASSUME NEW b \in Bases, WriteSubnet(b) PROVE SerialInv'
  BY <1>9 DEF WriteSubnet
<1>10. CASE UNCHANGED vars
  BY <1>10 DEF vars
<1> QED
  BY <1>1, <1>2, <1>3, <1>4, <1>5, <1>6, <1>7, <1>8, <1>9, <1>10
     DEF Next, Step, Work

\* The flock excludes.
LEMMA LockStep == TypeOK /\ LockInv /\ [Next]_vars => LockInv'
<1> SUFFICES ASSUME TypeOK, LockInv, [Next]_vars PROVE LockInv'
  OBVIOUS
<1> USE DEF TypeOK, LockInv, Goto, Inside, Locations
<1>1. ASSUME NEW p \in Procs, NEW cmd \in Commands, NEW c \in Containers,
             Call(p, cmd, c)
      PROVE  LockInv'
  BY <1>1 DEF Call
<1>2. ASSUME NEW p \in Procs, Lock(p) PROVE LockInv'
  BY <1>2 DEF Lock, Compatible
<1>3. ASSUME NEW p \in Procs, Work(p) PROVE LockInv'
  BY <1>3, WorkShape
<1>4. ASSUME NEW p \in Procs, Unlock(p) PROVE LockInv'
  BY <1>4 DEF Unlock
<1>5. ASSUME NEW p \in Procs, Exit(p) PROVE LockInv'
  BY <1>5 DEF Exit, Forget
<1>6. ASSUME NEW p \in Procs, IOError(p) PROVE LockInv'
  BY <1>6 DEF IOError
<1>7. ASSUME NEW p \in Procs, Kill(p) PROVE LockInv'
  BY <1>7 DEF Kill, Forget
<1>8. CASE Reboot
  BY <1>8 DEF Reboot
<1>9. ASSUME NEW b \in Bases, WriteSubnet(b) PROVE LockInv'
  BY <1>9 DEF WriteSubnet
<1>10. CASE UNCHANGED vars
  BY <1>10 DEF vars
<1> QED
  BY <1>1, <1>2, <1>3, <1>4, <1>5, <1>6, <1>7, <1>8, <1>9, <1>10
     DEF Next, Step, Work

-----------------------------------------------------------------------------
(* Claims *)

NoNewClaims ==
  \A c \in Containers, a \in Addrs : Claims(c, a)' => Claims(c, a)

\* Whoever is inside for ADD or DEL is there alone.
LEMMA Alone ==
  ASSUME LockInv, NEW p \in Procs, pc[p] \in Inside, req[p].cmd # "CHECK",
         NEW q \in Procs, pc[q] \in Inside
  PROVE  p = q
BY DEF LockInv

\* Claims arise in two steps only.
LEMMA ClaimsArise ==
  ASSUME TypeOK, CallsInv, [Next]_vars,
         ~ \E p \in Procs : LookupForAdd(p) \/ Write(p)
  PROVE  NoNewClaims
<1> USE AddrsFacts
        DEF NoNewClaims, Claims, Answered, TypeOK, CallsInv, Goto
<1>1. ASSUME NEW p \in Procs, NEW cmd \in Commands, NEW c \in Containers,
             Call(p, cmd, c)
      PROVE  NoNewClaims
  BY <1>1 DEF Call
<1>2. ASSUME NEW p \in Procs, Lock(p) PROVE NoNewClaims
  BY <1>2 DEF Lock
<1>3. ASSUME NEW p \in Procs, LoadData(p) PROVE NoNewClaims
  BY <1>3 DEF LoadData
<1>4. ASSUME NEW p \in Procs, CreateFile(p) PROVE NoNewClaims
  BY <1>4 DEF CreateFile
<1>5. ASSUME NEW p \in Procs, InitFile(p) PROVE NoNewClaims
  BY <1>5 DEF InitFile
<1>6. ASSUME NEW p \in Procs, LookupForDel(p) PROVE NoNewClaims
  BY <1>6 DEF LookupForDel, At
<1>7. ASSUME NEW p \in Procs, LookupForCheck(p) PROVE NoNewClaims
  BY <1>7 DEF LookupForCheck, At
<1>8. ASSUME NEW p \in Procs, ScanOverflow(p) PROVE NoNewClaims
  BY <1>8 DEF ScanOverflow
<1>9. ASSUME NEW p \in Procs, ScanUsed(p) PROVE NoNewClaims
  BY <1>9 DEF ScanUsed
<1>10. ASSUME NEW p \in Procs, ScanFree(p) PROVE NoNewClaims
  BY <1>10 DEF ScanFree
<1>11. ASSUME NEW p \in Procs, Truncate(p) PROVE NoNewClaims
  BY <1>11 DEF Truncate
<1>12. ASSUME NEW p \in Procs, Unlock(p) PROVE NoNewClaims
  BY <1>12 DEF Unlock
<1>13. ASSUME NEW p \in Procs, Exit(p) PROVE NoNewClaims
  BY <1>13 DEF Exit, Forget, NoReply
<1>14. ASSUME NEW p \in Procs, IOError(p) PROVE NoNewClaims
  BY <1>14 DEF IOError
<1>15. ASSUME NEW p \in Procs, Kill(p) PROVE NoNewClaims
  BY <1>15 DEF Kill, Forget, NoReply
<1>16. CASE Reboot
  BY <1>16 DEF Reboot, NoReply
<1>17. ASSUME NEW b \in Bases, WriteSubnet(b) PROVE NoNewClaims
  BY <1>17 DEF WriteSubnet
<1>18. CASE UNCHANGED vars
  BY <1>18 DEF vars
<1> QED
  BY <1>1, <1>2, <1>3, <1>4, <1>5, <1>6, <1>7, <1>8, <1>9, <1>10, <1>11,
     <1>12, <1>13, <1>14, <1>15, <1>16, <1>17, <1>18
     DEF Next, Step

\* An ADD that finds its container's record claims what the file records.
LEMMA ClaimsOfLookup ==
  ASSUME TypeOK, CallsInv, MemInv, NEW p \in Procs, LookupForAdd(p),
         NEW c \in Containers, NEW a \in Addrs, Claims(c, a)'
  PROVE  Claims(c, a) \/ (file.st = "ok" /\ file.data.ips[a] = c)
BY DEF Claims, Answered, TypeOK, CallsInv, LookupForAdd, At, Goto, GetIPByID,
       MemInv, MemOK, Saved

\* After the write of an ADD every claim is in what was written.
LEMMA ClaimsOfWrite ==
  ASSUME TypeOK, CallsInv, MemInv, NEW p \in Procs, Write(p),
         NEW c \in Containers, NEW a \in Addrs, Claims(c, a)'
  PROVE  mem[p].ips[a] = c
BY DEF Claims, Answered, TypeOK, CallsInv, Write, Goto,
       MemInv, MemOK, ClaimsIn

-----------------------------------------------------------------------------
(* The file and the memory of the process inside *)

ProcStep(p) ==
  \/ \E cmd \in Commands, c \in Containers : Call(p, cmd, c)
  \/ Lock(p)
  \/ Step(p)
  \/ IOError(p)
  \/ Kill(p)

FileStep(p) == CreateFile(p) \/ InitFile(p) \/ Truncate(p) \/ Write(p)

\* A step of one process is not seen in the locals of another.
LEMMA OthersLocals ==
  ASSUME TypeOK, NEW p \in Procs, ProcStep(p), NEW q \in Procs, q # p
  PROVE  /\ pc'[q] = pc[q] /\ req'[q] = req[q]
         /\ mem'[q] = mem[q] /\ reply'[q] = reply[q]
BY DEF TypeOK, ProcStep, Step, Goto, Call, Lock, LoadData, CreateFile, InitFile,
       LookupForAdd, LookupForDel, LookupForCheck, ScanOverflow, ScanUsed,
       ScanFree, Truncate, Write, Unlock, Exit, Forget, IOError, Kill

\* Four steps change the file.
LEMMA FileChanges ==
  ASSUME [Next]_vars, ~ \E p \in Procs : FileStep(p)
  PROVE  UNCHANGED file
BY DEF Next, FileStep, Step, vars, Call, Lock, LoadData,
       LookupForAdd, LookupForDel, LookupForCheck, ScanOverflow, ScanUsed,
       ScanFree, Unlock, Exit, IOError, Kill, Reboot, WriteSubnet

\* Another's step leaves alone what a process relies on.
LEMMA MemOthers ==
  ASSUME TypeOK, CallsInv, LockInv, MemInv,
         NEW p \in Procs, ProcStep(p), [Next]_vars,
         NEW q \in Procs, q # p
  PROVE  MemOK(q)'
<1>1. /\ pc'[q] = pc[q] /\ req'[q] = req[q]
      /\ mem'[q] = mem[q] /\ reply'[q] = reply[q]
  BY OthersLocals
<1>2. MemOK(q)
  BY DEF MemInv
<1>3. CASE FileStep(p) \/ LookupForAdd(p)
  <2>1. pc[p] \in Inside
    BY <1>3 DEF FileStep, CreateFile, InitFile, Truncate, Write,
                LookupForAdd, At, Inside, Locations
  <2>2. CASE pc[q] \notin {"create", "init"}
    <3>1. pc[q] \in {"decide", "scan", "store", "write"} => req[q].cmd = "CHECK"
      BY <2>1, Alone DEF Inside, Locations
    <3> QED
      BY <1>1, <1>2, <2>2, <3>1 DEF MemOK, CallsInv
  <2>3. CASE pc[q] \in {"create", "init"}
    <3>1. req[p].cmd = "CHECK"
      BY <2>1, <2>3, Alone DEF Inside, Locations
    <3>2. ~ Truncate(p) /\ ~ Write(p) /\ ~ LookupForAdd(p)
      BY <3>1 DEF Truncate, Write, LookupForAdd, At, CallsInv
    <3>3. CreateFile(p) \/ InitFile(p)
      BY <1>3, <3>2 DEF FileStep
    <3>4. NoNewClaims
      BY <3>3 DEF NoNewClaims, Claims, Answered, CreateFile, InitFile, Goto,
                  TypeOK
    <3> QED
      BY <1>1, <1>2, <2>3, <3>4 DEF MemOK, NoClaims, NoNewClaims
  <2> QED
    BY <2>2, <2>3
<1>4. CASE ~ (FileStep(p) \/ LookupForAdd(p))
  <2>1. UNCHANGED file
    BY <1>4 DEF FileStep, ProcStep, Step, Call, Lock, LoadData,
       LookupForAdd, LookupForDel, LookupForCheck, ScanOverflow, ScanUsed,
       ScanFree, Unlock, Exit, IOError, Kill
  <2>2. NoNewClaims
    <3>1. ASSUME NEW r \in Procs, LookupForAdd(r) \/ Write(r) PROVE r = p
      <4>1. pc'[r] # pc[r]
        BY <3>1 DEF TypeOK, LookupForAdd, Write, At, Goto
      <4> QED
        BY <4>1, OthersLocals
    <3> QED
      BY <1>4, <3>1, ClaimsArise DEF FileStep
  <2> QED
    BY <1>1, <1>2, <2>1, <2>2
       DEF MemOK, NoClaims, NoNewClaims, ClaimsIn, Saved
<1> QED
  BY <1>3, <1>4

\* A process's own step keeps its memory in line with the file.
LEMMA MemOwn ==
  ASSUME TypeOK, CallsInv, SerialInv, LockInv, MemInv, ClaimsInv,
         NEW p \in Procs, ProcStep(p), [Next]_vars
  PROVE  MemOK(p)'
<1> USE DEF TypeOK, Goto
<1>1. MemOK(p)
  BY DEF MemInv
<1>2. ASSUME ~ LookupForAdd(p), ~ Write(p) PROVE NoNewClaims
  <2>1. ASSUME NEW r \in Procs, LookupForAdd(r) \/ Write(r) PROVE r = p
    <3>1. pc'[r] # pc[r]
      BY <2>1 DEF LookupForAdd, Write, At
    <3> QED
      BY <3>1, OthersLocals
  <2> QED
    BY <1>2, <2>1, ClaimsArise
<1>3. CASE \E cmd \in Commands, c \in Containers : Call(p, cmd, c)
  BY <1>3 DEF Call, MemOK
<1>4. CASE Lock(p)
  BY <1>4 DEF Lock, MemOK
<1>5. CASE LoadData(p)
  <2>1. NoNewClaims /\ UNCHANGED file
    BY <1>2, <1>5 DEF LoadData, LookupForAdd, Write, At
  <2>2. CASE file.st = "absent"
    BY <1>5, <2>1, <2>2 DEF LoadData, MemOK, ClaimsInv, NoClaims, NoNewClaims
  <2>3. CASE file.st = "ok"
    <3>1. file = Saved(file.data)
      BY <2>3 DEF Saved
    <3> QED
      BY <1>5, <2>1, <2>3, <3>1 DEF LoadData, MemOK, Saved
  <2>4. CASE file.st = "torn"
    BY <1>5, <2>4 DEF LoadData, MemOK
  <2> QED
    BY <2>2, <2>3, <2>4
<1>6. CASE CreateFile(p)
  BY <1>1, <1>2, <1>6
     DEF CreateFile, MemOK, NoClaims, NoNewClaims, LookupForAdd, Write, At
<1>7. CASE InitFile(p)
  BY <1>1, <1>7 DEF InitFile, MemOK, Saved
<1>8. CASE LookupForAdd(p)
  <2>1. file = Saved(mem[p])
    BY <1>1, <1>8 DEF LookupForAdd, At, MemOK
  <2> QED
    BY <1>8, <2>1 DEF LookupForAdd, At, MemOK, Saved
<1>9. CASE LookupForDel(p)
  <2>1. file = Saved(mem[p]) /\ req[p].cmd = "DEL"
    BY <1>1, <1>9 DEF LookupForDel, At, MemOK
  <2>2. NoNewClaims /\ UNCHANGED <<file, req>>
    BY <1>2, <1>9 DEF LookupForDel, LookupForAdd, Write, At
  <2>3. ClaimsIn(mem[p].ips) /\ file.st = "ok"
    BY <2>1 DEF ClaimsInv, Saved
  <2>4. ASSUME NEW c \in Containers, NEW a \in Addrs, Claims(c, a)
        PROVE  mem'[p].ips[a] = c
    <3>1. mem[p].ips[a] = c
      BY <2>3, <2>4 DEF ClaimsIn
    <3>2. c # req[p].id
      BY <1>9, <2>1, <2>4
         DEF Claims, Answered, SerialInv, LookupForDel, At
    <3>3. mem[p].ips \in [Addrs -> Containers \cup {NoOne}]
      BY DEF Data
    <3>4. ASSUME NEW b \in Addrs, mem[p].ips[b] = req[p].id,
                 mem' = [mem EXCEPT ![p].ips[b] = NoOne]
          PROVE  mem'[p].ips[a] = c
      <4>1. b # a
        BY <3>1, <3>2, <3>4
      <4>2. mem'[p].ips = [mem[p].ips EXCEPT ![b] = NoOne]
        BY <3>4 DEF Data
      <4> QED
        BY <3>1, <3>3, <4>1, <4>2
    <3>5. CASE UNCHANGED mem
      BY <3>1, <3>5
    <3> QED
      BY <1>9, <3>4, <3>5 DEF LookupForDel, GetIPByID
  <2> QED
    BY <1>9, <2>1, <2>2, <2>3, <2>4
       DEF LookupForDel, MemOK, ClaimsIn, NoNewClaims
<1>10. CASE LookupForCheck(p)
  BY <1>10 DEF LookupForCheck, MemOK
<1>11. CASE ScanOverflow(p)
  BY <1>1, <1>11 DEF ScanOverflow, MemOK, Saved
<1>12. CASE ScanUsed(p)
  BY <1>1, <1>12 DEF ScanUsed, MemOK, Saved
<1>13. CASE ScanFree(p)
  <2> DEFINE next == start[p] + 1
  <2>1. file = Saved(mem[p]) /\ next \in Addrs /\ mem[p].ips[next] = NoOne
    BY <1>1, <1>13, AddrsFacts
       DEF ScanFree, MemOK, CallsInv, InSubnet, Contain, Inside, Locations
  <2>2. NoNewClaims /\ UNCHANGED <<file, req>>
    BY <1>2, <1>13 DEF ScanFree, LookupForAdd, Write, At
  <2>3. ClaimsIn(mem[p].ips) /\ file.st = "ok"
    BY <2>1 DEF ClaimsInv, Saved
  <2>4. mem[p].ips \in [Addrs -> Containers \cup {NoOne}]
    BY DEF Data
  <2>5. mem'[p].ips = [mem[p].ips EXCEPT ![next] = req[p].id]
    BY <1>13 DEF ScanFree
  <2>6. ClaimsIn(mem'[p].ips)
    BY <2>1, <2>3, <2>4, <2>5, NamesAssumption DEF ClaimsIn
  <2>7. mem'[p].ips[next] = req'[p].id /\ reply'[p].addr = next
    BY <1>13, <2>1, <2>2, <2>4, <2>5 DEF ScanFree
  <2>8. pc'[p] = "store"
    BY <1>13 DEF ScanFree
  <2> QED
    BY <2>2, <2>3, <2>6, <2>7, <2>8 DEF MemOK, ClaimsIn, NoNewClaims
<1>14. CASE Truncate(p)
  <2>1. NoNewClaims
    BY <1>2, <1>14 DEF Truncate, LookupForAdd, Write, At
  <2> QED
    BY <1>1, <1>14, <2>1 DEF Truncate, MemOK, ClaimsIn, NoNewClaims, Torn
<1>15. CASE Write(p)
  BY <1>15 DEF Write, MemOK
<1>16. CASE Unlock(p)
  BY <1>16 DEF Unlock, MemOK
<1>17. CASE Exit(p)
  BY <1>17 DEF Exit, Forget, MemOK
<1>18. CASE IOError(p)
  BY <1>18 DEF IOError, MemOK
<1>19. CASE Kill(p)
  BY <1>19 DEF Kill, Forget, MemOK
<1> QED
  BY <1>3, <1>4, <1>5, <1>6, <1>7, <1>8, <1>9, <1>10, <1>11, <1>12, <1>13,
     <1>14, <1>15, <1>16, <1>17, <1>18, <1>19 DEF ProcStep, Step

\* The memory of every call stays in line with the file.
LEMMA MemStep == IInv /\ [Next]_vars => MemInv'
<1> SUFFICES ASSUME IInv, [Next]_vars, NEW q \in Procs PROVE MemOK(q)'
  BY DEF MemInv
<1>1. ASSUME NEW p \in Procs, ProcStep(p) PROVE MemOK(q)'
  BY <1>1, MemOwn, MemOthers DEF IInv
<1>2. CASE Reboot
  BY <1>2 DEF Reboot, MemOK
<1>3. CASE (\E b \in Bases : WriteSubnet(b)) \/ UNCHANGED vars
  BY <1>3 DEF WriteSubnet, vars, IInv, MemInv, MemOK, ClaimsIn, NoClaims,
              Claims, Answered, Saved
<1> QED
  BY <1>1, <1>2, <1>3 DEF Next, ProcStep

\* Every claim stays recorded, and claims stay apart.
LEMMA ClaimsStep == IInv /\ [Next]_vars => ClaimsInv'
<1> SUFFICES ASSUME IInv, [Next]_vars PROVE ClaimsInv'
  OBVIOUS
<1> USE DEF IInv
<1>1. CASE \E p \in Procs : LookupForAdd(p)
  <2>1. PICK p \in Procs : LookupForAdd(p)
    BY <1>1
  <2>2. file.st = "ok" /\ UNCHANGED file
    BY <2>1 DEF LookupForAdd, At, MemInv, MemOK, Saved
  <2>3. \A c \in Containers, a \in Addrs : Claims(c, a)' => file.data.ips[a] = c
    BY <2>1, <2>2, ClaimsOfLookup DEF ClaimsInv, ClaimsIn
  <2> QED
    BY <2>2, <2>3 DEF ClaimsInv, ClaimsIn
<1>2. CASE \E p \in Procs : Write(p)
  <2>1. PICK p \in Procs : Write(p)
    BY <1>2
  <2>2. \A c \in Containers, a \in Addrs : Claims(c, a)' => mem[p].ips[a] = c
    BY <2>1, ClaimsOfWrite
  <2> QED
    BY <2>1, <2>2 DEF Write, Saved, ClaimsInv, ClaimsIn
<1>3. CASE ~ \E p \in Procs : LookupForAdd(p) \/ Write(p)
  <2>1. NoNewClaims
    BY <1>3, ClaimsArise
  <2>2. CASE UNCHANGED file
    BY <2>1, <2>2 DEF ClaimsInv, ClaimsIn, NoClaims, NoNewClaims
  <2>3. CASE \E p \in Procs : CreateFile(p) \/ Truncate(p)
    BY <2>1, <2>3 DEF CreateFile, Truncate, Torn, ClaimsInv, NoNewClaims
  <2>4. CASE \E p \in Procs : InitFile(p)
    <3>1. NoClaims
      BY <2>4 DEF InitFile, MemInv, MemOK
    <3> QED
      BY <2>1, <2>4, <3>1
         DEF InitFile, Saved, ClaimsInv, ClaimsIn, NoClaims, NoNewClaims
  <2> QED
    BY <1>3, <2>2, <2>3, <2>4, FileChanges DEF FileStep
<1> QED
  BY <1>1, <1>2, <1>3

-----------------------------------------------------------------------------
(* The records as one table *)

\* The contents of the file change in two steps only: whoever creates or sets
\* up the file finds no records and leaves none.
LEMMA DataStays ==
  ASSUME TypeOK, TableInv, [Next]_vars,
         ~ \E p \in Procs : Truncate(p) \/ Write(p)
  PROVE  file'.data = file.data
<1>1. ASSUME NEW p \in Procs, CreateFile(p) PROVE file'.data = file.data
  BY <1>1 DEF TableInv, TableOK, CreateFile, Torn
<1>2. ASSUME NEW p \in Procs, InitFile(p) PROVE file'.data = file.data
  BY <1>2 DEF TableInv, TableOK, InitFile, Saved
<1>3. CASE UNCHANGED file
  BY <1>3
<1> QED
  BY <1>1, <1>2, <1>3, FileChanges DEF FileStep

\* What one process knows of the table outlives a step of another.
LEMMA TableOthers ==
  ASSUME IInv, NEW p \in Procs, ProcStep(p), [Next]_vars,
         NEW q \in Procs, q # p
  PROVE  TableOK(q)'
<1> USE DEF IInv
<1>1. /\ pc'[q] = pc[q] /\ req'[q] = req[q]
      /\ mem'[q] = mem[q] /\ reply'[q] = reply[q]
  BY OthersLocals
<1>2. TableOK(q)
  BY DEF TableInv
<1>3. UNCHANGED subnet
  BY DEF ProcStep, Step, Call, Lock, LoadData, CreateFile, InitFile,
         LookupForAdd, LookupForDel, LookupForCheck, ScanOverflow, ScanUsed,
         ScanFree, Truncate, Write, Unlock, Exit, IOError, Kill
<1>4. CASE Truncate(p) \/ Write(p)
  <2>1. pc[p] \in Inside /\ req[p].cmd # "CHECK"
    BY <1>4 DEF Truncate, Write, Inside, Locations, CallsInv
  <2>2. pc[q] \notin Inside
    BY <2>1, Alone
  <2> QED
    BY <1>1, <1>2, <1>3, <2>2 DEF TableOK, Inside, Locations
<1>5. CASE ~ (Truncate(p) \/ Write(p))
  <2>1. ASSUME NEW r \in Procs, Truncate(r) \/ Write(r) PROVE r = p
    <3>1. pc'[r] # pc[r]
      BY <2>1 DEF TypeOK, Truncate, Write, Goto
    <3> QED
      BY <3>1, OthersLocals
  <2>2. file'.data = file.data
    BY <1>5, <2>1, DataStays
  <2> QED
    BY <1>1, <1>2, <1>3, <2>2 DEF TableOK, ChangeOK, Single
<1> QED
  BY <1>4, <1>5

\* A process's own step keeps what it knows: ADD and DEL look the records up
\* that they change.
LEMMA TableOwn ==
  ASSUME IInv, NEW p \in Procs, ProcStep(p), [Next]_vars
  PROVE  TableOK(p)'
<1> USE AddrsFacts DEF IInv, TypeOK, Goto
<1>1. TableOK(p)
  BY DEF TableInv
<1>2. MemOK(p)
  BY DEF MemInv
<1>3. mem[p].ips \in [Addrs -> Containers \cup {NoOne}]
  BY DEF Data
<1>4. CASE \E cmd \in Commands, c \in Containers : Call(p, cmd, c)
  BY <1>4 DEF Call, TableOK
<1>5. CASE Lock(p)
  BY <1>1, <1>5 DEF Lock, TableOK
<1>6. CASE LoadData(p)
  BY <1>1, <1>6 DEF LoadData, TableOK, TableInv
<1>7. CASE CreateFile(p)
  BY <1>1, <1>7 DEF CreateFile, TableOK, Torn
<1>8. CASE InitFile(p)
  BY <1>1, <1>2, <1>8 DEF InitFile, TableOK, MemOK, Saved
<1>9. CASE LookupForAdd(p)
  BY <1>1, <1>9 DEF LookupForAdd, At, TableOK, GetIPByID
<1>10. CASE LookupForDel(p)
  <2>1. pc'[p] \in {"store", "unlock"}
    BY <1>10 DEF LookupForDel
  <2>2. ASSUME NEW a \in Addrs, mem[p].ips[a] = req[p].id,
               mem' = [mem EXCEPT ![p].ips[a] = NoOne], pc'[p] = "store"
        PROVE  TableOK(p)'
    <3>1. mem'[p].ips = [mem[p].ips EXCEPT ![a] = NoOne]
      BY <2>2 DEF Data
    <3>2. mem[p].ips = file.data.ips /\ Single(mem[p].ips)
      BY <1>1, <1>10 DEF LookupForDel, At, TableOK, TableInv
    <3>3. req[p].id # NoOne
      BY <1>10, NamesAssumption DEF LookupForDel, At, CallsInv
    <3>4. UNCHANGED <<file, subnet, req>> /\ req[p].cmd = "DEL"
      BY <1>10 DEF LookupForDel, At
    <3>5. ChangeOK(p)'
      BY <2>2, <3>1, <3>2, <3>4 DEF ChangeOK
    <3>6. Single(mem'[p].ips) /\ \A b \in Addrs : mem'[p].ips[b] # req[p].id
      BY <1>3, <2>2, <3>1, <3>2, <3>3 DEF Single
    <3> QED
      BY <1>1, <2>2, <3>4, <3>5, <3>6, <1>10
         DEF TableOK, Single, LookupForDel, At
  <2> QED
    BY <1>1, <1>10, <2>1, <2>2 DEF LookupForDel, At, TableOK, GetIPByID
<1>11. CASE LookupForCheck(p)
  BY <1>1, <1>11 DEF LookupForCheck, At, TableOK
<1>12. CASE ScanOverflow(p)
  BY <1>1, <1>12 DEF ScanOverflow, TableOK
<1>13. CASE ScanUsed(p)
  BY <1>1, <1>13 DEF ScanUsed, TableOK
<1>14. CASE ScanFree(p)
  <2> DEFINE next == start[p] + 1
  <2>1. mem[p].ips = file.data.ips /\ Single(mem[p].ips)
    BY <1>2, <1>14 DEF ScanFree, MemOK, Saved, TableInv
  <2>2. /\ next \in Addrs /\ next \in Net(req[p].base)
        /\ mem[p].ips[next] = NoOne
        /\ \A a \in Addrs : mem[p].ips[a] # req[p].id
        /\ req[p].cmd = "ADD" /\ req[p].id \in Containers
    BY <1>1, <1>14
       DEF ScanFree, CallsInv, InSubnet, Contain, Inside, Locations, TableOK
  <2>3. mem'[p].ips = [mem[p].ips EXCEPT ![next] = req[p].id]
    BY <1>14 DEF ScanFree
  <2>4. UNCHANGED <<file, subnet, req>> /\ reply'[p].addr = next /\ pc'[p] = "store"
    BY <1>14 DEF ScanFree
  <2> HIDE DEF next
  <2>5. ChangeOK(p)'
    BY <2>1, <2>2, <2>3, <2>4 DEF ChangeOK
  <2>6. Single(mem'[p].ips)
    BY <1>3, <2>1, <2>2, <2>3 DEF Single
  <2> QED
    BY <1>1, <1>14, <2>2, <2>4, <2>5, <2>6 DEF TableOK, Single, ScanFree
<1>15. CASE Truncate(p)
  BY <1>1, <1>15 DEF Truncate, TableOK, Single
<1>16. CASE Write(p)
  BY <1>1, <1>16 DEF Write, TableOK
<1>17. CASE Unlock(p)
  BY <1>1, <1>17 DEF Unlock, TableOK
<1>18. CASE Exit(p)
  BY <1>18 DEF Exit, Forget, TableOK
<1>19. CASE IOError(p)
  BY <1>1, <1>19 DEF IOError, TableOK
<1>20. CASE Kill(p)
  BY <1>20 DEF Kill, Forget, TableOK
<1> QED
  BY <1>4, <1>5, <1>6, <1>7, <1>8, <1>9, <1>10, <1>11, <1>12, <1>13, <1>14,
     <1>15, <1>16, <1>17, <1>18, <1>19, <1>20 DEF ProcStep, Step

\* The table stays one: no container gets a second record, and none claims
\* two addresses.
LEMMA TableStep == IInv /\ [Next]_vars => TableInv'
<1> SUFFICES ASSUME IInv, [Next]_vars PROVE TableInv'
  OBVIOUS
<1> USE DEF IInv
<1>1. ASSUME NEW q \in Procs PROVE TableOK(q)'
  <2>1. ASSUME NEW p \in Procs, ProcStep(p) PROVE TableOK(q)'
    BY <2>1, TableOwn, TableOthers
  <2>2. CASE Reboot
    BY <2>2 DEF Reboot, TableOK
  <2>3. ASSUME NEW b \in Bases, WriteSubnet(b) PROVE TableOK(q)'
    BY <2>3 DEF WriteSubnet, TableInv, TableOK, ChangeOK, Single
  <2>4. CASE UNCHANGED vars
    BY <2>4 DEF vars, TableInv, TableOK, ChangeOK, Single
  <2> QED
    BY <2>1, <2>2, <2>3, <2>4 DEF Next, ProcStep
<1>2. (file.st # "ok" => file.data = FreshData)' /\ Single(file.data.ips)'
  <2>1. Single(FreshData.ips)
    BY DEF Single, FreshData
  <2>2. ASSUME NEW p \in Procs, FileStep(p)
        PROVE  (file.st # "ok" => file.data = FreshData)' /\ Single(file'.data.ips)
    BY <2>1, <2>2
       DEF FileStep, CreateFile, InitFile, Truncate, Write, Torn, Saved,
           TableInv, TableOK
  <2> QED
    BY <2>2, FileChanges DEF TableInv, Single
<1>3. ASSUME NEW c \in Containers, NEW a \in Addrs, NEW b \in Addrs,
             Claims(c, a)', Claims(c, b)'
      PROVE  a = b
  <2>1. ASSUME NEW p \in Procs, LookupForAdd(p) PROVE a = b
    <3>1. file.st = "ok"
      BY <2>1 DEF LookupForAdd, At, MemInv, MemOK, Saved
    <3>2. file.data.ips[a] = c /\ file.data.ips[b] = c
      BY <1>3, <2>1, <3>1, ClaimsOfLookup DEF ClaimsInv, ClaimsIn
    <3> QED
      BY <3>2, NamesAssumption DEF TableInv, Single
  <2>2. ASSUME NEW p \in Procs, Write(p) PROVE a = b
    <3>1. mem[p].ips[a] = c /\ mem[p].ips[b] = c
      BY <1>3, <2>2, ClaimsOfWrite
    <3> QED
      BY <2>2, <3>1, NamesAssumption DEF TableInv, TableOK, Single, Write
  <2>3. CASE ~ \E p \in Procs : LookupForAdd(p) \/ Write(p)
    BY <1>3, <2>3, ClaimsArise DEF NoNewClaims, TableInv
  <2> QED
    BY <2>1, <2>2, <2>3
<1> QED
  BY <1>1, <1>2, <1>3 DEF TableInv

TableIs ==
  /\ file.st # "torn" => LogicalIPs = file.data.ips /\ ~ Broken
  /\ \A p \in Procs :
       file.st = "torn" /\ pc[p] = "write" => LogicalIPs = mem[p].ips /\ ~ Broken
  /\ file.st = "torn" /\ (\A p \in Procs : pc[p] # "write")
       => LogicalIPs = FreshData.ips

\* Which records the next call will find: the file's, those of the one who is
\* rewriting it, or none.
LEMMA Logical == TypeOK /\ CallsInv /\ LockInv /\ MemInv => TableIs
<1> SUFFICES ASSUME TypeOK, CallsInv, LockInv, MemInv PROVE TableIs
  OBVIOUS
<1> DEFINE w == CHOOSE q \in Procs : Writing(q)
<1>1. CASE file.st # "torn"
  BY <1>1 DEF TableIs, LogicalIPs, Broken
<1>2. CASE Broken
  BY <1>2 DEF TableIs, LogicalIPs, Broken, Writing
<1>3. CASE file.st = "torn" /\ ~ Broken
  <2>1. w \in Procs /\ Writing(w)
    BY <1>3 DEF Broken
  <2>2. LogicalIPs = mem[w].ips
    BY <1>3 DEF LogicalIPs
  <2> HIDE DEF w
  <2>3. ASSUME NEW p \in Procs, pc[p] = "write" PROVE w = p
    BY <2>1, <2>3, Alone DEF Writing, CallsInv, Inside, Locations
  <2>4. pc[w] # "write" => LogicalIPs = FreshData.ips
    BY <2>1, <2>2 DEF Writing, MemInv, MemOK
  <2> QED
    BY <1>3, <2>1, <2>2, <2>3, <2>4 DEF TableIs
<1> QED
  BY <1>1, <1>2, <1>3

\* The same, after a step.
LEMMA LogicalNext ==
  TypeOK' /\ CallsInv' /\ LockInv' /\ MemInv' => TableIs'
BY Logical, PTL

\* Whoever rewrites a file that is cut short began before.
LEMMA WritersStay ==
  ASSUME TypeOK, [Next]_vars, file.st = "torn",
         ~ \E p \in Procs : FileStep(p),
         NEW q \in Procs, Writing(q)'
  PROVE  pc'[q] = pc[q] /\ mem'[q] = mem[q]
<1> USE DEF TypeOK, Writing, Goto
<1>1. ASSUME NEW p \in Procs, ProcStep(p)
      PROVE  pc'[q] = pc[q] /\ mem'[q] = mem[q]
  <2>1. CASE q # p
    BY <1>1, <2>1, OthersLocals
  <2>2. CASE q = p
    BY <1>1, <2>2
       DEF ProcStep, Step, FileStep, Call, Lock, LoadData, LookupForAdd,
           LookupForDel, LookupForCheck, ScanOverflow, ScanUsed, ScanFree,
           Unlock, Exit, Forget, IOError, Kill
  <2> QED
    BY <2>1, <2>2
<1>2. CASE Reboot
  BY <1>2 DEF Reboot
<1>3. CASE (\E b \in Bases : WriteSubnet(b)) \/ UNCHANGED vars
  BY <1>3 DEF WriteSubnet, vars
<1> QED
  BY <1>1, <1>2, <1>3 DEF Next, ProcStep

\* The ways the table may change in a step: not at all, by being lost, or by
\* the one change of the call that truncates the file.
TableKept == LogicalIPs' = LogicalIPs /\ (Broken' <=> Broken)

TableLost == ~ Broken /\ Broken' /\ LogicalIPs' = FreshData.ips

TableChanged(p) ==
  /\ Truncate(p)
  /\ file.st = "ok" /\ ~ Broken /\ ~ Broken'
  /\ LogicalIPs = file.data.ips /\ LogicalIPs' = mem[p].ips

\* A store that cannot be read stays so, and the truncation is what commits
\* ADD and DEL: the calls to come find either the file's records or those of
\* the process that has emptied the file.
LEMMA TableChanges ==
  ASSUME IInv, [Next]_vars
  PROVE  TableKept \/ TableLost \/ \E p \in Procs : TableChanged(p)
<1> USE DEF IInv
<1>1. TableIs /\ TableIs'
  BY Logical, LogicalNext, TypeStep, CallsStep, LockStep, MemStep
<1>2. ASSUME NEW p \in Procs, Truncate(p) PROVE TableChanged(p)
  <2>1. file.st = "ok"
    BY <1>2 DEF Truncate, MemInv, MemOK
  <2>2. file'.st = "torn" /\ pc'[p] = "write" /\ mem' = mem
    BY <1>2 DEF Truncate, Torn, Goto, TypeOK
  <2> QED
    BY <1>1, <1>2, <2>1, <2>2 DEF TableIs, TableChanged
<1>3. ASSUME NEW p \in Procs, Write(p) PROVE TableKept
  <2>1. file.st = "torn" /\ pc[p] = "write"
    BY <1>3 DEF Write, MemInv, MemOK
  <2>2. file'.st = "ok" /\ file'.data = mem[p]
    BY <1>3 DEF Write, Saved
  <2> QED
    BY <1>1, <2>1, <2>2 DEF TableIs, TableKept
<1>4. ASSUME NEW p \in Procs, CreateFile(p) \/ InitFile(p) PROVE TableKept
  <2>1. pc[p] \in {"create", "init"} /\ Writing(p)
    BY <1>4 DEF CreateFile, InitFile, Writing
  <2>2. \A q \in Procs : pc[q] # "write" /\ pc'[q] # "write"
    <3>1. ASSUME NEW q \in Procs, pc[q] = "write" PROVE FALSE
      BY <2>1, <3>1, Alone DEF CallsInv, Inside, Locations
    <3>2. pc' = [pc EXCEPT ![p] = "init"] \/ pc' = [pc EXCEPT ![p] = "decide"]
      BY <1>4 DEF CreateFile, InitFile, Goto
    <3> QED
      BY <3>1, <3>2 DEF TypeOK
  <2>3. LogicalIPs = FreshData.ips /\ ~ Broken
    BY <1>1, <2>1, <2>2 DEF TableIs, Broken, TableInv, TableOK
  <2>4. file'.data = FreshData
    BY <1>4, <2>1 DEF CreateFile, InitFile, Torn, Saved
  <2>5. ~ Broken'
    BY <1>4 DEF Broken, CreateFile, InitFile, Goto, TypeOK, Writing, Saved
  <2> QED
    BY <1>1, <2>2, <2>3, <2>4, <2>5 DEF TableIs, TableKept
<1>5. ASSUME ~ \E p \in Procs : FileStep(p) PROVE TableKept \/ TableLost
  <2>1. UNCHANGED file
    BY <1>5, FileChanges
  <2>2. CASE file.st # "torn"
    BY <1>1, <2>1, <2>2 DEF TableIs, TableKept
  <2>3. CASE file.st = "torn"
    <3>1. \A q \in Procs :
            Writing(q)' => pc'[q] = pc[q] /\ mem'[q] = mem[q] /\ Writing(q)
      BY <1>5, <2>3, WritersStay DEF Writing
    <3>2. CASE \E q \in Procs : pc'[q] = "write"
      <4>1. PICK q \in Procs : pc'[q] = "write"
        BY <3>2
      <4>2. pc[q] = "write" /\ mem'[q] = mem[q]
        BY <3>1, <4>1 DEF Writing
      <4> QED
        BY <1>1, <2>1, <2>3, <4>1, <4>2 DEF TableIs, TableKept
    <3>3. CASE ~ \E q \in Procs : pc'[q] = "write"
      <4>1. LogicalIPs' = FreshData.ips
        BY <1>1, <2>1, <2>3, <3>3 DEF TableIs
      <4>2. Broken => Broken' /\ LogicalIPs = FreshData.ips
        BY <1>1, <2>1, <2>3, <3>1 DEF Broken, TableIs, Writing
      <4>3. ~ Broken /\ ~ Broken' => LogicalIPs = FreshData.ips
        <5> SUFFICES ASSUME ~ Broken' PROVE \A q \in Procs : pc[q] # "write"
          BY <1>1, <2>3 DEF TableIs
        <5>1. PICK r \in Procs : Writing(r)'
          BY <2>1, <2>3 DEF Broken
        <5>2. pc[r] \in {"create", "init"}
          BY <3>1, <3>3, <5>1 DEF Writing
        <5> QED
          BY <5>2, Alone DEF CallsInv, Inside, Locations
      <4> QED
        BY <4>1, <4>2, <4>3 DEF TableKept, TableLost
    <3> QED
      BY <3>2, <3>3
  <2> QED
    BY <2>2, <2>3
<1> QED
  BY <1>2, <1>3, <1>4, <1>5 DEF FileStep

-----------------------------------------------------------------------------
(* Replies *)

ReplyTrue(p) ==
  /\ Answered(p, "ADD") => LogicalIPs[reply[p].addr] = req[p].id
  /\ Answered(p, "DEL") => ~ Recorded(req[p].id)
  /\ Answered(p, "CHECK") => Recorded(req[p].id)

Lookup(p) == LookupForAdd(p) \/ LookupForDel(p) \/ LookupForCheck(p)

\* A call succeeds in its lookup or in its write; afterwards its answer stands.
LEMMA AnswersArise ==
  ASSUME TypeOK, CallsInv, [Next]_vars, NEW p \in Procs,
         NEW cmd, Answered(p, cmd)', ~ Lookup(p), ~ Write(p)
  PROVE  Answered(p, cmd) /\ req'[p] = req[p] /\ reply'[p] = reply[p]
<1>1. ASSUME NEW q \in Procs, ProcStep(q), q # p
      PROVE  Answered(p, cmd) /\ req'[p] = req[p] /\ reply'[p] = reply[p]
  BY <1>1, OthersLocals DEF Answered
<1>2. CASE ProcStep(p)
  <2> USE DEF TypeOK, Goto, Answered, CallsInv
  <2>1. CASE \E d \in Commands, c \in Containers : Call(p, d, c)
    BY <2>1 DEF Call
  <2>2. CASE Unlock(p)
    BY <2>2 DEF Unlock
  <2>3. CASE Exit(p) \/ Kill(p)
    BY <2>3 DEF Exit, Kill, Forget
  <2>4. CASE IOError(p)
    BY <2>4 DEF IOError
  <2>5. CASE Lock(p) \/ LoadData(p) \/ CreateFile(p) \/ InitFile(p)
    BY <2>5 DEF Lock, LoadData, CreateFile, InitFile
  <2>6. CASE ScanOverflow(p) \/ ScanUsed(p) \/ ScanFree(p) \/ Truncate(p)
    BY <2>6 DEF ScanOverflow, ScanUsed, ScanFree, Truncate
  <2> QED
    BY <1>2, <2>1, <2>2, <2>3, <2>4, <2>5, <2>6 DEF ProcStep, Step, Lookup
<1>3. CASE Reboot
  BY <1>3 DEF Reboot, Answered
<1>4. CASE (\E b \in Bases : WriteSubnet(b)) \/ UNCHANGED vars
  BY <1>4 DEF WriteSubnet, vars, Answered
<1> QED
  BY <1>1, <1>2, <1>3, <1>4 DEF Next, ProcStep

\* What a call has just found in the table, or made of it, is true of it.
LEMMA NewReplies ==
  ASSUME IInv, [Next]_vars, TableIs, TableKept, NEW p \in Procs,
         Lookup(p) \/ Write(p), ~ Broken
  PROVE  ReplyTrue(p)'
<1> USE AddrsFacts DEF IInv, TypeOK, Goto, GetIPByID, ReplyTrue, Answered
<1>1. MemOK(p) /\ TableOK(p)
  BY DEF MemInv, TableInv
<1>2. LogicalIPs' = LogicalIPs /\ (\A c : Recorded(c)' <=> Recorded(c))
  BY DEF TableKept, Recorded
<1>3. ASSUME pc[p] = "decide" PROVE LogicalIPs = mem[p].ips
  <2>1. CASE file.st = "torn"
    <3>1. file.data = FreshData
      BY <2>1 DEF TableInv
    <3>2. \A q \in Procs : pc[q] # "write"
      BY <1>3, Alone DEF CallsInv, Inside, Locations
    <3> QED
      BY <1>1, <1>3, <2>1, <3>1, <3>2 DEF TableIs, TableOK
  <2>2. CASE file.st # "torn"
    BY <1>1, <1>3, <2>2 DEF TableIs, TableOK
  <2> QED
    BY <2>1, <2>2
<1>4. CASE LookupForAdd(p)
  BY <1>2, <1>3, <1>4 DEF LookupForAdd, At, CallsInv
<1>5. CASE LookupForDel(p)
  <2>1. LogicalIPs = mem[p].ips
    BY <1>3, <1>5 DEF LookupForDel, At
  <2> QED
    BY <1>2, <1>5, <2>1 DEF LookupForDel, At, CallsInv, Recorded
<1>6. CASE LookupForCheck(p)
  <2>1. LogicalIPs = mem[p].ips
    BY <1>3, <1>6 DEF LookupForCheck, At
  <2>2. reply'[p].ok <=> Recorded(req[p].id)
    BY <1>6, <2>1 DEF LookupForCheck, At, Recorded
  <2> QED
    BY <1>2, <1>6, <2>2 DEF LookupForCheck, At
<1>7. CASE Write(p)
  <2>1. file.st = "torn" /\ pc[p] = "write" /\ UNCHANGED req
    BY <1>1, <1>7 DEF Write, MemOK
  <2>2. LogicalIPs = mem[p].ips
    BY <2>1 DEF TableIs
  <2>3. reply'[p].addr = reply[p].addr
    BY <1>7 DEF Write
  <2>4. req[p].cmd = "DEL" => ~ Recorded(req[p].id)
    BY <1>1, <2>1, <2>2 DEF TableOK, Recorded
  <2>5. req[p].cmd = "ADD" => LogicalIPs[reply[p].addr] = req[p].id
    BY <1>1, <2>1, <2>2 DEF MemOK
  <2>6. req[p].cmd # "CHECK"
    BY <2>1 DEF CallsInv
  <2> QED
    BY <1>2, <2>1, <2>3, <2>4, <2>5, <2>6
<1> QED
  BY <1>4, <1>5, <1>6, <1>7 DEF Lookup

\* The one change that a call makes to the table spares every other container.
LEMMA ChangeSpares ==
  ASSUME IInv, NEW q \in Procs, TableChanged(q),
         NEW c \in Containers, c # req[q].id, NEW a \in Addrs
  PROVE  LogicalIPs'[a] = c <=> LogicalIPs[a] = c
<1>1. ChangeOK(q) /\ req[q].id \in Containers
  BY DEF IInv, TableInv, TableOK, CallsInv, TableChanged, Truncate
<1>2. file.data.ips \in [Addrs -> Containers \cup {NoOne}]
  BY DEF IInv, TypeOK, Data
<1>3. LogicalIPs = file.data.ips /\ LogicalIPs' = mem[q].ips
  BY DEF TableChanged
<1> QED
  BY <1>1, <1>2, <1>3, NamesAssumption DEF ChangeOK

\* A reply stays true until the runtime hears it.
LEMMA RepliesStep == IInv /\ [Next]_vars => RepliesTrue'
<1> SUFFICES ASSUME IInv, [Next]_vars, ~ Broken', NEW p \in Procs
             PROVE  ReplyTrue(p)'
  BY DEF RepliesTrue, ReplyTrue
<1>1. TableIs
  BY Logical DEF IInv
<1>2. CASE TableKept
  <2>1. ~ Broken /\ LogicalIPs' = LogicalIPs /\ (\A c : Recorded(c)' <=> Recorded(c))
    BY <1>2 DEF TableKept, Recorded
  <2>2. CASE Lookup(p) \/ Write(p)
    BY <1>1, <1>2, <2>1, <2>2, NewReplies
  <2>3. CASE ~ (Lookup(p) \/ Write(p))
    <3>1. ASSUME NEW cmd, Answered(p, cmd)'
          PROVE  Answered(p, cmd) /\ req'[p] = req[p] /\ reply'[p] = reply[p]
      BY <2>3, <3>1, AnswersArise DEF IInv
    <3> QED
      BY <2>1, <3>1 DEF IInv, RepliesTrue, ReplyTrue
  <2> QED
    BY <2>2, <2>3
<1>3. ASSUME NEW q \in Procs, TableChanged(q) PROVE ReplyTrue(p)'
  <2>1. Truncate(q) /\ ~ Broken
    BY <1>3 DEF TableChanged
  <2>2. CASE p = q
    BY <2>1, <2>2 DEF IInv, TypeOK, Truncate, Goto, ReplyTrue, Answered
  <2>3. CASE p # q
    <3>1. UNCHANGED <<req, reply>> /\ pc'[p] = pc[p] /\ pc[q] # "idle"
      BY <2>1, <2>3 DEF IInv, TypeOK, Truncate, Goto
    <3>2. ASSUME NEW cmd, Answered(p, cmd)'
          PROVE  /\ Answered(p, cmd)
                 /\ req[p].id \in Containers /\ req[p].id # req[q].id
      BY <2>3, <3>1, <3>2 DEF IInv, Answered, SerialInv, CallsInv
    <3>3. ASSUME NEW cmd, Answered(p, cmd)', NEW a \in Addrs
          PROVE  LogicalIPs'[a] = req[p].id <=> LogicalIPs[a] = req[p].id
      BY <1>3, <3>2, <3>3, ChangeSpares
    <3>4. Answered(p, "ADD") => reply[p].addr \in Addrs
      BY DEF IInv, CallsInv, Answered
    <3>5. ReplyTrue(p)
      BY <2>1 DEF IInv, RepliesTrue, ReplyTrue
    <3> QED
      BY <3>1, <3>2, <3>3, <3>4, <3>5 DEF ReplyTrue, Recorded
  <2> QED
    BY <2>2, <2>3
<1> QED
  BY <1>2, <1>3, TableChanges DEF TableLost

-----------------------------------------------------------------------------
(* The theorems *)

\* The invariant holds before the first call.
LEMMA Initially == Init => IInv
<1> SUFFICES ASSUME Init PROVE IInv
  OBVIOUS
<1>1. TypeOK /\ CallsInv
  BY TypeInit
<1>2. SerialInv /\ LockInv
  BY DEF Init, SerialInv, LockInv, Inside
<1>3. NoClaims
  BY AddrsFacts DEF Init, NoClaims, Claims, Answered
<1>4. MemInv /\ ClaimsInv
  BY <1>3 DEF Init, MemInv, MemOK, ClaimsInv, NoClaims, Absent
<1>5. TableInv
  <2>1. file = Absent /\ file.data = FreshData /\ Single(FreshData.ips)
    BY DEF Init, Absent, FreshData, Single
  <2>2. \A p \in Procs : TableOK(p)
    BY DEF Init, TableOK
  <2> QED
    BY <1>3, <2>1, <2>2 DEF TableInv, NoClaims
<1>6. RepliesTrue
  BY DEF Init, RepliesTrue, Answered
<1> QED
  BY <1>1, <1>2, <1>4, <1>5, <1>6 DEF IInv

\* IInv is an invariant: the calls, the flock, the file and the claims stay
\* in line whatever steps are taken.
THEOREM Invariant == Spec => []IInv
<1>1. IInv /\ [Next]_vars => IInv'
  BY TypeStep, CallsStep, SerialStep, LockStep, MemStep, ClaimsStep, TableStep,
     RepliesStep DEF IInv
<1> QED
  BY Initially, <1>1, PTL DEF Spec

\* Two live containers never have the same address.
THEOREM GrantsUnique == Spec => []UniqueGrants
<1>1. IInv => UniqueGrants
  <2> SUFFICES ASSUME IInv, NEW c \in Containers, NEW d \in Containers,
                      granted[c] # NoAddr, granted[c] = granted[d]
               PROVE  c = d
    BY DEF UniqueGrants
  <2>1. granted[c] \in Addrs
    BY DEF IInv, TypeOK
  <2> QED
    BY <2>1 DEF IInv, ClaimsInv, Claims
<1> QED
  BY <1>1, Invariant, PTL

\* Every variable of LocalIPAM always has its type.
THEOREM TypeCorrect == Spec => []TypeOK
<1>1. Spec => [](TypeOK /\ CallsInv)
  BY TypeInit, TypeStep, CallsStep, PTL DEF Spec
<1> QED
  BY <1>1, PTL

\* A live container's address is recorded under its id unless the store is
\* lost.
THEOREM GrantsStayBacked == Spec => []GrantsBacked
<1>1. IInv => GrantsBacked
  <2> SUFFICES ASSUME IInv, ~ Broken, NEW c \in Containers,
                      granted[c] # NoAddr
               PROVE  LogicalIPs[granted[c]] = c
    BY DEF GrantsBacked
  <2>1. granted[c] \in Addrs /\ Claims(c, granted[c])
    BY DEF IInv, TypeOK, Claims
  <2>2. CASE file.st # "torn"
    BY <2>1, <2>2 DEF IInv, TypeOK, ClaimsInv, ClaimsIn, NoClaims, LogicalIPs
  <2>3. CASE file.st = "torn"
    <3> DEFINE w == CHOOSE p \in Procs : Writing(p)
    <3>1. w \in Procs /\ Writing(w)
      BY <2>3 DEF Broken
    <3>2. LogicalIPs = mem[w].ips
      BY <2>3 DEF LogicalIPs
    <3> HIDE DEF w
    <3> QED
      BY <2>1, <3>1, <3>2
         DEF IInv, MemInv, MemOK, Writing, NoClaims, ClaimsIn
  <2> QED
    BY <2>2, <2>3
<1> QED
  BY <1>1, Invariant, PTL

\* What a call that succeeded reports holds until the runtime hears it.
THEOREM RepliesStayTrue == Spec => []RepliesTrue
BY Invariant, PTL DEF IInv

\* A container never has two records, in the file or in what its writer holds.
THEOREM SingleRecords == Spec => []OneRecordPerContainer
<1>1. IInv => OneRecordPerContainer
  <2> SUFFICES ASSUME IInv PROVE Single(LogicalIPs)
    BY DEF Single, OneRecordPerContainer
  <2>1. TableIs
    BY Logical DEF IInv
  <2>2. Single(FreshData.ips)
    BY DEF Single, FreshData
  <2>3. CASE file.st # "torn"
    BY <2>1, <2>3 DEF IInv, TableIs, TableInv
  <2>4. ASSUME NEW p \in Procs, file.st = "torn", pc[p] = "write"
        PROVE  Single(LogicalIPs)
    BY <2>1, <2>4 DEF IInv, TableIs, TableInv, TableOK
  <2>5. CASE file.st = "torn" /\ \A p \in Procs : pc[p] # "write"
    BY <2>1, <2>2, <2>5 DEF TableIs
  <2> QED
    BY <2>3, <2>4, <2>5
<1> QED
  BY <1>1, Invariant, PTL

\* A live container keeps its address until the runtime gives it up: another
\* ADD of it can only bring the address it has.
THEOREM GrantsStay == Spec => StableGrant
<1> DEFINE Stays(c) == granted[c] # NoAddr => granted'[c] \in {granted[c], NoAddr}
<1>1. ASSUME IInv, [Next]_vars, NEW c \in Containers PROVE Stays(c)
  <2> USE DEF IInv, TypeOK
  <2>1. ASSUME NEW p \in Procs, NEW cmd \in Commands, NEW d \in Containers,
               Call(p, cmd, d)
        PROVE  Stays(c)
    BY <2>1 DEF Call
  <2>2. ASSUME NEW p \in Procs, Exit(p) PROVE Stays(c)
    <3> SUFFICES ASSUME granted[c] # NoAddr, granted'[c] # granted[c]
                 PROVE  FALSE
      BY AddrsFacts
    <3>1. Answered(p, "ADD") /\ req[p].id = c /\ granted'[c] = reply[p].addr
      BY <2>2 DEF Exit, Answered
    <3>2. Claims(c, granted[c]) /\ Claims(c, reply[p].addr)
      BY <3>1 DEF Claims
    <3>3. granted[c] \in Addrs /\ reply[p].addr \in Addrs
      BY <1>1, <3>1 DEF CallsInv, Answered
    <3> QED
      BY <1>1, <3>1, <3>2, <3>3 DEF TableInv
  <2>3. CASE Reboot
    BY <2>3 DEF Reboot
  <2>4. CASE UNCHANGED granted
    BY <2>4
  <2> HIDE DEF Stays
  <2> QED
    BY <1>1, <2>1, <2>2, <2>3, <2>4
    DEF Next, Step, Lock, LoadData, CreateFile, InitFile, LookupForAdd,
        LookupForDel, LookupForCheck, ScanOverflow, ScanUsed, ScanFree,
        Truncate, Write, Unlock, IOError, Kill, WriteSubnet, vars
<1>2. IInv /\ [Next]_vars => [\A c \in Containers : Stays(c)]_vars
  BY <1>1
<1> QED
  BY <1>2, Invariant, PTL DEF Spec, StableGrant

=============================================================================
