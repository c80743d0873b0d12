------------------------- MODULE LocalIPAMRefinement -------------------------
(***************************************************************************)
(* The plugin implements NodePool: each step of a call, of the runtime or  *)
(* of the environment is one step of the abstract node or none.  A change  *)
(* of the table takes effect where its file is truncated; from there on    *)
(* the call is sure to complete it or to lose the whole table.             *)
(***************************************************************************)
EXTENDS LocalIPAMProofs

-----------------------------------------------------------------------------
(* Answers *)

Answers(p, c) == Answered(p, "ADD") /\ req[p].id = c

AnswerIs ==
  \A c \in Containers :
    /\ \A p \in Procs : Answers(p, c) => AnswerFor(c) = reply[p].addr
    /\ (\A p \in Procs : ~ Answers(p, c)) => AnswerFor(c) = NoAddr

\* At most one call answers for a container: the runtime made no other.
LEMMA AnswerOfContainer == SerialInv => AnswerIs
<1> SUFFICES ASSUME SerialInv, NEW c \in Containers
             PROVE  /\ \A p \in Procs :
                         Answers(p, c) => AnswerFor(c) = reply[p].addr
                    /\ (\A p \in Procs : ~ Answers(p, c))
                         => AnswerFor(c) = NoAddr
  BY DEF AnswerIs
<1> DEFINE done == {p \in Procs : Answered(p, "ADD") /\ req[p].id = c}
<1>1. AnswerFor(c) =
        IF done = {} THEN NoAddr ELSE reply[CHOOSE p \in done : TRUE].addr
  BY DEF AnswerFor
<1>2. ASSUME NEW p \in Procs, Answers(p, c) PROVE done = {p}
  BY <1>2 DEF Answers, Answered, SerialInv
<1>3. (\A p \in Procs : ~ Answers(p, c)) => done = {}
  BY DEF Answers
<1> HIDE DEF done
<1>4. ASSUME NEW p \in Procs, Answers(p, c) PROVE AnswerFor(c) = reply[p].addr
  <2>1. done = {p}
    BY <1>2, <1>4
  <2>2. (CHOOSE q \in done : TRUE) = p
    BY <2>1
  <2> QED
    BY <1>1, <2>1, <2>2
<1> QED
  BY <1>1, <1>3, <1>4

\* The same, after a step.
LEMMA AnswerOfContainerNext == SerialInv' => AnswerIs'
BY AnswerOfContainer, PTL

\* A call that neither had nor has an answer for a container leaves its
\* answer alone.
LEMMA AnswerStays ==
  ASSUME IInv, IInv', NEW p \in Procs, ProcStep(p), NEW c \in Containers,
         ~ Answers(p, c), ~ Answers(p, c)'
  PROVE  AnswerFor(c)' = AnswerFor(c)
<1>1. AnswerIs /\ AnswerIs'
  BY AnswerOfContainer, AnswerOfContainerNext DEF IInv
<1>2. ASSUME NEW q \in Procs, q # p
      PROVE  (Answers(q, c)' <=> Answers(q, c)) /\ reply'[q] = reply[q]
  BY <1>2, OthersLocals DEF IInv, Answers, Answered
<1>3. CASE \E q \in Procs : Answers(q, c)
  <2>1. PICK q \in Procs : Answers(q, c)
    BY <1>3
  <2>2. q # p /\ Answers(q, c)' /\ reply'[q] = reply[q]
    BY <1>2, <2>1
  <2> QED
    BY <1>1, <2>1, <2>2 DEF AnswerIs
<1>4. CASE ~ \E q \in Procs : Answers(q, c)
  <2>1. ~ \E q \in Procs : Answers(q, c)'
    BY <1>2, <1>4
  <2> QED
    BY <1>1, <1>4, <2>1 DEF AnswerIs
<1> QED
  BY <1>3, <1>4

\* When a call stops answering for a container, nobody answers for it.
LEMMA AnswerEnds ==
  ASSUME IInv, IInv', NEW p \in Procs, ProcStep(p), NEW c \in Containers,
         pc[p] # "idle", req[p].id = c, ~ Answers(p, c)'
  PROVE  AnswerFor(c)' = NoAddr
<1>1. AnswerIs'
  BY AnswerOfContainerNext DEF IInv
<1>2. ASSUME NEW q \in Procs, Answers(q, c)' PROVE FALSE
  <2>1. q # p
    BY <1>2
  <2>2. Answers(q, c)
    BY <1>2, <2>1, OthersLocals DEF IInv, Answers, Answered
  <2> QED
    BY <2>1, <2>2 DEF IInv, SerialInv, Answers, Answered
<1> QED
  BY <1>1, <1>2 DEF AnswerIs

-----------------------------------------------------------------------------
(* The table *)

\* Only a call that is killed or gives up loses the table, and only one that
\* truncates the file changes it.
LEMMA TableStays ==
  ASSUME IInv, [Next]_vars, NEW p \in Procs, ProcStep(p),
         ~ Truncate(p), Writing(p) => ~ IOError(p) /\ ~ Kill(p)
  PROVE  TableKept
<1>1. ASSUME NEW q \in Procs, TableChanged(q) PROVE FALSE
  <2>1. pc[q] = "store" /\ pc'[q] = "write"
    BY <1>1 DEF TableChanged, Truncate, Goto, IInv, TypeOK
  <2>2. q = p
    BY <2>1, OthersLocals DEF IInv
  <2> QED
    BY <1>1, <2>2 DEF TableChanged
<1>2. CASE TableLost
  <2> USE DEF Writing, Goto
  <2>1. file'.st = "torn" /\ \A q \in Procs : ~ Writing(q)'
    BY <1>2 DEF TableLost, Broken
  <2>2. ~ CreateFile(p) /\ ~ InitFile(p) /\ ~ Write(p)
    BY <2>1 DEF CreateFile, InitFile, Write, Saved, IInv, TypeOK
  <2>3. UNCHANGED file
    BY <2>2 DEF ProcStep, Step, Call, Lock, LoadData, LookupForAdd,
       LookupForDel, LookupForCheck, ScanOverflow, ScanUsed, ScanFree, Unlock,
       Exit, IOError, Kill
  <2>4. PICK w \in Procs : Writing(w)
    BY <1>2, <2>1, <2>3 DEF TableLost, Broken
  <2>5. w = p
    BY <2>1, <2>4, OthersLocals DEF IInv
  <2> QED
    BY <2>2, <2>4, <2>5
    DEF ProcStep, Step, Call, Lock, LoadData, LookupForAdd, LookupForDel, At,
        LookupForCheck, ScanOverflow, ScanUsed, ScanFree, Truncate, Unlock, Exit
<1> QED
  BY <1>1, <1>2, TableChanges

-----------------------------------------------------------------------------
(* The steps *)


Quiet ==
  /\ UNCHANGED <<subnet, granted>>
  /\ \A c \in Containers : AnswerFor(c)' = AnswerFor(c)

\* A step that nobody hears of leaves the abstract node alone, or loses its
\* table.
LEMMA QuietStep ==
  ASSUME Quiet, TableKept \/ TableLost
  PROVE  [Abstract!Next]_(Abstract!vars)
<1>1. [c \in Containers |-> AnswerFor(c)]' = [c \in Containers |-> AnswerFor(c)]
  BY DEF Quiet
<1>2. CASE TableKept
  BY <1>1, <1>2 DEF Quiet, TableKept, Abstract!vars
<1>3. CASE TableLost
  <2>1. Abstract!Lose
    BY <1>1, <1>3 DEF Quiet, TableLost, FreshData, Abstract!Lose,
                      Abstract!Table!Lose, Abstract!Table!NoOwners
  <2> QED
    BY <2>1 DEF Abstract!Next
<1> QED
  BY <1>2, <1>3

\* DEL tells the runtime's mind; the other calls begin unseen.
LEMMA CallStep ==
  ASSUME IInv, IInv', [Next]_vars, NEW p \in Procs,
         NEW cmd \in Commands, NEW c \in Containers, Call(p, cmd, c)
  PROVE  [Abstract!Next]_(Abstract!vars)
<1>0. ProcStep(p) /\ TableKept
  <2>1. ProcStep(p)
    BY DEF ProcStep
  <2> QED
    BY <2>1, TableStays DEF Call, Truncate, Writing
<1>1. \A d \in Containers : AnswerFor(d)' = AnswerFor(d)
  <2>1. \A d \in Containers : ~ Answers(p, d) /\ ~ Answers(p, d)'
    BY DEF Call, Answers, Answered, IInv, CallsInv
  <2> QED
    BY <1>0, <2>1, AnswerStays
<1>2. CASE cmd = "DEL"
  <2>1. Abstract!Forget(c)
    BY <1>0, <1>1, <1>2 DEF Call, TableKept, Abstract!Forget
  <2> QED
    BY <2>1 DEF Abstract!Next
<1>3. CASE cmd # "DEL"
  BY <1>0, <1>1, <1>3, QuietStep DEF Call, Quiet
<1> QED
  BY <1>2, <1>3

\* A call answers when it finds its record, or when the file holds the one it
\* has made.
LEMMA AnswerStep ==
  ASSUME IInv, IInv', [Next]_vars, NEW p \in Procs,
         LookupForAdd(p) \/ Write(p)
  PROVE  [Abstract!Next]_(Abstract!vars)
<1>c. PICK c \in Containers : c = req[p].id
  BY DEF LookupForAdd, Write, At, IInv, CallsInv
<1>a. PICK a : a = reply'[p].addr
  OBVIOUS
<1>0. ProcStep(p) /\ TableKept
  <2>1. ProcStep(p)
    BY DEF ProcStep, Step
  <2> QED
    <3>1. CASE LookupForAdd(p)
      BY <2>1, <3>1, TableStays DEF LookupForAdd, At, Truncate, Writing
    <3>2. CASE Write(p)
      <4>1. pc[p] # "store" /\ file'.st # file.st
        BY <3>2 DEF Write, Saved, IInv, MemInv, MemOK
      <4> QED
        BY <2>1, <4>1, TableStays DEF Truncate, IOError, Kill
    <3> QED
      BY <3>1, <3>2
<1>1. /\ UNCHANGED <<req, subnet, granted>>
      /\ ~ Answered(p, "ADD")
  BY DEF LookupForAdd, Write, At, Answered, IInv, CallsInv
<1>2. \A d \in Containers :
        d # c \/ ~ Answered(p, "ADD")' => AnswerFor(d)' = AnswerFor(d)
  <2>1. \A d \in Containers : ~ Answers(p, d)
    BY <1>1 DEF Answers
  <2>2. \A d \in Containers :
          d # c \/ ~ Answered(p, "ADD")' => ~ Answers(p, d)'
    BY <1>c, <1>1 DEF Answers
  <2> QED
    BY <1>0, <2>1, <2>2, AnswerStays
<1>3. CASE ~ Answered(p, "ADD")'
  BY <1>0, <1>1, <1>2, <1>3, QuietStep DEF Quiet
<1>4. CASE Answered(p, "ADD")'
  <2>1. AnswerFor(c)' = a
    BY <1>a, <1>c, <1>1, <1>4, AnswerOfContainerNext DEF AnswerIs, Answers, IInv
  <2>2. a \in Addrs
    BY <1>a, <1>1, <1>4 DEF IInv, CallsInv, Answered
  <2>3. ~ Broken
    <3>1. TableIs
      BY Logical DEF IInv
    <3>2. CASE LookupForAdd(p)
      BY <3>1, <3>2 DEF LookupForAdd, At, TableIs, IInv, MemInv, MemOK, Saved
    <3>3. CASE Write(p)
      BY <3>1, <3>3 DEF Write, TableIs, IInv, MemInv, MemOK
    <3> QED
      BY <3>2, <3>3
  <2>4. LogicalIPs[a] = c
    <3>1. ~ Broken' /\ LogicalIPs' = LogicalIPs
      BY <1>0, <2>3 DEF TableKept
    <3>2. LogicalIPs'[a] = req'[p].id
      BY <1>a, <1>c, <1>4, <3>1 DEF IInv, RepliesTrue
    <3> QED
      BY <1>c, <1>1, <3>1, <3>2
  <2>5. [d \in Containers |-> AnswerFor(d)]' =
          [[d \in Containers |-> AnswerFor(d)] EXCEPT ![c] = a]
    <3>1. \A d \in Containers :
            AnswerFor(d)' = IF d = c THEN a ELSE AnswerFor(d)
      BY <1>2, <2>1
    <3> QED
      BY <3>1
  <2>6. Abstract!Answer(c, a)
    BY <1>0, <1>1, <2>3, <2>4, <2>5 DEF TableKept, Abstract!Answer
  <2> QED
    BY <1>1, <2>2, <2>6 DEF Abstract!Next
<1> QED
  BY <1>3, <1>4

\* The runtime hears of an ADD that succeeded.
LEMMA ExitStep ==
  ASSUME IInv, IInv', [Next]_vars, NEW p \in Procs, Exit(p)
  PROVE  [Abstract!Next]_(Abstract!vars)
<1>c. PICK c \in Containers : c = req[p].id
  BY DEF Exit, IInv, CallsInv
<1>0. ProcStep(p) /\ TableKept
  <2>1. ProcStep(p)
    BY DEF ProcStep, Step
  <2> QED
    BY <2>1, TableStays DEF Exit, Truncate, Writing
<1>1. UNCHANGED subnet /\ ~ Answered(p, "ADD")'
  BY DEF Exit, Forget, Goto, Answered, IInv, CallsInv, TypeOK
<1>2. \A d \in Containers :
        d # c \/ ~ Answered(p, "ADD") => AnswerFor(d)' = AnswerFor(d)
  <2>1. \A d \in Containers : ~ Answers(p, d)'
    BY <1>1 DEF Answers
  <2>2. \A d \in Containers :
          d # c \/ ~ Answered(p, "ADD") => ~ Answers(p, d)
    BY <1>c DEF Answers
  <2> QED
    BY <1>0, <2>1, <2>2, AnswerStays
<1>3. CASE ~ Answered(p, "ADD")
  <2>1. UNCHANGED granted
    BY <1>3 DEF Exit, Answered
  <2> QED
    BY <1>0, <1>1, <1>2, <1>3, <2>1, QuietStep DEF Quiet
<1>4. CASE Answered(p, "ADD")
  <2>1. AnswerFor(c) = reply[p].addr /\ reply[p].addr \in Addrs
    BY <1>c, <1>1, <1>4, AnswerOfContainer
    DEF AnswerIs, Answers, IInv, CallsInv, Answered
  <2>2. AnswerFor(c)' = NoAddr
    <3>1. pc[p] # "idle" /\ ~ Answers(p, c)'
      BY <1>1 DEF Exit, Answers
    <3> QED
      BY <1>c, <1>0, <1>1, <3>1, AnswerEnds
  <2>3. granted' = [granted EXCEPT ![c] = AnswerFor(c)]
    BY <1>c, <1>4, <2>1 DEF Exit, Answered
  <2>4. [d \in Containers |-> AnswerFor(d)]' =
          [[d \in Containers |-> AnswerFor(d)] EXCEPT ![c] = NoAddr]
    <3>1. \A d \in Containers :
            AnswerFor(d)' = IF d = c THEN NoAddr ELSE AnswerFor(d)
      BY <1>2, <2>2
    <3> QED
      BY <3>1
  <2>5. AnswerFor(c) # NoAddr
    BY <2>1, AddrsFacts
  <2>6. Abstract!Deliver(c)
    BY <1>0, <1>1, <2>3, <2>4, <2>5 DEF TableKept, Abstract!Deliver
  <2> QED
    BY <1>1, <2>6 DEF Abstract!Next
<1> QED
  BY <1>3, <1>4

\* A killed call takes its answer with it, or the table that it was rewriting.
LEMMA KillStep ==
  ASSUME IInv, IInv', [Next]_vars, NEW p \in Procs, Kill(p)
  PROVE  [Abstract!Next]_(Abstract!vars)
<1>c. PICK c \in Containers : c = req[p].id
  BY DEF Kill, IInv, CallsInv
<1>0. ProcStep(p)
  BY DEF ProcStep
<1>1. UNCHANGED <<subnet, granted>> /\ ~ Answered(p, "ADD")'
  BY DEF Kill, Forget, Goto, Answered, IInv, CallsInv, TypeOK
<1>2. \A d \in Containers :
        d # c \/ ~ Answered(p, "ADD") => AnswerFor(d)' = AnswerFor(d)
  <2>1. \A d \in Containers : ~ Answers(p, d)'
    BY <1>1 DEF Answers
  <2>2. \A d \in Containers :
          d # c \/ ~ Answered(p, "ADD") => ~ Answers(p, d)
    BY <1>c DEF Answers
  <2> QED
    BY <1>0, <2>1, <2>2, AnswerStays
<1>3. CASE ~ Answered(p, "ADD")
  <2>1. TableKept \/ TableLost
    <3>1. ASSUME NEW q \in Procs, TableChanged(q) PROVE FALSE
      BY <3>1 DEF TableChanged, Truncate, Kill, Forget, Goto, IInv, TypeOK
    <3> QED
      BY <3>1, TableChanges
  <2> QED
    BY <1>1, <1>2, <1>3, <2>1, QuietStep DEF Quiet
<1>4. CASE Answered(p, "ADD")
  <2>1. TableKept
    BY <1>0, <1>4, TableStays DEF Kill, Forget, Answered, Truncate, Writing
  <2>2. AnswerFor(c)' = NoAddr
    <3>1. pc[p] # "idle" /\ ~ Answers(p, c)'
      BY <1>1 DEF Kill, Answers
    <3> QED
      BY <1>c, <1>0, <1>1, <3>1, AnswerEnds
  <2>3. [d \in Containers |-> AnswerFor(d)]' =
          [[d \in Containers |-> AnswerFor(d)] EXCEPT ![c] = NoAddr]
    <3>1. \A d \in Containers :
            AnswerFor(d)' = IF d = c THEN NoAddr ELSE AnswerFor(d)
      BY <1>2, <2>2
    <3> QED
      BY <3>1
  <2>4. Abstract!Drop(c)
    BY <1>1, <2>1, <2>3 DEF TableKept, Abstract!Drop
  <2> QED
    BY <1>1, <2>4 DEF Abstract!Next
<1> QED
  BY <1>3, <1>4

\* The truncation is where a reservation is made or released.
LEMMA TruncateStep ==
  ASSUME IInv, IInv', [Next]_vars, NEW p \in Procs, Truncate(p)
  PROVE  [Abstract!Next]_(Abstract!vars)
<1>c. PICK c \in Containers : c = req[p].id
  BY DEF Truncate, IInv, CallsInv
<1>0. ProcStep(p)
  BY DEF ProcStep, Step
<1>1. /\ UNCHANGED <<subnet, granted>>
      /\ pc[p] = "store" /\ pc'[p] = "write"
  BY DEF Truncate, Goto, IInv, CallsInv, TypeOK
<1>2. \A d \in Containers : AnswerFor(d)' = AnswerFor(d)
  <2>1. \A d \in Containers : ~ Answers(p, d) /\ ~ Answers(p, d)'
    BY <1>1 DEF Answers, Answered
  <2> QED
    BY <1>0, <2>1, AnswerStays
<1>3. [d \in Containers |-> AnswerFor(d)]' = [d \in Containers |-> AnswerFor(d)]
  BY <1>2
<1>4. CASE TableChanged(p)
  <2>1. /\ ~ Broken /\ ~ Broken'
        /\ LogicalIPs = file.data.ips /\ LogicalIPs' = mem[p].ips
    BY <1>4 DEF TableChanged
  <2>2. ChangeOK(p) /\ subnet # NoAddr /\ req[p].base = subnet
    BY <1>1, AddressAssumption
       DEF IInv, TableInv, TableOK, CallsInv, Inside, Locations
  <2>3. CASE req[p].cmd = "ADD"
    <3> DEFINE a == reply[p].addr
    <3>1. a \in Addrs
      BY <1>1, <2>3 DEF IInv, CallsInv
    <3>2. /\ LogicalIPs[a] = NoOne /\ a \in Net(subnet)
          /\ \A b \in Addrs : LogicalIPs[b] # c
          /\ LogicalIPs' = [LogicalIPs EXCEPT ![a] = c]
      BY <1>c, <2>1, <2>2, <2>3 DEF ChangeOK
    <3> HIDE DEF a
    <3>3. Abstract!Reserve(c, a)
      BY <1>1, <1>3, <2>1, <2>2, <3>2
      DEF Abstract!Reserve, Abstract!Table!Reserve, Abstract!Table!Holds
    <3> QED
      BY <1>1, <3>1, <3>3 DEF Abstract!Next
  <2>4. CASE req[p].cmd = "DEL"
    <3>1. PICK a \in Addrs :
            LogicalIPs[a] = c /\ LogicalIPs' = [LogicalIPs EXCEPT ![a] = NoOne]
      BY <1>c, <2>1, <2>2, <2>4 DEF ChangeOK
    <3>2. granted[c] = NoAddr
      BY <1>c, <1>1, <2>4 DEF IInv, SerialInv
    <3>3. AnswerFor(c) = NoAddr
      <4>1. \A q \in Procs : ~ Answers(q, c)
        BY <1>c, <1>1 DEF IInv, SerialInv, Answers, Answered
      <4> QED
        BY <1>1, <4>1, AnswerOfContainer DEF IInv, AnswerIs
    <3>4. Abstract!Release(c, a)
      BY <1>1, <1>3, <2>1, <3>1, <3>2, <3>3
      DEF Abstract!Release, Abstract!Table!Release
    <3> QED
      BY <1>1, <3>1, <3>4 DEF Abstract!Next
  <2> QED
    BY <1>1, <2>3, <2>4 DEF IInv, CallsInv, TypeOK, Commands
<1>5. CASE TableKept \/ TableLost
  BY <1>1, <1>2, <1>5, QuietStep DEF Quiet
<1>6. ASSUME NEW q \in Procs, TableChanged(q) PROVE q = p
  BY <1>0, <1>6, OthersLocals DEF TableChanged, Truncate, Goto, IInv, TypeOK
<1> QED
  BY <1>4, <1>5, <1>6, TableChanges

\* Of the other steps of a call nobody hears.
LEMMA OtherStep ==
  ASSUME IInv, IInv', [Next]_vars, NEW p \in Procs,
         \/ Lock(p) \/ LoadData(p) \/ CreateFile(p) \/ InitFile(p)
         \/ LookupForDel(p) \/ LookupForCheck(p)
         \/ ScanOverflow(p) \/ ScanUsed(p) \/ ScanFree(p)
         \/ Unlock(p) \/ IOError(p)
  PROVE  [Abstract!Next]_(Abstract!vars)
<1> USE DEF IInv, TypeOK, Goto
<1>0. ProcStep(p)
  BY DEF ProcStep, Step
<1>1. UNCHANGED <<subnet, granted, req>>
  BY DEF Lock, LoadData, CreateFile, InitFile, LookupForDel, LookupForCheck,
         ScanOverflow, ScanUsed, ScanFree, Unlock, IOError
<1>2. TableKept \/ TableLost
  <2>1. ASSUME NEW q \in Procs, TableChanged(q) PROVE FALSE
    <3>1. pc[q] = "store" /\ pc'[q] = "write"
      BY <2>1 DEF TableChanged, Truncate
    <3>2. q = p
      BY <1>0, <3>1, OthersLocals
    <3> QED
      BY <3>1, <3>2
      DEF Lock, LoadData, CreateFile, InitFile, LookupForDel, LookupForCheck,
          ScanOverflow, ScanUsed, ScanFree, Unlock, IOError, At
  <2> QED
    BY <2>1, TableChanges
<1>3. Answered(p, "ADD")' <=> Answered(p, "ADD")
  <2> USE DEF Answered, CallsInv
  <2>1. CASE Lock(p) \/ LoadData(p) \/ CreateFile(p) \/ InitFile(p)
    BY <2>1 DEF Lock, LoadData, CreateFile, InitFile
  <2>2. CASE LookupForDel(p) \/ LookupForCheck(p)
    BY <2>2 DEF LookupForDel, LookupForCheck, At
  <2>3. CASE ScanOverflow(p) \/ ScanUsed(p) \/ ScanFree(p)
    BY <2>3 DEF ScanOverflow, ScanUsed, ScanFree
  <2>4. CASE Unlock(p) \/ IOError(p)
    BY <2>4 DEF Unlock, IOError
  <2> QED
    BY <2>1, <2>2, <2>3, <2>4
<1>4. \A c \in Containers : AnswerFor(c)' = AnswerFor(c)
  <2>1. ASSUME NEW c \in Containers, Answers(p, c) PROVE Answers(p, c)'
    BY <1>1, <1>3, <2>1 DEF Answers
  <2>2. ASSUME NEW c \in Containers, Answers(p, c)' PROVE Answers(p, c)
    BY <1>1, <1>3, <2>2 DEF Answers
  <2>3. Answered(p, "ADD") => Unlock(p)
    BY DEF Answered, Lock, LoadData, CreateFile, InitFile, LookupForDel, At,
           LookupForCheck, ScanOverflow, ScanUsed, ScanFree, IOError
  <2>4. ASSUME NEW c \in Containers, Answers(p, c)
        PROVE  AnswerFor(c)' = AnswerFor(c)
    <3>1. reply'[p] = reply[p]
      BY <2>3, <2>4 DEF Answers, Unlock
    <3> QED
      BY <2>1, <2>4, <3>1, AnswerOfContainer, AnswerOfContainerNext DEF AnswerIs
  <2> QED
    BY <1>0, <2>2, <2>4, AnswerStays
<1> QED
  BY <1>1, <1>2, <1>4, QuietStep DEF Quiet

\* The node reboots, perhaps in the middle of rewriting the table.
LEMMA RebootStep ==
  ASSUME IInv, IInv', [Next]_vars, Reboot
  PROVE  [Abstract!Next]_(Abstract!vars)
<1>1. TableKept \/ TableLost
  BY TableChanges DEF TableChanged, Truncate, Reboot, Goto, IInv, TypeOK
<1>2. Abstract!Table!Lose \/ UNCHANGED <<LogicalIPs, ~ Broken>>
  BY <1>1 DEF TableKept, TableLost, FreshData, Abstract!Table!Lose,
              Abstract!Table!NoOwners
<1>3. \A c \in Containers : AnswerFor(c)' = NoAddr
  <2>1. \A p \in Procs, c \in Containers : ~ Answers(p, c)'
    BY DEF Reboot, Answers, Answered
  <2> QED
    BY <2>1, AnswerOfContainerNext DEF IInv, AnswerIs
<1>4. [c \in Containers |-> AnswerFor(c)]' = [c \in Containers |-> NoAddr]
  BY <1>3
<1>5. Abstract!Restart
  BY <1>2, <1>4 DEF Reboot, Abstract!Restart, Abstract!NoAddrs
<1> QED
  BY <1>5 DEF Abstract!Next

\* mycnid gives the node its subnet.
LEMMA WriteSubnetStep ==
  ASSUME NEW b \in Bases, WriteSubnet(b)
  PROVE  [Abstract!Next]_(Abstract!vars)
<1>1. LogicalIPs' = LogicalIPs /\ (Broken' <=> Broken)
  BY DEF WriteSubnet, LogicalIPs, Broken, Writing
<1>2. [c \in Containers |-> AnswerFor(c)]' = [c \in Containers |-> AnswerFor(c)]
  BY DEF WriteSubnet, AnswerFor, Answered
<1>3. Abstract!Join(b)
  BY <1>1, <1>2 DEF WriteSubnet, Abstract!Join
<1> QED
  BY <1>3 DEF Abstract!Next

-----------------------------------------------------------------------------
(* The theorem *)

\* Before the first call the table is empty and nobody has an answer.
LEMMA AbstractInit == Init => Abstract!Init
<1> SUFFICES ASSUME Init PROVE Abstract!Init
  OBVIOUS
<1>1. LogicalIPs = [a \in Addrs |-> NoOne] /\ ~ Broken
  BY DEF Init, LogicalIPs, Broken, Absent, FreshData
<1>2. \A c \in Containers : AnswerFor(c) = NoAddr
  BY DEF Init, AnswerFor, Answered
<1> QED
  BY <1>1, <1>2
  DEF Init, Abstract!Init, Abstract!NoAddrs, Abstract!Table!Init,
      Abstract!Table!NoOwners

\* Every step is one of the abstract node's or none.
LEMMA AbstractStep ==
  IInv /\ IInv' /\ [Next]_vars => [Abstract!Next]_(Abstract!vars)
<1> SUFFICES ASSUME IInv, IInv', [Next]_vars
             PROVE  [Abstract!Next]_(Abstract!vars)
  OBVIOUS
<1>1. CASE UNCHANGED vars
  BY <1>1 DEF vars, Abstract!vars, LogicalIPs, Broken, Writing, AnswerFor,
              Answered
<1> QED
  BY <1>1, CallStep, AnswerStep, ExitStep, KillStep, TruncateStep, OtherStep,
     RebootStep, WriteSubnetStep DEF Next, Step

\* The plugin implements the abstract node, from any number of processes to
\* any number of faults.
THEOREM Refinement == Spec => Refines
BY AbstractInit, AbstractStep, Invariant, PTL DEF Spec, Refines, Abstract!Spec

=============================================================================
