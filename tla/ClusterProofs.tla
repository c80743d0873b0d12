----------------------------- MODULE ClusterProofs -----------------------------
(***************************************************************************)
(* Proofs about Cluster, for any number of nodes, bits, containers,        *)
(* addresses and faults.  What they need of the daemon is proved in        *)
(* MycnidProofs.                                                           *)
(***************************************************************************)
EXTENDS Cluster, TLAPS

D == INSTANCE MycnidProofs

-----------------------------------------------------------------------------
(* The daemons *)

\* MycnidProofs is about the same daemons.
LEMMA SameDaemon ==
  /\ D!Bits = Daemon!Bits
  /\ \A n, b : D!Takes(n, b) <=> Daemon!Takes(n, b)
  /\ (D!IInv <=> Daemon!IInv) /\ (D!IInv' <=> Daemon!IInv')
  /\ D!Init <=> Daemon!Init
BY DEF D!IInv, D!TypeOK, D!RunInv, D!MaskInv, D!Takes, D!Bits, D!Locations,
       D!Init, Daemon!IInv, Daemon!TypeOK, Daemon!RunInv, Daemon!MaskInv,
       Daemon!Takes, Daemon!Bits, Daemon!Locations, Daemon!Init

\* A step of the daemons of this module is one of the daemon's module.
LEMMA SameSteps == Daemon!Next => D!Next
<1> USE DEF Daemon!Goto, D!Goto, Daemon!Ends, D!Ends, Daemon!Bits, D!Bits,
            Daemon!history, D!history, Daemon!runs, D!runs, Daemon!Fault, D!Fault
<1>1. ASSUME NEW n \in Nodes
      PROVE  /\ Daemon!Start(n) => D!Start(n)
             /\ Daemon!CheckFile(n) => D!CheckFile(n)
             /\ Daemon!InitBitMask(n) => D!InitBitMask(n)
             /\ Daemon!WatchBitMask(n) => D!WatchBitMask(n)
             /\ Daemon!RenewBitMask(n) => D!RenewBitMask(n)
             /\ Daemon!TruncateFile(n) => D!TruncateFile(n)
             /\ Daemon!WriteFile(n) => D!WriteFile(n)
             /\ Daemon!Report(n) => D!Report(n)
             /\ Daemon!Dies(n) => D!Dies(n)
             /\ Daemon!Reboot(n) => D!Reboot(n)
  BY DEF Daemon!Start, D!Start, Daemon!CheckFile, D!CheckFile,
         Daemon!InitBitMask, D!InitBitMask, Daemon!WatchBitMask, D!WatchBitMask,
         Daemon!Full, D!Full, Daemon!FirstUnused, D!FirstUnused,
         Daemon!RenewBitMask, D!RenewBitMask, Daemon!TruncateFile,
         D!TruncateFile, Daemon!WriteFile, D!WriteFile, Daemon!Report, D!Report,
         Daemon!Dies, D!Dies, Daemon!Reboot, D!Reboot
<1>2. Daemon!Expire => D!Expire
  BY DEF Daemon!Expire, D!Expire
<1> QED
  BY <1>1, <1>2 DEF Daemon!Next, D!Next, Daemon!Run, D!Run

\* A step of the cluster is one of the daemons, or leaves them alone but for
\* the count of faults.
LEMMA DaemonSteps ==
  ASSUME [Next]_vars
  PROVE  \/ [D!Next]_(D!vars)
         \/ \E n \in Nodes : Lose(n)
<1> USE DEF D!vars, D!runs, D!history, daemons
<1>1. ASSUME NEW n \in Nodes, NEW c \in Containers
      PROVE  /\ Deliver(n, c) => UNCHANGED D!vars
             /\ Forget(n, c) => UNCHANGED D!vars
             /\ \A a \in Addrs :
                  /\ Reserve(n, c, a) => UNCHANGED D!vars
                  /\ Answer(n, c, a) => UNCHANGED D!vars
                  /\ Release(n, c, a) => UNCHANGED D!vars
  BY DEF Deliver, Forget, Reserve, Answer, Release
<1>2. CASE DaemonStep \/ \E n \in Nodes : Reboot(n)
  BY <1>2, SameSteps DEF DaemonStep, Reboot, Daemon!Next
<1>3. CASE UNCHANGED vars
  BY <1>3 DEF vars
<1> QED
  BY <1>1, <1>2, <1>3 DEF Next

\* No step of the cluster breaks the daemons' invariant.
LEMMA DaemonInv == Daemon!IInv /\ [Next]_vars => Daemon!IInv'
<1> SUFFICES ASSUME Daemon!IInv, [Next]_vars PROVE D!IInv'
  BY SameDaemon
<1>1. D!IInv
  BY SameDaemon
<1>2. CASE [D!Next]_(D!vars)
  BY <1>1, <1>2, DaemonAssumption, D!Inductive
<1>3. ASSUME NEW n \in Nodes, Lose(n) PROVE D!IInv'
  <2> USE <1>1, <1>3, DaemonAssumption DEF Lose, daemons
  <2>1. D!TypeOK'
    BY DEF D!IInv, D!TypeOK, Daemon!Fault
  <2>2. D!RunInv' /\ D!MaskInv'
    BY DEF D!IInv, D!RunInv, D!MaskInv, D!Takes
  <2> QED
    BY <2>1, <2>2 DEF D!IInv
<1> QED
  BY <1>2, <1>3, DaemonSteps

\* Mycnid's TakesStep, for a step of the cluster.
LEMMA TakesInCluster ==
  ASSUME Daemon!IInv, [Next]_vars, ~ overwritten', ~ expired'
  PROVE  /\ ~ overwritten /\ ~ expired
         /\ mask # None => mask' # None /\ mask \subseteq mask'
         /\ \A n \in Nodes, b \in Daemon!Bits :
              Daemon!Takes(n, b)' =>
                \/ Daemon!Takes(n, b)
                \/ /\ mask = None \/ b \notin mask
                   /\ mask' # None /\ b \in mask'
                   /\ \A m \in Nodes :
                        Daemon!Takes(m, b)' /\ ~ Daemon!Takes(m, b) => m = n
<1> USE SameDaemon
<1>1. CASE [D!Next]_(D!vars)
  <2>1. /\ ~ overwritten /\ ~ expired
        /\ mask # None => mask' # None /\ mask \subseteq mask'
        /\ \A n \in Nodes, b \in D!Bits :
             D!Takes(n, b)' =>
               \/ D!Takes(n, b)
               \/ /\ mask = None \/ b \notin mask
                  /\ mask' # None /\ b \in mask'
                  /\ \A m \in Nodes :
                       D!Takes(m, b)' /\ ~ D!Takes(m, b) => m = n
    BY <1>1, DaemonAssumption, D!TakesStep
  <2> QED
    BY <2>1 DEF D!Takes, Daemon!Takes, D!Bits, Daemon!Bits
<1>2. ASSUME NEW n \in Nodes, Lose(n)
      PROVE  /\ UNCHANGED <<mask, overwritten, expired>>
             /\ \A m \in Nodes, b \in Daemon!Bits :
                  Daemon!Takes(m, b)' => Daemon!Takes(m, b)
  BY <1>2 DEF Lose, daemons, Daemon!Takes
<1> QED
  BY <1>1, <1>2, DaemonSteps

\* A node that has its subnet keeps it until it restarts.
LEMMA FileStays ==
  ASSUME Daemon!IInv, [Next]_vars, NEW n \in Nodes,
         file[n] \in Daemon!Bits, ~ Reboot(n)
  PROVE  file'[n] = file[n]
<1> USE DEF Daemon!IInv, Daemon!TypeOK
<1>1. ASSUME NEW m \in Nodes, Daemon!TruncateFile(m) \/ Daemon!WriteFile(m)
      PROVE  file'[n] = file[n]
  BY <1>1 DEF Daemon!RunInv, Daemon!TruncateFile, Daemon!WriteFile
<1>2. ASSUME NEW m \in Nodes, Reboot(m) PROVE file'[n] = file[n]
  BY <1>2 DEF Reboot, Daemon!Reboot
<1>3. ASSUME NEW m \in Nodes, Daemon!Run(m) \/ Daemon!Dies(m)
      PROVE  file'[n] = file[n]
  BY <1>1, <1>3
  DEF Daemon!Run, Daemon!Dies, Daemon!Start, Daemon!CheckFile,
      Daemon!InitBitMask, Daemon!WatchBitMask, Daemon!RenewBitMask, Daemon!Report
<1>4. CASE Daemon!Expire
  BY <1>4 DEF Daemon!Expire
<1>5. CASE UNCHANGED file
  BY <1>5
<1> QED
  BY <1>2, <1>3, <1>4, <1>5
  DEF Next, DaemonStep, Deliver, Forget, Reserve, Answer, Release, Lose,
      daemons, vars

-----------------------------------------------------------------------------
(* Types *)

\* The daemons begin, and no plugin has been called.
LEMMA Initially == Init => IInv
<1> SUFFICES ASSUME Init PROVE IInv
  OBVIOUS
<1>1. Daemon!IInv
  BY SameDaemon, DaemonAssumption, D!Initially DEF Init
<1>2. TypeOK
  BY <1>1 DEF Init, TypeOK, Nobody, NoAddrs, Daemon!IInv
<1>3. /\ \A n \in Nodes, a \in Addrs : owner[n][a] \notin Containers
      /\ \A n \in Nodes, c \in Containers, a \in Addrs : ~ Claims(n, c, a)
      /\ \A n \in Nodes, b \in Daemon!Bits : ~ Daemon!Takes(n, b)
  BY NetAssumption, DaemonAssumption
  DEF Init, Nobody, NoAddrs, Claims, Daemon!Init, Daemon!Takes, Daemon!Bits
<1>4. StoreInv /\ BootInv
  BY <1>3 DEF StoreInv, BootInv
<1>5. UseInv
  BY <1>3, NetAssumption DEF UseInv, Uses, Daemon!Bits
<1> QED
  BY <1>1, <1>2, <1>4, <1>5 DEF IInv

\* Every step keeps the types of the stores and the pods.
LEMMA TypeStep == TypeOK /\ Daemon!IInv /\ [Next]_vars => TypeOK'
<1> SUFFICES ASSUME TypeOK, Daemon!IInv, [Next]_vars PROVE TypeOK'
  OBVIOUS
<1>0. Daemon!TypeOK'
  BY DaemonInv DEF Daemon!IInv
<1> USE <1>0 DEF TypeOK
<1>1. CASE UNCHANGED <<stores, pods>>
  BY <1>1 DEF stores, pods
<1>2. ASSUME NEW n \in Nodes, NEW c \in Containers, NEW a \in Addrs,
             Reserve(n, c, a)
      PROVE  TypeOK'
  BY <1>2 DEF Reserve, pods
<1>3. ASSUME NEW n \in Nodes, NEW c \in Containers, NEW a \in Addrs,
             Answer(n, c, a)
      PROVE  TypeOK'
  BY <1>3 DEF Answer, stores
<1>4. ASSUME NEW n \in Nodes, NEW c \in Containers, NEW a \in Addrs,
             Release(n, c, a)
      PROVE  TypeOK'
  BY <1>4 DEF Release
<1>5. ASSUME NEW n \in Nodes, NEW c \in Containers, Deliver(n, c)
      PROVE  TypeOK'
  <2>1. [live EXCEPT ![n][c] = answer[n][c]]
          \in [Nodes -> [Containers -> Addrs \cup {NoAddr}]]
    OBVIOUS
  <2>2. live' \in [Nodes -> [Containers -> Addrs \cup {NoAddr}]]
    BY <1>5, <2>1 DEF Deliver
  <2> QED
    BY <1>5, <2>2 DEF Deliver, stores
<1>6. ASSUME NEW n \in Nodes, NEW c \in Containers, Forget(n, c)
      PROVE  TypeOK'
  BY <1>6 DEF Forget, stores
<1>7. ASSUME NEW n \in Nodes, Lose(n) PROVE TypeOK'
  BY <1>7 DEF Lose, Nobody, pods
<1>8. ASSUME NEW n \in Nodes, Reboot(n) PROVE TypeOK'
  BY <1>8 DEF Reboot, NoAddrs, stores
<1> QED
  BY <1>1, <1>2, <1>3, <1>4, <1>5, <1>6, <1>7, <1>8
  DEF Next, DaemonStep, vars

-----------------------------------------------------------------------------
(* Records and claims *)

\* A runtime hears of what it was about to hear of, and of nothing else.
LEMMA ClaimsArise ==
  ASSUME TypeOK, NEW n \in Nodes, NEW c \in Containers,
         Deliver(n, c) \/ Forget(n, c) \/ Reboot(n)
  PROVE  /\ \A m \in Nodes, d \in Containers, x \in Addrs :
              Claims(m, d, x)' => Claims(m, d, x)
         /\ UNCHANGED stores
<1> USE NetAssumption DEF TypeOK, Claims
<1>1. ASSUME Deliver(n, c), live' = live
      PROVE  \A m \in Nodes, d \in Containers, x \in Addrs :
               Claims(m, d, x)' => Claims(m, d, x)
  BY <1>1 DEF Deliver
<1>2. ASSUME Deliver(n, c), live' = [live EXCEPT ![n][c] = answer[n][c]]
      PROVE  \A m \in Nodes, d \in Containers, x \in Addrs :
               Claims(m, d, x)' => Claims(m, d, x)
  BY <1>2 DEF Deliver
<1>3. ASSUME Forget(n, c)
      PROVE  \A m \in Nodes, d \in Containers, x \in Addrs :
               Claims(m, d, x)' => Claims(m, d, x)
  BY <1>3 DEF Forget
<1>4. ASSUME Reboot(n)
      PROVE  \A m \in Nodes, d \in Containers, x \in Addrs :
               Claims(m, d, x)' => Claims(m, d, x)
  BY <1>4 DEF Reboot, NoAddrs
<1>5. UNCHANGED stores
  BY DEF Deliver, Forget, Reboot
<1> HIDE DEF Claims
<1> QED
  BY <1>1, <1>2, <1>3, <1>4, <1>5 DEF Deliver

\* An answer is of a record.
LEMMA ClaimsOfAnswer ==
  ASSUME TypeOK, NEW n \in Nodes, NEW c \in Containers, NEW a \in Addrs,
         Answer(n, c, a)
  PROVE  /\ \A m \in Nodes, d \in Containers, x \in Addrs :
              Claims(m, d, x)' =>
                Claims(m, d, x) \/ (m = n /\ d = c /\ x = a)
         /\ UNCHANGED <<stores, file, old>>
         /\ usable[n] /\ owner[n][a] = c
BY DEF TypeOK, Claims, Answer, Serves, stores, daemons

\* A reservation adds one record, a release removes one, of a container that
\* claims nothing.
LEMMA RecordsOfReserve ==
  ASSUME TypeOK, NEW n \in Nodes, NEW c \in Containers, NEW a \in Addrs,
         Reserve(n, c, a)
  PROVE  /\ \A m \in Nodes, x \in Addrs :
              owner'[m][x] = IF m = n /\ x = a THEN c ELSE owner[m][x]
         /\ UNCHANGED <<usable, file, live, answer, old>>
         /\ usable[n] /\ owner[n][a] = NoOne
         /\ \A x \in Addrs : owner[n][x] # c
         /\ file[n] \in Daemon!Bits /\ a \in Net(file[n])
BY DEF TypeOK, Reserve, Serves, Recorded, pods, daemons

\* What a DEL does to the records: those of its address go, the others stay.
LEMMA RecordsOfRelease ==
  ASSUME TypeOK, NEW n \in Nodes, NEW c \in Containers, NEW a \in Addrs,
         Release(n, c, a)
  PROVE  /\ \A m \in Nodes, x \in Addrs :
              owner'[m][x] = IF m = n /\ x = a THEN NoOne ELSE owner[m][x]
         /\ UNCHANGED <<usable, file, live, answer>>
         /\ old' = [old EXCEPT ![n] = @ \ {c}]
         /\ owner[n][a] = c
         /\ \A x \in Addrs : ~ Claims(n, c, x)
BY NetAssumption DEF TypeOK, Release, Claims, daemons

\* A lost store has no records; the claims stay.
LEMMA RecordsOfLose ==
  ASSUME TypeOK, NEW n \in Nodes, Lose(n)
  PROVE  /\ \A m \in Nodes, x \in Addrs :
              owner'[m][x] = IF m = n THEN NoOne ELSE owner[m][x]
         /\ \A m \in Nodes : usable'[m] => m # n /\ usable[m]
         /\ UNCHANGED <<file, live, answer, old>>
BY DEF TypeOK, Lose, Nobody, pods, daemons

\* A container has one record, and its claims are recorded while there is a
\* store.
LEMMA StoreStep == IInv /\ [Next]_vars => StoreInv'
<1> SUFFICES ASSUME IInv, [Next]_vars PROVE StoreInv'
  OBVIOUS
<1> USE NetAssumption DEF IInv, StoreInv
<1>1. CASE UNCHANGED <<stores, pods>>
  BY <1>1 DEF stores, pods, Claims
<1>2. ASSUME NEW n \in Nodes, NEW c \in Containers, NEW a \in Addrs,
             Reserve(n, c, a)
      PROVE  StoreInv'
  <2>1. \A m \in Nodes, d \in Containers, x \in Addrs :
          Claims(m, d, x)' <=> Claims(m, d, x)
    BY <1>2, RecordsOfReserve DEF Claims
  <2> QED
    BY <1>2, <2>1, RecordsOfReserve
<1>3. ASSUME NEW n \in Nodes, NEW c \in Containers, NEW a \in Addrs,
             Answer(n, c, a)
      PROVE  StoreInv'
  BY <1>3, ClaimsOfAnswer DEF stores
<1>4. ASSUME NEW n \in Nodes, NEW c \in Containers, NEW a \in Addrs,
             Release(n, c, a)
      PROVE  StoreInv'
  <2>1. \A m \in Nodes, d \in Containers, x \in Addrs :
          Claims(m, d, x)' <=> Claims(m, d, x)
    BY <1>4, RecordsOfRelease DEF Claims
  <2> QED
    BY <1>4, <2>1, RecordsOfRelease
<1>5. ASSUME NEW n \in Nodes, NEW c \in Containers,
             Deliver(n, c) \/ Forget(n, c) \/ Reboot(n)
      PROVE  StoreInv'
  BY <1>5, ClaimsArise DEF stores
<1>6. ASSUME NEW n \in Nodes, Reboot(n), Containers = {} PROVE StoreInv'
  BY <1>6
<1>7. ASSUME NEW n \in Nodes, Lose(n) PROVE StoreInv'
  <2>1. \A m \in Nodes, d \in Containers, x \in Addrs :
          Claims(m, d, x)' <=> Claims(m, d, x)
    BY <1>7, RecordsOfLose DEF Claims
  <2> QED
    BY <1>7, <2>1, RecordsOfLose
<1> QED
  BY <1>1, <1>2, <1>3, <1>4, <1>5, <1>6, <1>7 DEF Next, DaemonStep, vars

\* What is not of the node's subnet is of an earlier boot.
LEMMA BootStep == IInv /\ [Next]_vars => BootInv'
<1> SUFFICES ASSUME IInv, [Next]_vars PROVE BootInv'
  OBVIOUS
<1> USE NetAssumption DEF IInv, BootInv
<1>1. ASSUME UNCHANGED <<stores, pods>>, \A n \in Nodes : ~ Reboot(n)
      PROVE  BootInv'
  <2>1. \A n \in Nodes : file[n] \in Daemon!Bits => file'[n] = file[n]
    BY <1>1, FileStays
  <2>2. \A n \in Nodes, c \in Containers, a \in Addrs :
          Claims(n, c, a)' <=> Claims(n, c, a)
    BY <1>1 DEF Claims, pods
  <2> QED
    BY <1>1, <2>1, <2>2 DEF stores, pods, Daemon!Bits
<1>2. ASSUME NEW n \in Nodes, NEW c \in Containers, NEW a \in Addrs,
             Reserve(n, c, a)
      PROVE  BootInv'
  <2>1. \A m \in Nodes, d \in Containers, x \in Addrs :
          Claims(m, d, x)' <=> Claims(m, d, x)
    BY <1>2, RecordsOfReserve DEF Claims
  <2> QED
    BY <1>2, <2>1, RecordsOfReserve DEF Daemon!Bits
<1>3. ASSUME NEW n \in Nodes, NEW c \in Containers, NEW a \in Addrs,
             Answer(n, c, a)
      PROVE  BootInv'
  BY <1>3, ClaimsOfAnswer DEF stores, Daemon!Bits
<1>4. ASSUME NEW n \in Nodes, NEW c \in Containers, NEW a \in Addrs,
             Release(n, c, a)
      PROVE  BootInv'
  <2>1. \A m \in Nodes, d \in Containers, x \in Addrs :
          /\ Claims(m, d, x)' <=> Claims(m, d, x)
          /\ owner'[m][x] = d => owner[m][x] = d
          /\ m = n /\ d = c => ~ Claims(m, d, x) /\ owner'[m][x] # d
    BY <1>4, RecordsOfRelease DEF Claims, StoreInv
  <2>2. \A m \in Nodes, d \in Containers :
          d \in old[m] => d \in old'[m] \/ (m = n /\ d = c)
    BY <1>4, RecordsOfRelease DEF TypeOK
  <2>3. UNCHANGED file
    BY <1>4, RecordsOfRelease
  <2> QED
    BY <2>1, <2>2, <2>3 DEF Daemon!Bits
<1>5. ASSUME NEW n \in Nodes, NEW c \in Containers,
             Deliver(n, c) \/ Forget(n, c)
      PROVE  BootInv'
  <2>1. UNCHANGED <<file, old>>
    BY <1>5 DEF Deliver, Forget, daemons
  <2> QED
    BY <1>5, <2>1, ClaimsArise DEF stores, Daemon!Bits
<1>6. ASSUME NEW n \in Nodes, Reboot(n) PROVE BootInv'
  <2>1. \A m \in Nodes, d \in Containers, x \in Addrs :
          /\ owner'[m][x] = owner[m][x]
          /\ Claims(m, d, x)' => m # n /\ Claims(m, d, x)
    BY <1>6 DEF Reboot, stores, Claims, NoAddrs, TypeOK
  <2>2. \A m \in Nodes : m # n => file'[m] = file[m] /\ old'[m] = old[m]
    BY <1>6 DEF Reboot, Daemon!Reboot, TypeOK, Daemon!TypeOK
  <2>3. \A d \in Containers, x \in Addrs : owner[n][x] = d => d \in old'[n]
    BY <1>6 DEF Reboot, Recorded, TypeOK
  <2> QED
    BY <2>1, <2>2, <2>3 DEF Daemon!Bits
<1>7. ASSUME NEW n \in Nodes, Lose(n) PROVE BootInv'
  <2>1. \A m \in Nodes, d \in Containers, x \in Addrs :
          Claims(m, d, x)' <=> Claims(m, d, x)
    BY <1>7, RecordsOfLose DEF Claims
  <2> QED
    BY <1>7, <2>1, RecordsOfLose DEF Daemon!Bits
<1> QED
  BY <1>1, <1>2, <1>3, <1>4, <1>5, <1>6, <1>7 DEF Next, DaemonStep, vars

-----------------------------------------------------------------------------
(* The subnets of the cluster *)

\* A step makes a node use a subnet only by taking its bit: a reservation is
\* of the subnet in the node's file, everything else of a subnet used before.
LEMMA UsesArise ==
  ASSUME IInv, [Next]_vars, NEW n \in Nodes, NEW b \in Daemon!Bits, Uses(n, b)'
  PROVE  Uses(n, b) \/ Daemon!Takes(n, b)'
<1> USE NetAssumption DEF IInv
<1> SUFFICES ASSUME NEW d \in Containers, NEW x \in Net(b),
                    (owner[n][x] = d \/ Claims(n, d, x))'
             PROVE  Uses(n, b)
  BY DEF Uses
<1>1. x \in Addrs
  BY DEF Daemon!Bits
<1> DEFINE Before == owner[n][x] = d \/ Claims(n, d, x)
<1>2. Before => Uses(n, b)
  BY DEF Uses
<1>3. CASE UNCHANGED <<stores, pods>>
  BY <1>2, <1>3 DEF stores, pods, Claims
<1>4. ASSUME NEW m \in Nodes, NEW c \in Containers, NEW a \in Addrs,
             Reserve(m, c, a)
      PROVE  Uses(n, b)
  <2>1. Before \/ (m = n /\ x = a)
    BY <1>1, <1>4, RecordsOfReserve DEF Claims
  <2>2. ASSUME m = n, x = a PROVE Uses(n, b)
    BY <1>4, <2>2, RecordsOfReserve DEF Uses, Daemon!Takes, Daemon!Bits
  <2> QED
    BY <1>2, <2>1, <2>2
<1>5. ASSUME NEW m \in Nodes, NEW c \in Containers, NEW a \in Addrs,
             Answer(m, c, a)
      PROVE  Uses(n, b)
  BY <1>1, <1>2, <1>5, ClaimsOfAnswer DEF stores
<1>6. ASSUME NEW m \in Nodes, NEW c \in Containers, NEW a \in Addrs,
             Release(m, c, a)
      PROVE  Uses(n, b)
  BY <1>1, <1>2, <1>6, RecordsOfRelease DEF Claims
<1>7. ASSUME NEW m \in Nodes, NEW c \in Containers,
             Deliver(m, c) \/ Forget(m, c) \/ Reboot(m)
      PROVE  Uses(n, b)
  BY <1>1, <1>2, <1>7, ClaimsArise DEF stores
<1>8. ASSUME NEW m \in Nodes, Lose(m) PROVE Uses(n, b)
  BY <1>1, <1>2, <1>8, RecordsOfLose DEF Claims
<1> QED
  BY <1>3, <1>4, <1>5, <1>6, <1>7, <1>8 DEF Next, DaemonStep, vars

\* While no mask is lost, a bit in use by a node stays that node's.
LEMMA UseStep == IInv /\ [Next]_vars => UseInv'
<1> SUFFICES ASSUME IInv, [Next]_vars PROVE UseInv'
  OBVIOUS
<1>1. ASSUME NEW n \in Nodes, NEW c \in Containers, NEW a \in Addrs,
             (owner[n][a] = c \/ Claims(n, c, a))'
      PROVE  \E b \in Daemon!Bits : a \in Net(b)
  <2> USE NetAssumption DEF IInv
  <2>1. owner[n][a] = c \/ Claims(n, c, a) =>
          \E b \in Daemon!Bits : a \in Net(b)
    BY DEF UseInv
  <2>2. CASE UNCHANGED <<stores, pods>>
    BY <1>1, <2>1, <2>2 DEF stores, pods, Claims
  <2>3. ASSUME NEW m \in Nodes, NEW d \in Containers, NEW x \in Addrs,
               Reserve(m, d, x)
        PROVE  \E b \in Daemon!Bits : a \in Net(b)
    BY <1>1, <2>1, <2>3, RecordsOfReserve DEF Claims
  <2>4. ASSUME NEW m \in Nodes, NEW d \in Containers, NEW x \in Addrs,
               Answer(m, d, x)
        PROVE  \E b \in Daemon!Bits : a \in Net(b)
    BY <1>1, <2>1, <2>4, ClaimsOfAnswer DEF stores
  <2>5. ASSUME NEW m \in Nodes, NEW d \in Containers, NEW x \in Addrs,
               Release(m, d, x)
        PROVE  \E b \in Daemon!Bits : a \in Net(b)
    BY <1>1, <2>1, <2>5, RecordsOfRelease DEF Claims
  <2>6. ASSUME NEW m \in Nodes, NEW d \in Containers,
               Deliver(m, d) \/ Forget(m, d) \/ Reboot(m)
        PROVE  \E b \in Daemon!Bits : a \in Net(b)
    BY <1>1, <2>1, <2>6, ClaimsArise DEF stores
  <2>7. ASSUME NEW m \in Nodes, Lose(m)
        PROVE  \E b \in Daemon!Bits : a \in Net(b)
    BY <1>1, <2>1, <2>7, RecordsOfLose DEF Claims
  <2> QED
    BY <2>2, <2>3, <2>4, <2>5, <2>6, <2>7 DEF Next, DaemonStep, vars
<1>2. ASSUME ~ overwritten', ~ expired',
             NEW n \in Nodes, NEW b \in Daemon!Bits, Uses(n, b)'
      PROVE  /\ mask' # None /\ b \in mask'
             /\ \A m \in Nodes : Uses(m, b)' => m = n
  <2>1. Daemon!IInv
    BY DEF IInv
  <2>2. /\ ~ overwritten /\ ~ expired
        /\ mask # None => mask' # None /\ mask \subseteq mask'
    BY <1>2, <2>1, TakesInCluster
  <2>3. \A m \in Nodes :
          Uses(m, b) =>
            /\ mask # None /\ b \in mask
            /\ \A k \in Nodes : Uses(k, b) => k = m
    BY <2>2 DEF IInv, UseInv
  <2>4. \A m \in Nodes : Daemon!Takes(m, b) => Uses(m, b)
    BY DEF Uses
  <2>5. \A m \in Nodes :
          Uses(m, b)' =>
            \/ Uses(m, b)
            \/ /\ mask = None \/ b \notin mask
               /\ mask' # None /\ b \in mask'
               /\ \A k \in Nodes :
                    Daemon!Takes(k, b)' /\ ~ Daemon!Takes(k, b) => k = m
    BY <1>2, <2>1, <2>4, UsesArise, TakesInCluster
  <2>6. \A m \in Nodes : Uses(m, b)' => Uses(m, b) \/ Daemon!Takes(m, b)'
    BY UsesArise
  <2> QED
    BY <1>2, <2>2, <2>3, <2>4, <2>5, <2>6
<1> QED
  BY <1>1, <1>2 DEF UseInv, Daemon!Bits

-----------------------------------------------------------------------------
(* Theorems *)

\* The invariant holds however daemons, plugins, losses of a store and
\* restarts of the nodes interleave.
THEOREM Invariant == Spec => []IInv
<1>1. IInv /\ [Next]_vars => IInv'
  BY DaemonInv, TypeStep, StoreStep, BootStep, UseStep DEF IInv
<1> QED
  BY <1>1, Initially, PTL DEF Spec

\* Every variable keeps its type.
THEOREM TypeCorrect == Spec => []TypeOK
BY Invariant, PTL DEF IInv

\* While no mask is lost, no two live pods of the cluster have the same
\* address: not across nodes, not across restarts of a node that leave it
\* records of another subnet, and not after its store was lost.
THEOREM PodsUnique == Spec => []ClusterUnique
<1>1. ASSUME IInv, ~ overwritten, ~ expired,
             NEW n \in Nodes, NEW m \in Nodes,
             NEW c \in Containers, NEW d \in Containers,
             live[n][c] # NoAddr, live[n][c] = live[m][d]
      PROVE  n = m /\ c = d
  <2>1. live[n][c] \in Addrs
    BY <1>1 DEF IInv, TypeOK
  <2>2. Claims(n, c, live[n][c]) /\ Claims(m, d, live[n][c])
    BY <1>1 DEF Claims
  <2>3. PICK b \in Daemon!Bits : live[n][c] \in Net(b)
    BY <1>1, <2>1, <2>2 DEF IInv, UseInv
  <2>4. Uses(n, b) /\ Uses(m, b)
    BY <2>2, <2>3 DEF Uses
  <2>5. n = m
    BY <1>1, <2>4 DEF IInv, UseInv
  <2> QED
    BY <1>1, <2>1, <2>2, <2>5 DEF IInv, StoreInv
<1>2. IInv => ClusterUnique
  BY <1>1 DEF ClusterUnique
<1> QED
  BY <1>2, Invariant, PTL

\* A live pod's address is of the subnet its node has, unless its record is
\* older than the node's last restart; on no condition.
THEOREM PodsInSubnet == Spec => []LiveInSubnet
<1>1. ASSUME IInv, NEW n \in Nodes, NEW c \in Containers, live[n][c] # NoAddr
      PROVE  \/ c \in old[n]
             \/ file[n] \in Daemon!Bits /\ live[n][c] \in Net(file[n])
  <2>1. live[n][c] \in Addrs
    BY <1>1 DEF IInv, TypeOK
  <2>2. Claims(n, c, live[n][c])
    BY DEF Claims
  <2> QED
    BY <1>1, <2>1, <2>2 DEF IInv, BootInv
<1>2. IInv => LiveInSubnet
  BY <1>1 DEF LiveInSubnet
<1> QED
  BY <1>2, Invariant, PTL

-----------------------------------------------------------------------------
(* Refinement *)

\* Every node starts as an abstract node.
LEMMA NodesInit == Init => \A n \in Nodes : Node(n)!Init
<1> SUFFICES ASSUME Init, NEW n \in Nodes PROVE Node(n)!Init
  OBVIOUS
<1>1. file[n] \notin Daemon!Bits
  BY DaemonAssumption DEF Init, Daemon!Init, Daemon!Bits
<1> QED
  BY <1>1
  DEF Init, Daemon!Init, Nobody, NoAddrs, Node!Init, Node!NoAddrs,
      Node!Table!Init, Node!Table!NoOwners

\* A step that changes nothing of a node but a file without a bit is no step
\* of the abstract node, or the one that gives it its subnet.
LEMMA NodeJoins ==
  ASSUME NEW k \in Nodes,
         file[k] \in Daemon!Bits => file'[k] = file[k],
         owner'[k] = owner[k], usable'[k] = usable[k],
         answer'[k] = answer[k], live'[k] = live[k]
  PROVE  [Node(k)!Next]_(Node(k)!vars)
<1>1. CASE file[k] \in Daemon!Bits \/ file'[k] \notin Daemon!Bits
  BY <1>1 DEF Node!vars, Daemon!Bits
<1>2. CASE file[k] \notin Daemon!Bits /\ file'[k] \in Daemon!Bits
  <2>1. Node(k)!Join(file'[k])
    BY <1>2 DEF Node!Join, Daemon!Bits
  <2> QED
    BY <1>2, <2>1 DEF Node!Next
<1> QED
  BY <1>1, <1>2

\* Every step of the cluster is, on each node, a step of the abstract node or
\* none of its business.
LEMMA NodesStep ==
  ASSUME IInv, [Next]_vars, NEW k \in Nodes
  PROVE  [Node(k)!Next]_(Node(k)!vars)
<1> USE DEF IInv, TypeOK
<1>0. file[k] \in Daemon!Bits => file[k] # None
  BY DaemonAssumption DEF Daemon!Bits
<1>1. ASSUME UNCHANGED <<stores, pods>>, ~ Reboot(k)
      PROVE  [Node(k)!Next]_(Node(k)!vars)
  BY <1>1, FileStays, NodeJoins DEF stores, pods
<1>2. ASSUME NEW n \in Nodes, NEW c \in Containers, NEW a \in Addrs,
             Reserve(n, c, a)
      PROVE  [Node(k)!Next]_(Node(k)!vars)
  <2>1. CASE k = n
    <3>1. Node(k)!Reserve(c, a)
      BY <1>0, <1>2, <2>1
      DEF Reserve, Serves, Recorded, Node!Reserve, Node!Table!Reserve,
          Node!Table!Holds, daemons, pods
    <3> QED
      BY <3>1 DEF Node!Next
  <2>2. CASE k # n
    BY <1>2, <2>2, NodeJoins DEF Reserve, daemons, pods
  <2> QED
    BY <2>1, <2>2
<1>3. ASSUME NEW n \in Nodes, NEW c \in Containers, NEW a \in Addrs,
             Answer(n, c, a)
      PROVE  [Node(k)!Next]_(Node(k)!vars)
  <2>1. CASE k = n
    <3>1. Node(k)!Answer(c, a)
      BY <1>3, <2>1 DEF Answer, Serves, Node!Answer, daemons, stores
    <3> QED
      BY <3>1 DEF Node!Next
  <2>2. CASE k # n
    BY <1>3, <2>2, NodeJoins DEF Answer, daemons, stores
  <2> QED
    BY <2>1, <2>2
<1>4. ASSUME NEW n \in Nodes, NEW c \in Containers, NEW a \in Addrs,
             Release(n, c, a)
      PROVE  [Node(k)!Next]_(Node(k)!vars)
  <2>1. CASE k = n
    <3>1. Node(k)!Release(c, a)
      BY <1>4, <2>1
      DEF Release, Serves, Node!Release, Node!Table!Release, daemons
    <3> QED
      BY <3>1 DEF Node!Next
  <2>2. CASE k # n
    BY <1>4, <2>2, NodeJoins DEF Release, daemons
  <2> QED
    BY <2>1, <2>2
<1>5. ASSUME NEW n \in Nodes, NEW c \in Containers, Deliver(n, c)
      PROVE  [Node(k)!Next]_(Node(k)!vars)
  <2>1. CASE k = n /\ live' = [live EXCEPT ![n][c] = answer[n][c]]
    <3>1. Node(k)!Deliver(c)
      BY <1>5, <2>1 DEF Deliver, Node!Deliver, daemons, stores
    <3> QED
      BY <3>1 DEF Node!Next
  <2>2. CASE k = n /\ live' = live
    <3>1. Node(k)!Drop(c)
      BY <1>5, <2>2 DEF Deliver, Node!Drop, daemons, stores
    <3> QED
      BY <3>1 DEF Node!Next
  <2>3. CASE k # n
    <3>1. live'[k] = live[k]
      BY <1>5, <2>3 DEF Deliver
    <3> QED
      BY <1>5, <2>3, <3>1, NodeJoins DEF Deliver, daemons, stores
  <2> QED
    BY <1>5, <2>1, <2>2, <2>3 DEF Deliver
<1>6. ASSUME NEW n \in Nodes, NEW c \in Containers, Forget(n, c)
      PROVE  [Node(k)!Next]_(Node(k)!vars)
  <2>1. CASE k = n
    <3>1. Node(k)!Forget(c)
      BY <1>6, <2>1 DEF Forget, Node!Forget, daemons, stores
    <3> QED
      BY <3>1 DEF Node!Next
  <2>2. CASE k # n
    BY <1>6, <2>2, NodeJoins DEF Forget, daemons, stores
  <2> QED
    BY <2>1, <2>2
<1>7. ASSUME NEW n \in Nodes, Lose(n) PROVE [Node(k)!Next]_(Node(k)!vars)
  <2>1. CASE k = n
    <3>1. Node(k)!Lose
      BY <1>7, <2>1
      DEF Lose, Nobody, Node!Lose, Node!Table!Lose, Node!Table!NoOwners,
          daemons, pods
    <3> QED
      BY <3>1 DEF Node!Next
  <2>2. CASE k # n
    BY <1>7, <2>2, NodeJoins DEF Lose, daemons, pods
  <2> QED
    BY <2>1, <2>2
<1>8. ASSUME NEW n \in Nodes, Reboot(n) PROVE [Node(k)!Next]_(Node(k)!vars)
  <2> USE DEF Daemon!TypeOK
  <2>1. CASE k = n
    <3>1. file'[k] \notin Daemon!Bits
      BY <1>8, <2>1, DaemonAssumption DEF Reboot, Daemon!Reboot, Daemon!Bits
    <3>2. Node(k)!Restart
      BY <1>8, <2>1, <3>1
      DEF Reboot, NoAddrs, Node!Restart, Node!NoAddrs, stores, Daemon!Bits
    <3> QED
      BY <3>2 DEF Node!Next
  <2>2. CASE k # n
    BY <1>8, <2>2, NodeJoins DEF Reboot, Daemon!Reboot, stores
  <2> QED
    BY <2>1, <2>2
<1> QED
  BY <1>1, <1>2, <1>3, <1>4, <1>5, <1>6, <1>7, <1>8 DEF Next, DaemonStep, vars

\* Each node, of whatever number, keeps the promises of NodePool: its daemon
\* gives it one subnet a boot and never takes it away from its pods.
THEOREM NodesImplement == Spec => NodesServe
<1>1. IInv /\ [Next]_vars =>
        [\A n \in Nodes : [Node(n)!Next]_(Node(n)!vars)]_vars
  BY NodesStep
<1>2. Spec => (Init /\ [][Next]_vars)
  BY DEF Spec
<1> QED
  BY <1>1, <1>2, NodesInit, Invariant, PTL DEF NodesServe

=============================================================================
