-------------------------------- MODULE Cluster --------------------------------
(***************************************************************************)
(* The nodes of a cluster: on each, the daemon of Mycnid gives the node    *)
(* its subnet, through subnet.json, and the local IPAM plugin serves it to *)
(* the pods.  The plugin is the NodePool that LocalIPAM implements.  A     *)
(* restart takes the file and the pods, and leaves the plugin's store.     *)
(***************************************************************************)
EXTENDS Naturals

CONSTANTS
  Nodes, LastBit, None, Torn, MaxFaults,   \* as in Mycnid
  Containers,   \* container ids, on each node its own
  Addrs,        \* the addresses of all subnets
  NoOne,        \* the owner of an address nobody holds
  NoAddr,       \* no address
  Net(_)        \* the addresses of the subnet of a bit

ASSUME DaemonAssumption ==   \* Mycnid's
  /\ LastBit \in Nat
  /\ None \notin Nat /\ Torn \notin Nat /\ None # Torn
  /\ \A m \in SUBSET (0 .. LastBit) : m # None
  /\ MaxFaults \in Nat

ASSUME NetAssumption ==
  /\ NoOne \notin Containers
  /\ NoAddr \notin Addrs
  /\ \A b \in 0 .. LastBit : Net(b) \subseteq Addrs
  /\ \A b, d \in 0 .. LastBit : Net(b) \cap Net(d) # {} => b = d

VARIABLES
  mask, file, pc, seen, bit, curBit, outcome,   \* as in Mycnid
  overwritten, expired, faults,
  owner, usable,   \* each node's store
  answer, live,    \* what each node's runtime is about to hear, and has heard
  old              \* history: containers recorded before the last restart

Daemon == INSTANCE Mycnid

daemons == <<mask, file, pc, seen, bit, curBit, outcome, overwritten, expired>>
stores  == <<owner, usable>>
pods    == <<answer, live, old>>

vars == <<daemons, faults, stores, pods>>

Nobody == [a \in Addrs |-> NoOne]
NoAddrs == [c \in Containers |-> NoAddr]

Init ==
  /\ Daemon!Init
  /\ owner = [n \in Nodes |-> Nobody]
  /\ usable = [n \in Nodes |-> TRUE]
  /\ answer = [n \in Nodes |-> NoAddrs]
  /\ live = [n \in Nodes |-> NoAddrs]
  /\ old = [n \in Nodes |-> {}]

\* The plugin needs a subnet.json it can read and a store it can read.
Serves(n) == file[n] \in Daemon!Bits /\ usable[n]

Recorded(n, c) == \E a \in Addrs : owner[n][a] = c

-----------------------------------------------------------------------------

DaemonStep ==
  /\ Daemon!Expire \/ \E n \in Nodes : Daemon!Run(n) \/ Daemon!Dies(n)
  /\ UNCHANGED <<stores, pods>>

\* Mutant of Reserve: the address is searched in all subnets.
AnySubnet(n, c, a) ==
  /\ Serves(n)
  /\ owner[n][a] = NoOne
  /\ ~ Recorded(n, c)
  /\ owner' = [owner EXCEPT ![n][a] = c]
  /\ UNCHANGED <<daemons, faults, usable, pods>>

\* ADD of a container without a record: a free address of the subnet.
Reserve(n, c, a) ==
  /\ Serves(n)
  /\ a \in Net(file[n])
  /\ owner[n][a] = NoOne
  /\ ~ Recorded(n, c)
  /\ owner' = [owner EXCEPT ![n][a] = c]
  /\ UNCHANGED <<daemons, faults, usable, pods>>

\* ADD has its record, whichever subnet it is from, ...
Answer(n, c, a) ==
  /\ Serves(n)
  /\ owner[n][a] = c
  /\ answer' = [answer EXCEPT ![n][c] = a]
  /\ UNCHANGED <<daemons, faults, stores, live, old>>

\* ... and prints it, or is killed first.
Deliver(n, c) ==
  /\ answer[n][c] # NoAddr
  /\ answer' = [answer EXCEPT ![n][c] = NoAddr]
  /\ live' \in {[live EXCEPT ![n][c] = answer[n][c]], live}
  /\ UNCHANGED <<daemons, faults, stores, old>>

\* The runtime asks for DEL, and waits for no ADD.
Forget(n, c) ==
  /\ answer[n][c] = NoAddr
  /\ live' = [live EXCEPT ![n][c] = NoAddr]
  /\ UNCHANGED <<daemons, faults, stores, answer, old>>

\* DEL gets as far as the record.
Release(n, c, a) ==
  /\ Serves(n)
  /\ live[n][c] = NoAddr /\ answer[n][c] = NoAddr
  /\ owner[n][a] = c
  /\ owner' = [owner EXCEPT ![n][a] = NoOne]
  /\ old' = [old EXCEPT ![n] = @ \ {c}]
  /\ UNCHANGED <<daemons, faults, usable, answer, live>>

\* The store is cut short.
Lose(n) ==
  /\ Daemon!Fault
  /\ usable[n]
  /\ usable' = [usable EXCEPT ![n] = FALSE]
  /\ owner' = [owner EXCEPT ![n] = Nobody]
  /\ UNCHANGED <<daemons, pods>>

Reboot(n) ==
  /\ Daemon!Reboot(n)
  /\ answer' = [answer EXCEPT ![n] = NoAddrs]
  /\ live' = [live EXCEPT ![n] = NoAddrs]
  /\ old' = [old EXCEPT ![n] = {c \in Containers : Recorded(n, c)}]
  /\ UNCHANGED stores

Next ==
  \/ DaemonStep
  \/ \E n \in Nodes :
       \/ \E c \in Containers :
            \/ \E a \in Addrs :
                 Reserve(n, c, a) \/ Answer(n, c, a) \/ Release(n, c, a)
            \/ Deliver(n, c) \/ Forget(n, c)
       \/ Lose(n) \/ Reboot(n)

Spec == Init /\ [][Next]_vars

-----------------------------------------------------------------------------
(* Properties *)

\* Every variable of the stores and pods holds values of its type.
TypeOK ==
  /\ Daemon!TypeOK
  /\ owner \in [Nodes -> [Addrs -> Containers \cup {NoOne}]]
  /\ usable \in [Nodes -> BOOLEAN]
  /\ answer \in [Nodes -> [Containers -> Addrs \cup {NoAddr}]]
  /\ live \in [Nodes -> [Containers -> Addrs \cup {NoAddr}]]
  /\ old \in [Nodes -> SUBSET Containers]

\* No two live pods of the cluster have the same address: as long as no mask
\* is overwritten and the lease has not run out, also after nodes restart,
\* take another subnet and answer from records of the old one.
ClusterUnique ==
  ~ overwritten /\ ~ expired =>
    \A n, m \in Nodes, c, d \in Containers :
      live[n][c] # NoAddr /\ live[n][c] = live[m][d] => n = m /\ c = d

\* A live pod's address is of the subnet its node has now, unless its record
\* is older than the node's last restart: ADD then answers from it.
LiveInSubnet ==
  \A n \in Nodes, c \in Containers :
    live[n][c] # NoAddr =>
      c \in old[n] \/ (file[n] \in Daemon!Bits /\ live[n][c] \in Net(file[n]))

\* The same of every live pod.  The code does not keep it.
AlwaysInSubnet ==
  \A n \in Nodes, c \in Containers :
    live[n][c] # NoAddr => file[n] \in Daemon!Bits /\ live[n][c] \in Net(file[n])

\* Cluster-wide uniqueness without the conditions.  The code does not keep it.
AlwaysUnique ==
  \A n, m \in Nodes, c, d \in Containers :
    live[n][c] # NoAddr /\ live[n][c] = live[m][d] => n = m /\ c = d

\* One node: a file that cannot be parsed is no subnet.
Node(n) ==
  INSTANCE NodePool WITH
    Subnets <- Daemon!Bits,
    owner <- owner[n], usable <- usable[n], answer <- answer[n], live <- live[n],
    subnet <- IF file[n] \in Daemon!Bits THEN file[n] ELSE None

\* Each node keeps what LocalIPAM assumes of its environment and promises to
\* its runtime: in one boot the daemon gives the node one subnet and never
\* takes it away from the pods, whatever dies and starts again.
NodesServe ==
  /\ \A n \in Nodes : Node(n)!Init
  /\ [][\A n \in Nodes : [Node(n)!Next]_(Node(n)!vars)]_vars

-----------------------------------------------------------------------------
(* Why they hold: the inductive invariant *)

\* c was told a on node n, or is about to be.
Claims(n, c, a) == live[n][c] = a \/ answer[n][c] = a

\* A node's records are of subnets, one for each container, and the claims of
\* its pods are recorded for as long as it has its store.
StoreInv ==
  \A n \in Nodes, c \in Containers, a \in Addrs :
    /\ owner[n][a] = c => \A d \in Addrs : owner[n][d] = c => a = d
    /\ Claims(n, c, a) =>
         /\ usable[n] => owner[n][a] = c
         /\ \A d \in Containers : Claims(n, d, a) => c = d

\* What is recorded or claimed is of the subnet the node has in this boot,
\* unless it is older.
BootInv ==
  \A n \in Nodes, c \in Containers, a \in Addrs :
    owner[n][a] = c \/ Claims(n, c, a) =>
      c \in old[n] \/ (file[n] \in Daemon!Bits /\ a \in Net(file[n]))

\* Node n has the subnet of b, is about to write it, or has a record or a pod
\* of it from an earlier boot.
Uses(n, b) ==
  \/ Daemon!Takes(n, b)
  \/ \E c \in Containers, a \in Net(b) : owner[n][a] = c \/ Claims(n, c, a)

\* Mycnid's MaskInv for these too: until a mask is lost, a bit stays set when
\* the node that took it restarts, so nobody is given the subnet again.
UseInv ==
  /\ \A n \in Nodes, c \in Containers, a \in Addrs :
       owner[n][a] = c \/ Claims(n, c, a) =>
         \E b \in Daemon!Bits : a \in Net(b)
  /\ ~ overwritten /\ ~ expired =>
       \A n \in Nodes, b \in Daemon!Bits :
         Uses(n, b) =>
           /\ mask # None /\ b \in mask
           /\ \A m \in Nodes : Uses(m, b) => m = n

IInv == Daemon!IInv /\ TypeOK /\ StoreInv /\ BootInv /\ UseInv

=============================================================================
