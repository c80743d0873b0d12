-------------------------------- MODULE Mycnid --------------------------------
(***************************************************************************)
(* The node daemon of cmd/myetcd.go: each node that has no subnet.json     *)
(* takes the first free bit of a mask that all nodes share in etcd, sets   *)
(* it, and writes the subnet the bit stands for to its own subnet.json.    *)
(* The mask is read and written back in two transactions, and is attached  *)
(* to a lease of three seconds that nobody keeps alive.                    *)
(***************************************************************************)
EXTENDS Naturals

CONSTANTS
  Nodes,        \* the nodes that run the daemon
  LastBit,      \* the mask has the bits 0 .. LastBit (255)
  None,         \* no mask, no bit, no file (curBit = -1)
  Torn,         \* a file that is no JSON object
  MaxFaults     \* bound on kills, failed requests, failed writes and reboots

ASSUME BitsAssumption ==
  /\ LastBit \in Nat
  /\ None \notin Nat /\ Torn \notin Nat /\ None # Torn
  /\ \A m \in SUBSET (0 .. LastBit) : m # None
  /\ MaxFaults \in Nat

VARIABLES
  mask,         \* mycni/subnet_bitmask: the bits that are '1', or None
  file,         \* each node's subnet.json: a bit, Torn or None
  pc,           \* where each node's daemon is
  seen,         \* the mask it read (curMask)
  bit,          \* the position it chose (notUsed)
  curBit,       \* what checkLocalSubnetFileSettings found
  outcome,      \* how its last run ended
  overwritten,  \* history: a put replaced another mask than its run read
  expired,      \* history: the lease has run out
  faults        \* faults so far, for MaxFaults only

runs    == <<pc, seen, bit, curBit, outcome>>
history == <<overwritten, expired>>

vars == <<mask, file, runs, history, faults>>

Bits == 0 .. LastBit

Locations == {"idle", "check", "init", "watch", "renew", "trunc", "write", "report"}

Goto(n, to) == pc' = [pc EXCEPT ![n] = to]

\* curLog.Fatal or a panic: the run is over.
Ends(n, how) ==
  /\ Goto(n, "idle")
  /\ seen' = [seen EXCEPT ![n] = None]
  /\ bit' = [bit EXCEPT ![n] = None]
  /\ curBit' = [curBit EXCEPT ![n] = None]
  /\ outcome' = [outcome EXCEPT ![n] = how]

Init ==
  /\ mask = None
  /\ file = [n \in Nodes |-> None]
  /\ pc = [n \in Nodes |-> "idle"]
  /\ seen = [n \in Nodes |-> None]
  /\ bit = [n \in Nodes |-> None]
  /\ curBit = [n \in Nodes |-> None]
  /\ outcome = [n \in Nodes |-> "none"]
  /\ overwritten = FALSE
  /\ expired = FALSE
  /\ faults = 0

-----------------------------------------------------------------------------

Start(n) ==
  /\ pc[n] = "idle"
  /\ Goto(n, "check")
  /\ UNCHANGED <<mask, file, seen, bit, curBit, outcome, history, faults>>

\* Mutant of CheckFile: a file that is there is not looked at.
AlwaysInit(n) ==
  /\ pc[n] = "check"
  /\ Goto(n, "init")
  /\ UNCHANGED <<mask, file, seen, bit, curBit, outcome, history, faults>>

\* Mutant of CheckFile: an object that cannot be parsed counts as bit 0.
ParseErrorDropped(n) ==
  /\ pc[n] = "check"
  /\ IF file[n] # None
       THEN /\ curBit' = [curBit EXCEPT ![n] = IF file[n] = Torn THEN 0 ELSE file[n]]
            /\ Goto(n, "report")
       ELSE Goto(n, "init") /\ UNCHANGED curBit
  /\ UNCHANGED <<mask, file, seen, bit, outcome, history, faults>>

\* checkLocalSubnetFileSettings; a file that cannot be read or parsed counts
\* as one that does not exist.
CheckFile(n) ==
  /\ pc[n] = "check"
  /\ IF file[n] \in Bits
       THEN curBit' = [curBit EXCEPT ![n] = file[n]] /\ Goto(n, "report")
       ELSE Goto(n, "init") /\ UNCHANGED curBit
  /\ UNCHANGED <<mask, file, seen, bit, outcome, history, faults>>

\* Mutant of InitBitMask: the version is not compared.
InitAnyway(n) ==
  /\ pc[n] = "init"
  /\ mask' = {}
  /\ Goto(n, "watch")
  /\ UNCHANGED <<file, seen, bit, curBit, outcome, history, faults>>

\* The mask is created when there is none.
InitBitMask(n) ==
  /\ pc[n] = "init"
  /\ mask' = IF mask = None THEN {} ELSE mask
  /\ Goto(n, "watch")
  /\ UNCHANGED <<file, seen, bit, curBit, outcome, history, faults>>

\* Mutants of FirstUnused: the loop breaks at once; it counts from one.
BreaksAtOnce(m) == 0

CountsFromOne(m) ==
  LET unused == (1 .. LastBit + 1) \ m
  IN  CHOOSE b \in unused : \A x \in unused : b <= x

FirstUnused(m) == CHOOSE b \in Bits \ m : \A x \in Bits \ m : b <= x

Full == mask # None /\ Bits \subseteq mask

\* The mask is read and the first '0' looked for.  Without a mask curMask is
\* "", whose first byte the loop panics on; without a '0' the byte after the
\* last is set, which panics too.
WatchBitMask(n) ==
  /\ pc[n] = "watch"
  /\ \/ /\ mask = None \/ Full
        /\ Ends(n, "fatal")
     \/ /\ mask # None /\ ~ Full
        /\ seen' = [seen EXCEPT ![n] = mask]
        /\ bit' = [bit EXCEPT ![n] = FirstUnused(mask)]
        /\ Goto(n, "renew")
        /\ UNCHANGED <<curBit, outcome>>
  /\ UNCHANGED <<mask, file, history, faults>>

\* The mask that was read is written back with one more bit, if there is
\* still some mask.
RenewBitMask(n) ==
  /\ pc[n] = "renew"
  /\ \/ /\ mask = None
        /\ Ends(n, "fatal")
        /\ UNCHANGED <<mask, overwritten>>
     \/ /\ mask # None
        /\ mask' = seen[n] \cup {bit[n]}
        /\ overwritten' = (overwritten \/ mask # seen[n])
        /\ Goto(n, "trunc")
        /\ UNCHANGED <<seen, bit, curBit, outcome>>
  /\ UNCHANGED <<file, expired, faults>>

\* updateLocalSubnetConfig: os.WriteFile truncates the file ...
TruncateFile(n) ==
  /\ pc[n] = "trunc"
  /\ file' = [file EXCEPT ![n] = Torn]
  /\ Goto(n, "write")
  /\ UNCHANGED <<mask, seen, bit, curBit, outcome, history, faults>>

\* ... and writes it.
WriteFile(n) ==
  /\ pc[n] = "write"
  /\ file' = [file EXCEPT ![n] = bit[n]]
  /\ Goto(n, "report")
  /\ UNCHANGED <<mask, seen, bit, curBit, outcome, history, faults>>

\* The run judges curBit, the value from before the file was written.
Report(n) ==
  /\ pc[n] = "report"
  /\ Ends(n, IF curBit[n] \in Bits THEN "ok" ELSE "fatal")
  /\ UNCHANGED <<mask, file, history, faults>>

-----------------------------------------------------------------------------
(* The environment *)

Fault == faults < MaxFaults /\ faults' = faults + 1

\* The daemon is killed, or an etcd request or the file write fails: every
\* such error ends the run.  (A failed read of the mask is ignored, and the
\* empty curMask panics.)
Dies(n) ==
  /\ Fault
  /\ pc[n] # "idle"
  /\ Ends(n, "fatal")
  /\ UNCHANGED <<mask, file, history>>

\* /run is emptied.
Reboot(n) ==
  /\ Fault
  /\ file' = [file EXCEPT ![n] = None]
  /\ Ends(n, "none")
  /\ UNCHANGED <<mask, history>>

\* The lease of the last put runs out, and etcd deletes the key.
Expire ==
  /\ mask # None
  /\ mask' = None
  /\ expired' = TRUE
  /\ UNCHANGED <<file, runs, overwritten, faults>>

-----------------------------------------------------------------------------

Run(n) ==
  \/ Start(n) \/ CheckFile(n)
  \/ InitBitMask(n) \/ WatchBitMask(n) \/ RenewBitMask(n)
  \/ TruncateFile(n) \/ WriteFile(n) \/ Report(n)

Next ==
  \/ \E n \in Nodes : Run(n) \/ Dies(n) \/ Reboot(n)
  \/ Expire

Spec == Init /\ [][Next]_vars

-----------------------------------------------------------------------------
(* Properties *)

\* Every variable holds values of its type: the position chosen is a bit of
\* the mask, whatever mask was read.
TypeOK ==
  /\ mask \in (SUBSET Bits) \cup {None}
  /\ file \in [Nodes -> Bits \cup {Torn, None}]
  /\ pc \in [Nodes -> Locations]
  /\ seen \in [Nodes -> (SUBSET Bits) \cup {None}]
  /\ bit \in [Nodes -> Bits \cup {None}]
  /\ curBit \in [Nodes -> Bits \cup {None}]
  /\ outcome \in [Nodes -> {"none", "ok", "fatal"}]
  /\ overwritten \in BOOLEAN /\ expired \in BOOLEAN
  /\ faults \in 0 .. MaxFaults

\* No two nodes have the same subnet.
SubnetsDistinct ==
  \A m, n \in Nodes : file[m] \in Bits /\ file[m] = file[n] => m = n

\* The two histories are all that stands between the code and distinct
\* subnets: while each mask put was made from the mask it replaces, and the
\* lease has not run out, no two nodes have the same subnet, however their
\* runs overlap, die and start again.
DistinctUnlessLost == ~ overwritten /\ ~ expired => SubnetsDistinct

\* And a node's subnet then has its bit, so that no later run takes it.
BackedUnlessLost ==
  ~ overwritten /\ ~ expired =>
    \A n \in Nodes : file[n] \in Bits => mask # None /\ file[n] \in mask

\* The lease alone undoes it ...  The code does not keep this.
DistinctUnlessOverwritten == ~ overwritten => SubnetsDistinct

\* ... and so do two runs that read the mask before either puts it.
DistinctUnlessExpired == ~ expired => SubnetsDistinct

\* Once a node has its subnet only a reboot takes it away: a daemon that is
\* started again keeps it, whatever became of the mask.
SubnetKept ==
  [][\A n \in Nodes :
       file[n] \in Bits => file'[n] = file[n] \/ (file'[n] = None /\ Fault)]_vars

\* A run that ends well leaves the node with a subnet.
OkHasSubnet == \A n \in Nodes : outcome[n] = "ok" => file[n] \in Bits

\* A run that gave the node its subnet ends well.  The code does not keep it.
InitSucceeds ==
  [][\A n \in Nodes :
       pc[n] = "report" /\ pc'[n] = "idle" /\ UNCHANGED faults
         => outcome'[n] = "ok"]_vars

-----------------------------------------------------------------------------
(* Why they hold: the inductive invariant *)

\* What a run that has come to each place knows: one that takes a subnet has
\* none yet, and the bit it chose is not in the mask it read; curBit is the
\* bit of a file that is still there.
RunInv ==
  \A n \in Nodes :
    /\ pc[n] \in {"init", "watch", "renew", "trunc", "write"}
         => file[n] \notin Bits
    /\ pc[n] = "renew" => seen[n] \in SUBSET Bits /\ bit[n] \in Bits \ seen[n]
    /\ pc[n] \in {"trunc", "write"} => bit[n] \in Bits
    /\ pc[n] = "report" => file[n] \in Bits
    /\ outcome[n] = "ok" => file[n] \in Bits

\* n has the bit b, or has put it in the mask and is about to write it.
Takes(n, b) == file[n] = b \/ (pc[n] \in {"trunc", "write"} /\ bit[n] = b)

\* Until a mask is lost it has every bit that is taken, and nobody takes the
\* bit of another.
MaskInv ==
  ~ overwritten /\ ~ expired =>
    \A n \in Nodes, b \in Bits :
      Takes(n, b) =>
        /\ mask # None /\ b \in mask
        /\ \A m \in Nodes : Takes(m, b) => m = n

IInv == TypeOK /\ RunInv /\ MaskInv

=============================================================================
