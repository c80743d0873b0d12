-------------------------------- MODULE BpfMaps --------------------------------
(***************************************************************************)
(* The map library (bpfmap): hash maps pinned in the BPF file system, that *)
(* any process of the node makes, fills, reads, empties entry by entry and *)
(* resets, through a path and without a lock.  The maps' iterator and      *)
(* batch delete are those of cilium/ebpf and the kernel, as the Reset      *)
(* functions use them.                                                     *)
(***************************************************************************)
EXTENDS Naturals, SequencesExt

CONSTANTS
  Procs,        \* processes that create or reset a map
  Maps,         \* names of maps, among them Lxc
  Lxc,          \* lxc_map
  KeysOf(_),    \* the keys a map is asked for
  BucketOf(_),  \* the bucket of the hash table that a key falls in
  MaxEntries,   \* capacity of a map
  None          \* no key

Commands == {"Create", "Reset"}

Keys == UNION {KeysOf(m) : m \in Maps}

ASSUME MapsAssumption ==
  /\ Lxc \in Maps
  /\ MaxEntries \in Nat \ {0}
  /\ None \notin Keys
  /\ \A k \in Keys : BucketOf(k) \in Nat

VARIABLES
  pinned,       \* the names under which a map is pinned
  order,        \* the keys of each map, in the order an iteration meets them
  pc,           \* where each process is
  req,          \* its command and map
  stray,        \* the processes whose Create made a map that is not pinned
  cur,          \* the iterator's last key
  steps,        \* the iterator's count
  keys,         \* the keys collected, and still to be deleted
  ok,           \* whether its call succeeded
  fresh         \* history: keys put into the map since its Reset began

vars == <<pinned, order, pc, req, stray, cur, steps, keys, ok, fresh>>

iterator == <<cur, steps, keys>>

NoReq == [cmd |-> "Create", map |-> Lxc]

Goto(p, to) == pc' = [pc EXCEPT ![p] = to]

At(p, from) == pc[p] = from

Return(p, result) == Goto(p, "exit") /\ ok' = [ok EXCEPT ![p] = result]

Has(m, k) == Contains(order[m], k)

Map(p) == req[p].map

Init ==
  /\ pinned = {}
  /\ order = [m \in Maps |-> <<>>]
  /\ pc = [p \in Procs |-> "idle"]
  /\ req = [p \in Procs |-> NoReq]
  /\ stray = {}
  /\ cur = [p \in Procs |-> None]
  /\ steps = [p \in Procs |-> 0]
  /\ keys = [p \in Procs |-> <<>>]
  /\ ok = [p \in Procs |-> FALSE]
  /\ fresh = [p \in Procs |-> {}]

Call(p, cmd, m) ==
  /\ At(p, "idle")
  /\ req' = [req EXCEPT ![p] = [cmd |-> cmd, map |-> m]]
  /\ Goto(p, cmd)
  /\ UNCHANGED <<pinned, order, stray, iterator, ok, fresh>>

\* tc loads an object file that declares the map with LIBBPF_PIN_BY_NAME.
LoaderPins(m) ==
  /\ m \notin pinned
  /\ pinned' = pinned \cup {m}
  /\ UNCHANGED <<order, pc, req, stray, iterator, ok, fresh>>

-----------------------------------------------------------------------------
(* CreatePinMapOnce *)

\* PathExists: the pinned map is loaded, or a new one made.
FindMap(p) ==
  /\ At(p, "Create")
  /\ IF Map(p) \in pinned
       THEN Return(p, TRUE) /\ UNCHANGED stray
       ELSE /\ stray' = stray \cup {p}
            /\ Goto(p, "pin")
            /\ UNCHANGED ok
  /\ UNCHANGED <<pinned, order, req, iterator, fresh>>

\* Mutant of PinMap: the error of mp.Pin is dropped.
PinErrorDropped(p) ==
  /\ At(p, "pin")
  /\ pinned' = pinned \cup {Map(p)}
  /\ stray' = IF Map(p) \in pinned THEN stray ELSE stray \ {p}
  /\ Return(p, TRUE)
  /\ UNCHANGED <<order, req, iterator, fresh>>

\* mp.Pin fails when there is something at the path by now.
PinMap(p) ==
  /\ At(p, "pin")
  /\ IF Map(p) \notin pinned
       THEN /\ pinned' = pinned \cup {Map(p)}
            /\ stray' = stray \ {p}
            /\ Return(p, TRUE)
       ELSE Return(p, FALSE) /\ UNCHANGED <<pinned, stray>>
  /\ UNCHANGED <<order, req, iterator, fresh>>

-----------------------------------------------------------------------------
(* One entry, by any process: the pinned map is loaded and asked once *)

\* Where the key is in the order of a map, 0 if it is not.
PlaceOf(s, k) == IF Contains(s, k) THEN CHOOSE i \in DOMAIN s : s[i] = k ELSE 0

Without(s, k) == IF Contains(s, k) THEN RemoveAt(s, PlaceOf(s, k)) ELSE s

\* Mutant of Room: the limit is not looked at.
AlwaysRoom(m, k) == m \in Maps

Room(m, k) == Has(m, k) \/ Len(order[m]) < MaxEntries

\* The order of an iteration: by buckets, and in a bucket the newest first.
\* The kernel replaces an element by a new one at the head of its bucket.
WithNew(s, k) ==
  LET rest  == Without(s, k)
      below == {i \in DOMAIN rest : BucketOf(rest[i]) < BucketOf(k)}
  IN  InsertAt(rest, Cardinality(below) + 1, k)

\* SetLxcMap, SetVxlanMap and the like
Put(m, k) ==
  /\ m \in pinned
  /\ Room(m, k)
  /\ order' = [order EXCEPT ![m] = WithNew(@, k)]
  /\ fresh' = [p \in Procs |-> IF m = Map(p) /\ ~ At(p, "idle") /\ req[p].cmd = "Reset"
                                 THEN fresh[p] \cup {k} ELSE fresh[p]]
  /\ UNCHANGED <<pinned, pc, req, stray, iterator, ok>>

\* DelKeyLxcMap: only lxc_map has a function that deletes one key.
DelKey(k) ==
  /\ Has(Lxc, k)
  /\ order' = [order EXCEPT ![Lxc] = Without(@, k)]
  /\ UNCHANGED <<pinned, pc, req, stray, iterator, ok, fresh>>

-----------------------------------------------------------------------------
(* ResetLxcMap, ResetVxlanMap and ResetNodeCIDRMap *)

\* The map is loaded and an iterator made.
Open(p) ==
  /\ At(p, "Reset")
  /\ IF Map(p) \notin pinned
       THEN Return(p, FALSE)
       ELSE Goto(p, "next") /\ UNCHANGED ok
  /\ UNCHANGED <<pinned, order, req, stray, iterator, fresh>>

\* The kernel's next key: after one that is gone it starts again.
NextKey(s, k) ==
  LET from == PlaceOf(s, k)
  IN  IF from < Len(s) THEN s[from + 1] ELSE None

\* Mutant of Aborted: an iteration is as long as it takes.
NeverAborted(p) == p \notin Procs

\* The iterator gives up after one more step than there can be entries.
Aborted(p) == steps[p] > MaxEntries

\* iter.Next asks for a key; the loop ends without one.  What made it end is
\* not asked: iter.Err has no caller.
IterNext(p) ==
  LET k == NextKey(order[Map(p)], cur[p])
  IN  /\ At(p, "next")
      /\ IF Aborted(p) \/ k = None
           THEN Goto(p, "open") /\ UNCHANGED <<cur, steps>>
           ELSE /\ cur' = [cur EXCEPT ![p] = k]
                /\ steps' = [steps EXCEPT ![p] = IF @ > MaxEntries THEN @ ELSE @ + 1]
                /\ Goto(p, "look")
      /\ UNCHANGED <<pinned, order, req, stray, keys, ok, fresh>>

\* All three loops read values as lxc_map's, of 24 bytes; the other maps' have
\* four, which the iterator reports as an error.
ValueFits(m) == m = Lxc

\* ... and for its value: the key is passed over when it is gone by now.
IterLook(p) ==
  /\ At(p, "look")
  /\ \/ /\ ~ Has(Map(p), cur[p])
        /\ Goto(p, "next")
        /\ UNCHANGED keys
     \/ /\ Has(Map(p), cur[p]) /\ ValueFits(Map(p))
        /\ keys' = [keys EXCEPT ![p] = Append(@, cur[p])]
        /\ Goto(p, "next")
     \/ /\ Has(Map(p), cur[p]) /\ ~ ValueFits(Map(p))
        /\ Goto(p, "open")
        /\ UNCHANGED keys
  /\ UNCHANGED <<pinned, order, req, stray, cur, steps, ok, fresh>>

\* BatchDelKeyLxcMap, which all three call, loads lxc_map.
OpenLxc(p) ==
  /\ At(p, "open")
  /\ IF Lxc \notin pinned
       THEN Return(p, FALSE)
       ELSE Goto(p, "batch") /\ UNCHANGED ok
  /\ UNCHANGED <<pinned, order, req, stray, iterator, fresh>>

\* Mutant of BatchDelete: a key that is gone ends the batch like its last.
GoneIsDone(p) ==
  /\ At(p, "batch")
  /\ IF keys[p] = <<>> \/ ~ Has(Lxc, Head(keys[p]))
       THEN Return(p, TRUE) /\ UNCHANGED <<order, keys>>
       ELSE /\ order' = [order EXCEPT ![Lxc] = Without(@, Head(keys[p]))]
            /\ keys' = [keys EXCEPT ![p] = Tail(@)]
            /\ UNCHANGED <<pc, ok>>
  /\ UNCHANGED <<pinned, req, stray, cur, steps, fresh>>

\* The kernel deletes one key after the other, and stops at one it has not.
BatchDelete(p) ==
  /\ At(p, "batch")
  /\ \/ /\ keys[p] = <<>>
        /\ Return(p, TRUE)
        /\ UNCHANGED <<order, keys>>
     \/ /\ keys[p] # <<>> /\ ~ Has(Lxc, Head(keys[p]))
        /\ Return(p, FALSE)
        /\ UNCHANGED <<order, keys>>
     \/ /\ keys[p] # <<>> /\ Has(Lxc, Head(keys[p]))
        /\ order' = [order EXCEPT ![Lxc] = Without(@, Head(keys[p]))]
        /\ keys' = [keys EXCEPT ![p] = Tail(@)]
        /\ UNCHANGED <<pc, ok>>
  /\ UNCHANGED <<pinned, req, stray, cur, steps, fresh>>

Exit(p) ==
  /\ At(p, "exit")
  /\ Goto(p, "idle")
  /\ req' = [req EXCEPT ![p] = NoReq]
  /\ stray' = stray \ {p}
  /\ cur' = [cur EXCEPT ![p] = None]
  /\ steps' = [steps EXCEPT ![p] = 0]
  /\ keys' = [keys EXCEPT ![p] = <<>>]
  /\ ok' = [ok EXCEPT ![p] = FALSE]
  /\ fresh' = [fresh EXCEPT ![p] = {}]
  /\ UNCHANGED <<pinned, order>>

-----------------------------------------------------------------------------

Step(p) ==
  \/ FindMap(p) \/ PinMap(p)
  \/ Open(p) \/ IterNext(p) \/ IterLook(p) \/ OpenLxc(p) \/ BatchDelete(p)
  \/ Exit(p)

Next ==
  \/ \E p \in Procs :
       \/ \E cmd \in Commands, m \in Maps : Call(p, cmd, m)
       \/ Step(p)
  \/ \E m \in Maps : LoaderPins(m) \/ \E k \in KeysOf(m) : Put(m, k)
  \/ \E k \in KeysOf(Lxc) : DelKey(k)

Spec == Init /\ [][Next]_vars

\* A process that runs keeps running.
FairSpec == Spec /\ \A p \in Procs : WF_vars(Step(p))

-----------------------------------------------------------------------------
(* Properties *)

Locations ==
  Commands \cup {"idle", "pin", "next", "look", "open", "batch", "exit"}

\* Every variable holds values of its type; no map has a key twice, or more
\* entries than it has room for.
TypeOK ==
  /\ pinned \subseteq Maps
  /\ \A m \in Maps : /\ ToSet(order[m]) \subseteq Keys
                     /\ Len(order[m]) <= MaxEntries /\ IsInjective(order[m])
  /\ pc \in [Procs -> Locations]
  /\ req \in [Procs -> [cmd : Commands, map : Maps]]
  /\ stray \subseteq Procs
  /\ cur \in [Procs -> Keys \cup {None}]
  /\ steps \in [Procs -> 0 .. MaxEntries + 1]
  /\ \A p \in Procs : Len(keys[p]) <= MaxEntries + 1 /\ ToSet(keys[p]) \subseteq Keys
  /\ ok \in [Procs -> BOOLEAN]
  /\ fresh \in [Procs -> SUBSET Keys]

Done(p, cmd) == At(p, "exit") /\ req[p].cmd = cmd /\ ok[p]

\* Whoever created a map has the one that everybody finds at its path: of
\* two that made one at the same time, one is told that it failed.
OneMap == \A p \in Procs : Done(p, "Create") => p \notin stray

Left(p) == ToSet(order[Map(p)]) \ fresh[p]

\* A Reset of lxc_map that reports success has left nothing of what was
\* there when it began, whatever was put, deleted and reset meanwhile, unless
\* the iterator used its steps up: one that was thrown back has a key twice,
\* and the batch reports that.
ResetEmpties ==
  \A p \in Procs :
    Done(p, "Reset") /\ Map(p) = Lxc /\ steps[p] <= MaxEntries => Left(p) = {}

\* The same whatever ended the iteration.  The code does not keep it.
AnyResetEmpties ==
  \A p \in Procs : Done(p, "Reset") /\ Map(p) = Lxc => Left(p) = {}

\* The same of a Reset of another map.  The code does not keep it.
OthersReset ==
  \A p \in Procs : Done(p, "Reset") /\ Map(p) # Lxc => Left(p) = {}

\* Every call comes back, also a Reset of a map that never comes to rest.
CallsReturn == \A p \in Procs : ~ At(p, "idle") ~> At(p, "idle")

-----------------------------------------------------------------------------
(* Why they hold: the inductive invariant *)

\* The keys of a map, each once and bucket by bucket.
Order(s) ==
  /\ s \in Seq(Keys)
  /\ IsInjective(s)
  /\ \A i, j \in DOMAIN s : i < j => BucketOf(s[i]) <= BucketOf(s[j])

MapsInv ==
  /\ \A m \in Maps : Order(order[m])
  /\ order \in [Maps -> Seq(Keys)] /\ keys \in [Procs -> Seq(Keys)]

\* An iterator that has not begun stands before the first key, and one that
\* has took a step for every key it collected.
CallsInv ==
  \A p \in Procs :
    /\ pc[p] \in {"Create", "pin"} => req[p].cmd = "Create"
    /\ pc[p] \in {"Reset", "next", "look", "open", "batch"} => req[p].cmd = "Reset"
    /\ p \in stray => At(p, "pin") \/ (At(p, "exit") /\ ~ ok[p])
    /\ pc[p] \in {"idle", "Create", "pin", "Reset"} =>
         cur[p] = None /\ keys[p] = <<>> /\ steps[p] = 0
    /\ Len(keys[p]) <= steps[p]
    /\ At(p, "look") => cur[p] \in Keys /\ Len(keys[p]) < steps[p]

\* The iterator is still to come to key k: k is behind its last key, in the
\* order and by its bucket.  When the last key is gone it starts again.
Ahead(s, last, k) ==
  /\ Contains(s, last) =>
       \E i, j \in DOMAIN s : i < j /\ s[i] = last /\ s[j] = k
  /\ last # None => BucketOf(last) <= BucketOf(k)

\* Of what was in lxc_map when its Reset began and is still there, all is
\* collected or yet to come, and in the end to be deleted.
ResetInv ==
  \A p \in Procs : req[p].cmd = "Reset" /\ Map(p) = Lxc =>
    /\ pc[p] \in {"next", "look"} =>
         \A k \in Left(p) : \/ k \in ToSet(keys[p])
                            \/ Ahead(order[Lxc], cur[p], k)
                            \/ At(p, "look") /\ k = cur[p]
    /\ pc[p] \in {"open", "batch"} /\ steps[p] <= MaxEntries =>
         Left(p) \subseteq ToSet(keys[p])
    /\ At(p, "exit") /\ ok[p] /\ steps[p] <= MaxEntries => Left(p) = {}

IInv == TypeOK /\ MapsInv /\ CallsInv /\ ResetInv

=============================================================================
