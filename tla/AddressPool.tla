----------------------------- MODULE AddressPool -----------------------------
(***************************************************************************)
(* What an IPAM backend promises the container runtime, without files,     *)
(* locks or processes: a table from addresses to the containers that own   *)
(* them, changed one whole reservation or one whole release at a time.     *)
(* The table may be lost as a whole, and a lost table grants nothing more. *)
(***************************************************************************)

CONSTANTS
  Containers,   \* container ids
  Addrs,        \* every address the backend may ever record
  NoOne         \* the owner of an address nobody holds

VARIABLES
  owner,        \* who holds each address
  usable        \* FALSE once the table is lost

vars == <<owner, usable>>

NoOwners == [a \in Addrs |-> NoOne]

TypeOK ==
  /\ owner \in [Addrs -> Containers \cup {NoOne}]
  /\ usable \in BOOLEAN

Holds(c) == \E a \in Addrs : owner[a] = c

Init ==
  /\ owner = NoOwners
  /\ usable = TRUE

\* A container that holds nothing gets one address that nobody holds.
Reserve(c, a) ==
  /\ usable
  /\ owner[a] = NoOne
  /\ ~ Holds(c)
  /\ owner' = [owner EXCEPT ![a] = c]
  /\ UNCHANGED usable

\* A container gives back an address it holds.
Release(c, a) ==
  /\ usable
  /\ owner[a] = c
  /\ owner' = [owner EXCEPT ![a] = NoOne]
  /\ UNCHANGED usable

\* The table is lost; no action is enabled afterwards.
Lose ==
  /\ usable
  /\ usable' = FALSE
  /\ owner' = NoOwners

Next ==
  \/ \E c \in Containers, a \in Addrs : Reserve(c, a) \/ Release(c, a)
  \/ Lose

Spec == Init /\ [][Next]_vars

\* A container never holds two addresses.  (That an address has one holder
\* is the shape of the table.)
OneAddressEach ==
  \A a, b \in Addrs : owner[a] # NoOne /\ owner[a] = owner[b] => a = b

=============================================================================
