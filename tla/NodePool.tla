------------------------------- MODULE NodePool -------------------------------
(***************************************************************************)
(* What one node promises the container runtime over its restarts: a table *)
(* of reservations (AddressPool) that serves the subnet the node was       *)
(* given, answers on their way to the runtime, and the addresses the       *)
(* runtime goes by.  The subnet comes once per boot; the table outlives    *)
(* it, unless it is lost.                                                  *)
(***************************************************************************)

CONSTANTS
  Containers,   \* container ids
  Addrs,        \* the addresses of all subnets
  NoOne,        \* the owner of an address nobody holds
  NoAddr,       \* no address
  Subnets,      \* the subnets a node may be given
  None,         \* no subnet
  Net(_)        \* the addresses of a subnet

VARIABLES
  owner,        \* who holds each address
  usable,       \* FALSE once the table is lost
  subnet,       \* the node's subnet in this boot, or None
  answer,       \* the address each container's runtime is about to be told
  live          \* the address each live container was told

vars == <<owner, usable, subnet, answer, live>>

Table == INSTANCE AddressPool

NoAddrs == [c \in Containers |-> NoAddr]

Init ==
  /\ Table!Init
  /\ subnet = None
  /\ answer = NoAddrs
  /\ live = NoAddrs

\* The node is given a subnet, when it has none.
Join(s) ==
  /\ subnet = None
  /\ subnet' = s
  /\ UNCHANGED <<owner, usable, answer, live>>

\* A container gets an address of the node's subnet, nobody's before.
Reserve(c, a) ==
  /\ subnet # None /\ a \in Net(subnet)
  /\ Table!Reserve(c, a)
  /\ UNCHANGED <<subnet, answer, live>>

\* ADD has found or made the container's reservation.
Answer(c, a) ==
  /\ usable
  /\ owner[a] = c
  /\ answer' = [answer EXCEPT ![c] = a]
  /\ UNCHANGED <<owner, usable, subnet, live>>

\* The runtime hears of it ...
Deliver(c) ==
  /\ answer[c] # NoAddr
  /\ live' = [live EXCEPT ![c] = answer[c]]
  /\ answer' = [answer EXCEPT ![c] = NoAddr]
  /\ UNCHANGED <<owner, usable, subnet>>

\* ... or the plugin is killed first.
Drop(c) ==
  /\ answer' = [answer EXCEPT ![c] = NoAddr]
  /\ UNCHANGED <<owner, usable, subnet, live>>

\* The runtime gives a container up.
Forget(c) ==
  /\ live' = [live EXCEPT ![c] = NoAddr]
  /\ UNCHANGED <<owner, usable, subnet, answer>>

\* Only what no live container goes by is released.
Release(c, a) ==
  /\ live[c] = NoAddr /\ answer[c] = NoAddr
  /\ Table!Release(c, a)
  /\ UNCHANGED <<subnet, answer, live>>

Lose == Table!Lose /\ UNCHANGED <<subnet, answer, live>>

\* The node restarts, perhaps in the middle of rewriting the table.
Restart ==
  /\ subnet' = None
  /\ answer' = NoAddrs
  /\ live' = NoAddrs
  /\ Table!Lose \/ UNCHANGED <<owner, usable>>

Next ==
  \/ \E s \in Subnets : Join(s)
  \/ \E c \in Containers :
       \/ \E a \in Addrs : Reserve(c, a) \/ Answer(c, a) \/ Release(c, a)
       \/ Deliver(c) \/ Drop(c) \/ Forget(c)
  \/ Lose
  \/ Restart

Spec == Init /\ [][Next]_vars

=============================================================================
