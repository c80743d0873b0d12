------------------------------- MODULE MCCluster -------------------------------
(***************************************************************************)
(* TLC instances of Cluster.                                               *)
(***************************************************************************)
EXTENDS Cluster, TLC

Hosts == 1 .. 1

NetOf(b) == {b} \X Hosts

AllAddrs == UNION {NetOf(b) : b \in 0 .. LastBit}

Symmetric == Permutations(Nodes) \cup Permutations(Containers)

=============================================================================
