----------------------------- MODULE MCLocalIPAM -----------------------------
(***************************************************************************)
(* TLC instances of LocalIPAM.                                             *)
(***************************************************************************)
EXTENDS LocalIPAM, TLC

OneBase == {0}
TwoBases == {0, 6}
Adjacent == {0, 3}

Symmetric == Permutations(Procs) \cup Permutations(Containers)

=============================================================================
