------------------------------- MODULE MCMycnid -------------------------------
(***************************************************************************)
(* TLC instances of Mycnid.                                                *)
(***************************************************************************)
EXTENDS Mycnid, TLC

Symmetric == Permutations(Nodes)

=============================================================================
