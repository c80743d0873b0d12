----------------------------- MODULE MCVxlanPlugin -----------------------------
(***************************************************************************)
(* TLC instances of VxlanPlugin.                                           *)
(***************************************************************************)
EXTENDS VxlanPlugin, TLC

Symmetric ==
  Permutations(Procs) \cup Permutations(Pods) \cup Permutations(Addrs)

=============================================================================
