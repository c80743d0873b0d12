------------------------------ MODULE MCEtcdIPAM ------------------------------
(***************************************************************************)
(* TLC instances of EtcdIPAM.                                              *)
(***************************************************************************)
EXTENDS EtcdIPAM, TLC

CONSTANTS s1, s2, s3, s4

TwoSubnets == <<s1, s2>>
ThreeSubnets == <<s1, s2, s3>>
FourSubnets == <<s1, s2, s3, s4>>

AddDel == {"ADD", "DEL"}
AddDelCheck == {"ADD", "DEL", "CHECK"}
AddDelRelease == {"ADD", "DEL", "RELEASE"}

Symmetric == Permutations(Procs) \cup Permutations(Hosts) \cup Permutations(Devices)

=============================================================================
