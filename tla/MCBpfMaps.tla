------------------------------ MODULE MCBpfMaps ------------------------------
(***************************************************************************)
(* TLC instances of BpfMaps.                                               *)
(***************************************************************************)
EXTENDS BpfMaps

MODE_VXLAN == 1

PodKeys(m) == IF m = Lxc THEN 11 .. 14 ELSE {MODE_VXLAN}

FirstTwoCollide(k) == IF k <= 12 THEN 0 ELSE k

=============================================================================
