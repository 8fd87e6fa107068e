------------------------------- MODULE MCDevices -------------------------------
(* Devices with two device files and as many addresses as can be in use.   *)
EXTENDS Devices, TLC

CONSTANTS p1, p2, a1, a2, a3

MCPath == {p1, p2}
MCAddr == {a1, a2}
MCAddr3 == {a1, a2, a3}
MCSymmetry == Permutations(MCPath) \cup Permutations(MCAddr)
=============================================================================
