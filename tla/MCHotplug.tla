------------------------------ MODULE MCHotplug ------------------------------
(* Hotplug with three device files.                                        *)
EXTENDS Hotplug

CONSTANTS p1, p2, p3

MCPath == {p1, p2, p3}
MCPath2 == {p1, p2}
=============================================================================
