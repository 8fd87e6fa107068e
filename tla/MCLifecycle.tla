------------------------------ MODULE MCLifecycle ------------------------------
(* Lifecycle with three runs of the daemon.                                *)
EXTENDS Lifecycle, TLC

CONSTANTS p1, p2, p3

MCProc == {p1, p2, p3}
Sym == Permutations(MCProc)
=============================================================================
