---------------------------- MODULE MCXConnection ----------------------------
(* XConnection with bounds set in the configurations.                      *)
EXTENDS XConnection
=============================================================================
