----------------------------- MODULE MCUnixServer -----------------------------
(* UnixServer with a few clients, one USB device and one serial device.    *)
EXTENDS UnixServer, TLC

CONSTANTS c1, c2, c3, d1, tty

MCClients2 == {c1, c2}
MCClients3 == {c1, c2, c3}
MCDevice == {d1}
MCSerial == {tty}
MCNoSerial == {}
Sym2 == Permutations(MCClients2)
Sym3 == Permutations(MCClients3)
AnyRequest == AllRequests
LedRequests == {Plain} \cup [type : {"led"}, led : LedModes]
=============================================================================
