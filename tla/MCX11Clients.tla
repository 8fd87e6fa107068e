----------------------------- MODULE MCX11Clients -----------------------------
(* X11Clients with a small number of clients, one of which has an id that  *)
(* is understood as another: that one is a client whose window is gone.    *)
EXTENDS X11Clients, TLC

CONSTANTS w1, w2, g

MCUnderstood == w1 :> w1 @@ w2 :> g
=============================================================================
