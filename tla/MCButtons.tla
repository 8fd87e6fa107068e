------------------------------ MODULE MCButtons ------------------------------
(***************************************************************************)
(* Buttons with two buttons and three configurations: button a with a hold *)
(* mapping and b without, the other way round with a shorter timeout, and  *)
(* one that binds a to an action and b to a key.                           *)
(***************************************************************************)
EXTENDS Buttons

CONSTANTS a, b

MCButton == {a, b}
Map(x, y) == [i \in MCButton |-> IF i = a THEN x ELSE y]
MCConfigs == {
    [act |-> {},  key |-> Map(None, None), map |-> Map(0, 1), hold |-> Map(2, None), timeout |-> 1],
    [act |-> {},  key |-> Map(None, None), map |-> Map(0, 1), hold |-> Map(None, 3), timeout |-> 0],
    [act |-> {a}, key |-> Map(None, 9),    map |-> Map(0, 1), hold |-> Map(2, None), timeout |-> 1]}
=============================================================================
