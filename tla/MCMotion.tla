------------------------------- MODULE MCMotion -------------------------------
(* Motion with one axis that moves and one that turns.                     *)
EXTENDS Motion

MCAxis == {1, 4}
MCSamples == {0, 1, 2}

Plain == [map_axis |-> [a \in MCAxis |-> a], swapyz |-> FALSE, invert |-> {},
          dead_threshold |-> [a \in MCAxis |-> 0], sensitivity |-> One, repeat |-> TRUE]

\* As it comes; Y and Z swapped, and one of them inverted; one axis mapped to
\* nothing, a dead zone; both axes on one, without repetition.
MCConfigs ==
    { Plain,
      [Plain EXCEPT !.swapyz = TRUE, !.invert = {2}],
      [Plain EXCEPT !.map_axis[1] = -1, !.dead_threshold[4] = 2],
      [Plain EXCEPT !.map_axis[4] = 1, !.repeat = FALSE] }

MCActions == {"sens inc", "sens dec", "sens reset", "rotation", "translation", "dominant"}
=============================================================================
