----------------------------- MODULE MCConfigFile -----------------------------
(* ConfigFile with files of up to three lines.                             *)
EXTENDS ConfigFile

T(key, val, form) == [key |-> key, val |-> val, form |-> form]
MCUserFiles ==
    { <<>>, <<Comment>>,
      <<T("repeat", 0, "spaced")>>, <<Comment, T("repeat", 5, "spaced")>>,
      <<T("sens", 30000, "tight")>>, <<T("sens", 20000, "spaced"), T("sens", 30000, "spaced")>>,
      <<T("led", 0, "spaced")>>, <<T("led", Bad, "spaced")>>, <<T("led", 5, "spaced")>>,
      <<T("axismap", -1, "spaced"), T("axismap", 2, "spaced")>>, <<T("axismap", -1, "spaced")>>, <<T("axismap", 6, "spaced")>>,
      <<T("trans", 20000, "spaced")>>, <<T("trans1", 20000, "spaced"), T("trans2", Bad, "tight")>>,
      <<T("trans", 20000, "tight"), T("trans2", 30000, "spaced")>>,
      <<T("trans", 20000, "spaced"), T("trans1", 10000, "spaced"), T("trans2", 10000, "spaced")>>,
      <<T("dead", 0, "spaced")>>, <<T("dead1", 3, "spaced"), T("dead", 0, "tight")>>,
      <<T("dead2", 3, "spaced")>> }
MCEditedFiles == {<<>>, <<T("led", 0, "spaced"), T("trans", 20000, "spaced")>>}
MCSettable == [o \in Option |->
    CASE o = "repeat" -> {9} [] o = "sens" -> {10004, 20000} [] o = "led" -> {2}
      [] o = "axismap" -> {-1, 2} [] o \in Trans -> {10000, 30000}
      [] o = "dead1" -> {0, 3} [] o = "dead2" -> {0, 2}]

(* A file that turns the LED off, and clients that change only that.       *)
MCSavedFiles == {<<T("led", 0, "spaced")>>}
MCSavedSettable == [o \in Option |-> IF o = "led" THEN {1, 2} ELSE {}]
=============================================================================
