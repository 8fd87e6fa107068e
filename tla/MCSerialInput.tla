---------------------------- MODULE MCSerialInput ----------------------------
(* SerialInput with an input buffer of ten bytes and a ring of four.     *)
EXTENDS SerialInput

MCButtons == {0, 11}
MCAxes == {0, 1}
\* Readings, and the characters that a packet moved wrongly puts among them.
MCValues == {0, 1, 8, 2049, Dot, Junk, D, K}
MCReadings == {<<0, 0, 0>>, <<0, 1, 1>>}
MCKeyBytes == {0, 2049}
MCKeyNibbles == {<<0, 0, 0>>, <<1, 0, 8>>, <<1, 0, 0, 0>>}
MCBursts == {2, BufSz - 1}
=============================================================================
