----------------------------- MODULE MCUnixProto -----------------------------
(* UnixProto with one client that changes the protocol and sends three     *)
(* more messages; one of its strings is longer than a path.                *)
EXTENDS UnixProto, TLC

CONSTANTS C1

Q(op, of, i, v) == [op |-> op, of |-> of, i |-> i, v |-> v]
MCRequests == C1 :>
    { Q("SCFG", "SENS_AXIS", 0, <<NaN, NaN>>), Q("SCFG", "INVERT", 0, <<1, 7>>),
      Q("SCFG", "BNMAP", 1, 2), Q("SCFG", "LED", 0, 2),
      Q("GCFG", "SERDEV", 0, 0), Q("SET_EVMASK", "", 0, {"CFG"}), Q("DEV", "NAME", 0, 0),
      Q("SAVE", "", 0, 0), Q("RESTORE", "", 0, 0), Q("RESET", "", 0, 0), Q("INVALID", "", 0, 0) }

MCStrings == C1 :> [NAME |-> {<<"n", "n">>}, SERDEV |-> {<<"a", "a", "a", "b">>},
                    SOCKET |-> {<<"s", "s", "s">>}]
=============================================================================
