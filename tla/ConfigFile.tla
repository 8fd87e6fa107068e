------------------------------ MODULE ConfigFile ------------------------------
(***************************************************************************)
(* The configuration and its file (cfgfile.c): read_cfg keeps the lines of *)
(* the file in memory, write_cfg edits those lines where an option differs *)
(* from its default, and writes them all out again.                        *)
(*                                                                         *)
(* The options here stand for all of them, one for each way an option is   *)
(* written: "repeat", the option numbered zero; "sens", removed when it    *)
(* has its default value, as most are; "led", removed only if the daemon   *)
(* itself added the line; "axismap", which a client can set to -1; and the *)
(* two groups with a line for the whole group: the sensitivities ("trans") *)
(* and the dead zones ("dead"), of two axes each.  Sensitivities are       *)
(* counted in units of 0.0001.  Bad is a value that is not a number.       *)
(***************************************************************************)
EXTENDS Integers, SequencesExt

CONSTANTS Bad, Gone, NoFile,
          UserFiles,        \* what the user may have written, sequences of texts
          EditedFiles,      \* bound: what the user writes while the daemon runs
          Settable,         \* option -> values clients give it
          Extra,            \* NUM_EXTRA_LINES
          MaxOps            \* bound: requests, restarts and edits by the user

Trans == {"trans1", "trans2"}
Dead  == {"dead1", "dead2"}
Option == {"repeat", "sens", "led", "axismap"} \cup Trans \cup Dead
Key == Option \cup {"trans", "dead"}

(* default_cfg: only the first axes have a dead zone. *)
Default == [o \in Option |-> CASE o = "repeat" -> -1
                               [] o = "dead1" -> 2
                               [] o = "dead2" -> 0
                               [] o \in {"sens"} \cup Trans -> 10000
                               [] OTHER -> 1]

(***************************************************************************)
(* A line of text: a key with its value and how the '=' is written, or a   *)
(* comment or blank line.  Only lines the daemon writes for "repeat" carry *)
(* a newline of their own.                                                 *)
(***************************************************************************)
Comment == [key |-> "#", val |-> 0, form |-> "tight"]
Forms == {"tight", "spaced", "newline"}
Texts == {Comment} \cup [key : Key, val : Int \cup {Bad}, form : Forms]

ASSUME ConfigFileAssumption ==
    /\ Bad \notin Int /\ Gone \notin Texts
    /\ NoFile \notin Seq(Texts) /\ UserFiles \cup EditedFiles \subseteq Seq(Texts)
    /\ Settable \in [Option -> SUBSET Int]
    /\ Extra \in Nat /\ MaxOps \in Nat

VARIABLES
    cfg,      \* option -> value
    file,     \* the text of the file, or NoFile
    lines,    \* cfglines: text or Gone, opt, own
    room,     \* entries allocated for lines; 0: none yet
    ops       \* bound: operations so far

filevars == <<cfg, file, lines, room, ops>>
-----------------------------------------------------------------------------
(* read_cfg. *)

(* The options a line is about. *)
Sets(key) == CASE key = "trans" -> Trans
               [] key = "dead" -> Dead
               [] key = "#" -> {}
               [] OTHER -> {key}

(***************************************************************************)
(* What is no number counts as 0: the "continue" in EXPECT leaves the      *)
(* do ... while around it and not the line.                                *)
(***************************************************************************)
Number(val) == IF val = Bad THEN 0 ELSE val

Accepted(t) ==
    /\ t.key = "led" => t.val # Bad
    /\ t.key = "axismap" => Number(t.val) \in 0..5

ParseLine(c, t) ==
    [o \in Option |-> IF o \in Sets(t.key) /\ Accepted(t) THEN Number(t.val) ELSE c[o]]

Read(f) == FoldLeft(ParseLine, Default, f)

(* Lines whose option was not recognised keep option 0, which is "repeat". *)
OptOf(t) == IF t.key = "#" \/ (t.key = "axismap" /\ ~ Accepted(t)) THEN "repeat" ELSE t.key

Kept(f) == [k \in DOMAIN f |-> [text |-> f[k], opt |-> OptOf(f[k]), own |-> FALSE]]

(* An empty file counts as one line. *)
RoomFor(f) == (IF f = <<>> THEN 1 ELSE Len(f)) + Extra
-----------------------------------------------------------------------------
(* write_cfg. *)

Used(l) == l.text # Gone

(***************************************************************************)
(* The value as it is written: sensitivities with three decimals, the LED  *)
(* as off (0), auto (2), or on (1) for everything else.                    *)
(***************************************************************************)
Written(key, val) ==
    CASE key \in {"sens", "trans"} \cup Trans -> ((val + 5) \div 10) * 10
      [] key = "led" /\ val \notin {0, 2} -> 1
      [] OTHER -> val

(* Mutant of add_cfgopt: the option is looked for by its value as well.    *)
AddBesideOthers(ls, key, val) ==
    LET text == [key |-> key, val |-> Written(key, val), form |-> "spaced"]
        k == SelectInSeq(ls, LAMBDA l : Used(l) /\ l.text = text)
    IN  IF k = 0 THEN Append(ls, [text |-> text, opt |-> key, own |-> TRUE]) ELSE ls

(* The first line of this option gets the new text, or a line is added. *)
add_cfgopt(ls, key, val) ==
    LET text == [key |-> key, val |-> Written(key, val),
                 form |-> IF key = "repeat" THEN "newline" ELSE "spaced"]
        k == SelectInSeq(ls, LAMBDA l : Used(l) /\ l.opt = key)
    IN  IF k = 0 THEN Append(ls, [text |-> text, opt |-> key, own |-> TRUE])
        ELSE [ls EXCEPT ![k] = [text |-> text, opt |-> key, own |-> @.own]]

(* Mutant of rm_cfgopt: lines of the user's are never removed.             *)
RmOnlyOwn(ls, key, onlyOwn) ==
    LET k == SelectInSeq(ls, LAMBDA l : Used(l) /\ l.text.key = key /\ l.text.form # "tight")
    IN  IF k = 0 \/ ~ ls[k].own THEN ls ELSE [ls EXCEPT ![k].text = Gone]

(***************************************************************************)
(* The first line with this key is removed.  The key is recognised only if *)
(* a blank separates it from the '='.                                      *)
(***************************************************************************)
rm_cfgopt(ls, key, onlyOwn) ==
    LET k == SelectInSeq(ls, LAMBDA l : Used(l) /\ l.text.key = key /\ l.text.form # "tight")
    IN  IF k = 0 \/ (onlyOwn /\ ~ ls[k].own) THEN ls
        ELSE [ls EXCEPT ![k].text = Gone]

RmAll(ls, key) == rm_cfgopt(ls, key, FALSE)
RmOwn(ls, key) == rm_cfgopt(ls, key, TRUE)

IsDefault(o) == cfg[o] = Default[o]

WriteSingle(ls, o) == IF ~ IsDefault(o) THEN add_cfgopt(ls, o, cfg[o])
                      ELSE rm_cfgopt(ls, o, o = "led")

(* An option of a group has a line of its own, instead of the group's. *)
WriteOne(ls, o, group) == IF IsDefault(o) THEN RmOwn(ls, o)
                          ELSE RmAll(add_cfgopt(ls, o, cfg[o]), group)

(* Mutant of WriteTrans: the line for the group is removed with the others. *)
WriteTransRemoved(ls) ==
    IF cfg["trans1"] = cfg["trans2"]
    THEN RmAll(RmAll(RmAll(IF IsDefault("trans1") THEN RmOwn(ls, "trans")
                           ELSE add_cfgopt(ls, "trans", cfg["trans1"]), "trans1"), "trans2"), "trans")
    ELSE WriteOne(WriteOne(ls, "trans1", "trans"), "trans2", "trans")

(* The sensitivities: one line if they are equal, else one for each axis. *)
WriteTrans(ls) ==
    IF cfg["trans1"] = cfg["trans2"]
    THEN LET others == RmAll(RmAll(ls, "trans1"), "trans2")
         IN  IF IsDefault("trans1") THEN RmOwn(others, "trans")
             ELSE add_cfgopt(others, "trans", cfg["trans1"])
    ELSE WriteOne(WriteOne(ls, "trans1", "trans"), "trans2", "trans")

(* The dead zones: as a group they are compared with that of axis 0. *)
WriteDead(ls) ==
    IF cfg["dead1"] = cfg["dead2"]
    THEN IF IsDefault("dead1") THEN RmOwn(ls, "dead")
         ELSE RmAll(RmAll(add_cfgopt(ls, "dead", cfg["dead1"]), "dead1"), "dead2")
    ELSE WriteOne(WriteOne(ls, "dead1", "dead"), "dead2", "dead")

Edited(ls) ==
    LET groups == WriteDead(WriteTrans(WriteSingle(ls, "sens")))
    IN  WriteSingle(WriteSingle(WriteSingle(groups, "repeat"), "axismap"), "led")

(* The text of the lines in use. *)
Shown(l) ==
    IF ~ Used(l) THEN <<>>
    ELSE IF l.text.form = "newline" THEN <<[l.text EXCEPT !.form = "spaced"], Comment>>
    ELSE <<l.text>>

Text(ls) == FlattenSeq([k \in DOMAIN ls |-> Shown(ls[k])])
-----------------------------------------------------------------------------
Load(f) ==
    /\ cfg' = Read(f)
    /\ lines' = Kept(f)
    /\ room' = RoomFor(f)

(* Nothing is known of the file when the daemon starts. *)
FileInit ==
    /\ file \in UserFiles \cup {NoFile}
    /\ IF file = NoFile THEN cfg = Default /\ lines = <<>> /\ room = 0
       ELSE cfg = Read(file) /\ lines = Kept(file) /\ room = RoomFor(file)
    /\ ops = 0

Operation == ops < MaxOps /\ ops' = ops + 1

(* A request sets an option, or a button action changes the sensitivity. *)
Set(o, val) ==
    /\ Operation
    /\ cfg[o] # val /\ cfg' = [cfg EXCEPT ![o] = val]
    /\ UNCHANGED <<file, lines, room>>

(* REQ_CFG_RESET *)
Reset ==
    /\ Operation
    /\ cfg' = Default
    /\ UNCHANGED <<file, lines, room>>

(* REQ_CFG_RESTORE, or a SIGHUP.  Without a file the lines stay. *)
Restore ==
    /\ Operation
    /\ IF file = NoFile THEN cfg' = Default /\ UNCHANGED <<lines, room>> ELSE Load(file)
    /\ UNCHANGED file

(* The daemon is stopped and started again. *)
Restart ==
    /\ Operation
    /\ IF file = NoFile THEN cfg' = Default /\ lines' = <<>> /\ room' = 0 ELSE Load(file)
    /\ UNCHANGED file

(* REQ_CFG_SAVE *)
write_cfg ==
    /\ Operation
    /\ lines' = Edited(lines)
    /\ room' = IF room = 0 THEN Extra ELSE room
    /\ file' = Text(lines')
    /\ UNCHANGED cfg

EditFile(f) ==
    /\ Operation
    /\ file' = f
    /\ UNCHANGED <<cfg, lines, room>>

FileNext ==
    \/ \E o \in Option : \E val \in Settable[o] : Set(o, val)
    \/ Reset \/ Restore \/ Restart \/ write_cfg
    \/ \E f \in EditedFiles : EditFile(f)

FileSpec == FileInit /\ [][FileNext]_filevars
-----------------------------------------------------------------------------
Lines == [text : Texts \cup {Gone}, opt : Key, own : BOOLEAN]

FileTypeOK ==
    /\ cfg \in [Option -> Int]
    /\ file = NoFile \/ file \in Seq(Texts)
    /\ lines \in Seq(Lines)
    /\ room \in Nat /\ ops \in 0..MaxOps

Speaks(l, o) == Used(l) /\ o \in Sets(l.text.key)
Foreign(o) == {k \in DOMAIN lines : ~ lines[k].own /\ Speaks(lines[k], o)}

(***************************************************************************)
(* The user's lines that stay although the option is back at its default:  *)
(* those with no blank before the '=', the LED's, and those for the other  *)
(* way of writing a group.                                                 *)
(***************************************************************************)
Stays(t) ==
    \/ t.form = "tight" \/ t.key \in {"led"} \cup Dead
    \/ t.key = "trans" /\ cfg["trans1"] = cfg["trans2"]
    \/ t.key \in Trans /\ cfg["trans1"] # cfg["trans2"]

Repeated(o) == \E j, k \in Foreign(o) : j # k

Excused(o) ==
    \/ IsDefault(o) /\ \E k \in Foreign(o) : Stays(lines[k].text)
    \/ Repeated(o)
    \/ o = "repeat" /\ Foreign(o) # {}
    \/ o = "axismap" /\ cfg[o] \notin 0..5
    \/ o = "axismap" /\ IsDefault(o) /\ \E k \in Foreign(o) : ~ Accepted(lines[k].text)
    \/ o \in Dead /\ \A d \in Dead : cfg[d] = Default["dead1"]
    \/ o \in Dead /\ \A d \in Dead : IsDefault(d)

(***************************************************************************)
(* What is saved is what a restore will read, however often options were   *)
(* set, reset, saved and restored before.  Excepted are options at their   *)
(* default with a line that stays, or with more than one line of the       *)
(* user's; "repeat", whose line is looked for under option 0; an axis that *)
(* is mapped to none of the six, and one at its default with a line that   *)
(* does so, which is removed in place of the daemon's own; and the dead    *)
(* zones, when all are at their default or all at that of axis 0: a line   *)
(* for the group is then left as it is.                                    *)
(***************************************************************************)
SaveIsFaithful ==
    [][write_cfg => \A o \in Option : Excused(o) \/ Read(file')[o] = Written(o, cfg[o])]_filevars

(***************************************************************************)
(* Saving the configuration as it was read changes no option, but for      *)
(* those the user wrote more than one line for.                            *)
(***************************************************************************)
SaveAfterReadIsHarmless ==
    [][write_cfg /\ file # NoFile /\ lines = Kept(file) /\ cfg = Read(file)
       => \A o \in Option : Repeated(o) \/ Read(file')[o] = Written(o, cfg[o])]_filevars

(***************************************************************************)
(* No option has a line that the daemon added and another one, so that the *)
(* lines in use stay within the memory allocated for them: an entry for    *)
(* every option and every line of the user's.  (A removed line's entry is  *)
(* never used again, so all entries together need not fit.)                *)
(***************************************************************************)
OneLineEach ==
    \A j, k \in DOMAIN lines :
        j # k /\ lines[j].own /\ Used(lines[j]) /\ Used(lines[k])
        => lines[j].opt # lines[k].opt

(***************************************************************************)
(* "REQ_CFG_SAVE: save config file", "REQ_CFG_RESTORE: load config from    *)
(* file" (proto.h:97-98): what was saved is what is restored.              *)
(***************************************************************************)
RestoreGivesSaved ==
    [][write_cfg => Read(file') = cfg]_filevars

(* The array of lines is sound: numbers for values, and one line each.     *)
LinesAreSound == FileTypeOK /\ OneLineEach
=============================================================================
