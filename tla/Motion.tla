-------------------------------- MODULE Motion --------------------------------
(***************************************************************************)
(* Motion of one device, from its samples to what the clients are sent:    *)
(* process_input and the actions that buttons can be bound to (event.c),   *)
(* configuration changes, and the repetition of the last event by the main *)
(* loop (spnavd.c).                                                        *)
(*                                                                         *)
(* A device reports an axis when it changes.  What becomes of the sample   *)
(* is decided by the settings of the moment, and the result stays in the   *)
(* event of the device until a sample for the same axis of the event.      *)
(* All sensitivities are one, a number of hundredths, to which the actions *)
(* of buttons round it.                                                    *)
(***************************************************************************)
EXTENDS Integers, Sequences, FiniteSets

CONSTANTS Axis,         \* axes of the device, of MAX_AXES
          Samples,      \* what an axis may read
          Configs,      \* configurations
          Actions,      \* actions of buttons
          MaxQueue,     \* bound: unread input
          MaxChanges    \* bound: configuration changes and actions

Out == 0..5

(* The settings that process_input looks at, any numbers: the seventh axis *)
(* and those after it are mapped to themselves by default_cfg.             *)
Settings ==
    [map_axis : [Axis -> Int], swapyz : BOOLEAN, invert : SUBSET Out,
     dead_threshold : [Axis -> Int], sensitivity : Int, repeat : BOOLEAN]

ASSUME MotionAssumption ==
    /\ Axis \subseteq 0..63 /\ 0 \in Samples /\ Samples \subseteq Int
    /\ Configs \subseteq Settings
    /\ Actions \subseteq {"sens inc", "sens dec", "sens reset",
                       "rotation", "translation", "dominant"}
    /\ MaxQueue \in Nat /\ MaxChanges \in Nat

VARIABLES
    raw,            \* where the device is
    inq,            \* input the device sent, not read yet
    cfg,
    disable_rotation, disable_translation, dom_axis_mode,
    cur_axis_mag, cur_dom_axis,
    data, pending,  \* the dev_event
    pc,             \* "select", "read" or "turn"
    repeat_on_timeout,
    seen,           \* the motion that clients were sent last
    changes,        \* bound: configuration changes and actions so far
    heard,          \* history: the sample of each axis that was read last
    old,            \* history: axes of the event written under other settings
    left,           \* history: such axes, that no axis of the device will write
    unsure          \* history: cur_axis_mag was not kept for cur_dom_axis

modes == <<disable_rotation, disable_translation, dom_axis_mode>>
dom   == <<cur_axis_mag, cur_dom_axis>>
event == <<data, pending>>
loop  == <<pc, repeat_on_timeout>>
hist  == <<heard, old, left, unsure>>
vars  == <<raw, inq, cfg, modes, dom, event, loop, seen, changes, hist>>

Zero == [o \in Out |-> 0]

Init ==
    /\ raw = [a \in Axis |-> 0] /\ inq = <<>>
    /\ cfg \in Configs
    /\ disable_rotation = FALSE /\ disable_translation = FALSE /\ dom_axis_mode = FALSE
    /\ cur_axis_mag = Zero /\ cur_dom_axis = 0
    /\ data = Zero /\ pending = FALSE
    /\ pc = "turn" /\ repeat_on_timeout = FALSE
    /\ seen = Zero /\ changes = 0
    /\ heard = raw /\ old = {} /\ left = {} /\ unsure = FALSE
-----------------------------------------------------------------------------
Abs(n) == IF n < 0 THEN -n ELSE n

swaptab == <<0, 2, 1, 3, 5, 4>>

(* The axis of the event that an axis of the device is mapped to, -1 for   *)
(* none, under the configuration c.                                        *)
MapAxis(c, a) ==
    LET axis == c.map_axis[a]
    IN  IF axis \notin Out THEN -1
        ELSE IF c.swapyz THEN swaptab[axis + 1] ELSE axis

map_axis(a) == MapAxis(cfg, a)

Sources(c, o) == {a \in Axis : MapAxis(c, a) = o}

\* The sensitivity 1.
One == 100

Weight(o) ==
    IF o < 3 THEN IF disable_translation THEN 0 ELSE cfg.sensitivity
             ELSE IF disable_rotation THEN 0 ELSE cfg.sensitivity

(* The conversion to int rounds towards zero. *)
Scaled(o, val) ==
    LET mag == (Abs(val) * Abs(Weight(o))) \div One
        neg == ((val < 0) # (Weight(o) < 0)) # (o \in cfg.invert)
    IN  IF neg THEN -mag ELSE mag

Alive(a, val) == IF Abs(val) < cfg.dead_threshold[a] THEN 0 ELSE val

(* History: what was written under the settings before, and what is not    *)
(* written again because its axis is mapped elsewhere now.                 *)
Outdate(c) ==
    /\ old' = Out
    /\ left' = left \cup {o \in Out : data[o] # 0 /\ ~ Sources(cfg, o) \subseteq Sources(c, o)}
    /\ unsure' = (unsure \/ Sources(cfg, cur_dom_axis) # Sources(c, cur_dom_axis))
    /\ UNCHANGED heard
-----------------------------------------------------------------------------
(* The device and its user. *)

(* The axes of S from the lowest to the highest, in the one sequence that  *)
(* this is.                                                                *)
Orders(S) ==
    {s \in [1..Cardinality(S) -> S] :
        /\ \A a \in S : \E i \in DOMAIN s : s[i] = a
        /\ \A i, j \in DOMAIN s : i < j => s[i] < s[j]}

Report(axes, new) ==
    [i \in DOMAIN axes |-> [type |-> "motion", idx |-> axes[i], val |-> new[axes[i]]]]

(* Axes move: their samples and the end of the report, which the kernel    *)
(* makes readable together.                                                *)
Move ==
    \E new \in [Axis -> Samples] :
        LET moved == {a \in Axis : new[a] # raw[a]}
        IN  \E axes \in Orders(moved) :
            /\ moved # {} /\ Len(inq) + Len(axes) < MaxQueue
            /\ raw' = new
            /\ inq' = Append(inq \o Report(axes, new), [type |-> "flush"])
            /\ UNCHANGED <<cfg, modes, dom, event, loop, seen, changes, hist>>

(* A button without hold action, bound to an action, is released: all      *)
(* actions happen on release.                                              *)
Release ==
    /\ Len(inq) < MaxQueue /\ changes < MaxChanges /\ changes' = changes + 1
    /\ \E act \in Actions : inq' = Append(inq, [type |-> "button", act |-> act])
    /\ UNCHANGED <<raw, cfg, modes, dom, event, loop, seen, hist>>
-----------------------------------------------------------------------------
(* process_input. *)

dispatch_event == seen' = data

(* Mutant of in_deadzone: the rotations are not looked at.                 *)
InDeadzoneTranslation == \A o \in 0..2 : data[o] = 0

in_deadzone == \A o \in Out : data[o] = 0

(* Mutant of FlushPending: a device in its dead zone is not reported.      *)
FlushHeld ==
    /\ pending' = FALSE
    /\ IF pending /\ ~ in_deadzone THEN dispatch_event ELSE UNCHANGED seen
    /\ UNCHANGED data

FlushPending ==
    /\ pending' = FALSE
    /\ IF pending THEN dispatch_event ELSE UNCHANGED seen
    /\ UNCHANGED data

(* Mutant of Dominates: only axes that win are remembered.                 *)
DominatesWinner(axis, mag) ==
    /\ IF mag > cur_axis_mag[cur_dom_axis]
       THEN cur_dom_axis' = axis /\ cur_axis_mag' = [cur_axis_mag EXCEPT ![axis] = mag]
       ELSE UNCHANGED dom
    /\ unsure' = (unsure /\ axis # cur_dom_axis /\ mag <= cur_axis_mag[cur_dom_axis])

(* The dominant axis is the one whose sample exceeds the last one of the   *)
(* axis that was dominant.                                                 *)
Dominates(axis, mag) ==
    /\ cur_dom_axis' = IF mag > cur_axis_mag[cur_dom_axis] THEN axis ELSE cur_dom_axis
    /\ cur_axis_mag' = [cur_axis_mag EXCEPT ![axis] = mag]
    /\ unsure' = (unsure /\ axis # cur_dom_axis /\ mag <= cur_axis_mag[cur_dom_axis])

Passes(mag) == ~ dom_axis_mode \/ mag > cur_axis_mag[cur_dom_axis]

InputMotion(a, val) ==
    LET axis == map_axis(a)
        kept == IF Passes(Abs(val)) THEN Alive(a, val) ELSE 0
    IN  /\ heard' = [heard EXCEPT ![a] = val]
        /\ \/ axis = -1 /\ UNCHANGED <<dom, event, old, left, unsure>>
           \/ /\ axis # -1
              /\ IF dom_axis_mode THEN Dominates(axis, Abs(val)) ELSE UNCHANGED <<dom, unsure>>
              /\ data' = [data EXCEPT ![axis] = Scaled(axis, kept)]
              /\ pending' = TRUE
              /\ old' = old \ {axis} /\ left' = left \ {axis}
        /\ UNCHANGED <<cfg, modes, seen>>

(***************************************************************************)
(* handle_button_action.  History: the magnitudes kept from the last time  *)
(* dominant axis mode was on may be no more what the device reads.         *)
(***************************************************************************)
handle_button_action(act) ==
    /\ \/ /\ act = "sens inc" /\ cfg' = [cfg EXCEPT !.sensitivity = (@ * 11) \div 10]
          /\ UNCHANGED modes
       \/ /\ act = "sens dec" /\ cfg' = [cfg EXCEPT !.sensitivity = (@ * 9) \div 10]
          /\ UNCHANGED modes
       \/ act = "sens reset" /\ cfg' = [cfg EXCEPT !.sensitivity = One] /\ UNCHANGED modes
       \/ /\ act = "rotation"
          /\ disable_rotation' = ~ disable_rotation
          /\ disable_translation' = (disable_translation /\ disable_rotation)
          /\ UNCHANGED <<cfg, dom_axis_mode>>
       \/ /\ act = "translation"
          /\ disable_translation' = ~ disable_translation
          /\ disable_rotation' = (disable_rotation /\ disable_translation)
          /\ UNCHANGED <<cfg, dom_axis_mode>>
       \/ /\ act = "dominant"
          /\ dom_axis_mode' = ~ dom_axis_mode
          /\ UNCHANGED <<cfg, disable_rotation, disable_translation>>
    /\ old' = Out
    /\ unsure' = (unsure \/ act = "dominant")
    /\ UNCHANGED <<heard, left>>

(* A button flushes what is pending before its action.                     *)
InputButton(act) ==
    /\ FlushPending
    /\ handle_button_action(act)
    /\ UNCHANGED dom

process_input(inp) ==
    \/ inp.type = "motion" /\ InputMotion(inp.idx, inp.val)
    \/ inp.type = "button" /\ InputButton(inp.act)
    \/ inp.type = "flush" /\ FlushPending /\ UNCHANGED <<cfg, modes, dom, hist>>
-----------------------------------------------------------------------------
(* The main loop. *)

(* The end of a turn and the timeout of the next select.                   *)
Sleep ==
    /\ pc = "turn" /\ pc' = "select"
    /\ repeat_on_timeout' = (cfg.repeat /\ ~ in_deadzone)
    /\ UNCHANGED <<raw, inq, cfg, modes, dom, event, seen, changes, hist>>

repeat_last_motion_event ==
    /\ pc = "select" /\ repeat_on_timeout /\ inq = <<>> /\ pc' = "turn"
    /\ dispatch_event
    /\ UNCHANGED <<raw, inq, cfg, modes, dom, event, repeat_on_timeout, changes, hist>>

Wake ==
    /\ pc = "select" /\ inq # <<>> /\ pc' = "read"
    /\ UNCHANGED <<raw, inq, cfg, modes, dom, event, repeat_on_timeout, seen, changes, hist>>

(* A SIGHUP or a request, taken before the devices are read.               *)
Reconfigure ==
    /\ pc = "select" /\ changes < MaxChanges /\ changes' = changes + 1
    /\ \E c \in Configs \ {cfg} : cfg' = c /\ Outdate(c)
    /\ pc' = IF inq = <<>> THEN "turn" ELSE "read"
    /\ UNCHANGED <<raw, inq, modes, dom, event, repeat_on_timeout, seen>>

ReadItem ==
    /\ pc = "read" /\ inq # <<>>
    /\ process_input(Head(inq))
    /\ inq' = Tail(inq)
    /\ UNCHANGED <<raw, loop, changes>>

EndOfInput ==
    /\ pc = "read" /\ inq = <<>> /\ pc' = "turn"
    /\ FlushPending
    /\ UNCHANGED <<raw, inq, cfg, modes, dom, repeat_on_timeout, changes, hist>>

Daemon == Sleep \/ repeat_last_motion_event \/ Wake \/ ReadItem \/ EndOfInput

Next == Daemon \/ Reconfigure \/ Move \/ Release

Spec == Init /\ [][Next]_vars

(* One thread; a timeout of select comes to its end.                       *)
FairSpec == Spec /\ WF_vars(Daemon)
-----------------------------------------------------------------------------
TypeOK ==
    /\ raw \in [Axis -> Samples] /\ Len(inq) <= MaxQueue
    /\ cfg \in Settings
    /\ cur_axis_mag \in [Out -> Nat] /\ cur_dom_axis \in Out
    /\ data \in [Out -> Int] /\ seen \in [Out -> Int] /\ pending \in BOOLEAN
    /\ pc \in {"select", "read", "turn"} /\ repeat_on_timeout \in BOOLEAN
    /\ ~ (disable_rotation /\ disable_translation)
    /\ left \subseteq old

Asleep == pc = "select" /\ inq = <<>>

(***************************************************************************)
(* When the daemon sleeps on a device that is at rest, the clients have    *)
(* seen it at rest: not only where the device moved under the settings of  *)
(* the moment, but whatever was disabled, scaled or dominated in between.  *)
(* Only an axis of the event whose source was mapped elsewhere while it    *)
(* was deflected keeps its deflection (event.c:248).                       *)
(***************************************************************************)
RestIsSeen ==
    Asleep /\ (\A a \in Axis : raw[a] = 0) =>
        \A o \in Out : seen[o] = 0 \/ o \in left

(***************************************************************************)
(* What the clients saw last of an axis is where the device is under the   *)
(* settings of the moment, once the axis has moved under them.             *)
(***************************************************************************)
SeenIsCurrent ==
    Asleep /\ ~ dom_axis_mode =>
        \A a \in Axis :
            LET o == map_axis(a)
            IN  \/ o = -1 \/ o \in old \/ Sources(cfg, o) # {a}
                \/ seen[o] = Scaled(o, Alive(a, raw[a]))

MotionIsSeen == TypeOK /\ RestIsSeen /\ SeenIsCurrent

(***************************************************************************)
(* In dominant axis mode a sample that exceeds all others passes, also the *)
(* last one of its own axis; except after the magnitude of the dominant    *)
(* axis was not kept: the mode was off, or its axis was mapped elsewhere.  *)
(***************************************************************************)
StrongestPasses ==
    [][\A a \in Axis :
        (/\ ReadItem /\ dom_axis_mode /\ ~ unsure
         /\ Head(inq).type = "motion" /\ Head(inq).idx = a /\ map_axis(a) # -1
         /\ \A b \in Axis : Abs(Head(inq).val) > Abs(heard[b]))
        => data'[map_axis(a)] = Scaled(map_axis(a), Alive(a, Head(inq).val))]_vars

(***************************************************************************)
(* "Non-deadzone events are repeated every so many milliseconds"           *)
(* (example-spnavrc:150): a device that is held off its center is repeated *)
(* for as long as it is, whichever axis it is held by.                     *)
(***************************************************************************)
Held == cfg.repeat /\ inq = <<>> /\ \E o \in Out : seen[o] # 0

RepeatsGoOn == <>[]Held => []<><<repeat_last_motion_event>>_vars
=============================================================================
