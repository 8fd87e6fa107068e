------------------------------- MODULE Buttons -------------------------------
(***************************************************************************)
(* Button handling of event.c under the main loop of spnavd.c: what        *)
(* process_input does with INP_BUTTON, emit_button, the hold timers of a   *)
(* dev_event, next_button_timeout and emit_button_timeouts.                *)
(*                                                                         *)
(* One device.  Time is counted in ticks: a hold timer is Off or the ticks *)
(* left until it is due.  What leaves the daemon is either a key sent to   *)
(* the keyboard emulation, a button event for the clients, or an action    *)
(* bound to the button; "view" is the set of keys and button numbers that  *)
(* were reported pressed and not yet released.                             *)
(***************************************************************************)
EXTENDS Integers, Sequences, FiniteSets

CONSTANTS Button,       \* physical buttons, inp->idx
          None,         \* -1 in map_hold, no key in kbmap
          Off,          \* a zero hold_timeouts entry; no select timeout
          Configs,      \* configurations the daemon may be given
          MaxQueue,     \* bound: unread input events of the device
          MaxChanges    \* bound: configuration changes and unpluggings

(***************************************************************************)
(* A configuration: act, the buttons bound to an action (bnact); key, the  *)
(* key a button sends (kbmap); map and hold, the button numbers reported   *)
(* for a short and for a long press (map_button, map_hold); timeout, the   *)
(* hold_timeout.  The file and the requests map a button to a number there *)
(* is, and a timeout is an int, so one of them is the longest.             *)
(***************************************************************************)
Timeouts == {c.timeout : c \in Configs}

ASSUME ButtonsAssumption ==
    /\ Button # {} /\ None \notin Nat \cup Button /\ Off \notin Int
    /\ \A c \in Configs : c.timeout \in Nat /\ \A i \in Button : c.map[i] \in Nat
    /\ \E t \in Timeouts : \A u \in Timeouts : u <= t
    /\ MaxQueue \in Nat /\ MaxChanges \in Nat

VARIABLES
    pc,        \* where the main loop is
    tv,        \* ticks until select times out, or Off
    kq,        \* unread input of the device
    pressed,   \* buttons physically down
    cfg,       \* the configuration in force
    newcfg,    \* configuration waiting to be read, or None
    timer,     \* hold_timeouts of the dev_event
    view,      \* outputs reported pressed and not released
    heard,     \* history: buttons whose press was the last event processed
    owed,      \* history: held presses processed and not yet reported
    age,       \* history: ticks since the press of a held button, capped
    due,       \* history: the hold_timeout in force at that press
    stuck,     \* history: buttons rebound or unplugged while down, and the
               \* output their release would have gone to
    last,      \* history: the short and long presses reported by this step
    changes    \* bound: configuration changes and unpluggings so far

history == <<heard, owed, age, due, stuck, last, changes>>
vars == <<pc, tv, kq, pressed, cfg, newcfg, timer, view, history>>

MaxTimeout == CHOOSE t \in Timeouts : \A u \in Timeouts : u <= t

Msc == [btn |-> None, val |-> 0]   \* an input event read_evdev answers -1 to
Input == [btn : Button, val : {0, 1}] \cup {Msc}

Action == [kind |-> "action", num |-> None]

(* Where emit_button sends button i under configuration c.                 *)
Dest(c, i, hold) ==
    IF i \in c.act THEN Action
    ELSE IF c.key[i] # None THEN [kind |-> "key", num |-> c.key[i]]
    ELSE [kind |-> "button", num |-> IF hold THEN c.hold[i] ELSE c.map[i]]

(* view after a press or a release of an output; actions leave no trace.   *)
Emit(v, d, val) == IF val = 1 THEN v \cup ({d} \ {Action}) ELSE v \ {d}

(* History: a short or long press of button i goes out.                    *)
Report(i, hold) == [btn |-> i, hold |-> hold, out |-> Dest(cfg, i, hold),
                    age |-> age[i], due |-> due[i]]

Armed == {i \in Button : timer[i] # Off}

Init ==
    /\ pc = "select" /\ tv = Off
    /\ kq = <<>> /\ pressed = {}
    /\ cfg \in Configs /\ newcfg = None
    /\ timer = [i \in Button |-> Off]
    /\ view = {} /\ heard = {} /\ stuck = {} /\ last = {}
    /\ owed = [i \in Button |-> 0]
    /\ age = [i \in Button |-> 0] /\ due = [i \in Button |-> 0]
    /\ changes = 0
-----------------------------------------------------------------------------
(* The user, the kernel and the clock.                                     *)

Press(i) ==
    /\ i \notin pressed /\ Len(kq) < MaxQueue
    /\ pressed' = pressed \cup {i}
    /\ kq' = Append(kq, [btn |-> i, val |-> 1])
    /\ last' = {}
    /\ UNCHANGED <<pc, tv, cfg, newcfg, timer, view, heard, owed, age, due, stuck, changes>>

Release(i) ==
    /\ i \in pressed /\ Len(kq) < MaxQueue
    /\ pressed' = pressed \ {i}
    /\ kq' = Append(kq, [btn |-> i, val |-> 0])
    /\ last' = {}
    /\ UNCHANGED <<pc, tv, cfg, newcfg, timer, view, heard, owed, age, due, stuck, changes>>

OtherInput ==
    /\ Len(kq) < MaxQueue
    /\ kq' = Append(kq, Msc)
    /\ last' = {}
    /\ UNCHANGED <<pc, tv, pressed, cfg, newcfg, timer, view, heard, owed, age, due, stuck, changes>>

Reconfigure(c) ==
    /\ changes < MaxChanges /\ newcfg = None
    /\ newcfg' = c
    /\ changes' = changes + 1
    /\ last' = {}
    /\ UNCHANGED <<pc, tv, kq, pressed, cfg, timer, view, heard, owed, age, due, stuck>>

Sooner(t) == IF t = Off \/ t = 0 THEN t ELSE t - 1

Tick ==
    /\ \/ tv # Off /\ tv > 0
       \/ \E i \in Button : (timer[i] # Off /\ timer[i] > 0)
    /\ tv' = Sooner(tv)
    /\ timer' = [i \in Button |-> Sooner(timer[i])]
    /\ age' = [i \in Button |-> IF timer[i] # Off /\ age[i] < MaxTimeout + 1
                                THEN age[i] + 1 ELSE age[i]]
    /\ last' = {}
    /\ UNCHANGED <<pc, kq, pressed, cfg, newcfg, view, heard, owed, due, stuck, changes>>
-----------------------------------------------------------------------------
(* The main loop.                                                          *)

(* Mutant of next_button_timeout: select is not bounded by the timers.     *)
NoButtonTimeout == Off

(* next_button_timeout: the earliest timer decides how long select sleeps. *)
next_button_timeout ==
    IF Armed = {} THEN Off
    ELSE CHOOSE t \in {timer[i] : i \in Armed} : \A i \in Armed : t <= timer[i]

EnterSelect ==
    /\ pc = "select"
    /\ tv' = next_button_timeout
    /\ pc' = "blocked"
    /\ last' = {}
    /\ UNCHANGED <<kq, pressed, cfg, newcfg, timer, view, heard, owed, age, due, stuck, changes>>

LeaveSelect ==
    /\ pc = "blocked"
    /\ \/ (kq # <<>> \/ newcfg # None) /\ pc' = "config"
       \/ kq = <<>> /\ newcfg = None /\ tv = 0 /\ pc' = "timeouts"
    /\ tv' = Off /\ last' = {}
    /\ UNCHANGED <<kq, pressed, cfg, newcfg, timer, view, heard, owed, age, due, stuck, changes>>

(* History: buttons that are down while what they are bound to changes.     *)
Rebound(c) == {i \in heard : \/ Dest(cfg, i, FALSE) # Dest(c, i, FALSE)
                             \/ cfg.hold[i] # c.hold[i]}

(* read_cfg after a SIGHUP, or the requests that change a mapping; both    *)
(* are handled before the devices are read.                                *)
TakeConfig ==
    /\ pc = "config"
    /\ pc' = "events"
    /\ cfg' = IF newcfg = None THEN cfg ELSE newcfg
    /\ newcfg' = None
    /\ stuck' = stuck \cup {[btn |-> i, out |-> Dest(cfg, i, FALSE)] : i \in Rebound(cfg')}
    /\ last' = {}
    /\ UNCHANGED <<tv, kq, pressed, timer, view, heard, owed, age, due, changes>>

(* Mutant of Direct: the release is not passed on.                         *)
DirectPressOnly(i, val) ==
    /\ cfg.hold[i] = None
    /\ view' = Emit(view, Dest(cfg, i, FALSE), 1)
    /\ last' = {}
    /\ UNCHANGED <<timer, owed, age, due>>

(* process_input, case INP_BUTTON. *)
Direct(i, val) ==
    /\ cfg.hold[i] = None
    /\ view' = Emit(view, Dest(cfg, i, FALSE), val)
    /\ last' = {}
    /\ UNCHANGED <<timer, owed, age, due>>

ArmTimer(i) ==
    /\ cfg.hold[i] # None
    /\ timer' = [timer EXCEPT ![i] = cfg.timeout]
    /\ owed' = [owed EXCEPT ![i] = @ + 1]
    /\ age' = [age EXCEPT ![i] = 0]
    /\ due' = [due EXCEPT ![i] = cfg.timeout]
    /\ last' = {}
    /\ UNCHANGED view

(* Mutant of ReleaseBeforeTimer: the timer is not cleared.                 *)
ReleaseKeepsTimer(i) ==
    /\ cfg.hold[i] # None
    /\ LET hold == timer[i] = 0
       IN  IF timer[i] # Off
           THEN /\ view' = Emit(Emit(view, Dest(cfg, i, hold), 1), Dest(cfg, i, hold), 0)
                /\ last' = {Report(i, hold)}
                /\ owed' = [owed EXCEPT ![i] = @ - 1]
           ELSE last' = {} /\ UNCHANGED <<view, owed>>
    /\ UNCHANGED <<timer, age, due>>

ReleaseBeforeTimer(i) ==
    /\ cfg.hold[i] # None
    /\ LET hold == timer[i] = 0
       IN  IF timer[i] # Off
           THEN /\ view' = Emit(Emit(view, Dest(cfg, i, hold), 1), Dest(cfg, i, hold), 0)
                /\ last' = {Report(i, hold)}
                /\ owed' = [owed EXCEPT ![i] = @ - 1]
                /\ timer' = [timer EXCEPT ![i] = Off]
           ELSE last' = {} /\ UNCHANGED <<view, owed, timer>>
    /\ UNCHANGED <<age, due>>

ReadInput ==
    /\ pc = "events" /\ kq # <<>>
    /\ LET inp == Head(kq)
       IN  \/ /\ inp = Msc            \* ends the reading loop of handle_events
              /\ pc' = "timeouts" /\ last' = {}
              /\ UNCHANGED <<timer, view, heard, owed, age, due>>
           \/ /\ inp # Msc
              /\ \/ Direct(inp.btn, inp.val)
                 \/ inp.val = 1 /\ ArmTimer(inp.btn)
                 \/ inp.val = 0 /\ ReleaseBeforeTimer(inp.btn)
              /\ heard' = IF inp.val = 1 THEN heard \cup {inp.btn} ELSE heard \ {inp.btn}
              /\ UNCHANGED pc
    /\ kq' = Tail(kq)
    /\ UNCHANGED <<tv, pressed, cfg, newcfg, stuck, changes>>

EndOfInput ==
    /\ pc = "events" /\ kq = <<>>
    /\ pc' = "timeouts" /\ last' = {}
    /\ UNCHANGED <<tv, kq, pressed, cfg, newcfg, timer, view, heard, owed, age, due, stuck, changes>>

(* The device goes away: read_evdev fails, remove_device frees the         *)
(* dev_event with its timers; the next device starts with nothing down.    *)
Unplug ==
    /\ pc = "events" /\ changes < MaxChanges
    /\ pc' = "timeouts"
    /\ kq' = <<>> /\ pressed' = {}
    /\ timer' = [i \in Button |-> Off]
    /\ owed' = [i \in Button |-> 0]
    /\ stuck' = stuck \cup {[btn |-> i, out |-> Dest(cfg, i, FALSE)] : i \in heard}
    /\ heard' = {} /\ last' = {}
    /\ changes' = changes + 1
    /\ UNCHANGED <<tv, cfg, newcfg, view, age, due>>

emit_button_timeouts ==
    LET expired == {i \in Button : timer[i] = 0}
    IN  /\ pc = "timeouts"
        /\ pc' = "select"
        /\ view' = view \ {Dest(cfg, i, TRUE) : i \in expired}
        /\ last' = {Report(i, TRUE) : i \in expired}
        /\ owed' = [i \in Button |-> IF i \in expired THEN owed[i] - 1 ELSE owed[i]]
        /\ timer' = [i \in Button |-> IF i \in expired THEN Off ELSE timer[i]]
        /\ UNCHANGED <<tv, kq, pressed, cfg, newcfg, heard, age, due, stuck, changes>>

Daemon == \/ EnterSelect \/ LeaveSelect \/ TakeConfig
          \/ ReadInput \/ EndOfInput \/ emit_button_timeouts

User == \/ \E i \in Button : Press(i) \/ Release(i)
        \/ OtherInput \/ Unplug
        \/ \E c \in Configs : Reconfigure(c)

Next == Daemon \/ User \/ Tick

Spec == Init /\ [][Next]_vars

(***************************************************************************)
(* The daemon runs and time passes.  The daemon reads faster than a device *)
(* sends: it is not kept reading for ever, and finds the input empty.      *)
(***************************************************************************)
LastInput == ReadInput /\ kq' = <<>>
FairSpec == /\ Spec /\ WF_vars(Daemon) /\ WF_vars(Tick)
            /\ SF_vars(LastInput) /\ SF_vars(EndOfInput)
-----------------------------------------------------------------------------
Outputs == {Action} \cup UNION {{Dest(c, i, h) : i \in Button, h \in BOOLEAN} : c \in Configs}
Timer == {Off} \cup 0..MaxTimeout

TypeOK ==
    /\ pc \in {"select", "blocked", "config", "events", "timeouts"}
    /\ tv \in Timer /\ timer \in [Button -> Timer]
    /\ kq \in Seq(Input) /\ Len(kq) <= MaxQueue
    /\ pressed \subseteq Button /\ heard \subseteq Button
    /\ cfg \in Configs /\ newcfg \in Configs \cup {None}
    /\ view \subseteq Outputs
    /\ stuck \subseteq [btn : Button, out : Outputs]
    /\ owed \in [Button -> Int]
    /\ age \in [Button -> 0..MaxTimeout+1] /\ due \in [Button -> 0..MaxTimeout]
    /\ last \subseteq [btn : Button, hold : BOOLEAN, out : Outputs,
                        age : 0..MaxTimeout+1, due : 0..MaxTimeout]
    /\ changes \in 0..MaxChanges

(***************************************************************************)
(* A press that arms a hold timer is reported once: never twice by the     *)
(* timer and the release both firing (the release is read before, in the   *)
(* same turn of the loop as, or after the timer expires), and never left   *)
(* unreported with no timer running.  Only a button rebound while it was   *)
(* down may have two presses share one report.                             *)
(***************************************************************************)
OneReportPerHold ==
    \A i \in Button :
        /\ owed[i] >= 0
        /\ timer[i] # Off => owed[i] > 0
        /\ \/ owed[i] = (IF timer[i] = Off THEN 0 ELSE 1)
           \/ \E r \in stuck : r.btn = i

(***************************************************************************)
(* A press is reported as a hold exactly if the button had been down for   *)
(* hold_timeout, whichever of the two paths of the code reports it.        *)
(***************************************************************************)
KindMatchesDuration == \A r \in last : r.hold <=> r.age >= r.due

(***************************************************************************)
(* What the clients and the keyboard emulation take for pressed is what    *)
(* the daemon knows to be down, except for buttons rebound or unplugged    *)
(* while they were down; a button whose output no other button can reach   *)
(* is seen pressed as long as it is down.                                  *)
(***************************************************************************)
ViewIsWhatIsDown ==
    LET Own(i, d) == \A c \in Configs, j \in Button \ {i}, h \in BOOLEAN :
                         Dest(c, j, h) # d
    IN  /\ \A d \in view :
               \/ \E r \in stuck : r.out = d
               \/ \E i \in heard : d = Dest(cfg, i, FALSE) /\ cfg.hold[i] = None
        /\ \A i \in heard :
               LET d == Dest(cfg, i, FALSE)
               IN  \/ d \in view \/ d = Action \/ cfg.hold[i] # None
                   \/ ~ Own(i, d) \/ \E r \in stuck : r.btn = i

(***************************************************************************)
(* A client is sent button number -1 only for a button whose hold mapping  *)
(* was taken away while its hold timer was running (event.c:181).          *)
(***************************************************************************)
NoNumberOnlyAfterRebind ==
    \A r \in last : r.out.kind = "button" /\ r.out.num = None
                    => \E s \in stuck : s.btn = r.btn

(***************************************************************************)
(* A running hold timer fires or is answered by the release, even if no    *)
(* input ever arrives again: next_button_timeout bounds the sleep of       *)
(* select.                                                                 *)
(***************************************************************************)
TimersFire == \A i \in Button : timer[i] # Off ~> timer[i] = Off

(***************************************************************************)
(* A held button is reported once, as what it was, under a number that     *)
(* exists.                                                                 *)
(***************************************************************************)
HoldsReported ==
    /\ TypeOK
    /\ OneReportPerHold
    /\ KindMatchesDuration
    /\ NoNumberOnlyAfterRebind
=============================================================================
