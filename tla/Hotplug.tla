------------------------------- MODULE Hotplug -------------------------------
(***************************************************************************)
(* Detection of devices that come and go on Linux (hotplug_linux.c) in the *)
(* main loop (spnavd.c): the netlink socket with its delayed scan, the     *)
(* polling used when there is no netlink socket, and the read errors that  *)
(* tell the daemon of a device that went away.                             *)
(*                                                                         *)
(* A scan (init_devices_usb) opens every device file that is there and not *)
(* in use; here a present device can be opened.                            *)
(***************************************************************************)
EXTENDS Naturals

CONSTANTS Path       \* device files

VARIABLES
    pc,              \* "start", "select", "devices" or "hotplug"
    mode,            \* "none", then what con_hotplug allows: "netlink" or "poll"
    present,         \* devices plugged in
    open,            \* device -> "closed", "live", or "dead": open, but gone
    uevents,         \* the netlink socket has messages
    delay_pending,
    alarm,           \* an alarm is set
    delay_pipe,      \* the pipe written by delay_timeout has data
    poll_pipe,       \* the pipe written by poll_timeout has data
    deadset, hot,    \* what select reported: dead devices, the hotplug fd
    early,           \* history: plugged before the daemon listened, not yet scanned
    scans            \* history: scans since the last alarm, capped at 2

pipes == <<delay_pending, alarm, delay_pipe, poll_pipe>>
vars == <<pc, mode, present, open, uevents, pipes, deadset, hot, early, scans>>

(* init_devices has scanned once; init_hotplug comes next. *)
Init ==
    /\ pc = "start" /\ mode = "none"
    /\ present \in SUBSET Path
    /\ open = [p \in Path |-> IF p \in present THEN "live" ELSE "closed"]
    /\ uevents = FALSE
    /\ delay_pending = FALSE /\ alarm = FALSE
    /\ delay_pipe = FALSE /\ poll_pipe = FALSE
    /\ deadset = {} /\ hot = FALSE
    /\ early = {} /\ scans = 0

(* The kernel announces a change to a bound netlink socket only. *)
Announce == uevents' = (uevents \/ mode = "netlink")

Plug(p) ==
    /\ p \notin present
    /\ present' = present \cup {p}
    /\ Announce
    /\ early' = IF pc = "start" THEN early \cup {p} ELSE early
    /\ UNCHANGED <<pc, mode, open, pipes, deadset, hot, scans>>

Unplug(p) ==
    /\ p \in present
    /\ present' = present \ {p}
    /\ open' = [open EXCEPT ![p] = IF @ = "live" THEN "dead" ELSE @]
    /\ Announce
    /\ UNCHANGED <<pc, mode, pipes, deadset, hot, early, scans>>

(* init_hotplug *)
init_hotplug ==
    /\ pc = "start" /\ pc' = "select"
    /\ \/ mode' = "netlink" /\ UNCHANGED alarm
       \/ mode' = "poll" /\ alarm' = TRUE
    /\ UNCHANGED <<present, open, uevents, delay_pending, delay_pipe, poll_pipe,
                   deadset, hot, early, scans>>

(* SIGALRM: delay_timeout, or poll_timeout, which sets the next alarm. *)
SigAlrm ==
    /\ alarm
    /\ IF mode = "poll" THEN poll_pipe' = TRUE /\ UNCHANGED <<delay_pipe, alarm>>
                        ELSE delay_pipe' = TRUE /\ alarm' = FALSE /\ UNCHANGED poll_pipe
    /\ scans' = 0
    /\ UNCHANGED <<pc, mode, present, open, uevents, delay_pending, deadset, hot, early>>

(* Mutant of HotplugReady: get_hotplug_fd forgets the delay.               *)
NoDelayPipe == IF mode = "poll" THEN poll_pipe ELSE uevents

(* The descriptor get_hotplug_fd returns is readable. *)
HotplugReady == IF delay_pending THEN delay_pipe
                ELSE IF mode = "poll" THEN poll_pipe ELSE uevents

Select ==
    /\ pc = "select"
    /\ deadset' = {p \in Path : open[p] = "dead"}
    /\ hot' = HotplugReady
    /\ deadset' # {} \/ hot'
    /\ pc' = "devices"
    /\ UNCHANGED <<mode, present, open, uevents, pipes, early, scans>>

(* The devices are read before the hotplug descriptor; reading a device    *)
(* that is gone removes it.                                                *)
ReadDevices ==
    /\ pc = "devices" /\ pc' = "hotplug"
    /\ open' = [p \in Path |-> IF p \in deadset THEN "closed" ELSE open[p]]
    /\ deadset' = {}
    /\ UNCHANGED <<mode, present, uevents, pipes, hot, early, scans>>

init_devices_usb ==
    /\ open' = [p \in Path |-> IF p \in present /\ open[p] = "closed" THEN "live"
                               ELSE open[p]]
    /\ early' = {}
    /\ scans' = IF scans < 2 THEN scans + 1 ELSE scans

(* Mutant of delayed_scan: the socket is emptied as well.                  *)
ScanDrainsSocket ==
    /\ mode = "poll" \/ delay_pending
    /\ delay_pending' = FALSE
    /\ delay_pipe' = FALSE
    /\ uevents' = FALSE
    /\ init_devices_usb
    /\ UNCHANGED <<alarm, poll_pipe>>

(***************************************************************************)
(* handle_hotplug: the delay is over, or the daemon polls: scan.  Only the *)
(* delay pipe is read, poll mode has none.  Otherwise take the messages    *)
(* off the socket and scan in a second.                                    *)
(***************************************************************************)
delayed_scan ==
    /\ mode = "poll" \/ delay_pending
    /\ delay_pending' = FALSE
    /\ delay_pipe' = FALSE
    /\ init_devices_usb
    /\ UNCHANGED <<uevents, alarm, poll_pipe>>

schedule_scan ==
    /\ ~ (mode = "poll" \/ delay_pending)
    /\ uevents' = FALSE
    /\ delay_pending' = TRUE
    /\ alarm' = TRUE
    /\ UNCHANGED <<open, early, scans, delay_pipe, poll_pipe>>

handle_hotplug ==
    /\ pc = "hotplug" /\ pc' = "select"
    /\ hot /\ hot' = FALSE
    /\ delayed_scan \/ schedule_scan
    /\ UNCHANGED <<mode, present, deadset>>

NoHotplug ==
    /\ pc = "hotplug" /\ pc' = "select"
    /\ ~ hot
    /\ UNCHANGED <<mode, present, open, uevents, pipes, deadset, hot, early, scans>>

Daemon == init_hotplug \/ Select \/ ReadDevices \/ handle_hotplug \/ NoHotplug

Next == \/ \E p \in Path : Plug(p) \/ Unplug(p)
        \/ SigAlrm \/ Daemon

Spec == Init /\ [][Next]_vars

(* The daemon runs when it can, and an alarm goes off. *)
FairSpec == Spec /\ WF_vars(Daemon) /\ WF_vars(SigAlrm)
-----------------------------------------------------------------------------
TypeOK ==
    /\ pc \in {"start", "select", "devices", "hotplug"}
    /\ mode \in {"none", "netlink", "poll"}
    /\ present \subseteq Path /\ deadset \subseteq Path /\ early \subseteq Path
    /\ open \in [Path -> {"closed", "live", "dead"}]
    /\ uevents \in BOOLEAN /\ delay_pending \in BOOLEAN /\ alarm \in BOOLEAN
    /\ delay_pipe \in BOOLEAN /\ poll_pipe \in BOOLEAN /\ hot \in BOOLEAN
    /\ scans \in 0..2
    /\ mode = "none" <=> pc = "start"
    /\ IF mode = "poll" THEN alarm /\ ~ delay_pending /\ ~ delay_pipe ELSE ~ poll_pipe

(* While a scan is delayed something will still wake the daemon for it. *)
DelayEnds == delay_pending => alarm \/ delay_pipe

(***************************************************************************)
(* No plugging is forgotten: as long as a device that is there is not      *)
(* open, a message, a delayed scan or the poll alarm is outstanding that   *)
(* leads to a scan -- also if the device comes back while the daemon still *)
(* holds its old descriptor, or during the delay.  Only what was plugged   *)
(* between the first scan and init_hotplug may be missed.                  *)
(***************************************************************************)
NoPlugForgotten ==
    \A p \in present : \/ open[p] = "live" \/ p \in early
                       \/ uevents \/ delay_pending \/ mode = "poll"

(* With netlink, one alarm means at most one scan, however many messages   *)
(* arrive.                                                                 *)
OneScanPerDelay == mode = "netlink" => scans <= 1

(***************************************************************************)
(* "schedule a delayed trigger to avoid multiple hotplug activations in a  *)
(* row" (hotplug_linux.c:130): between two alarms there is one scan.       *)
(***************************************************************************)
NoScansInARow == scans <= 1

(***************************************************************************)
(* A device that stays plugged in is open in the end, and one that is gone *)
(* is closed.                                                              *)
(***************************************************************************)
FilesAreFollowed ==
    \A p \in Path :
        /\ <>[](p \in present /\ p \notin early) => <>[](open[p] = "live")
        /\ open[p] = "dead" ~> open[p] # "dead"

(***************************************************************************)
(* The delay of a scan ends, forgets no plugging and is kept: one scan for *)
(* one delay.                                                              *)
(***************************************************************************)
ScanIsComing == TypeOK /\ DelayEnds /\ NoPlugForgotten /\ OneScanPerDelay
=============================================================================
