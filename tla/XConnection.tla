----------------------------- MODULE XConnection -----------------------------
(***************************************************************************)
(* The daemon's connection to the X server (proto_x11.c), the detection of *)
(* a server that starts later (xdetect_linux.c), the signals that start    *)
(* and stop the connection (spnavd.c), and the display the keyboard        *)
(* emulation was given (kbemu_x11.c).                                      *)
(*                                                                         *)
(* A server makes the directory /tmp/.X11-unix, then its socket there,     *)
(* then accepts connections.  The daemon watches for both files with       *)
(* inotify.  Signals are taken where the daemon sleeps: in select, and     *)
(* between two attempts to connect.                                        *)
(***************************************************************************)
EXTENDS Integers, Sequences, SequencesExt

CONSTANTS MaxTries,     \* attempts of try_xconnect, 15 in the code
          MaxServers,   \* bound: servers started
          MaxOther,     \* bound: other files created in the two directories
          MaxSignals    \* bound: SIGUSR1 and SIGUSR2

ASSUME XConnectionAssumption ==
    /\ MaxTries \in Nat \ {0}
    /\ MaxServers \in Nat /\ MaxOther \in Nat /\ MaxSignals \in Nat

VARIABLES
    dir, sock, accepts,     \* the server: its directory, its socket, it answers
    dpy,                    \* "none", "open", or "lost": the server is gone and
                            \* Xlib has not noticed
    inotify,                \* the queue fd names: its watches and its events
    watch_tmp, watch_x11,   \* their numbers according to xdetect_linux.c, -1 for none
    watched,                \* what select looks at: "x", the connection; "inotify",
                            \* fd; "old", a queue fd no longer names; or "none"
    old_ready,              \* such a forgotten queue has events
    at,                     \* "main", "select", "turn", "xdet", "sleep", "end"
    init, caller,           \* where init_x11 stands, and who called it
    tries,                  \* attempts left in try_xconnect
    kb,                     \* the emulation's display: "none", "dpy", "closed"
    missed,                 \* history: why a server might not be found
    bounds                  \* bounds: servers, other files and signals so far

server == <<dir, sock, accepts>>
watch  == <<inotify, watch_tmp, watch_x11>>
sel    == <<watched, old_ready>>
call   == <<at, init, caller, tries>>
xvars   == <<server, dpy, watch, sel, call, kb, missed, bounds>>

NoQueue  == [open |-> FALSE, tmp |-> 0, x11 |-> 0, events |-> <<>>]
NewQueue == [NoQueue EXCEPT !.open = TRUE]

XInit ==
    /\ dir \in BOOLEAN /\ sock \in {FALSE, dir} /\ accepts \in {FALSE, sock}
    /\ dpy = "none" /\ inotify = NoQueue
    /\ watch_tmp = -1 /\ watch_x11 = -1
    /\ watched = "none" /\ old_ready = FALSE
    /\ at = "main" /\ init = "no" /\ caller = "none" /\ tries = 0
    /\ kb = "none" /\ missed = {}
    /\ bounds = [servers |-> 0, others |-> 0, signals |-> 0]

Used(what, max) == bounds[what] < max /\ bounds' = [bounds EXCEPT ![what] = @ + 1]
-----------------------------------------------------------------------------
(* The X server and other programs. *)

(* A file appears in /tmp or in /tmp/.X11-unix: an event for the queue, if *)
(* it has a watch there, and for a forgotten one in select's set.          *)
Created(place, name) ==
    LET wd == inotify[place]
    IN  /\ inotify' = IF wd = 0 THEN inotify
                      ELSE [inotify EXCEPT !.events = Append(@, [wd |-> wd, name |-> name])]
        /\ old_ready' = (watched = "old")
        /\ UNCHANGED <<dpy, watch_tmp, watch_x11, watched, call, kb, missed>>

MakeDir ==
    /\ ~ dir /\ dir' = TRUE
    /\ Created("tmp", "dir")
    /\ UNCHANGED <<sock, accepts, bounds>>

MakeSocket ==
    /\ dir /\ ~ sock /\ sock' = TRUE
    /\ Used("servers", MaxServers)
    /\ Created("x11", "sock")
    /\ UNCHANGED <<dir, accepts>>

OtherFile ==
    /\ Used("others", MaxOther)
    /\ Created("tmp", "other") \/ (dir /\ Created("x11", "other"))
    /\ UNCHANGED server

Accept ==
    /\ sock /\ ~ accepts /\ accepts' = TRUE
    /\ UNCHANGED <<dir, sock, dpy, watch, sel, call, kb, missed, bounds>>

ServerEnds ==
    /\ accepts /\ accepts' = FALSE /\ sock' = FALSE
    /\ dpy' = IF dpy = "open" THEN "lost" ELSE dpy
    /\ UNCHANGED <<dir, watch, sel, call, kb, missed, bounds>>
-----------------------------------------------------------------------------
(* init_x11, which main, try_xconnect and the handler of SIGUSR1 call. *)

(***************************************************************************)
(* Where control goes when init_x11 is done.  try_xconnect goes on for as  *)
(* many attempts as it has, the others go back to where they were; but a   *)
(* handler that closed what select looks at ends the turn with EBADF.      *)
(***************************************************************************)
Return(ok, closed) ==
    /\ init' = "no" /\ caller' = "none"
    /\ tries' = IF caller = "try" /\ ~ ok THEN tries - 1 ELSE tries
    /\ at' = CASE caller = "handler" -> IF at = "select" /\ closed THEN "end" ELSE at
               [] caller = "try" /\ ~ ok -> IF tries = 1 THEN "xdet" ELSE "sleep"
               [] OTHER -> "end"

Call(who) ==
    /\ init = "no" /\ init' = "open" /\ caller' = who
    /\ UNCHANGED <<server, dpy, watch, sel, at, tries, kb, missed>>

(* xdet_stop, if detection is running.                                     *)
xdet_stop ==
    IF inotify.open THEN inotify' = NoQueue /\ watch_tmp' = -1 /\ watch_x11' = -1
                    ELSE UNCHANGED watch

(* kbemu_set_display does nothing once the emulation is active, which it   *)
(* is when main has called kbemu_init, after its own init_x11.             *)
kbemu_set_display == kb' = IF caller = "main" THEN "dpy" ELSE kb

\* History: a file was there before the watch; select was interrupted by a
\* handler that opens what its set does not hold.
Unseen(file) == IF file THEN {"unseen"} ELSE {}
Unwatched == IF caller = "handler" /\ at = "select" /\ watched # "inotify"
             THEN {"signal"} ELSE {}

OpenDisplay ==
    /\ init = "open"
    /\ \/ /\ dpy # "none"
          /\ Return(TRUE, FALSE)
          /\ UNCHANGED <<dpy, watch, kb, missed>>
       \/ /\ dpy = "none" /\ accepts /\ dpy' = "open"
          /\ kbemu_set_display /\ xdet_stop /\ missed' = Unwatched
          /\ Return(TRUE, watched = "inotify")
       \/ /\ dpy = "none" /\ ~ accepts
          /\ init' = "failed"
          /\ UNCHANGED <<dpy, watch, kb, missed, at, caller, tries>>
    /\ UNCHANGED <<server, sel, bounds>>

(* Mutant of xdet_start: /tmp is watched first, and found.                 *)
xdet_start_tmp_first ==
    /\ init = "failed"
    /\ inotify' = [NewQueue EXCEPT !.tmp = 1] /\ watch_tmp' = 1
    /\ Return(FALSE, FALSE)
    /\ watched' = IF watched = "inotify" THEN "old" ELSE watched
    /\ missed' = missed \cup Unseen(sock) \cup Unwatched
    /\ UNCHANGED <<server, dpy, watch_x11, old_ready, kb, bounds>>

(***************************************************************************)
(* xdet_start: a new queue; the former one is neither closed nor           *)
(* remembered, and watch_tmp keeps its value.  The directory of the socket *)
(* is watched, or else /tmp.  What is already there has no event.          *)
(***************************************************************************)
xdet_start ==
    /\ init = "failed"
    /\ IF dir
       THEN /\ inotify' = [NewQueue EXCEPT !.x11 = 1] /\ watch_x11' = 1
            /\ Return(FALSE, FALSE)
       ELSE /\ inotify' = NewQueue /\ watch_x11' = -1
            /\ init' = "watch tmp" /\ UNCHANGED <<at, caller, tries>>
    /\ watched' = IF watched = "inotify" THEN "old" ELSE watched
    /\ missed' = missed \cup Unseen(sock) \cup Unwatched
    /\ UNCHANGED <<server, dpy, watch_tmp, old_ready, kb, bounds>>

xdet_start_tmp ==
    /\ init = "watch tmp"
    /\ inotify' = [inotify EXCEPT !.tmp = 1] /\ watch_tmp' = 1
    /\ missed' = missed \cup Unseen(dir)
    /\ Return(FALSE, FALSE)
    /\ UNCHANGED <<server, dpy, watch_x11, sel, kb, bounds>>

Start == at = "main" /\ Call("main") /\ UNCHANGED bounds

SigUsr1 ==
    /\ at \in {"select", "sleep"} /\ Call("handler")
    /\ Used("signals", MaxSignals)

(***************************************************************************)
(* close_x11.  A connection that is lost is noticed here at the latest:    *)
(* xioerr then starts the detection.  The emulation keeps the display.     *)
(***************************************************************************)
Close ==
    /\ dpy' = "none"
    /\ kb' = IF kb = "dpy" THEN "closed" ELSE kb
    /\ IF dpy = "lost" THEN init' = "failed" /\ caller' = "handler"
                       ELSE UNCHANGED <<init, caller>>

SigUsr2 ==
    /\ at \in {"select", "sleep"} /\ init = "no"
    /\ Used("signals", MaxSignals)
    /\ IF dpy = "none" THEN UNCHANGED <<dpy, kb, init, caller, at>>
       ELSE Close /\ at' = IF at = "select" /\ watched = "x" THEN "end" ELSE at
    /\ UNCHANGED <<server, watch, sel, tries, missed>>
-----------------------------------------------------------------------------
(* The loop of the daemon. *)

(* Mutant of Rebuilt: the queue is not looked at.                          *)
RebuiltX == IF dpy # "none" THEN "x" ELSE "none"

\* get_x11_socket, for the set that each turn of the loop makes anew.
Rebuilt == IF dpy # "none" THEN "x" ELSE IF inotify.open THEN "inotify" ELSE "none"

EndTurn ==
    /\ at = "end" /\ init = "no" /\ at' = "select"
    /\ watched' = Rebuilt /\ old_ready' = FALSE /\ missed' = missed \ {"signal"}
    /\ UNCHANGED <<server, dpy, watch, init, caller, tries, kb, bounds>>

\* Descriptors of select's set that are readable.
Readable ==
    \/ watched = "inotify" /\ inotify.events # <<>>
    \/ watched = "x" /\ dpy = "lost"
    \/ watched = "old" /\ old_ready

(***************************************************************************)
(* handle_xevents at the end of select: the queue is read if it is the one *)
(* that was looked at, a lost connection is noticed by XPending (xioerr).  *)
(***************************************************************************)
Wake ==
    /\ at = "select" /\ init = "no" /\ Readable
    /\ \/ /\ dpy = "none" /\ watched = "inotify" /\ at' = "xdet"
          /\ UNCHANGED <<dpy, kb, init, caller>>
       \/ /\ watched = "old" /\ at' = "end"
          /\ UNCHANGED <<dpy, kb, init, caller>>
       \/ /\ watched = "x" /\ at' = "turn" /\ dpy' = "none"
          /\ kb' = IF kb = "dpy" THEN "closed" ELSE kb
          /\ init' = "failed" /\ caller' = "turn"
    /\ UNCHANGED <<server, watch, sel, tries, missed, bounds>>

(* Something else wakes the daemon: a client, a device, a SIGHUP.          *)
OtherWake ==
    /\ at = "select" /\ init = "no" /\ ~ Readable /\ at' = "end"
    /\ UNCHANGED <<server, dpy, watch, sel, init, caller, tries, kb, missed, bounds>>

(* inotify_rm_watch says so in an event of its own.                        *)
RemoveWatch(wd) ==
    inotify' = [inotify EXCEPT
        !.tmp = IF @ = wd THEN 0 ELSE @,
        !.x11 = IF @ = wd THEN 0 ELSE @,
        !.events = IF wd \in {inotify.tmp, inotify.x11}
                   THEN <<[wd |-> wd, name |-> "ignored"]>> ELSE <<>>]

try_xconnect == at' = "sleep" /\ tries' = MaxTries

(***************************************************************************)
(* One turn of the loop of handle_xdet_events: a read returns all events   *)
(* there are, the first of them is looked at.                              *)
(***************************************************************************)
ReadEvents ==
    /\ at = "xdet" /\ init = "no" /\ inotify.events # <<>>
    /\ LET ev == Head(inotify.events)
           dropped == \E e \in ToSet(Tail(inotify.events)) : e.name \in {"dir", "sock"}
           wrong == ev.wd = watch_tmp /\ watch_x11 # -1 /\ ev.wd = inotify.x11
       IN  /\ missed' = missed \cup (IF dropped THEN {"dropped"} ELSE {})
                               \cup (IF wrong THEN {"removed"} ELSE {})
           /\ \/ /\ ev.wd = watch_tmp /\ watch_x11 # -1
                 /\ RemoveWatch(watch_tmp)
                 /\ UNCHANGED <<watch_x11, at, tries>>
              \/ /\ ev.wd = watch_tmp /\ watch_x11 = -1 /\ ev.name = "dir"
                 /\ inotify' = [inotify EXCEPT !.x11 = 2, !.events = <<>>]
                 /\ watch_x11' = 2
                 /\ try_xconnect
              \/ /\ ev.wd # watch_tmp /\ ev.wd = watch_x11 /\ ev.name = "sock"
                 /\ inotify' = [inotify EXCEPT !.events = <<>>]
                 /\ try_xconnect
                 /\ UNCHANGED watch_x11
              \/ /\ \/ ev.wd = watch_tmp /\ watch_x11 = -1 /\ ev.name # "dir"
                    \/ ev.wd # watch_tmp /\ (ev.wd # watch_x11 \/ ev.name # "sock")
                 /\ inotify' = [inotify EXCEPT !.events = <<>>]
                 /\ UNCHANGED <<watch_x11, at, tries>>
    /\ UNCHANGED <<server, dpy, watch_tmp, sel, init, caller, kb, bounds>>

NoMoreEvents ==
    /\ at = "xdet" /\ init = "no" /\ inotify.events = <<>>
    /\ at' = "end"
    /\ UNCHANGED <<server, dpy, watch, sel, init, caller, tries, kb, missed, bounds>>

(* One second of try_xconnect is over.                                     *)
TryAgain == at = "sleep" /\ Call("try") /\ UNCHANGED bounds

XDaemon == \/ Start \/ OpenDisplay \/ xdet_start \/ xdet_start_tmp
           \/ EndTurn \/ Wake \/ ReadEvents \/ NoMoreEvents \/ TryAgain

World == MakeDir \/ MakeSocket \/ OtherFile \/ Accept \/ ServerEnds
         \/ SigUsr1 \/ SigUsr2 \/ OtherWake

XNext == XDaemon \/ World

XSpec == XInit /\ [][XNext]_xvars

(* One thread that does not sleep with something to read.                  *)
XFairSpec == XSpec /\ WF_xvars(XDaemon)
-----------------------------------------------------------------------------
XTypeOK ==
    /\ dir \in BOOLEAN /\ sock \in BOOLEAN /\ accepts \in BOOLEAN
    /\ dpy \in {"none", "open", "lost"}
    /\ inotify \in [open : BOOLEAN, tmp : 0..1, x11 : 0..2,
                    events : Seq([wd : 1..2, name : {"dir", "sock", "other", "ignored"}])]
    /\ watch_tmp \in {-1, 1} /\ watch_x11 \in {-1, 1, 2}
    /\ watched \in {"x", "inotify", "old", "none"} /\ old_ready \in BOOLEAN
    /\ at \in {"main", "select", "turn", "xdet", "sleep", "end"}
    /\ init \in {"no", "open", "failed", "watch tmp"}
    /\ caller \in {"none", "main", "try", "handler", "turn"}
    /\ tries \in 0..MaxTries
    /\ kb \in {"none", "dpy", "closed"}
    /\ missed \subseteq {"unseen", "dropped", "removed", "signal"}

(***************************************************************************)
(* "waiting for the X socket file to appear" (xdetect_linux.c:59).  While  *)
(* the daemon sleeps and detection is running, the place where the next    *)
(* file of a server appears has a watch, or the event is waiting; except   *)
(* if the file was there before the watch, if its event was read behind    *)
(* another one, or if the watch was removed under the number of an older   *)
(* one.                                                                    *)
(***************************************************************************)
Waiting == at = "select" /\ init = "no" /\ dpy = "none" /\ inotify.open

Awaited ==
    \/ inotify.events # <<>>
    \/ ~ dir /\ inotify.tmp = watch_tmp
    \/ dir /\ ~ sock /\ inotify.x11 = watch_x11

WatchesRightPlace == Waiting => Awaited \/ missed # {}

(***************************************************************************)
(* A server that accepts connections is found, or ends; but for the same   *)
(* exceptions, and while select looks at a set made before the detection   *)
(* was started by a signal.  The end of a server is noticed, but for that. *)
(***************************************************************************)
XIsFollowed ==
    /\ Waiting /\ accepts ~> dpy # "none" \/ ~ accepts \/ missed # {}
    /\ dpy = "lost" ~> dpy # "lost" \/ "signal" \in missed

(***************************************************************************)
(* "stop the kbemu module from using an invalid Display*"                  *)
(* (proto_x11.c:205).                                                      *)
(***************************************************************************)
NoClosedDisplay == kb # "closed"

(* The watches exist where they are said to, and where they are needed.    *)
XIsAwaited == XTypeOK /\ WatchesRightPlace
=============================================================================
