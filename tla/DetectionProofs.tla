--------------------------- MODULE DetectionProofs ---------------------------
(***************************************************************************)
(* What is proved of the daemon's two detections: of devices (Hotplug),    *)
(* for every set of device files, and of an X server that starts later     *)
(* (XConnection), for any number of servers, files and signals.            *)
(***************************************************************************)
EXTENDS Hotplug, XConnection, SequenceTheorems, TLAPS

(* No timer runs before init_hotplug. *)
QuietStart ==
    mode = "none" => /\ ~ alarm /\ ~ delay_pending /\ ~ delay_pipe /\ ~ uevents
                     /\ scans = 0

(* What select reported is still so when it is acted upon. *)
ReportStands ==
    /\ \A p \in deadset : open[p] = "dead"
    /\ pc # "devices" => deadset = {}
    /\ hot /\ delay_pending => delay_pipe
    /\ hot => pc \in {"devices", "hotplug"}

(* A device that died since select returned has sent a message. *)
LateDeathsAnnounced ==
    mode = "netlink" =>
        /\ pc = "devices" => \A p \in Path \ deadset : open[p] = "dead" => uevents
        /\ pc = "hotplug" => \A p \in Path : open[p] = "dead" => uevents

(* The delay pipe is written by the alarm that starts the count anew. *)
PipeBeforeScan ==
    mode = "netlink" => /\ delay_pipe => scans = 0
                        /\ scans <= 1

IInv == /\ TypeOK /\ QuietStart /\ ReportStands
        /\ DelayEnds /\ NoPlugForgotten /\ LateDeathsAnnounced /\ PipeBeforeScan

LEMMA InitIInv == Init => IInv
  <1> SUFFICES ASSUME Init PROVE IInv
    OBVIOUS
  <1>1. TypeOK
    <2>1. open \in [Path -> {"closed", "live", "dead"}]
      BY DEF Init
    <2>2. mode = "none" /\ pc = "start" /\ ~ poll_pipe /\ present \subseteq Path
      BY DEF Init
    <2>3. /\ uevents \in BOOLEAN /\ delay_pending \in BOOLEAN /\ alarm \in BOOLEAN
          /\ delay_pipe \in BOOLEAN /\ poll_pipe \in BOOLEAN /\ hot \in BOOLEAN
      BY Zenon DEF Init
    <2>4. deadset \subseteq Path /\ early \subseteq Path
      BY Zenon DEF Init
    <2>5. scans \in 0..2
      BY SMT DEF Init
    <2> QED  BY <2>1, <2>2, <2>3, <2>4, <2>5 DEF TypeOK
  <1>2. QuietStart /\ ReportStands /\ DelayEnds /\ LateDeathsAnnounced /\ PipeBeforeScan
    BY DEF Init, QuietStart, ReportStands, DelayEnds, LateDeathsAnnounced, PipeBeforeScan
  <1>3. NoPlugForgotten
    BY DEF Init, NoPlugForgotten
  <1> QED  BY <1>1, <1>2, <1>3 DEF IInv

LEMMA NextIInv == IInv /\ [Next]_vars => IInv'
  <1> SUFFICES ASSUME IInv, [Next]_vars PROVE IInv'
    OBVIOUS
  <1> USE DEF IInv, pipes
  <1>1. ASSUME NEW p \in Path, Plug(p) PROVE IInv'
    <2>1. TypeOK'
      BY <1>1 DEF TypeOK, QuietStart, ReportStands, Plug, Announce
    <2>2. QuietStart'
      BY <1>1 DEF QuietStart, TypeOK, Plug, Announce
    <2>3. ReportStands'
      BY <1>1 DEF ReportStands, TypeOK, Plug, Announce
    <2>4. DelayEnds'
      BY <1>1 DEF DelayEnds, TypeOK, Plug, Announce
    <2>5. NoPlugForgotten'
      BY <1>1 DEF NoPlugForgotten, TypeOK, ReportStands, LateDeathsAnnounced, Plug, Announce
    <2>6. LateDeathsAnnounced'
      BY <1>1 DEF LateDeathsAnnounced, TypeOK, ReportStands, Plug, Announce
    <2>7. PipeBeforeScan'
      BY <1>1 DEF PipeBeforeScan, TypeOK, ReportStands, Plug, Announce
    <2> QED  BY <2>1, <2>2, <2>3, <2>4, <2>5, <2>6, <2>7
  <1>2. ASSUME NEW p \in Path, Unplug(p) PROVE IInv'
    <2>1. TypeOK'
      BY <1>2 DEF TypeOK, QuietStart, ReportStands, Unplug, Announce
    <2>2. QuietStart'
      BY <1>2 DEF QuietStart, TypeOK, Unplug, Announce
    <2>3. ReportStands'
      BY <1>2 DEF ReportStands, TypeOK, Unplug, Announce
    <2>4. DelayEnds'
      BY <1>2 DEF DelayEnds, TypeOK, Unplug, Announce
    <2>5. NoPlugForgotten'
      BY <1>2 DEF NoPlugForgotten, TypeOK, ReportStands, LateDeathsAnnounced, Unplug, Announce
    <2>6. LateDeathsAnnounced'
      BY <1>2 DEF LateDeathsAnnounced, TypeOK, ReportStands, Unplug, Announce
    <2>7. PipeBeforeScan'
      BY <1>2 DEF PipeBeforeScan, TypeOK, ReportStands, Unplug, Announce
    <2> QED  BY <2>1, <2>2, <2>3, <2>4, <2>5, <2>6, <2>7
  <1>3. CASE SigAlrm
    <2>1. TypeOK'
      <3>1. /\ mode' = mode /\ pc' = pc /\ present' = present /\ open' = open
            /\ uevents' = uevents /\ delay_pending' = delay_pending /\ hot' = hot
            /\ deadset' = deadset /\ early' = early /\ scans' = 0
        BY <1>3 DEF SigAlrm
      <3>2. CASE mode = "poll"
        <4>1. poll_pipe' = TRUE /\ delay_pipe' = delay_pipe /\ alarm' = alarm
          BY <1>3, <3>2 DEF SigAlrm
        <4> QED  BY <3>1, <3>2, <4>1 DEF TypeOK
      <3>3. CASE mode # "poll"
        <4>1. poll_pipe' = poll_pipe /\ delay_pipe' \in BOOLEAN /\ alarm' \in BOOLEAN
          BY <1>3, <3>3, Zenon DEF SigAlrm
        <4>2. scans' \in 0..2
          BY <3>1
        <4>3. mode' # "poll" /\ ~ poll_pipe'
          BY <3>1, <3>3, <4>1 DEF TypeOK
        <4> QED  BY <3>1, <3>3, <4>1, <4>2, <4>3 DEF TypeOK
      <3> QED  BY <3>2, <3>3
    <2>2. QuietStart'
      BY <1>3 DEF QuietStart, TypeOK, SigAlrm
    <2>3. ReportStands'
      BY <1>3 DEF ReportStands, TypeOK, SigAlrm
    <2>4. DelayEnds'
      BY <1>3 DEF DelayEnds, TypeOK, SigAlrm
    <2>5. NoPlugForgotten'
      BY <1>3 DEF NoPlugForgotten, TypeOK, ReportStands, LateDeathsAnnounced, SigAlrm
    <2>6. LateDeathsAnnounced'
      BY <1>3 DEF LateDeathsAnnounced, TypeOK, ReportStands, SigAlrm
    <2>7. PipeBeforeScan'
      BY <1>3 DEF PipeBeforeScan, TypeOK, ReportStands, SigAlrm
    <2> QED  BY <2>1, <2>2, <2>3, <2>4, <2>5, <2>6, <2>7
  <1>4. CASE init_hotplug
    <2>1. TypeOK'
      BY <1>4 DEF TypeOK, QuietStart, ReportStands, init_hotplug
    <2>2. QuietStart'
      BY <1>4 DEF QuietStart, TypeOK, init_hotplug
    <2>3. ReportStands'
      BY <1>4 DEF ReportStands, TypeOK, init_hotplug
    <2>4. DelayEnds'
      BY <1>4 DEF DelayEnds, TypeOK, init_hotplug
    <2>5. NoPlugForgotten'
      BY <1>4 DEF NoPlugForgotten, TypeOK, ReportStands, LateDeathsAnnounced, init_hotplug
    <2>6. LateDeathsAnnounced'
      BY <1>4 DEF LateDeathsAnnounced, TypeOK, ReportStands, init_hotplug
    <2>7. PipeBeforeScan'
      BY <1>4 DEF PipeBeforeScan, TypeOK, QuietStart, init_hotplug
    <2> QED  BY <2>1, <2>2, <2>3, <2>4, <2>5, <2>6, <2>7
  <1>5. CASE Select
    <2>1. TypeOK'
      BY <1>5 DEF TypeOK, QuietStart, ReportStands, Select, HotplugReady
    <2>2. QuietStart'
      BY <1>5 DEF QuietStart, TypeOK, Select, HotplugReady
    <2>3. ReportStands'
      BY <1>5 DEF ReportStands, TypeOK, Select, HotplugReady
    <2>4. DelayEnds'
      BY <1>5 DEF DelayEnds, TypeOK, Select, HotplugReady
    <2>5. NoPlugForgotten'
      BY <1>5 DEF NoPlugForgotten, TypeOK, ReportStands, LateDeathsAnnounced, Select, HotplugReady
    <2>6. LateDeathsAnnounced'
      BY <1>5 DEF LateDeathsAnnounced, TypeOK, ReportStands, Select, HotplugReady
    <2>7. PipeBeforeScan'
      BY <1>5 DEF PipeBeforeScan, TypeOK, ReportStands, Select, HotplugReady
    <2> QED  BY <2>1, <2>2, <2>3, <2>4, <2>5, <2>6, <2>7
  <1>6. CASE ReadDevices
    <2>1. TypeOK'
      BY <1>6 DEF TypeOK, QuietStart, ReportStands, ReadDevices
    <2>2. QuietStart'
      BY <1>6 DEF QuietStart, TypeOK, ReadDevices
    <2>3. ReportStands'
      BY <1>6 DEF ReportStands, TypeOK, ReadDevices
    <2>4. DelayEnds'
      BY <1>6 DEF DelayEnds, TypeOK, ReadDevices
    <2>5. NoPlugForgotten'
      BY <1>6 DEF NoPlugForgotten, TypeOK, ReportStands, LateDeathsAnnounced, ReadDevices
    <2>6. LateDeathsAnnounced'
      BY <1>6 DEF LateDeathsAnnounced, TypeOK, ReportStands, ReadDevices
    <2>7. PipeBeforeScan'
      BY <1>6 DEF PipeBeforeScan, TypeOK, ReportStands, ReadDevices
    <2> QED  BY <2>1, <2>2, <2>3, <2>4, <2>5, <2>6, <2>7
  <1>7. ASSUME handle_hotplug, delayed_scan PROVE IInv'
    <2>1. TypeOK'
      <3>1. open' \in [Path -> {"closed", "live", "dead"}] /\ scans' \in 0..2
        BY <1>7 DEF TypeOK, delayed_scan, init_devices_usb
      <3> QED  BY <1>7, <3>1 DEF TypeOK, handle_hotplug, delayed_scan, init_devices_usb
    <2>2. QuietStart'
      BY <1>7 DEF QuietStart, TypeOK, handle_hotplug, delayed_scan, init_devices_usb
    <2>3. ReportStands'
      BY <1>7 DEF ReportStands, TypeOK, handle_hotplug, delayed_scan, init_devices_usb
    <2>4. DelayEnds'
      BY <1>7 DEF DelayEnds, TypeOK, handle_hotplug, delayed_scan, init_devices_usb
    <2>5. NoPlugForgotten'
      BY <1>7 DEF NoPlugForgotten, TypeOK, ReportStands, LateDeathsAnnounced, handle_hotplug, delayed_scan, init_devices_usb
    <2>6. LateDeathsAnnounced'
      BY <1>7 DEF LateDeathsAnnounced, TypeOK, ReportStands, handle_hotplug, delayed_scan, init_devices_usb
    <2>7. PipeBeforeScan'
      BY <1>7 DEF PipeBeforeScan, TypeOK, ReportStands, handle_hotplug, delayed_scan, init_devices_usb
    <2> QED  BY <2>1, <2>2, <2>3, <2>4, <2>5, <2>6, <2>7
  <1>8. ASSUME handle_hotplug, schedule_scan PROVE IInv'
    <2>1. TypeOK'
      BY <1>8 DEF TypeOK, QuietStart, ReportStands, handle_hotplug, schedule_scan
    <2>2. QuietStart'
      BY <1>8 DEF QuietStart, TypeOK, handle_hotplug, schedule_scan
    <2>3. ReportStands'
      BY <1>8 DEF ReportStands, TypeOK, handle_hotplug, schedule_scan
    <2>4. DelayEnds'
      BY <1>8 DEF DelayEnds, TypeOK, handle_hotplug, schedule_scan
    <2>5. NoPlugForgotten'
      BY <1>8 DEF NoPlugForgotten, TypeOK, ReportStands, LateDeathsAnnounced, handle_hotplug, schedule_scan
    <2>6. LateDeathsAnnounced'
      BY <1>8 DEF LateDeathsAnnounced, TypeOK, ReportStands, handle_hotplug, schedule_scan
    <2>7. PipeBeforeScan'
      BY <1>8 DEF PipeBeforeScan, TypeOK, ReportStands, handle_hotplug, schedule_scan
    <2> QED  BY <2>1, <2>2, <2>3, <2>4, <2>5, <2>6, <2>7
  <1>9. CASE NoHotplug
    <2>1. TypeOK'
      BY <1>9 DEF TypeOK, QuietStart, ReportStands, NoHotplug
    <2>2. QuietStart'
      BY <1>9 DEF QuietStart, TypeOK, NoHotplug
    <2>3. ReportStands'
      BY <1>9 DEF ReportStands, TypeOK, NoHotplug
    <2>4. DelayEnds'
      BY <1>9 DEF DelayEnds, TypeOK, NoHotplug
    <2>5. NoPlugForgotten'
      BY <1>9 DEF NoPlugForgotten, TypeOK, ReportStands, LateDeathsAnnounced, NoHotplug
    <2>6. LateDeathsAnnounced'
      BY <1>9 DEF LateDeathsAnnounced, TypeOK, ReportStands, NoHotplug
    <2>7. PipeBeforeScan'
      BY <1>9 DEF PipeBeforeScan, TypeOK, ReportStands, NoHotplug
    <2> QED  BY <2>1, <2>2, <2>3, <2>4, <2>5, <2>6, <2>7
  <1>10. CASE UNCHANGED vars
    <2>1. TypeOK'
      BY <1>10 DEF TypeOK, QuietStart, ReportStands, vars
    <2>2. QuietStart'
      BY <1>10 DEF QuietStart, TypeOK, vars
    <2>3. ReportStands'
      BY <1>10 DEF ReportStands, TypeOK, vars
    <2>4. DelayEnds'
      BY <1>10 DEF DelayEnds, TypeOK, vars
    <2>5. NoPlugForgotten'
      BY <1>10 DEF NoPlugForgotten, TypeOK, ReportStands, LateDeathsAnnounced, vars
    <2>6. LateDeathsAnnounced'
      BY <1>10 DEF LateDeathsAnnounced, TypeOK, ReportStands, vars
    <2>7. PipeBeforeScan'
      BY <1>10 DEF PipeBeforeScan, TypeOK, ReportStands, vars
    <2> QED  BY <2>1, <2>2, <2>3, <2>4, <2>5, <2>6, <2>7
  <1> QED  BY <1>1, <1>2, <1>3, <1>4, <1>5, <1>6, <1>7, <1>8, <1>9, <1>10 DEF Next, Daemon, handle_hotplug

(***************************************************************************)
(* The inductive invariant holds in every state the main loop, the alarm   *)
(* handlers and the plugging of devices can reach (hotplug_linux.c:105-182,*)
(* spnavd.c:436-485).                                                      *)
(***************************************************************************)
THEOREM Invariance == Spec => []IInv
  <1> QED  BY InitIInv, NextIInv, PTL DEF Spec

(***************************************************************************)
(* In whatever order messages, alarms, read errors and scans follow each   *)
(* other: polling mode never delays a scan and never loses its alarm; a    *)
(* delayed scan has an alarm or a written pipe behind it; no plugging is   *)
(* forgotten; and one alarm allows one scan, however many messages a       *)
(* device causes (hotplug_linux.c:105-182, dev.c:162-241).                 *)
(***************************************************************************)
THEOREM ScansCome == Spec => []ScanIsComing
  <1>1. IInv => TypeOK /\ DelayEnds /\ NoPlugForgotten
    BY DEF IInv
  <1>2. IInv => OneScanPerDelay
    BY DEF IInv, PipeBeforeScan, OneScanPerDelay
  <1>3. IInv => ScanIsComing
    BY <1>1, <1>2 DEF ScanIsComing
  <1> QED  BY Invariance, <1>3, PTL
-----------------------------------------------------------------------------
(* The X server. *)

(* How far an attempt to connect has come, and for whom it is made. *)
Attempts ==
    /\ at = "sleep" => tries \in 1..MaxTries
    /\ caller = "try" => at = "sleep"
    /\ init # "no" => caller # "none"
    /\ caller = "main" => at = "main"

(* There is a connection, or a queue, or none of them. *)
OneOrTheOther == dpy # "none" \/ ~ inotify.open => inotify = NoQueue

(* A queue whose only watch is about to be added. *)
QueueIsNew ==
    /\ init \in {"failed", "watch tmp"} => dpy = "none"
    /\ init = "watch tmp" => inotify = NewQueue /\ watch_x11 = -1

(* The directory is watched, and its event comes, only when it is there. *)
WatchedIsThere ==
    /\ watch_x11 # -1 => dir
    /\ \A i \in 1..Len(inotify.events) : inotify.events[i].name = "dir" => dir

Announced(wd, name) ==
    \E i \in 1..Len(inotify.events) : inotify.events[i] = [wd |-> wd, name |-> name]

(***************************************************************************)
(* The next file of a server is watched for, or its event waits: first the *)
(* directory, then the socket in it.                                       *)
(***************************************************************************)
NextFileIsWatched ==
    \/ ~ dir /\ watch_tmp # -1 /\ inotify.tmp = watch_tmp
    \/ dir /\ watch_x11 = -1 /\ Announced(watch_tmp, "dir")
    \/ dir /\ watch_x11 # -1 /\ inotify.x11 = watch_x11 /\ (sock => Announced(watch_x11, "sock"))

(* Detection loses nothing while it runs and no attempt is being made, but *)
(* for the reasons that stay in missed until there is a connection.        *)
DetectionGoesOn ==
    inotify.open /\ dpy = "none" /\ init = "no" /\ at # "sleep"
        => NextFileIsWatched \/ missed \ {"signal"} # {}

XInv == /\ XTypeOK /\ Attempts /\ OneOrTheOther /\ QueueIsNew /\ WatchedIsThere
        /\ DetectionGoesOn
-----------------------------------------------------------------------------
File == [wd : 1..2, name : {"dir", "sock", "other", "ignored"}]

LEMMA NewQueueType ==
    /\ NoQueue \in [open : BOOLEAN, tmp : 0..1, x11 : 0..2, events : Seq(File)]
    /\ NewQueue \in [open : BOOLEAN, tmp : 0..1, x11 : 0..2, events : Seq(File)]
    /\ NewQueue.open = TRUE /\ NewQueue.tmp = 0 /\ NewQueue.x11 = 0 /\ NewQueue.events = <<>>
    /\ NoQueue.open = FALSE /\ NoQueue.events = <<>>
  <1>1. <<>> \in Seq(File) /\ 0 \in 0..1 /\ 0 \in 0..2
    OBVIOUS
  <1>2. /\ NoQueue \in [open : BOOLEAN, tmp : 0..1, x11 : 0..2, events : Seq(File)]
        /\ NoQueue.open = FALSE /\ NoQueue.tmp = 0 /\ NoQueue.x11 = 0 /\ NoQueue.events = <<>>
    BY <1>1 DEF NoQueue
  <1>3. /\ NewQueue \in [open : BOOLEAN, tmp : 0..1, x11 : 0..2, events : Seq(File)]
        /\ NewQueue.open = TRUE /\ NewQueue.tmp = 0 /\ NewQueue.x11 = 0 /\ NewQueue.events = <<>>
    BY <1>2 DEF NewQueue
  <1> QED  BY Zenon, <1>2, <1>3

LEMMA XInitInv == XInit => XInv
  <1> SUFFICES ASSUME XInit PROVE XInv
    OBVIOUS
  <1>1. XTypeOK
    <2>1. dir \in BOOLEAN /\ sock \in BOOLEAN /\ accepts \in BOOLEAN /\ old_ready \in BOOLEAN
      BY Zenon DEF XInit
    <2>2. tries \in 0..MaxTries
      BY XConnectionAssumption DEF XInit
    <2>3. inotify \in [open : BOOLEAN, tmp : 0..1, x11 : 0..2, events : Seq(File)]
      BY NewQueueType DEF XInit
    <2>4. watch_tmp \in {-1, 1} /\ watch_x11 \in {-1, 1, 2}
      BY DEF XInit
    <2> QED  BY Zenon, <2>1, <2>2, <2>3, <2>4 DEF XInit, XTypeOK, File
  <1>2. Attempts /\ OneOrTheOther /\ QueueIsNew /\ WatchedIsThere /\ DetectionGoesOn
    BY NewQueueType DEF XInit, Attempts, OneOrTheOther, QueueIsNew, WatchedIsThere, DetectionGoesOn
  <1> QED  BY <1>1, <1>2 DEF XInv
-----------------------------------------------------------------------------
(* What comes into the queue does not push anything out. *)
LEMMA EventAdded ==
    ASSUME XTypeOK, NEW wd \in 1..2, NEW name \in {"dir", "sock", "other"},
           inotify' = [inotify EXCEPT !.events = Append(@, [wd |-> wd, name |-> name])]
    PROVE  /\ inotify' \in [open : BOOLEAN, tmp : 0..1, x11 : 0..2, events : Seq(File)]
           /\ inotify'.open = inotify.open /\ inotify'.tmp = inotify.tmp
           /\ inotify'.x11 = inotify.x11
           /\ \A w, n : Announced(w, n) => Announced(w, n)'
           /\ Announced(wd, name)'
           /\ \A i \in 1..Len(inotify'.events) :
                 \/ inotify'.events[i].name = name
                 \/ i \in 1..Len(inotify.events) /\ inotify'.events[i] = inotify.events[i]
  <1> DEFINE e == [wd |-> wd, name |-> name]
             q == inotify.events
  <1>1. q \in Seq(File) /\ e \in File
    BY DEF XTypeOK, File
  <1>2. /\ Append(q, e) \in Seq(File) /\ Len(Append(q, e)) = Len(q) + 1
        /\ Append(q, e)[Len(q) + 1] = e
        /\ \A i \in 1..Len(q) : Append(q, e)[i] = q[i]
    BY <1>1
  <1>3. inotify \in [open : BOOLEAN, tmp : 0..1, x11 : 0..2, events : Seq(File)]
    BY DEF XTypeOK, File
  <1>4. /\ inotify'.events = Append(q, e)
        /\ inotify'.open = inotify.open /\ inotify'.tmp = inotify.tmp
        /\ inotify'.x11 = inotify.x11
        /\ inotify' \in [open : BOOLEAN, tmp : 0..1, x11 : 0..2, events : Seq(File)]
    BY <1>2, <1>3
  <1>5. Len(q) \in Nat
    BY <1>1
  <1> HIDE DEF q, e
  <1>6. Announced(wd, name)'
    <2>1. Len(q) + 1 \in 1..Len(inotify'.events) /\ inotify'.events[Len(q) + 1] = e
      BY <1>2, <1>4, <1>5
    <2> QED  BY <2>1 DEF Announced, e
  <1>7. ASSUME NEW w, NEW n, Announced(w, n) PROVE Announced(w, n)'
    <2>1. PICK i \in 1..Len(q) : q[i] = [wd |-> w, name |-> n]
      BY <1>7 DEF Announced, q
    <2>2. i \in 1..Len(inotify'.events) /\ inotify'.events[i] = [wd |-> w, name |-> n]
      BY <1>2, <1>4, <1>5, <2>1
    <2> QED  BY <2>2 DEF Announced
  <1>8. ASSUME NEW i \in 1..Len(inotify'.events)
        PROVE  \/ inotify'.events[i].name = name
               \/ i \in 1..Len(q) /\ inotify'.events[i] = q[i]
    <2>1. i \in 1..Len(q) \/ i = Len(q) + 1
      BY <1>2, <1>4, <1>5
    <2>2. e.name = name
      BY DEF e
    <2> QED  BY <1>2, <1>4, <1>5, <2>1, <2>2
  <1> QED  BY <1>4, <1>6, <1>7, <1>8 DEF q

LEMMA CreatedProperties ==
    ASSUME XTypeOK, NEW place \in {"tmp", "x11"}, NEW name \in {"dir", "sock", "other"},
           Created(place, name)
    PROVE  /\ inotify' \in [open : BOOLEAN, tmp : 0..1, x11 : 0..2, events : Seq(File)]
           /\ inotify'.open = inotify.open /\ inotify'.tmp = inotify.tmp
           /\ inotify'.x11 = inotify.x11
           /\ \A w, n : Announced(w, n) => Announced(w, n)'
           /\ \A wd \in 1..2 : wd = inotify[place] => Announced(wd, name)'
           /\ inotify[place] = 0 => inotify' = inotify
           /\ old_ready' \in BOOLEAN
           /\ \A i \in 1..Len(inotify'.events) :
                 \/ inotify'.events[i].name = name
                 \/ i \in 1..Len(inotify.events) /\ inotify'.events[i] = inotify.events[i]
  <1>1. inotify \in [open : BOOLEAN, tmp : 0..1, x11 : 0..2, events : Seq(File)]
    BY DEF XTypeOK, File
  <1>2. inotify[place] \in 0..2
    <2>1. inotify.tmp \in 0..2 /\ inotify.x11 \in 0..2
      BY <1>1
    <2> QED  BY <2>1
  <1>3. old_ready' \in BOOLEAN
    BY DEF Created
  <1>4. CASE inotify[place] = 0
    <2>1. inotify' = inotify
      BY <1>4 DEF Created
    <2>2. \A w, n : Announced(w, n) => Announced(w, n)'
      BY <2>1 DEF Announced
    <2> QED  BY <1>1, <1>3, <1>4, <2>1, <2>2
  <1>5. ASSUME NEW wd \in 1..2, inotify[place] = wd
        PROVE  /\ inotify' \in [open : BOOLEAN, tmp : 0..1, x11 : 0..2, events : Seq(File)]
               /\ inotify'.open = inotify.open /\ inotify'.tmp = inotify.tmp
               /\ inotify'.x11 = inotify.x11
               /\ \A w, n : Announced(w, n) => Announced(w, n)'
               /\ Announced(wd, name)'
               /\ \A i \in 1..Len(inotify'.events) :
                     \/ inotify'.events[i].name = name
                     \/ i \in 1..Len(inotify.events) /\ inotify'.events[i] = inotify.events[i]
    <2>1. inotify' = [inotify EXCEPT !.events = Append(@, [wd |-> wd, name |-> name])]
      BY <1>5 DEF Created
    <2> QED  BY <2>1, EventAdded
  <1>6. CASE inotify[place] \in 1..2
    BY <1>3, <1>5, <1>6
  <1> QED  BY <1>2, <1>4, <1>6
-----------------------------------------------------------------------------
(* Types, part by part. *)
LEMMA XTypes ==
    ASSUME XTypeOK, dir' \in BOOLEAN, sock' \in BOOLEAN, accepts' \in BOOLEAN,
           dpy' \in {"none", "open", "lost"},
           inotify' \in [open : BOOLEAN, tmp : 0..1, x11 : 0..2, events : Seq(File)],
           watch_tmp' \in {-1, 1}, watch_x11' \in {-1, 1, 2},
           watched' \in {"x", "inotify", "old", "none"}, old_ready' \in BOOLEAN,
           at' \in {"main", "select", "turn", "xdet", "sleep", "end"},
           init' \in {"no", "open", "failed", "watch tmp"},
           caller' \in {"none", "main", "try", "handler", "turn"},
           tries' \in 0..MaxTries, kb' \in {"none", "dpy", "closed"},
           missed' \subseteq {"unseen", "dropped", "removed", "signal"}
    PROVE  XTypeOK'
  BY Zenon DEF XTypeOK, File

LEMMA XTypesKept ==
    ASSUME XTypeOK
    PROVE  /\ UNCHANGED dir => dir' \in BOOLEAN
           /\ UNCHANGED sock => sock' \in BOOLEAN
           /\ UNCHANGED accepts => accepts' \in BOOLEAN
           /\ UNCHANGED old_ready => old_ready' \in BOOLEAN
           /\ UNCHANGED dpy => dpy' \in {"none", "open", "lost"}
           /\ UNCHANGED inotify =>
                inotify' \in [open : BOOLEAN, tmp : 0..1, x11 : 0..2, events : Seq(File)]
           /\ UNCHANGED watch_tmp => watch_tmp' \in {-1, 1}
           /\ UNCHANGED watch_x11 => watch_x11' \in {-1, 1, 2}
           /\ UNCHANGED watched => watched' \in {"x", "inotify", "old", "none"}
           /\ UNCHANGED at => at' \in {"main", "select", "turn", "xdet", "sleep", "end"}
           /\ UNCHANGED init => init' \in {"no", "open", "failed", "watch tmp"}
           /\ UNCHANGED caller => caller' \in {"none", "main", "try", "handler", "turn"}
           /\ UNCHANGED tries => tries' \in 0..MaxTries
           /\ UNCHANGED kb => kb' \in {"none", "dpy", "closed"}
           /\ UNCHANGED missed =>
                missed' \subseteq {"unseen", "dropped", "removed", "signal"}
  <1>1. /\ UNCHANGED dir => dir' \in BOOLEAN
        /\ UNCHANGED sock => sock' \in BOOLEAN
        /\ UNCHANGED accepts => accepts' \in BOOLEAN
        /\ UNCHANGED old_ready => old_ready' \in BOOLEAN
    BY DEF XTypeOK
  <1>2. /\ UNCHANGED dpy => dpy' \in {"none", "open", "lost"}
        /\ UNCHANGED watch_tmp => watch_tmp' \in {-1, 1}
        /\ UNCHANGED watch_x11 => watch_x11' \in {-1, 1, 2}
        /\ UNCHANGED watched => watched' \in {"x", "inotify", "old", "none"}
        /\ UNCHANGED at => at' \in {"main", "select", "turn", "xdet", "sleep", "end"}
    BY DEF XTypeOK
  <1>3. /\ UNCHANGED init => init' \in {"no", "open", "failed", "watch tmp"}
        /\ UNCHANGED caller => caller' \in {"none", "main", "try", "handler", "turn"}
        /\ UNCHANGED tries => tries' \in 0..MaxTries
        /\ UNCHANGED kb => kb' \in {"none", "dpy", "closed"}
        /\ UNCHANGED missed =>
                missed' \subseteq {"unseen", "dropped", "removed", "signal"}
    BY DEF XTypeOK
  <1>4. UNCHANGED inotify =>
          inotify' \in [open : BOOLEAN, tmp : 0..1, x11 : 0..2, events : Seq(File)]
    BY DEF XTypeOK, File
  <1> QED  BY Zenon, <1>1, <1>2, <1>3, <1>4

(* A file that appears, of a server or another one. *)
LEMMA FileKeeps ==
    ASSUME XInv, NEW place \in {"tmp", "x11"}, NEW name \in {"dir", "sock", "other"},
           Created(place, name), dir' \in BOOLEAN, sock' \in BOOLEAN, UNCHANGED accepts,
           dir => dir', name = "dir" => dir', NextFileIsWatched => NextFileIsWatched'
    PROVE  XInv'
  <1>1. UNCHANGED <<dpy, watch_tmp, watch_x11, watched, at, init, caller, tries, kb, missed>>
    BY DEF Created, call
  <1>2. /\ inotify' \in [open : BOOLEAN, tmp : 0..1, x11 : 0..2, events : Seq(File)]
        /\ inotify'.open = inotify.open
        /\ inotify[place] = 0 => inotify' = inotify
        /\ old_ready' \in BOOLEAN
    BY CreatedProperties DEF XInv
  <1>a. UNCHANGED accepts
    OBVIOUS
  <1>3. XTypeOK'
    BY Zenon, <1>a, <1>1, <1>2, XTypes, XTypesKept DEF XInv
  <1>4. Attempts'
    BY <1>1 DEF XInv, Attempts
  <1>5. (inotify = NoQueue \/ inotify = NewQueue) => inotify' = inotify
    <2>1. (inotify = NoQueue \/ inotify = NewQueue) => inotify.tmp = 0 /\ inotify.x11 = 0
      BY NewQueueType DEF NoQueue
    <2> QED  BY <1>2, <2>1
  <1>6. OneOrTheOther' /\ QueueIsNew'
    BY <1>1, <1>2, <1>5 DEF XInv, OneOrTheOther, QueueIsNew
  <1>7. WatchedIsThere'
    BY <1>1, CreatedProperties DEF XInv, WatchedIsThere
  <1>8. DetectionGoesOn'
    BY <1>1, <1>2 DEF XInv, DetectionGoesOn
  <1> QED  BY <1>3, <1>4, <1>6, <1>7, <1>8 DEF XInv

LEMMA MakeDirKeeps == XInv /\ MakeDir => XInv'
  <1> SUFFICES ASSUME XInv, MakeDir PROVE XInv'
    OBVIOUS
  <1>1. Created("tmp", "dir") /\ ~ dir /\ dir' = TRUE /\ UNCHANGED <<sock, accepts>>
    BY DEF MakeDir
  <1>2. \A wd \in 1..2 : wd = inotify.tmp => Announced(wd, "dir")'
    BY <1>1, CreatedProperties DEF XInv
  <1>3. UNCHANGED <<watch_tmp, watch_x11>> /\ watch_x11 = -1
    BY <1>1 DEF Created, XInv, WatchedIsThere
  <1>4. NextFileIsWatched => NextFileIsWatched'
    <2> SUFFICES ASSUME NextFileIsWatched PROVE NextFileIsWatched'
      OBVIOUS
    <2>1. watch_tmp # -1 /\ inotify.tmp = watch_tmp /\ watch_tmp \in {-1, 1}
      BY <1>1 DEF NextFileIsWatched, XInv, XTypeOK
    <2>2. watch_tmp' = 1 /\ Announced(1, "dir")'
      BY <1>2, <1>3, <2>1
    <2>3. Announced(watch_tmp, "dir")'
      BY <2>2 DEF Announced
    <2> QED  BY <1>1, <1>3, <2>3 DEF NextFileIsWatched
  <1>5. sock' \in BOOLEAN
    BY <1>1 DEF XInv, XTypeOK
  <1> QED  BY Zenon, <1>1, <1>4, <1>5, FileKeeps

LEMMA MakeSocketKeeps == XInv /\ MakeSocket => XInv'
  <1> SUFFICES ASSUME XInv, MakeSocket PROVE XInv'
    OBVIOUS
  <1>1. Created("x11", "sock") /\ dir /\ ~ sock /\ sock' = TRUE /\ UNCHANGED <<dir, accepts>>
    BY DEF MakeSocket
  <1>2. /\ \A wd \in 1..2 : wd = inotify.x11 => Announced(wd, "sock")'
        /\ inotify'.x11 = inotify.x11
        /\ \A w, n : Announced(w, n) => Announced(w, n)'
    BY <1>1, CreatedProperties DEF XInv
  <1>3. UNCHANGED <<watch_tmp, watch_x11>>
    BY <1>1 DEF Created
  <1>4. NextFileIsWatched => NextFileIsWatched'
    <2> SUFFICES ASSUME NextFileIsWatched PROVE NextFileIsWatched'
      OBVIOUS
    <2>1. CASE watch_x11 = -1
      <3>1. Announced(watch_tmp, "dir")
        BY <1>1, <2>1 DEF NextFileIsWatched
      <3>2. ASSUME NEW w, w = watch_tmp PROVE Announced(w, "dir")'
        BY <1>2, <3>1, <3>2
      <3>3. Announced(watch_tmp, "dir")'
        BY <1>3, <3>2 DEF Announced
      <3> QED  BY <1>1, <1>3, <2>1, <3>3 DEF NextFileIsWatched
    <2>2. CASE watch_x11 # -1
      <3>0. inotify.x11 = watch_x11
        BY <1>1, <2>2 DEF NextFileIsWatched
      <3>a. watch_x11 \in {-1, 1, 2}
        BY DEF XInv, XTypeOK
      <3>1. inotify.x11 = watch_x11 /\ watch_x11 \in 1..2
        BY <2>2, <3>0, <3>a
      <3>2. ASSUME NEW w, w = watch_x11 PROVE Announced(w, "sock")'
        BY <1>2, <3>1, <3>2
      <3>3. Announced(watch_x11, "sock")'
        BY <1>3, <3>2 DEF Announced
      <3> QED  BY <1>1, <1>2, <1>3, <2>2, <3>1, <3>3 DEF NextFileIsWatched
    <2> QED  BY <2>1, <2>2
  <1>5. dir' \in BOOLEAN
    BY <1>1 DEF XInv, XTypeOK
  <1> QED  BY Zenon, <1>1, <1>4, <1>5, FileKeeps

LEMMA OtherFileKeeps == XInv /\ OtherFile => XInv'
  <1> SUFFICES ASSUME XInv, OtherFile PROVE XInv'
    OBVIOUS
  <1>1. PICK place \in {"tmp", "x11"} : Created(place, "other")
    BY DEF OtherFile
  <1>2. UNCHANGED <<dir, sock, accepts>> /\ dir' \in BOOLEAN /\ sock' \in BOOLEAN
    BY DEF OtherFile, server, XInv, XTypeOK
  <1>3. /\ inotify'.tmp = inotify.tmp /\ inotify'.x11 = inotify.x11
        /\ \A w, n : Announced(w, n) => Announced(w, n)'
        /\ UNCHANGED <<watch_tmp, watch_x11>>
    <2>1. UNCHANGED <<watch_tmp, watch_x11>>
      BY <1>1 DEF Created
    <2> QED  BY <1>1, <2>1, CreatedProperties DEF XInv
  <1>4. NextFileIsWatched => NextFileIsWatched'
    <2> SUFFICES ASSUME NextFileIsWatched PROVE NextFileIsWatched'
      OBVIOUS
    <2>1. ASSUME NEW w, w = watch_tmp, Announced(w, "dir") PROVE Announced(watch_tmp, "dir")'
      BY <1>3, <2>1 DEF Announced
    <2>2. ASSUME NEW w, w = watch_x11, Announced(w, "sock") PROVE Announced(watch_x11, "sock")'
      BY <1>3, <2>2 DEF Announced
    <2>3. Announced(watch_tmp, "dir") => Announced(watch_tmp, "dir")'
      BY <2>1
    <2>4. Announced(watch_x11, "sock") => Announced(watch_x11, "sock")'
      BY <2>2
    <2> QED  BY <1>2, <1>3, <2>3, <2>4 DEF NextFileIsWatched
  <1> QED  BY Zenon, <1>1, <1>2, <1>4, FileKeeps

LEMMA AcceptKeeps == XInv /\ Accept => XInv'
  <1> SUFFICES ASSUME XInv, Accept PROVE XInv'
    OBVIOUS
  <1>1. /\ accepts' = TRUE
        /\ UNCHANGED <<dir, sock, dpy, inotify, watch_tmp, watch_x11, watched, old_ready,
                       at, init, caller, tries, kb, missed>>
    BY DEF Accept, watch, sel, call
  <1>a. accepts' \in BOOLEAN
    BY <1>1
  <1>2. XTypeOK'
    BY Zenon, <1>1, <1>a, XTypes, XTypesKept DEF XInv
  <1>3. NextFileIsWatched' <=> NextFileIsWatched
    BY <1>1 DEF NextFileIsWatched, Announced
  <1> QED  BY <1>1, <1>2, <1>3
        DEF XInv, Attempts, OneOrTheOther, QueueIsNew, WatchedIsThere, DetectionGoesOn

LEMMA ServerEndsKeeps == XInv /\ ServerEnds => XInv'
  <1> SUFFICES ASSUME XInv, ServerEnds PROVE XInv'
    OBVIOUS
  <1>1. /\ accepts' = FALSE /\ sock' = FALSE
        /\ dpy' = IF dpy = "open" THEN "lost" ELSE dpy
        /\ UNCHANGED <<dir, inotify, watch_tmp, watch_x11, watched, old_ready,
                       at, init, caller, tries, kb, missed>>
    BY DEF ServerEnds, watch, sel, call
  <1>2. dpy' \in {"none", "open", "lost"} /\ (dpy' = "none" <=> dpy = "none")
    BY <1>1 DEF XInv, XTypeOK
  <1>a. accepts' \in BOOLEAN /\ sock' \in BOOLEAN
    BY <1>1
  <1>3. XTypeOK'
    BY Zenon, <1>1, <1>a, <1>2, XTypes, XTypesKept DEF XInv
  <1>4. NextFileIsWatched => NextFileIsWatched'
    BY <1>1 DEF NextFileIsWatched, Announced
  <1> QED  BY <1>1, <1>2, <1>3, <1>4
        DEF XInv, Attempts, OneOrTheOther, QueueIsNew, WatchedIsThere, DetectionGoesOn
-----------------------------------------------------------------------------
(* init_x11. *)

LEMMA ReturnProperties ==
    ASSUME XTypeOK, Attempts, NEW ok \in BOOLEAN, NEW closed \in BOOLEAN, Return(ok, closed)
    PROVE  /\ init' = "no" /\ caller' = "none"
           /\ tries' \in 0..MaxTries
           /\ at' \in {"main", "select", "turn", "xdet", "sleep", "end"}
           /\ at' = "sleep" => tries' \in 1..MaxTries
  <1>1. init' = "no" /\ caller' = "none"
    BY DEF Return
  <1>2. /\ MaxTries \in Nat \ {0} /\ tries \in 0..MaxTries
        /\ at \in {"main", "select", "turn", "xdet", "sleep", "end"}
    BY XConnectionAssumption DEF XTypeOK
  <1>3. CASE caller = "handler"
    <2>1. tries' = tries /\ at' \in {at, "end"}
      BY <1>3 DEF Return
    <2> QED  BY <1>1, <1>2, <2>1 DEF Attempts
  <1>4. CASE caller = "try"
    <2>1. tries \in 1..MaxTries
      BY <1>4 DEF Attempts
    <2>2. CASE ok
      <3>1. tries' = tries /\ at' = "end"
        BY <1>4, <2>2 DEF Return
      <3> QED  BY <1>1, <1>2, <3>1
    <2>3. CASE ~ ok
      <3>1. tries' = tries - 1 /\ at' = IF tries = 1 THEN "xdet" ELSE "sleep"
        BY <1>4, <2>3 DEF Return
      <3> QED  BY <1>1, <1>2, <2>1, <3>1
    <2> QED  BY <2>2, <2>3
  <1>5. CASE caller \notin {"handler", "try"}
    <2>1. tries' = tries /\ at' = "end"
      BY <1>5 DEF Return
    <2> QED  BY <1>1, <1>2, <2>1
  <1> QED  BY <1>3, <1>4, <1>5

LEMMA OpenDisplayKeeps == XInv /\ OpenDisplay => XInv'
  <1> SUFFICES ASSUME XInv, OpenDisplay PROVE XInv'
    OBVIOUS
  <1>0. /\ XTypeOK /\ Attempts /\ OneOrTheOther /\ QueueIsNew /\ WatchedIsThere
        /\ UNCHANGED <<dir, sock, accepts, watched, old_ready>>
        /\ init = "open" /\ caller # "none"
    BY DEF XInv, OpenDisplay, server, sel, Attempts
  <1>1. CASE /\ dpy # "none" /\ Return(TRUE, FALSE)
             /\ UNCHANGED <<dpy, watch, kb, missed>>
    <2>1. UNCHANGED <<inotify, watch_tmp, watch_x11>>
      BY <1>1 DEF watch
    <2>2. /\ init' = "no" /\ caller' = "none" /\ tries' \in 0..MaxTries
          /\ at' \in {"main", "select", "turn", "xdet", "sleep", "end"}
          /\ at' = "sleep" => tries' \in 1..MaxTries
      BY <1>0, <1>1, ReturnProperties
    <2>3. /\ init' \in {"no", "open", "failed", "watch tmp"}
          /\ caller' \in {"none", "main", "try", "handler", "turn"}
      BY <2>2
    <2>4. XTypeOK'
      BY Zenon, <1>0, <1>1, <2>1, <2>2, <2>3, XTypes, XTypesKept
    <2> QED  BY <1>0, <1>1, <2>1, <2>2, <2>4
          DEF XInv, Attempts, OneOrTheOther, QueueIsNew, WatchedIsThere, DetectionGoesOn
  <1>2. CASE /\ dpy = "none" /\ accepts /\ dpy' = "open"
             /\ kbemu_set_display /\ xdet_stop /\ missed' = Unwatched
             /\ Return(TRUE, watched = "inotify")
    <2>1. /\ init' = "no" /\ caller' = "none" /\ tries' \in 0..MaxTries
          /\ at' \in {"main", "select", "turn", "xdet", "sleep", "end"}
          /\ at' = "sleep" => tries' \in 1..MaxTries
      BY <1>0, <1>2, ReturnProperties
    <2>2. inotify' = NoQueue /\ watch_tmp' \in {-1, 1} /\ watch_x11' \in {-1, watch_x11}
      <3>1. watch_tmp \in {-1, 1}
        BY <1>0 DEF XTypeOK
      <3>2. CASE inotify.open
        BY <1>2, <3>1, <3>2 DEF xdet_stop
      <3>3. CASE ~ inotify.open
        BY <1>0, <1>2, <3>1, <3>3 DEF xdet_stop, watch, OneOrTheOther
      <3> QED  BY <3>2, <3>3
    <2>3. inotify' \in [open : BOOLEAN, tmp : 0..1, x11 : 0..2, events : Seq(File)]
      BY <2>2, NewQueueType
    <2>4. watch_x11' \in {-1, 1, 2}
      BY <1>0, <2>2 DEF XTypeOK
    <2>5. kb' \in {"none", "dpy", "closed"}
      BY <1>0, <1>2 DEF XTypeOK, kbemu_set_display
    <2>6. missed' \subseteq {"unseen", "dropped", "removed", "signal"}
      BY <1>2 DEF Unwatched
    <2>7. /\ init' \in {"no", "open", "failed", "watch tmp"}
          /\ caller' \in {"none", "main", "try", "handler", "turn"}
          /\ dpy' \in {"none", "open", "lost"}
      BY <1>2, <2>1
    <2>8. XTypeOK'
      BY Zenon, <1>0, <2>1, <2>2, <2>3, <2>4, <2>5, <2>6, <2>7, XTypes, XTypesKept
    <2>9. Attempts' /\ OneOrTheOther' /\ QueueIsNew' /\ DetectionGoesOn'
      BY <1>2, <2>1, <2>2 DEF Attempts, OneOrTheOther, QueueIsNew, DetectionGoesOn
    <2>10. WatchedIsThere'
      <3>1. inotify'.events = <<>>
        BY <2>2 DEF NoQueue
      <3> QED  BY <1>0, <2>2, <3>1 DEF WatchedIsThere
    <2> QED  BY <2>8, <2>9, <2>10 DEF XInv
  <1>3. CASE /\ dpy = "none" /\ ~ accepts /\ init' = "failed"
             /\ UNCHANGED <<dpy, watch, kb, missed, at, caller, tries>>
    <2>1. UNCHANGED <<inotify, watch_tmp, watch_x11>>
      BY <1>3 DEF watch
    <2>2. init' \in {"no", "open", "failed", "watch tmp"}
      BY <1>3
    <2>3. XTypeOK'
      BY Zenon, <1>0, <1>3, <2>1, <2>2, XTypes, XTypesKept
    <2> QED  BY <1>0, <1>3, <2>1, <2>3
          DEF XInv, Attempts, OneOrTheOther, QueueIsNew, WatchedIsThere, DetectionGoesOn
  <1> QED  BY <1>1, <1>2, <1>3 DEF OpenDisplay

LEMMA StartKeeps == XInv /\ xdet_start => XInv'
  <1> SUFFICES ASSUME XInv, xdet_start PROVE XInv'
    OBVIOUS
  <1>0. /\ XTypeOK /\ Attempts /\ OneOrTheOther /\ QueueIsNew /\ WatchedIsThere
        /\ UNCHANGED <<dir, sock, accepts, dpy, watch_tmp, old_ready, kb>>
        /\ init = "failed" /\ caller # "none" /\ dpy = "none"
    BY DEF XInv, xdet_start, server, Attempts, QueueIsNew
  <1>1. watched' \in {"x", "inotify", "old", "none"}
    BY <1>0 DEF XTypeOK, xdet_start
  <1>2. /\ missed' \subseteq {"unseen", "dropped", "removed", "signal"}
        /\ sock => "unseen" \in missed'
    BY <1>0 DEF XTypeOK, xdet_start, Unseen, Unwatched
  <1>3. CASE /\ dir /\ inotify' = [NewQueue EXCEPT !.x11 = 1] /\ watch_x11' = 1
             /\ Return(FALSE, FALSE)
    <2>1. /\ inotify' \in [open : BOOLEAN, tmp : 0..1, x11 : 0..2, events : Seq(File)]
          /\ inotify'.open = TRUE /\ inotify'.x11 = 1 /\ inotify'.events = <<>>
      BY <1>3, NewQueueType
    <2>2. /\ init' = "no" /\ caller' = "none" /\ tries' \in 0..MaxTries
          /\ at' \in {"main", "select", "turn", "xdet", "sleep", "end"}
          /\ at' = "sleep" => tries' \in 1..MaxTries
      BY <1>0, <1>3, ReturnProperties
    <2>3. /\ init' \in {"no", "open", "failed", "watch tmp"}
          /\ caller' \in {"none", "main", "try", "handler", "turn"}
          /\ watch_x11' \in {-1, 1, 2}
      BY <1>3, <2>2
    <2>4. XTypeOK'
      BY Zenon, <1>0, <1>1, <1>2, <2>1, <2>2, <2>3, XTypes, XTypesKept
    <2>5. Attempts' /\ OneOrTheOther' /\ QueueIsNew' /\ WatchedIsThere'
      BY <1>0, <1>3, <2>1, <2>2 DEF Attempts, OneOrTheOther, QueueIsNew, WatchedIsThere
    <2>6. sock \/ NextFileIsWatched'
      BY <1>0, <1>3, <2>1 DEF NextFileIsWatched
    <2>7. DetectionGoesOn'
      BY <1>2, <2>6 DEF DetectionGoesOn
    <2> QED  BY <2>4, <2>5, <2>7 DEF XInv
  <1>4. CASE /\ inotify' = NewQueue /\ watch_x11' = -1 /\ init' = "watch tmp"
             /\ UNCHANGED <<at, caller, tries>>
    <2>1. /\ inotify' \in [open : BOOLEAN, tmp : 0..1, x11 : 0..2, events : Seq(File)]
          /\ inotify'.open = TRUE /\ inotify'.events = <<>>
      BY <1>4, NewQueueType
    <2>2. /\ init' \in {"no", "open", "failed", "watch tmp"}
          /\ watch_x11' \in {-1, 1, 2}
      BY <1>4
    <2>3. XTypeOK'
      BY Zenon, <1>0, <1>1, <1>2, <1>4, <2>1, <2>2, XTypes, XTypesKept
    <2>4. Attempts' /\ OneOrTheOther' /\ QueueIsNew'
      BY <1>0, <1>4, <2>1 DEF Attempts, OneOrTheOther, QueueIsNew
    <2>5. 1..Len(inotify'.events) = {}
      BY <2>1
    <2>6. WatchedIsThere'
      BY <1>4, <2>5 DEF WatchedIsThere
    <2>7. DetectionGoesOn'
      BY <1>4 DEF DetectionGoesOn
    <2> QED  BY <2>3, <2>4, <2>6, <2>7 DEF XInv
  <1> QED  BY <1>3, <1>4 DEF xdet_start

LEMMA StartTmpKeeps == XInv /\ xdet_start_tmp => XInv'
  <1> SUFFICES ASSUME XInv, xdet_start_tmp PROVE XInv'
    OBVIOUS
  <1>0. /\ XTypeOK /\ Attempts /\ OneOrTheOther /\ QueueIsNew /\ WatchedIsThere
        /\ UNCHANGED <<dir, sock, accepts, dpy, watch_x11, watched, old_ready, kb>>
        /\ init = "watch tmp" /\ dpy = "none" /\ inotify = NewQueue /\ watch_x11 = -1
    BY DEF XInv, xdet_start_tmp, server, sel, QueueIsNew
  <1>1. /\ missed' \subseteq {"unseen", "dropped", "removed", "signal"}
        /\ dir => "unseen" \in missed'
    BY <1>0 DEF XTypeOK, xdet_start_tmp, Unseen
  <1>2. inotify' = [NewQueue EXCEPT !.tmp = 1] /\ watch_tmp' = 1 /\ Return(FALSE, FALSE)
    BY <1>0 DEF xdet_start_tmp
  <1>3. /\ inotify' \in [open : BOOLEAN, tmp : 0..1, x11 : 0..2, events : Seq(File)]
        /\ inotify'.open = TRUE /\ inotify'.tmp = 1 /\ inotify'.events = <<>>
    BY <1>2, NewQueueType
  <1>4. /\ init' = "no" /\ caller' = "none" /\ tries' \in 0..MaxTries
        /\ at' \in {"main", "select", "turn", "xdet", "sleep", "end"}
        /\ at' = "sleep" => tries' \in 1..MaxTries
    BY <1>0, <1>2, ReturnProperties
  <1>5. /\ init' \in {"no", "open", "failed", "watch tmp"}
        /\ caller' \in {"none", "main", "try", "handler", "turn"}
        /\ watch_tmp' \in {-1, 1}
    BY <1>2, <1>4
  <1>6. XTypeOK'
    BY Zenon, <1>0, <1>1, <1>3, <1>4, <1>5, XTypes, XTypesKept
  <1>7. Attempts' /\ OneOrTheOther' /\ QueueIsNew' /\ WatchedIsThere'
    <2>1. Attempts'
      BY <1>4 DEF Attempts
    <2>2. OneOrTheOther'
      BY <1>0, <1>3 DEF OneOrTheOther
    <2>3. QueueIsNew'
      BY <1>4 DEF QueueIsNew
    <2>4. 1..Len(inotify'.events) = {}
      BY <1>3
    <2>5. WatchedIsThere'
      BY <1>0, <2>4 DEF WatchedIsThere
    <2> QED  BY <2>1, <2>2, <2>3, <2>5
  <1>8. dir \/ NextFileIsWatched'
    <2>1. watch_tmp' # -1 /\ inotify'.tmp = watch_tmp'
      BY <1>2, <1>3
    <2> QED  BY <1>0, <2>1 DEF NextFileIsWatched
  <1>9. DetectionGoesOn'
    BY <1>1, <1>8 DEF DetectionGoesOn
  <1> QED  BY <1>6, <1>7, <1>9 DEF XInv

LEMMA CallKeeps ==
    ASSUME XInv, NEW who \in {"main", "try", "handler"}, Call(who),
           who = "main" => at = "main", who = "try" => at = "sleep"
    PROVE  XInv'
  <1>1. /\ XTypeOK /\ Attempts /\ OneOrTheOther /\ QueueIsNew /\ WatchedIsThere
        /\ UNCHANGED <<dir, sock, accepts, dpy, inotify, watch_tmp, watch_x11, watched,
                       old_ready, at, tries, kb, missed>>
        /\ init' = "open" /\ caller' = who
    BY DEF XInv, Call, server, watch, sel
  <1>2. /\ init' \in {"no", "open", "failed", "watch tmp"}
        /\ caller' \in {"none", "main", "try", "handler", "turn"}
    BY <1>1
  <1>3. XTypeOK'
    BY Zenon, <1>1, <1>2, XTypes, XTypesKept
  <1> QED  BY <1>1, <1>3
        DEF XInv, Attempts, OneOrTheOther, QueueIsNew, WatchedIsThere, DetectionGoesOn

LEMMA CallersKeep == XInv /\ (Start \/ SigUsr1 \/ TryAgain) => XInv'
  BY CallKeeps DEF Start, SigUsr1, TryAgain
-----------------------------------------------------------------------------
(* Signals that stop the connection, and the loop of the daemon. *)

LEMMA SigUsr2Keeps == XInv /\ SigUsr2 => XInv'
  <1> SUFFICES ASSUME XInv, SigUsr2 PROVE XInv'
    OBVIOUS
  <1>0. /\ XTypeOK /\ Attempts /\ OneOrTheOther /\ QueueIsNew /\ WatchedIsThere
        /\ UNCHANGED <<dir, sock, accepts, inotify, watch_tmp, watch_x11, watched, old_ready,
                       tries, missed>>
        /\ at \in {"select", "sleep"} /\ init = "no"
    BY DEF XInv, SigUsr2, server, watch, sel
  <1>1. CASE dpy = "none"
    <2>1. UNCHANGED <<dpy, kb, init, caller, at>>
      BY <1>1 DEF SigUsr2
    <2>2. XTypeOK'
      BY Zenon, <1>0, <2>1, XTypes, XTypesKept
    <2>3. NextFileIsWatched' <=> NextFileIsWatched
      BY <1>0, <2>1 DEF NextFileIsWatched, Announced
    <2> QED  BY <1>0, <2>1, <2>2, <2>3
          DEF XInv, Attempts, OneOrTheOther, QueueIsNew, WatchedIsThere, DetectionGoesOn
  <1>2. CASE dpy # "none"
    <2>1. /\ dpy' = "none" /\ kb' \in {kb, "closed"}
          /\ \/ init' = "failed" /\ caller' = "handler"
             \/ UNCHANGED <<init, caller>>
          /\ at' \in {at, "end"}
      BY <1>2 DEF SigUsr2, Close
    <2>2. /\ dpy' \in {"none", "open", "lost"} /\ kb' \in {"none", "dpy", "closed"}
          /\ init' \in {"no", "open", "failed", "watch tmp"}
          /\ caller' \in {"none", "main", "try", "handler", "turn"}
          /\ at' \in {"main", "select", "turn", "xdet", "sleep", "end"}
      BY <1>0, <2>1 DEF XTypeOK
    <2>3. XTypeOK'
      BY Zenon, <1>0, <2>2, XTypes, XTypesKept
    <2>4. inotify' = NoQueue /\ inotify'.open = FALSE
      BY <1>0, <1>2, NewQueueType DEF OneOrTheOther
    <2>5. Attempts'
      <3>1. at = "sleep" => at' = "sleep"
        BY <1>2 DEF SigUsr2
      <3> QED  BY <1>0, <2>1, <3>1 DEF Attempts
    <2>6. OneOrTheOther' /\ QueueIsNew' /\ DetectionGoesOn'
      BY <1>0, <2>1, <2>4 DEF OneOrTheOther, QueueIsNew, DetectionGoesOn
    <2>7. WatchedIsThere'
      BY <1>0 DEF WatchedIsThere
    <2> QED  BY <2>3, <2>5, <2>6, <2>7 DEF XInv
  <1> QED  BY <1>1, <1>2

LEMMA EndTurnKeeps == XInv /\ EndTurn => XInv'
  <1> SUFFICES ASSUME XInv, EndTurn PROVE XInv'
    OBVIOUS
  <1>0. /\ XTypeOK /\ Attempts /\ OneOrTheOther /\ QueueIsNew /\ WatchedIsThere
        /\ UNCHANGED <<dir, sock, accepts, dpy, inotify, watch_tmp, watch_x11,
                       init, caller, tries, kb>>
        /\ at = "end" /\ init = "no" /\ at' = "select"
        /\ old_ready' = FALSE /\ missed' = missed \ {"signal"}
    BY DEF XInv, EndTurn, server, watch
  <1>1. /\ watched' \in {"x", "inotify", "old", "none"} /\ old_ready' \in BOOLEAN
        /\ at' \in {"main", "select", "turn", "xdet", "sleep", "end"}
        /\ missed' \subseteq {"unseen", "dropped", "removed", "signal"}
    BY <1>0 DEF EndTurn, Rebuilt, XTypeOK
  <1>2. XTypeOK'
    BY Zenon, <1>0, <1>1, XTypes, XTypesKept
  <1>3. NextFileIsWatched' <=> NextFileIsWatched
    BY <1>0 DEF NextFileIsWatched, Announced
  <1>4. missed' \ {"signal"} = missed \ {"signal"}
    BY <1>0
  <1>5. DetectionGoesOn'
    BY <1>0, <1>3, <1>4 DEF XInv, DetectionGoesOn
  <1>6. Attempts' /\ OneOrTheOther' /\ QueueIsNew' /\ WatchedIsThere'
    BY <1>0 DEF Attempts, OneOrTheOther, QueueIsNew, WatchedIsThere
  <1> QED  BY <1>2, <1>5, <1>6 DEF XInv

LEMMA WakeKeeps == XInv /\ Wake => XInv'
  <1> SUFFICES ASSUME XInv, Wake PROVE XInv'
    OBVIOUS
  <1>0. /\ XTypeOK /\ Attempts /\ OneOrTheOther /\ QueueIsNew /\ WatchedIsThere
        /\ UNCHANGED <<dir, sock, accepts, inotify, watch_tmp, watch_x11, watched, old_ready,
                       tries, missed>>
        /\ at = "select" /\ init = "no"
    BY DEF XInv, Wake, server, watch, sel
  <1>1. NextFileIsWatched' <=> NextFileIsWatched
    BY <1>0 DEF NextFileIsWatched, Announced
  <1>2. ASSUME at' \in {"xdet", "end"}, UNCHANGED <<dpy, kb, init, caller>> PROVE XInv'
    <2>1. at' \in {"main", "select", "turn", "xdet", "sleep", "end"}
      BY <1>2
    <2>2. XTypeOK'
      BY Zenon, <1>0, <1>2, <2>1, XTypes, XTypesKept
    <2> QED  BY <1>0, <1>1, <1>2, <2>2
          DEF XInv, Attempts, OneOrTheOther, QueueIsNew, WatchedIsThere, DetectionGoesOn
  <1>3. ASSUME at' = "turn", dpy' = "none", kb' = IF kb = "dpy" THEN "closed" ELSE kb,
               init' = "failed", caller' = "turn"
        PROVE  XInv'
    <2>1. /\ at' \in {"main", "select", "turn", "xdet", "sleep", "end"}
          /\ dpy' \in {"none", "open", "lost"} /\ kb' \in {"none", "dpy", "closed"}
          /\ init' \in {"no", "open", "failed", "watch tmp"}
          /\ caller' \in {"none", "main", "try", "handler", "turn"}
      BY <1>0, <1>3 DEF XTypeOK
    <2>2. XTypeOK'
      BY Zenon, <1>0, <2>1, XTypes, XTypesKept
    <2> QED  BY <1>0, <1>3, <2>2
          DEF XInv, Attempts, OneOrTheOther, QueueIsNew, WatchedIsThere, DetectionGoesOn
  <1> QED  BY <1>2, <1>3 DEF Wake

LEMMA IdleKeeps == XInv /\ (OtherWake \/ NoMoreEvents) => XInv'
  <1> SUFFICES ASSUME XInv, OtherWake \/ NoMoreEvents PROVE XInv'
    OBVIOUS
  <1>1. /\ XTypeOK /\ Attempts /\ OneOrTheOther /\ QueueIsNew /\ WatchedIsThere
        /\ UNCHANGED <<dir, sock, accepts, dpy, inotify, watch_tmp, watch_x11, watched,
                       old_ready, init, caller, tries, kb, missed>>
        /\ at \in {"select", "xdet"} /\ at' = "end"
    BY DEF XInv, OtherWake, NoMoreEvents, server, watch, sel
  <1>2. at' \in {"main", "select", "turn", "xdet", "sleep", "end"}
    BY <1>1
  <1>3. XTypeOK'
    BY Zenon, <1>1, <1>2, XTypes, XTypesKept
  <1>4. NextFileIsWatched' <=> NextFileIsWatched
    BY <1>1 DEF NextFileIsWatched, Announced
  <1> QED  BY <1>1, <1>3, <1>4
        DEF XInv, Attempts, OneOrTheOther, QueueIsNew, WatchedIsThere, DetectionGoesOn

(***************************************************************************)
(* The rest of a batch of events is lost, and with the watch of /tmp that  *)
(* is given back, maybe the one of the socket; the history says so.        *)
(***************************************************************************)
LEMMA ReadEventsKeeps == XInv /\ ReadEvents => XInv'
  <1> SUFFICES ASSUME XInv, ReadEvents PROVE XInv'
    OBVIOUS
  <1> DEFINE q == inotify.events
             ev == Head(q)
             dropped == \E e \in ToSet(Tail(q)) : e.name \in {"dir", "sock"}
             wrong == ev.wd = watch_tmp /\ watch_x11 # -1 /\ ev.wd = inotify.x11
  <1>0. /\ XTypeOK /\ Attempts /\ OneOrTheOther /\ QueueIsNew /\ WatchedIsThere
        /\ UNCHANGED <<dir, sock, accepts, dpy, watch_tmp, watched, old_ready, init, caller, kb>>
        /\ at = "xdet" /\ init = "no" /\ q # <<>>
    BY DEF XInv, ReadEvents, server, sel
  <1>1. /\ inotify \in [open : BOOLEAN, tmp : 0..1, x11 : 0..2, events : Seq(File)]
        /\ watch_tmp \in {-1, 1} /\ watch_x11 \in {-1, 1, 2}
    BY <1>0 DEF XTypeOK, File
  <1>2. q \in Seq(File) /\ Len(q) \in Nat /\ 1 \in 1..Len(q) /\ ev = q[1] /\ ev \in File
    BY <1>0, <1>1, EmptySeq
  <1>3. ASSUME NEW i \in 1..Len(q), i # 1, q[i].name \in {"dir", "sock"} PROVE dropped
    <2>1. Tail(q) \in Seq(File) /\ Len(Tail(q)) = Len(q) - 1 /\ Tail(q)[i - 1] = q[i]
      BY <1>0, <1>2, <1>3
    <2>2. i - 1 \in DOMAIN Tail(q)
      BY <1>2, <1>3, <2>1
    <2>3. q[i] \in ToSet(Tail(q))
      BY <2>1, <2>2 DEF ToSet
    <2> QED  BY <1>3, <2>3
  <1>4. ASSUME NEW w, NEW name \in {"dir", "sock"}, Announced(w, name)
        PROVE  dropped \/ (ev.wd = w /\ ev.name = name)
    <2>1. PICK i \in 1..Len(q) : q[i] = [wd |-> w, name |-> name]
      BY <1>4 DEF Announced
    <2>2. q[i].wd = w /\ q[i].name = name
      BY <2>1
    <2>3. CASE i = 1
      BY <1>2, <2>2, <2>3
    <2>4. CASE i # 1
      <3>1. i \in 1..Len(q) /\ q[i].name \in {"dir", "sock"}
        BY <2>2
      <3> QED  BY Zenon, <1>3, <2>4, <3>1
    <2> QED  BY Zenon, <2>3, <2>4
  <1>5. inotify # NoQueue /\ dpy = "none" /\ inotify.open
    <2>1. inotify # NoQueue
      BY <1>0, NewQueueType
    <2> QED  BY <1>0, <2>1 DEF OneOrTheOther
  <1>6. missed' = missed \cup (IF dropped THEN {"dropped"} ELSE {})
                         \cup (IF wrong THEN {"removed"} ELSE {})
    BY DEF ReadEvents
  <1>7. \/ NextFileIsWatched /\ ~ dropped /\ ~ wrong
        \/ missed' \ {"signal"} # {}
    <2>1. NextFileIsWatched \/ missed \ {"signal"} # {}
      BY <1>0, <1>5 DEF XInv, DetectionGoesOn
    <2>2. dropped => "dropped" \in missed'
      BY <1>6
    <2>3. wrong => "removed" \in missed'
      BY <1>6
    <2>4. missed \subseteq missed'
      BY <1>6
    <2> QED  BY <2>1, <2>2, <2>3, <2>4
  <1>8. missed' \subseteq {"unseen", "dropped", "removed", "signal"}
    BY <1>0, <1>6 DEF XTypeOK
  <1>9. /\ Announced(watch_tmp, "dir") => dropped \/ (ev.wd = watch_tmp /\ ev.name = "dir")
        /\ Announced(watch_x11, "sock") => dropped \/ (ev.wd = watch_x11 /\ ev.name = "sock")
    <2>1. ASSUME NEW w, w = watch_tmp, Announced(w, "dir")
          PROVE  dropped \/ (ev.wd = watch_tmp /\ ev.name = "dir")
      BY <1>4, <2>1
    <2>2. ASSUME NEW w, w = watch_x11, Announced(w, "sock")
          PROVE  dropped \/ (ev.wd = watch_x11 /\ ev.name = "sock")
      BY <1>4, <2>2
    <2> QED  BY <2>1, <2>2
  <1> HIDE DEF dropped, wrong
  <1>10. CASE ev.wd = watch_tmp /\ watch_x11 # -1 /\ RemoveWatch(watch_tmp)
              /\ UNCHANGED <<watch_x11, at, tries>>
    <2>1. /\ inotify' \in [open : BOOLEAN, tmp : 0..1, x11 : 0..2, events : Seq(File)]
          /\ inotify'.open = inotify.open
          /\ inotify'.x11 = IF inotify.x11 = watch_tmp THEN 0 ELSE inotify.x11
          /\ \A i \in 1..Len(inotify'.events) : inotify'.events[i].name = "ignored"
      <3>1. [wd |-> watch_tmp, name |-> "ignored"] \in File
        BY <1>1, <1>2, <1>10 DEF File
      <3> DEFINE rest == IF watch_tmp \in {inotify.tmp, inotify.x11}
                         THEN <<[wd |-> watch_tmp, name |-> "ignored"]>> ELSE <<>>
      <3>2. /\ rest \in Seq(File)
            /\ \A i \in 1..Len(rest) : rest[i].name = "ignored"
        BY <3>1
      <3> DEFINE tmp == IF inotify.tmp = watch_tmp THEN 0 ELSE inotify.tmp
                 x11 == IF inotify.x11 = watch_tmp THEN 0 ELSE inotify.x11
      <3>3. inotify' = [inotify EXCEPT !.tmp = tmp, !.x11 = x11, !.events = rest]
        BY <1>1, <1>10 DEF RemoveWatch
      <3>4. tmp \in 0..1 /\ x11 \in 0..2
        BY <1>1
      <3>5. x11 = IF inotify.x11 = watch_tmp THEN 0 ELSE inotify.x11
        OBVIOUS
      <3> HIDE DEF rest, tmp, x11
      <3>6. /\ inotify' \in [open : BOOLEAN, tmp : 0..1, x11 : 0..2, events : Seq(File)]
            /\ inotify'.open = inotify.open /\ inotify'.x11 = x11 /\ inotify'.events = rest
        BY <1>1, <3>2, <3>3, <3>4
      <3> QED  BY <3>2, <3>5, <3>6
    <2>2. XTypeOK'
      BY Zenon, <1>0, <1>8, <1>10, <2>1, XTypes, XTypesKept
    <2>3. Attempts' /\ OneOrTheOther' /\ QueueIsNew' /\ WatchedIsThere'
      <3>1. Attempts' /\ QueueIsNew'
        BY <1>0, <1>10 DEF Attempts, QueueIsNew
      <3>2. OneOrTheOther'
        BY <1>0, <1>5, <2>1 DEF OneOrTheOther
      <3>3. WatchedIsThere'
        BY <1>0, <1>10, <2>1 DEF WatchedIsThere
      <3> QED  BY <3>1, <3>2, <3>3
    <2>4. ASSUME NextFileIsWatched, ~ dropped, ~ wrong PROVE NextFileIsWatched'
      <3>1. inotify.x11 # watch_tmp
        BY <1>10, <2>4 DEF wrong
      <3>2. dir /\ inotify.x11 = watch_x11 /\ (sock => Announced(watch_x11, "sock"))
        BY <1>0, <1>10, <2>4 DEF NextFileIsWatched, WatchedIsThere
      <3>3. ~ sock
        BY <1>9, <1>10, <2>4, <3>1, <3>2
      <3> QED  BY <1>0, <1>10, <2>1, <3>1, <3>2, <3>3 DEF NextFileIsWatched
    <2>5. DetectionGoesOn'
      BY <1>7, <2>4 DEF DetectionGoesOn
    <2> QED  BY <2>2, <2>3, <2>5 DEF XInv
  <1>11. ASSUME at' = "sleep", tries' = MaxTries, watch_x11' \in {watch_x11, 2},
                watch_x11' # -1 => dir,
                \/ inotify' = [inotify EXCEPT !.x11 = 2, !.events = <<>>]
                \/ inotify' = [inotify EXCEPT !.events = <<>>]
         PROVE  XInv'
    <2>1. /\ inotify' \in [open : BOOLEAN, tmp : 0..1, x11 : 0..2, events : Seq(File)]
          /\ inotify'.open = inotify.open /\ inotify'.events = <<>>
      <3>1. <<>> \in Seq(File) /\ 2 \in 0..2
        OBVIOUS
      <3> QED  BY <1>1, <1>11, <3>1
    <2>2. /\ at' \in {"main", "select", "turn", "xdet", "sleep", "end"}
          /\ tries' \in 0..MaxTries /\ tries' \in 1..MaxTries /\ watch_x11' \in {-1, 1, 2}
      BY <1>1, <1>11, XConnectionAssumption
    <2>3. XTypeOK'
      BY Zenon, <1>0, <1>8, <2>1, <2>2, XTypes, XTypesKept
    <2>4. Attempts' /\ QueueIsNew' /\ DetectionGoesOn'
      BY <1>0, <1>11, <2>2 DEF Attempts, QueueIsNew, DetectionGoesOn
    <2>5. OneOrTheOther'
      BY <1>0, <1>5, <2>1 DEF OneOrTheOther
    <2>6. 1..Len(inotify'.events) = {}
      BY <2>1
    <2>7. WatchedIsThere'
      BY <1>0, <1>11, <2>6 DEF WatchedIsThere
    <2> QED  BY <2>3, <2>4, <2>5, <2>7 DEF XInv
  <1>12. CASE /\ ev.wd = watch_tmp /\ watch_x11 = -1 /\ ev.name = "dir"
              /\ inotify' = [inotify EXCEPT !.x11 = 2, !.events = <<>>]
              /\ watch_x11' = 2 /\ try_xconnect
    <2>1. dir
      BY <1>0, <1>2, <1>12 DEF WatchedIsThere
    <2> QED  BY <1>11, <1>12, <2>1 DEF try_xconnect
  <1>13. CASE /\ ev.wd # watch_tmp /\ ev.wd = watch_x11 /\ ev.name = "sock"
              /\ inotify' = [inotify EXCEPT !.events = <<>>]
              /\ try_xconnect /\ UNCHANGED watch_x11
    <2>1. watch_x11 # -1 => dir
      BY <1>0 DEF WatchedIsThere
    <2> QED  BY <1>11, <1>13, <2>1 DEF try_xconnect
  <1>14. CASE /\ \/ ev.wd = watch_tmp /\ watch_x11 = -1 /\ ev.name # "dir"
                 \/ ev.wd # watch_tmp /\ (ev.wd # watch_x11 \/ ev.name # "sock")
              /\ inotify' = [inotify EXCEPT !.events = <<>>]
              /\ UNCHANGED <<watch_x11, at, tries>>
    <2>1. /\ inotify' \in [open : BOOLEAN, tmp : 0..1, x11 : 0..2, events : Seq(File)]
          /\ inotify'.open = inotify.open /\ inotify'.events = <<>>
          /\ inotify'.tmp = inotify.tmp /\ inotify'.x11 = inotify.x11
      <3>1. <<>> \in Seq(File)
        OBVIOUS
      <3> QED  BY <1>1, <1>14, <3>1
    <2>2. XTypeOK'
      BY Zenon, <1>0, <1>8, <1>14, <2>1, XTypes, XTypesKept
    <2>3. Attempts' /\ QueueIsNew'
      BY <1>0, <1>14 DEF Attempts, QueueIsNew
    <2>4. OneOrTheOther'
      BY <1>0, <1>5, <2>1 DEF OneOrTheOther
    <2>5. 1..Len(inotify'.events) = {}
      BY <2>1
    <2>6. WatchedIsThere'
      BY <1>0, <1>14, <2>5 DEF WatchedIsThere
    <2>7. ASSUME NextFileIsWatched, ~ dropped, ~ wrong PROVE NextFileIsWatched'
      <3>1. CASE ~ dir /\ watch_tmp # -1 /\ inotify.tmp = watch_tmp
        BY <1>0, <2>1, <3>1 DEF NextFileIsWatched
      <3>2. CASE dir /\ watch_x11 = -1 /\ Announced(watch_tmp, "dir")
        BY <1>9, <1>14, <2>7, <3>2
      <3>3. CASE /\ dir /\ watch_x11 # -1 /\ inotify.x11 = watch_x11
                 /\ sock => Announced(watch_x11, "sock")
        <4>1. ~ sock
          BY <1>9, <1>14, <2>7, <3>3
        <4> QED  BY <1>0, <1>14, <2>1, <3>3, <4>1 DEF NextFileIsWatched
      <3> QED  BY <2>7, <3>1, <3>2, <3>3 DEF NextFileIsWatched
    <2>8. DetectionGoesOn'
      BY <1>7, <2>7 DEF DetectionGoesOn
    <2> QED  BY <2>2, <2>3, <2>4, <2>6, <2>8 DEF XInv
  <1> QED  BY <1>10, <1>12, <1>13, <1>14 DEF ReadEvents
-----------------------------------------------------------------------------
LEMMA XNextInv == XInv /\ [XNext]_xvars => XInv'
  <1> SUFFICES ASSUME XInv, [XNext]_xvars PROVE XInv'
    OBVIOUS
  <1>1. CASE UNCHANGED xvars
    <2>1. UNCHANGED <<dir, sock, accepts, dpy, inotify, watch_tmp, watch_x11, watched,
                      old_ready, at, init, caller, tries, kb, missed>>
      BY <1>1 DEF xvars, server, watch, sel, call
    <2>2. XTypeOK'
      BY Zenon, <2>1, XTypes, XTypesKept DEF XInv
    <2>3. NextFileIsWatched' <=> NextFileIsWatched
      BY <2>1 DEF NextFileIsWatched, Announced
    <2> QED  BY <2>1, <2>2, <2>3
          DEF XInv, Attempts, OneOrTheOther, QueueIsNew, WatchedIsThere, DetectionGoesOn
  <1>2. CASE XDaemon
    BY Zenon, <1>2, CallersKeep, OpenDisplayKeeps, StartKeeps, StartTmpKeeps, EndTurnKeeps,
       WakeKeeps, ReadEventsKeeps, IdleKeeps DEF XDaemon
  <1>3. CASE World
    BY Zenon, <1>3, MakeDirKeeps, MakeSocketKeeps, OtherFileKeeps, AcceptKeeps, ServerEndsKeeps,
       CallersKeep, SigUsr2Keeps, IdleKeeps DEF World
  <1> QED  BY Zenon, <1>1, <1>2, <1>3 DEF XNext

LEMMA XInvariance == XSpec => []XInv
  <1> QED  BY PTL, XInitInv, XNextInv DEF XSpec

LEMMA XInvIsEnough == XInv => XIsAwaited
  <1> SUFFICES ASSUME XInv PROVE XIsAwaited
    OBVIOUS
  <1>1. ASSUME Waiting, missed = {} PROVE Awaited
    <2>1. NextFileIsWatched
      BY <1>1 DEF XInv, DetectionGoesOn, Waiting
    <2>2. ASSUME NEW w, NEW name, Announced(w, name) PROVE inotify.events # <<>>
      BY <2>2 DEF Announced
    <2>3. CASE ~ dir /\ watch_tmp # -1 /\ inotify.tmp = watch_tmp
      BY <2>3 DEF Awaited
    <2>4. CASE dir /\ watch_x11 = -1 /\ Announced(watch_tmp, "dir")
      BY <2>2, <2>4 DEF Awaited
    <2>5. CASE /\ dir /\ watch_x11 # -1 /\ inotify.x11 = watch_x11
               /\ sock => Announced(watch_x11, "sock")
      BY <2>2, <2>5 DEF Awaited
    <2> QED  BY <2>1, <2>3, <2>4, <2>5 DEF NextFileIsWatched
  <1> QED  BY <1>1 DEF XInv, XIsAwaited, WatchesRightPlace

(***************************************************************************)
(* While the daemon sleeps and waits for a server, the place where the     *)
(* server's next file appears is watched by the watch that xdetect_linux.c *)
(* believes in, or its event waits: for any number of servers, signals and *)
(* other files, but for the reasons the history names.                     *)
(***************************************************************************)
THEOREM ServerIsAwaited == XSpec => []XIsAwaited
  <1> QED  BY PTL, XInvariance, XInvIsEnough
=============================================================================
