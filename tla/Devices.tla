------------------------------- MODULE Devices -------------------------------
(***************************************************************************)
(* The devices of the daemon: the device list (dev.c), the accumulated     *)
(* events of each device (dev_ev_list in event.c), the loop of             *)
(* handle_events that reads the devices (spnavd.c), read errors            *)
(* (dev_usb_linux.c) and the scan that opens new devices                   *)
(* (init_devices_usb).                                                     *)
(*                                                                         *)
(* A device is known by the address of its struct device.  Freed addresses *)
(* are given out again: get_dev_event and the lists compare addresses, so  *)
(* what is left behind under an address matters.                           *)
(*                                                                         *)
(* Client programs are one observer that selected no device (client->dev   *)
(* is 0; set_client_device has no caller) and asked for every kind of      *)
(* event.                                                                  *)
(***************************************************************************)
EXTENDS Integers, Sequences, FiniteSets

CONSTANTS Path,       \* device files
          Addr,       \* addresses malloc can return for a device
          None,       \* a null pointer
          IdLimit,    \* last_id is an unsigned short: 65536
          MaxInput    \* bound: unread events per device

DevEvent == [pending : BOOLEAN, moved : BOOLEAN]

ASSUME DevicesAssumption ==
    /\ None \notin Addr \cup DevEvent
    /\ IdLimit \in Nat \ {0} /\ MaxInput \in Nat

Id == 0..IdLimit-1
Items == {"move", "rest", "syn", "button", "msc"}

VARIABLES
    pc,         \* "select", "devices", "read", "flush", "scan"
    present,    \* device files that exist
    dev_list,   \* addresses, newest device first
    dev,        \* address -> path, id, the device behind fd is there
    inq,        \* address -> unread input
    dev_ev,     \* address -> [pending, moved], or None: dev_ev_list
    last_id,
    rset,       \* devices select reported
    cur, nxt,   \* the device being read, the saved next pointer
    known,      \* ids the observer was told of and not told to forget
    moving,     \* ids whose last motion event seen was not at rest
    missed,     \* history: ids whose input was withheld from the observer
    wrapped     \* history: last_id has wrapped around

world    == <<present, inq>>
lists    == <<dev_list, dev, dev_ev, last_id, wrapped>>
loop     == <<pc, rset, cur, nxt>>
observer == <<known, moving, missed>>
vars == <<world, lists, loop, observer>>

Listed == {dev_list[k] : k \in DOMAIN dev_list}
Free   == Addr \ Listed
Ids(as) == {dev[a].id : a \in as}
NoDev == [path |-> None, id |-> 0, there |-> FALSE]
Blank == [pending |-> FALSE, moved |-> FALSE]    \* calloc in add_dev_event

(* The list holds every address once. *)
Place(a) == CHOOSE i \in DOMAIN dev_list : dev_list[i] = a

(* dev->next, and the list with a unlinked. *)
NextOf(a) == IF Place(a) = Len(dev_list) THEN None ELSE dev_list[Place(a) + 1]
Unlinked(a) == SubSeq(dev_list, 1, Place(a) - 1)
               \o SubSeq(dev_list, Place(a) + 1, Len(dev_list))

(* Mutant of dev_path_in_use: a device that is gone does not count.        *)
PathInUseIfThere(p) == \E a \in Listed : dev[a].path = p /\ dev[a].there

dev_path_in_use(p) == \E a \in Listed : dev[a].path = p

Init ==
    /\ pc = "select" /\ rset = {} /\ cur = None /\ nxt = None
    /\ present = {}
    /\ dev_list = <<>> /\ dev = [a \in Addr |-> NoDev]
    /\ inq = [a \in Addr |-> <<>>]
    /\ dev_ev = [a \in Addr |-> None]
    /\ last_id = 0 /\ wrapped = FALSE
    /\ known = {} /\ moving = {} /\ missed = {}
-----------------------------------------------------------------------------
(* The user and the kernel. *)

Plug(p) ==
    /\ p \notin present
    /\ present' = present \cup {p}
    /\ UNCHANGED <<inq, lists, loop, observer>>

(* An open descriptor of the device answers ENODEV from now on, also when  *)
(* the same file comes back.                                               *)
Unplug(p) ==
    /\ p \in present
    /\ present' = present \ {p}
    /\ dev' = [a \in Addr |-> IF dev[a].path = p THEN [dev[a] EXCEPT !.there = FALSE]
                              ELSE dev[a]]
    /\ inq' = [a \in Addr |-> IF dev[a].path = p THEN <<>> ELSE inq[a]]
    /\ UNCHANGED <<dev_list, dev_ev, last_id, wrapped, loop, observer>>

Move(a, item) ==
    /\ a \in Listed /\ dev[a].there /\ Len(inq[a]) < MaxInput
    /\ inq' = [inq EXCEPT ![a] = Append(@, item)]
    /\ UNCHANGED <<present, lists, loop, observer>>
-----------------------------------------------------------------------------
(* Events to the observer. *)

(* dispatch_event: a client without a device of its own compares the       *)
(* sender with get_client_device, which is the head of the list.           *)
Dispatched(a) == a = Head(dev_list)

SendMotion(a) ==
    /\ IF Dispatched(a)
       THEN moving' = IF dev_ev[a].moved THEN moving \cup {dev[a].id}
                      ELSE moving \ {dev[a].id}
       ELSE UNCHANGED moving
    /\ missed' = IF Dispatched(a) THEN missed ELSE missed \cup {dev[a].id}
-----------------------------------------------------------------------------
(* handle_events. *)

Ready(a) == inq[a] # <<>> \/ ~ dev[a].there

Select ==
    /\ pc = "select"
    /\ rset' = {a \in Listed : Ready(a)}
    /\ rset' # {} \/ \E p \in present : ~ dev_path_in_use(p)
    /\ cur' = IF dev_list = <<>> THEN None ELSE Head(dev_list)
    /\ pc' = "devices"
    /\ UNCHANGED <<nxt, world, lists, observer>>

(* The next pointer is kept, since reading may destroy the device. *)
VisitDevice ==
    /\ pc = "devices" /\ cur # None
    /\ nxt' = NextOf(cur)
    /\ IF cur \in rset THEN pc' = "read" /\ UNCHANGED cur
                       ELSE cur' = nxt' /\ UNCHANGED pc
    /\ UNCHANGED <<rset, world, lists, observer>>

EndOfDevices ==
    /\ pc = "devices" /\ cur = None
    /\ pc' = "scan"
    /\ UNCHANGED <<rset, cur, nxt, world, lists, observer>>

get_dev_event(a) == IF dev_ev[a] = None THEN Blank ELSE dev_ev[a]

(* Mutant of Accumulate: the return to rest is not pending.                *)
AccumulateMoves(item) ==
    /\ item \in {"move", "rest"}
    /\ dev_ev' = [dev_ev EXCEPT ![cur] = [pending |-> get_dev_event(cur).pending \/ item = "move",
                                          moved |-> item = "move"]]
    /\ UNCHANGED <<pc, observer>>

(* process_input, case INP_MOTION: accumulate. *)
Accumulate(item) ==
    /\ item \in {"move", "rest"}
    /\ dev_ev' = [dev_ev EXCEPT ![cur] = [pending |-> TRUE, moved |-> item = "move"]]
    /\ UNCHANGED <<pc, observer>>

(* case INP_FLUSH: dispatch what has accumulated. *)
Flush(item) ==
    /\ item = "syn"
    /\ dev_ev' = [dev_ev EXCEPT ![cur] = [get_dev_event(cur) EXCEPT !.pending = FALSE]]
    /\ IF get_dev_event(cur).pending THEN SendMotion(cur) ELSE UNCHANGED <<moving, missed>>
    /\ UNCHANGED <<pc, known>>

(* Mutant of Button: pending motion waits for its flush.                   *)
ButtonFirst(item) ==
    /\ item = "button"
    /\ dev_ev' = [dev_ev EXCEPT ![cur] = get_dev_event(cur)]
    /\ missed' = IF Dispatched(cur) THEN missed ELSE missed \cup {dev[cur].id}
    /\ UNCHANGED <<pc, known, moving>>

(* case INP_BUTTON: pending motion goes first, then the button. *)
Button(item) ==
    /\ item = "button"
    /\ dev_ev' = [dev_ev EXCEPT ![cur] = [get_dev_event(cur) EXCEPT !.pending = FALSE]]
    /\ IF get_dev_event(cur).pending
       THEN SendMotion(cur)
       ELSE /\ missed' = IF Dispatched(cur) THEN missed ELSE missed \cup {dev[cur].id}
            /\ UNCHANGED moving
    /\ UNCHANGED <<pc, known>>

(* read_evdev answers -1: what is left is read another time. *)
Ignored(item) ==
    /\ item = "msc"
    /\ pc' = "flush"
    /\ UNCHANGED <<dev_ev, observer>>

ReadItem ==
    /\ pc = "read" /\ dev[cur].there /\ inq[cur] # <<>>
    /\ LET item == Head(inq[cur])
       IN  Accumulate(item) \/ Flush(item) \/ Button(item) \/ Ignored(item)
    /\ inq' = [inq EXCEPT ![cur] = Tail(@)]
    /\ UNCHANGED <<rset, cur, nxt, present, dev_list, dev, last_id, wrapped>>

ReadNothing ==
    /\ pc = "read" /\ dev[cur].there /\ inq[cur] = <<>>
    /\ pc' = "flush"
    /\ UNCHANGED <<rset, cur, nxt, world, lists, observer>>

(* Mutants of remove_device: the dev_event is kept; DEV_RM is not sent.    *)
RemoveKeepsEvent(a) ==
    /\ dev_list' = Unlinked(a)
    /\ dev' = [dev EXCEPT ![a] = NoDev]
    /\ inq' = [inq EXCEPT ![a] = <<>>]
    /\ known' = known \ {dev[a].id}
    /\ moving' = moving \ {dev[a].id} /\ missed' = missed \ {dev[a].id}
    /\ UNCHANGED dev_ev

RemoveSilently(a) ==
    /\ dev_list' = Unlinked(a)
    /\ dev_ev' = [dev_ev EXCEPT ![a] = None]
    /\ dev' = [dev EXCEPT ![a] = NoDev]
    /\ inq' = [inq EXCEPT ![a] = <<>>]
    /\ UNCHANGED <<known, moving, missed>>

(* remove_device(a): unlink, remove_dev_event, broadcast DEV_RM, free. *)
remove_device(a) ==
    /\ dev_list' = Unlinked(a)
    /\ dev_ev' = [dev_ev EXCEPT ![a] = None]
    /\ dev' = [dev EXCEPT ![a] = NoDev]
    /\ inq' = [inq EXCEPT ![a] = <<>>]
    /\ known' = known \ {dev[a].id}
    /\ moving' = moving \ {dev[a].id} /\ missed' = missed \ {dev[a].id}

(* read fails with ENODEV: read_evdev removes the device.  The observer      *)
(* forgets it on DEV_RM.                                                   *)
ReadError ==
    /\ pc = "read" /\ ~ dev[cur].there
    /\ remove_device(cur)
    /\ pc' = "flush"
    /\ UNCHANGED <<rset, cur, nxt, present, last_id, wrapped>>

(***************************************************************************)
(* The implicit flush when the input runs out.  It is also done after a    *)
(* read error, with the address of the device just freed: process_input    *)
(* then adds a dev_event for that address.                                 *)
(***************************************************************************)
FlushDevice ==
    /\ pc = "flush"
    /\ dev_ev' = [dev_ev EXCEPT ![cur] = [get_dev_event(cur) EXCEPT !.pending = FALSE]]
    /\ IF get_dev_event(cur).pending THEN SendMotion(cur) ELSE UNCHANGED <<moving, missed>>
    /\ cur' = nxt
    /\ pc' = "devices"
    /\ UNCHANGED <<rset, nxt, world, dev_list, dev, last_id, wrapped, known>>

(* init_devices_usb, one device file at a time: add_device ... *)
add_device(a, p, there) ==
    /\ dev_list' = <<a>> \o dev_list
    /\ dev' = [dev EXCEPT ![a] = [path |-> p, id |-> last_id, there |-> there]]
    /\ last_id' = (last_id + 1) % IdLimit
    /\ wrapped' = (wrapped \/ last_id' = 0)

(* ... and open_dev_usb succeeds: DEV_ADD is broadcast, *)
OpenDevice(p, a) ==
    /\ pc = "scan"
    /\ p \in present /\ ~ dev_path_in_use(p) /\ a \in Free
    /\ add_device(a, p, TRUE)
    /\ known' = known \cup {last_id}
    /\ UNCHANGED <<loop, world, dev_ev, moving, missed>>

(* or fails: the device is listed, then removed again.  The list is left   *)
(* as it was, the id is spent and DEV_RM is broadcast for it.              *)
FailOpen(p, a) ==
    /\ pc = "scan"
    /\ p \in present /\ ~ dev_path_in_use(p) /\ a \in Free
    /\ last_id' = (last_id + 1) % IdLimit
    /\ wrapped' = (wrapped \/ last_id' = 0)
    /\ dev_ev' = [dev_ev EXCEPT ![a] = None]
    /\ known' = known \ {last_id}
    /\ UNCHANGED <<loop, world, dev_list, dev, moving, missed>>

EndOfScan ==
    /\ pc = "scan" /\ pc' = "select"
    /\ cur' = None /\ nxt' = None /\ rset' = {}
    /\ UNCHANGED <<world, lists, observer>>

Daemon ==
    \/ Select \/ VisitDevice \/ EndOfDevices
    \/ ReadItem \/ ReadNothing \/ ReadError \/ FlushDevice \/ EndOfScan

Next ==
    \/ \E p \in Path : Plug(p) \/ Unplug(p)
    \/ \E a \in Addr, item \in Items : Move(a, item)
    \/ Daemon
    \/ \E p \in Path, a \in Addr : OpenDevice(p, a) \/ FailOpen(p, a)

Spec == Init /\ [][Next]_vars

-----------------------------------------------------------------------------
TypeOK ==
    /\ pc \in {"select", "devices", "read", "flush", "scan"}
    /\ present \subseteq Path
    /\ dev_list \in Seq(Addr)
    /\ dev \in [Addr -> [path : Path \cup {None}, id : Id, there : BOOLEAN]]
    /\ inq \in [Addr -> Seq(Items)]
    /\ dev_ev \in [Addr -> DevEvent \cup {None}]
    /\ last_id \in Id /\ wrapped \in BOOLEAN
    /\ rset \subseteq Addr /\ cur \in Addr \cup {None} /\ nxt \in Addr \cup {None}
    /\ known \subseteq Id /\ moving \subseteq Id /\ missed \subseteq Id

(***************************************************************************)
(* No device file is open twice and no device is listed twice, even when a *)
(* device comes back under its old file before its read error is seen.     *)
(***************************************************************************)
OpenedOnce ==
    \A i, j \in DOMAIN dev_list :
        i # j => /\ dev_list[i] # dev_list[j]
                 /\ dev[dev_list[i]].path # dev[dev_list[j]].path

(***************************************************************************)
(* What the observer was told by DEV_ADD and DEV_RM are the devices that   *)
(* are open, under different ids, until last_id wraps around; DEV_RM for a *)
(* device that was never announced does no harm.                           *)
(***************************************************************************)
ObserverKnowsDevices ==
    \/ wrapped
    \/ /\ known = Ids(Listed)
       /\ \A a, b \in Listed : a # b => dev[a].id # dev[b].id

(***************************************************************************)
(* A dev_event left behind under a freed address carries no motion: the    *)
(* next device at that address starts as if it had none.                   *)
(***************************************************************************)
OrphansAreBlank == \A a \in Free : dev_ev[a] \in {None, Blank}

(* The daemon never sleeps on motion it has accumulated and not sent. *)
NothingPendingAsleep ==
    pc = "select" => \A a \in Addr : ~ get_dev_event(a).pending

(***************************************************************************)
(* What the observer saw of a device's motion last is where the device is, *)
(* unless it has been denied some of that device's events.                 *)
(***************************************************************************)
MotionIsCurrent ==
    pc = "select" /\ ~ wrapped =>
        \A a \in Listed : dev[a].id \in missed
                        \/ (dev[a].id \in moving) = get_dev_event(a).moved

(***************************************************************************)
(* "Button events ... implicitly flush any pending motion event"           *)
(* (event.c:195): when a button event arrives the observer has seen all    *)
(* the motion that came before it.                                         *)
(***************************************************************************)
MotionBeforeButton ==
    [][(ReadItem /\ Head(inq[cur]) = "button"
        /\ ~ wrapped /\ dev[cur].id \notin missed') =>
           (dev[cur].id \in moving') = dev_ev'[cur].moved]_vars

(***************************************************************************)
(* "if the client has selected a single device to get input from, then     *)
(* don't send the event if it originates from a different device"          *)
(* (event.c:457): one that selected none is sent the input of every one.   *)
(***************************************************************************)
UnselectedGetsAll == missed = {}

(* No device is in the list twice, and every id is within its width.       *)
ListedOnce == TypeOK /\ OpenedOnce

(***************************************************************************)
(* Accumulated motion is kept neither for a device that was freed nor      *)
(* while the daemon sleeps.                                                *)
(***************************************************************************)
NoMotionKept == OrphansAreBlank /\ NothingPendingAsleep
=============================================================================
