------------------------------- MODULE EvQueue -------------------------------
(***************************************************************************)
(* The event queue of a serial device (dev_serial.c): the ring evqueue     *)
(* with its cursors evq_rd and evq_wr, the two functions that fill it,     *)
(* enqueue_motion and gen_button_events, and the tail of read_dev_serial   *)
(* that empties it.                                                        *)
(*                                                                         *)
(* The code masks its cursors with EVQUEUE_SZ - 1; EVQUEUE_SZ is a power   *)
(* of two, so this is "% Size".  A packet is parsed to the end before the  *)
(* reader runs again; this module lets the reader run between two events   *)
(* of a packet as well, except inside the loop of gen_button_events, which *)
(* is followed bit by bit.                                                 *)
(***************************************************************************)
EXTENDS Integers, Sequences

CONSTANTS Size,      \* EVQUEUE_SZ
          Buttons,   \* the bits of keystate
          Axes, Values

ASSUME EvQueueAssumption ==
    /\ Size \in Nat \ {0, 1}
    /\ Buttons \subseteq Nat

Zero  == [type |-> "motion", idx |-> 0, val |-> 0]   \* calloc'ed slot
\* enqueue_motion leaves idx and val of a flush alone; nobody reads them.
Flush == [type |-> "flush", idx |-> 0, val |-> 0]
Motion == [type : {"motion"}, idx : Axes, val : Values]
ButtonEvent == [type : {"button"}, idx : Buttons, val : {0, 1}]
Event == {Zero, Flush} \cup Motion \cup ButtonEvent

VARIABLES
    evqueue, evq_rd, evq_wr,   \* the ring
    inp,                       \* the event read_dev_serial returned last
    keystate,                  \* the buttons the device says are down
    diff,                      \* keystate ^ prev, the bits still to report
    seen,                      \* history: the buttons the reader takes for down
    dropped                    \* history: buttons whose newest event was dropped

ring == <<evqueue, evq_rd, evq_wr>>
vars == <<evqueue, evq_rd, evq_wr, inp, keystate, diff, seen, dropped>>

Init ==
    /\ evqueue = [i \in 0..Size-1 |-> Zero]
    /\ evq_rd = 0 /\ evq_wr = 0
    /\ inp = Zero
    /\ keystate = {} /\ diff = {}
    /\ seen = {} /\ dropped = {}

Succ(i) == (i + 1) % Size

\* The slots between the cursors, oldest first.
Count == (evq_wr - evq_rd) % Size
Queue == [k \in 1..Count |-> evqueue[(evq_rd + k - 1) % Size]]

IsButton(e, i) == e.type = "button" /\ e.idx = i

(* Mutant of Enqueue: a full ring does not give up its oldest event.       *)
EnqueueNoDrop(e) ==
    /\ evqueue' = [evqueue EXCEPT ![evq_wr] = e]
    /\ evq_wr' = Succ(evq_wr)
    /\ UNCHANGED evq_rd

(***************************************************************************)
(* Both producers store an event in the same way: advance evq_wr, advance  *)
(* evq_rd as well if the ring was full, fill the slot.                     *)
(***************************************************************************)
Enqueue(e) ==
    LET wr == Succ(evq_wr)
    IN  /\ evqueue' = [evqueue EXCEPT ![evq_wr] = e]
        /\ evq_wr' = wr
        /\ evq_rd' = IF wr = evq_rd THEN Succ(evq_rd) ELSE evq_rd

\* History: the button whose newest event is given up by the overflow.
Forget(new) ==
    LET old == evqueue[evq_rd]
        lost == {i \in Buttons : /\ Succ(evq_wr) = evq_rd
                                 /\ IsButton(old, i)
                                 /\ ~ \E k \in 2..Count : IsButton(Queue[k], i)}
    IN  dropped' = (dropped \cup lost) \ new

enqueue_motion ==
    /\ diff = {}
    /\ \E e \in Motion \cup {Flush} : Enqueue(e)
    /\ Forget({})
    /\ UNCHANGED <<inp, keystate, diff, seen>>

(* Mutant of parse_keys: only new presses count as a difference.           *)
ParseKeysPresses(keys) ==
    /\ diff = {} /\ keys # keystate
    /\ diff' = keys \ keystate
    /\ keystate' = keys
    /\ UNCHANGED <<evqueue, evq_rd, evq_wr, inp, seen, dropped>>

\* A key packet (mag_parsepkt 'k', sball_parsepkt 'K' and '.').
parse_keys(keys) ==
    /\ diff = {} /\ keys # keystate
    /\ diff' = (keystate \ keys) \cup (keys \ keystate)
    /\ keystate' = keys
    /\ UNCHANGED <<evqueue, evq_rd, evq_wr, inp, seen, dropped>>

\* One turn of the loop of gen_button_events, lowest bit first.
gen_button_events(i) ==
    /\ i \in diff /\ \A j \in diff : i <= j
    /\ Enqueue([type |-> "button", idx |-> i,
                val |-> IF i \in keystate THEN 1 ELSE 0])
    /\ Forget({i})
    /\ diff' = diff \ {i}
    /\ UNCHANGED <<inp, keystate, seen>>

\* What process_input makes of the event it is handed, as far as buttons go.
Heard(s, e) == IF e.type # "button" THEN s
               ELSE IF e.val = 1 THEN s \cup {e.idx} ELSE s \ {e.idx}

read_dev_serial ==
    /\ diff = {}
    /\ evq_rd # evq_wr
    /\ inp' = evqueue[evq_rd]
    /\ evq_rd' = Succ(evq_rd)
    /\ seen' = Heard(seen, evqueue[evq_rd])
    /\ UNCHANGED <<evqueue, evq_wr, keystate, diff, dropped>>

Next ==
    \/ enqueue_motion
    \/ \E keys \in SUBSET Buttons : parse_keys(keys)
    \/ \E i \in Buttons : gen_button_events(i)
    \/ read_dev_serial

Spec == Init /\ [][Next]_vars

-----------------------------------------------------------------------------
TypeOK ==
    /\ evqueue \in [0..Size-1 -> Event]
    /\ evq_rd \in 0..Size-1 /\ evq_wr \in 0..Size-1
    /\ inp \in Event
    /\ keystate \subseteq Buttons /\ diff \subseteq Buttons
    /\ seen \subseteq Buttons /\ dropped \subseteq Buttons

(***************************************************************************)
(* The ring is a FIFO of Size - 1 events that gives up its oldest event    *)
(* when it is full: no event is lost without an overflow, none is read     *)
(* twice, and the order is kept across the wrap of both cursors.           *)
(***************************************************************************)
Abstract == INSTANCE DropOldestQueue WITH queue <- Queue, out <- inp,
                                          Capacity <- Size - 1
ImplementsQueue == Abstract!Spec

(***************************************************************************)
(* A button is never left stuck by the queue alone: once the reader has    *)
(* drained it, what it takes for the state of a button is the state the    *)
(* device reported last, unless an overflow took the newest event of that  *)
(* very button.                                                            *)
(***************************************************************************)
Drained(i) ==
    LET about == {k \in DOMAIN Queue : IsButton(Queue[k], i)}
    IN  IF about = {} THEN i \in seen
        ELSE \E k \in about : /\ \A l \in about : l <= k
                              /\ Queue[k].val = 1
ButtonsReachReader ==
    \A i \in Buttons \ (diff \cup dropped) : Drained(i) = (i \in keystate)

(***************************************************************************)
(* The events of one button wait in strict alternation of press and        *)
(* release, however many packets and overflows there were: what an         *)
(* overflow removes is a prefix.                                           *)
(***************************************************************************)
PressReleaseAlternate ==
    \A k, l \in DOMAIN Queue :
        (/\ k < l /\ Queue[k].type = "button" /\ IsButton(Queue[l], Queue[k].idx)
         /\ \A m \in k+1..l-1 : ~ IsButton(Queue[m], Queue[k].idx))
        => Queue[k].val # Queue[l].val

(* The queue and its cursors are sound, and buttons come through it.       *)
QueueKeepsButtons == TypeOK /\ ButtonsReachReader /\ PressReleaseAlternate
=============================================================================
