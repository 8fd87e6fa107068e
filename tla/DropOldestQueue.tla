--------------------------- MODULE DropOldestQueue ---------------------------
(***************************************************************************)
(* What the event queue of a serial device promises: a FIFO of at most     *)
(* Capacity events.  An event put into a full queue is accepted, and the   *)
(* oldest event is given up for it ("overflow, drop the oldest event",     *)
(* dev_serial.c:694 and 719).                                              *)
(***************************************************************************)
EXTENDS Naturals, Sequences

CONSTANTS Event,     \* what is queued
          Capacity   \* how many events the queue holds

VARIABLES queue,     \* the events waiting, oldest first
          out        \* the event handed to the reader last

Init(first) == queue = <<>> /\ out = first

Put(e) ==
    /\ queue' = Append(IF Len(queue) < Capacity THEN queue ELSE Tail(queue), e)
    /\ UNCHANGED out

Get ==
    /\ queue # <<>>
    /\ out' = Head(queue)
    /\ queue' = Tail(queue)

Next == Get \/ \E e \in Event : Put(e)

Spec == (\E first \in Event : Init(first)) /\ [][Next]_<<queue, out>>
=============================================================================
