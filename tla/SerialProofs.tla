---------------------------- MODULE SerialProofs ----------------------------
(***************************************************************************)
(* A serial device for every ring size, input buffer, set of buttons and   *)
(* payloads.  First EvQueue alone: its type invariant, that the ring       *)
(* implements DropOldestQueue, and that buttons come through it.  Then     *)
(* SerialInput: what the handshake opens, what the parser makes of a line  *)
(* that is cut, disturbed and moved wrongly, and that it drives the queue  *)
(* as EvQueue says.                                                        *)
(***************************************************************************)
EXTENDS SerialInput, SequenceTheorems, WellFoundedInduction, TLAPS

(* Arithmetic modulo the ring size, on the ranges the cursors reach. *)
LEMMA ModSmall ==
    ASSUME NEW i \in 0..Size-1
    PROVE  i % Size = i
  BY EvQueueAssumption

LEMMA ModBig ==
    ASSUME NEW i \in Size..2*Size-1
    PROVE  i % Size = i - Size
  BY EvQueueAssumption

LEMMA ModNegative ==
    ASSUME NEW i \in 1-Size..-1
    PROVE  i % Size = i + Size
  BY EvQueueAssumption

(* Advancing a cursor stays in the ring and wraps at its end. *)
LEMMA SuccProperties ==
    ASSUME NEW i \in 0..Size-1
    PROVE  /\ Succ(i) \in 0..Size-1
           /\ Succ(i) = IF i = Size - 1 THEN 0 ELSE i + 1
  <1>1. CASE i = Size - 1
    <2>1. (i + 1) % Size = 0
      BY <1>1, EvQueueAssumption, ModBig
    <2> QED  BY <1>1, <2>1, EvQueueAssumption DEF Succ
  <1>2. CASE i # Size - 1
    <2>1. (i + 1) % Size = i + 1
      BY <1>2, EvQueueAssumption, ModSmall
    <2> QED  BY <1>2, <2>1, EvQueueAssumption DEF Succ
  <1> QED  BY <1>1, <1>2

(* How many events wait between two cursors, without the modulus. *)
LEMMA CountProperties ==
    ASSUME NEW rd \in 0..Size-1, NEW wr \in 0..Size-1
    PROVE  /\ (wr - rd) % Size \in 0..Size-1
           /\ (wr - rd) % Size = IF wr >= rd THEN wr - rd ELSE wr - rd + Size
  <1>1. CASE wr >= rd
    <2>1. (wr - rd) % Size = wr - rd
      BY <1>1, EvQueueAssumption, ModSmall
    <2> QED  BY <1>1, <2>1, EvQueueAssumption
  <1>2. CASE ~ (wr >= rd)
    <2>1. (wr - rd) % Size = wr - rd + Size
      BY <1>2, EvQueueAssumption, ModNegative
    <2> QED  BY <1>2, <2>1, EvQueueAssumption
  <1> QED  BY <1>1, <1>2

(* The slot of the k-th waiting event, without the modulus. *)
LEMMA SlotProperties ==
    ASSUME NEW rd \in 0..Size-1, NEW k \in 1..Size
    PROVE  /\ (rd + k - 1) % Size \in 0..Size-1
           /\ (rd + k - 1) % Size = IF rd + k - 1 < Size THEN rd + k - 1
                                    ELSE rd + k - 1 - Size
  <1>1. CASE rd + k - 1 < Size
    BY <1>1, EvQueueAssumption, ModSmall
  <1>2. CASE ~ (rd + k - 1 < Size)
    BY <1>2, EvQueueAssumption, ModBig
  <1> QED  BY <1>1, <1>2

(* A function on an initial segment of the positive numbers is a sequence. *)
LEMMA FunctionIsSeq ==
    ASSUME NEW S, NEW n \in Nat, NEW f \in [1..n -> S]
    PROVE  f \in Seq(S) /\ Len(f) = n
  OBVIOUS

(* The waiting events form a sequence of events. *)
LEMMA QueueProperties ==
    ASSUME TypeOK
    PROVE  /\ Queue \in Seq(Event)
           /\ Len(Queue) = Count
           /\ \A k \in 1..Count : Queue[k] = evqueue[(evq_rd + k - 1) % Size]
  <1>1. Count \in 0..Size-1
    BY CountProperties DEF Count, TypeOK
  <1>2. \A k \in 1..Count : (evq_rd + k - 1) % Size \in 0..Size-1
    BY <1>1, SlotProperties, EvQueueAssumption DEF TypeOK
  <1>3. \A k \in 1..Count : evqueue[(evq_rd + k - 1) % Size] \in Event
    BY <1>2 DEF TypeOK
  <1>4. Queue \in [1..Count -> Event]
    BY <1>3 DEF Queue
  <1> QED  BY <1>1, <1>4, EvQueueAssumption DEF Queue

-----------------------------------------------------------------------------
LEMMA InitTypeOK == Init => TypeOK
  BY EvQueueAssumption DEF Init, TypeOK, Event

(* Storing an event keeps the ring well formed. *)
LEMMA EnqueueTypeOK ==
    ASSUME TypeOK, NEW e \in Event, Enqueue(e)
    PROVE  /\ evqueue' \in [0..Size-1 -> Event]
           /\ evq_rd' \in 0..Size-1
           /\ evq_wr' \in 0..Size-1
  <1>1. Succ(evq_wr) \in 0..Size-1 /\ Succ(evq_rd) \in 0..Size-1
    BY SuccProperties DEF TypeOK
  <1> QED  BY <1>1 DEF TypeOK, Enqueue

LEMMA StepTypeOK == TypeOK /\ [Next]_vars => TypeOK'
  <1> SUFFICES ASSUME TypeOK, [Next]_vars
               PROVE  TypeOK'
    OBVIOUS
  <1>1. CASE enqueue_motion
    <2>1. PICK e \in Motion \cup {Flush} : Enqueue(e)
      BY <1>1 DEF enqueue_motion
    <2>2. /\ evqueue' \in [0..Size-1 -> Event]
          /\ evq_rd' \in 0..Size-1 /\ evq_wr' \in 0..Size-1
      BY <2>1, EnqueueTypeOK DEF Event
    <2>3. dropped' \subseteq Buttons
      BY <1>1 DEF enqueue_motion, Forget, TypeOK
    <2> QED  BY <1>1, <2>2, <2>3 DEF enqueue_motion, TypeOK
  <1>2. ASSUME NEW keys \in SUBSET Buttons, parse_keys(keys)
        PROVE  TypeOK'
    BY <1>2 DEF parse_keys, TypeOK
  <1>3. ASSUME NEW i \in Buttons, gen_button_events(i)
        PROVE  TypeOK'
    <2> DEFINE e == [type |-> "button", idx |-> i,
                     val |-> IF i \in keystate THEN 1 ELSE 0]
    <2>1. e \in Event /\ Enqueue(e)
      BY <1>3 DEF gen_button_events, Event, ButtonEvent
    <2>2. /\ evqueue' \in [0..Size-1 -> Event]
          /\ evq_rd' \in 0..Size-1 /\ evq_wr' \in 0..Size-1
      BY <2>1, EnqueueTypeOK
    <2>3. dropped' \subseteq Buttons
      BY <1>3 DEF gen_button_events, Forget, TypeOK
    <2> QED  BY <1>3, <2>2, <2>3 DEF gen_button_events, TypeOK
  <1>4. CASE read_dev_serial
    <2>1. Succ(evq_rd) \in 0..Size-1
      BY SuccProperties DEF TypeOK
    <2>2. evqueue[evq_rd] \in Event
      BY DEF TypeOK
    <2>3. seen' \subseteq Buttons
      BY <1>4, <2>2 DEF read_dev_serial, Heard, TypeOK, Event, Zero, Flush,
                        Motion, ButtonEvent
    <2> QED  BY <1>4, <2>1, <2>2, <2>3 DEF read_dev_serial, TypeOK
  <1>5. CASE UNCHANGED vars
    BY <1>5 DEF vars, TypeOK
  <1> QED  BY <1>1, <1>2, <1>3, <1>4, <1>5 DEF Next

(***************************************************************************)
(* Both cursors stay inside the ring, the slots hold events and the key    *)
(* bits are buttons, whatever is parsed and read (dev_serial.c:688-729).   *)
(***************************************************************************)
THEOREM TypeCorrect == Spec => []TypeOK
  BY InitTypeOK, StepTypeOK, PTL DEF Spec

-----------------------------------------------------------------------------
(* Storing an event appends it, and gives up the oldest one if the ring is *)
(* full.                                                                   *)
LEMMA EnqueueIsPut ==
    ASSUME TypeOK, TypeOK', NEW e \in Event, Enqueue(e)
    PROVE  Queue' = Append(IF Len(Queue) < Size - 1 THEN Queue ELSE Tail(Queue), e)
  <1> DEFINE kept == IF Len(Queue) < Size - 1 THEN Queue ELSE Tail(Queue)
             skip == IF Count < Size - 1 THEN 0 ELSE 1
  <1>0. /\ Size \in Nat \ {0, 1}
        /\ evq_rd \in 0..Size-1 /\ evq_wr \in 0..Size-1
        /\ evq_rd' \in 0..Size-1 /\ evq_wr' \in 0..Size-1
        /\ evqueue \in [0..Size-1 -> Event]
        /\ evqueue' = [evqueue EXCEPT ![evq_wr] = e]
    BY EvQueueAssumption DEF TypeOK, Enqueue
  <1>1. /\ Count \in 0..Size-1
        /\ Count = IF evq_wr >= evq_rd THEN evq_wr - evq_rd
                   ELSE evq_wr - evq_rd + Size
    BY <1>0, CountProperties DEF Count
  <1>2. /\ Queue \in Seq(Event) /\ Len(Queue) = Count
        /\ \A k \in 1..Count : Queue[k] = evqueue[(evq_rd + k - 1) % Size]
    BY QueueProperties
  <1>3. /\ evq_wr' = IF evq_wr = Size - 1 THEN 0 ELSE evq_wr + 1
        /\ evq_rd' = IF Count < Size - 1 THEN evq_rd
                     ELSE IF evq_rd = Size - 1 THEN 0 ELSE evq_rd + 1
    BY <1>0, <1>1, SuccProperties DEF Enqueue
  <1>4. /\ Count' \in 0..Size-1
        /\ Count' = IF evq_wr' >= evq_rd' THEN evq_wr' - evq_rd'
                    ELSE evq_wr' - evq_rd' + Size
    BY <1>0, CountProperties DEF Count
  <1>5. Count' = Count - skip + 1
    BY <1>0, <1>1, <1>3, <1>4
  <1>r. /\ Size \in Nat /\ Size >= 2
        /\ Count \in 0..Size-1 /\ Count' \in 0..Size-1
        /\ skip \in {0, 1} /\ Count - skip >= 0
    BY <1>1, <1>4, EvQueueAssumption
  <1>6. /\ kept \in Seq(Event) /\ Len(kept) = Count - skip
        /\ \A k \in 1..Count - skip : kept[k] = Queue[k + skip]
    <2>1. CASE Count < Size - 1
      BY <2>1, <1>0, <1>1, <1>2
    <2>2. CASE ~ (Count < Size - 1)
      <3>1. Queue # <<>>
        BY <2>2, <1>0, <1>1, <1>2
      <3> QED  BY <2>2, <3>1, <1>0, <1>1, <1>2, HeadTailProperties
    <2> QED  BY <2>1, <2>2
  <1>7. /\ Queue' \in Seq(Event) /\ Len(Queue') = Count'
        /\ \A k \in 1..Count' : Queue'[k] = evqueue'[(evq_rd' + k - 1) % Size]
    <2>1. \A k \in 1..Count' : evqueue'[(evq_rd' + k - 1) % Size] \in Event
      <3>1. 1..Count' \subseteq 1..Size
        BY <1>r
      <3>2. \A k \in 1..Count' : (evq_rd' + k - 1) % Size \in 0..Size-1
        BY <1>0, <3>1, SlotProperties
      <3> QED  BY <3>2 DEF TypeOK
    <2>2. Queue' \in [1..Count' -> Event]
      BY <2>1 DEF Queue
    <2>3. Count' \in Nat
      BY <1>r
    <2> QED  BY <2>2, <2>3, FunctionIsSeq DEF Queue
  \* The slot the new event goes to is the one after the waiting events.
  <1>8. \A k \in 1..Count' : Queue'[k] = Append(kept, e)[k]
    <2> SUFFICES ASSUME NEW k \in 1..Count'
                 PROVE  Queue'[k] = Append(kept, e)[k]
      OBVIOUS
    <2>0. k \in 1..Size /\ k + skip \in 1..Size
      BY <1>r, <1>5
    <2>1. /\ (evq_rd' + k - 1) % Size \in 0..Size-1
          /\ (evq_rd' + k - 1) % Size = IF evq_rd' + k - 1 < Size THEN evq_rd' + k - 1
                                        ELSE evq_rd' + k - 1 - Size
      BY <1>0, <2>0, SlotProperties
    <2>2. CASE k = Count'
      <3>1. (evq_rd' + k - 1) % Size = evq_wr
        BY <2>1, <2>2, <1>0, <1>1, <1>3, <1>5
      <3>2. Queue'[k] = e
        BY <3>1, <1>0, <1>7
      <3>3. Append(kept, e)[k] = e
        BY <2>2, <1>5, <1>6
      <3> QED  BY <3>2, <3>3
    <2>3. CASE k # Count'
      <3>1. k \in 1..Count - skip /\ k + skip \in 1..Count
        BY <2>3, <1>r, <1>5
      <3>2. (evq_rd + (k + skip) - 1) % Size = IF evq_rd + (k + skip) - 1 < Size
               THEN evq_rd + (k + skip) - 1 ELSE evq_rd + (k + skip) - 1 - Size
        BY <1>0, <2>0, SlotProperties
      <3>3. (evq_rd' + k - 1) % Size = (evq_rd + (k + skip) - 1) % Size
        BY <2>1, <3>2, <1>0, <1>1, <1>3
      <3>4. (evq_rd + (k + skip) - 1) % Size # evq_wr
        BY <3>1, <3>2, <1>0, <1>1
      <3>5. Queue'[k] = evqueue[(evq_rd + (k + skip) - 1) % Size]
        BY <3>3, <3>4, <2>1, <1>0, <1>7
      <3>6. Append(kept, e)[k] = Queue[k + skip]
        BY <3>1, <1>6
      <3> QED  BY <3>1, <3>5, <3>6, <1>2
    <2> QED  BY <2>2, <2>3
  <1>9. Append(kept, e) \in Seq(Event) /\ Len(Append(kept, e)) = Count'
    BY <1>5, <1>6, <1>1
  <1> QED  BY <1>7, <1>8, <1>9, SeqEqual

(* Reading takes the head of the waiting events. *)
LEMMA ReadIsGet ==
    ASSUME TypeOK, TypeOK', read_dev_serial
    PROVE  /\ Queue # <<>>
           /\ inp' = Head(Queue)
           /\ Queue' = Tail(Queue)
  <1>0. /\ evq_rd \in 0..Size-1 /\ evq_wr \in 0..Size-1
        /\ evq_rd # evq_wr /\ evq_rd' \in 0..Size-1
        /\ evqueue' = evqueue /\ evq_wr' = evq_wr
        /\ evq_rd' = IF evq_rd = Size - 1 THEN 0 ELSE evq_rd + 1
    BY SuccProperties DEF TypeOK, read_dev_serial
  <1>1. /\ Count \in 0..Size-1
        /\ Count = IF evq_wr >= evq_rd THEN evq_wr - evq_rd
                   ELSE evq_wr - evq_rd + Size
    BY <1>0, CountProperties DEF Count
  <1>2. /\ Count' \in 0..Size-1
        /\ Count' = IF evq_wr >= evq_rd' THEN evq_wr - evq_rd'
                    ELSE evq_wr - evq_rd' + Size
    BY <1>0, CountProperties DEF Count
  <1>3. Size \in Nat /\ Size >= 2
    BY EvQueueAssumption
  <1>4. Count \in 1..Size-1 /\ Count' = Count - 1
    BY <1>0, <1>1, <1>2, <1>3
  <1>5. /\ Queue \in Seq(Event) /\ Len(Queue) = Count
        /\ \A k \in 1..Count : Queue[k] = evqueue[(evq_rd + k - 1) % Size]
    BY QueueProperties
  <1>6. Queue # <<>>
    BY <1>4, <1>5
  <1>7. inp' = Head(Queue)
    <2>1. Head(Queue) = evqueue[(evq_rd + 1 - 1) % Size]
      BY <1>3, <1>4, <1>5, <1>6
    <2>2. (evq_rd + 1 - 1) % Size = evq_rd
      BY <1>0, <1>3, SlotProperties
    <2> QED  BY <2>1, <2>2 DEF read_dev_serial
  <1>8. \A k \in 1..Count' :
           /\ (evq_rd' + k - 1) % Size = (evq_rd + (k + 1) - 1) % Size
           /\ (evq_rd' + k - 1) % Size \in 0..Size-1
    <2> SUFFICES ASSUME NEW k \in 1..Count'
                 PROVE  /\ (evq_rd' + k - 1) % Size = (evq_rd + (k + 1) - 1) % Size
                        /\ (evq_rd' + k - 1) % Size \in 0..Size-1
      OBVIOUS
    <2>1. k \in 1..Size /\ k + 1 \in 1..Size
      BY <1>2, <1>3, <1>4
    <2>2. /\ (evq_rd' + k - 1) % Size \in 0..Size-1
          /\ (evq_rd' + k - 1) % Size = IF evq_rd' + k - 1 < Size THEN evq_rd' + k - 1
                                        ELSE evq_rd' + k - 1 - Size
      BY <1>0, <2>1, SlotProperties
    <2>3. (evq_rd + (k + 1) - 1) % Size =
             IF evq_rd + (k + 1) - 1 < Size THEN evq_rd + (k + 1) - 1
             ELSE evq_rd + (k + 1) - 1 - Size
      BY <1>0, <2>1, SlotProperties
    <2>4. (evq_rd' + k - 1) % Size = (evq_rd + (k + 1) - 1) % Size
      BY <2>1, <2>2, <2>3, <1>0, <1>3
    <2> QED  BY <2>2, <2>4
  <1>9. Queue' = Tail(Queue)
    <2>1. Queue' = [k \in 1..Count' |-> evqueue[(evq_rd' + k - 1) % Size]]
      BY <1>0 DEF Queue
    <2>2. Queue' \in [1..Count' -> Event]
      BY <2>1, <1>8 DEF TypeOK
    <2>3. Queue' \in Seq(Event) /\ Len(Queue') = Count'
      <3>1. Count' \in Nat
        BY <1>2, <1>3
      <3> QED  BY <2>2, <3>1, FunctionIsSeq
    <2>4. /\ Tail(Queue) \in Seq(Event) /\ Len(Tail(Queue)) = Count'
          /\ \A k \in 1..Count' : Tail(Queue)[k] = Queue[k + 1]
      BY <1>4, <1>5, <1>6, <1>3, HeadTailProperties
    <2>5. \A k \in 1..Count' : k + 1 \in 1..Count
      BY <1>2, <1>3, <1>4
    <2>6. \A k \in 1..Count' : Queue'[k] = Tail(Queue)[k]
      BY <2>1, <2>4, <2>5, <1>5, <1>8
    <2> QED  BY <2>3, <2>4, <2>6, SeqEqual
  <1> QED  BY <1>6, <1>7, <1>9

LEMMA InitRefines == Init => \E first \in Event : Abstract!Init(first)
  <1> SUFFICES ASSUME Init PROVE Abstract!Init(Zero) /\ Zero \in Event
    OBVIOUS
  <1>1. Count = 0
    BY EvQueueAssumption, ModSmall DEF Count, Init
  <1>2. Queue = <<>>
    BY <1>1 DEF Queue
  <1> QED  BY <1>2 DEF Init, Abstract!Init, Event

LEMMA StepRefines ==
    TypeOK /\ TypeOK' /\ [Next]_vars => [Abstract!Next]_<<Queue, inp>>
  <1> SUFFICES ASSUME TypeOK, TypeOK', [Next]_vars
               PROVE  Abstract!Next \/ UNCHANGED <<Queue, inp>>
    OBVIOUS
  <1>1. CASE enqueue_motion
    <2>1. PICK e \in Motion \cup {Flush} : Enqueue(e)
      BY <1>1 DEF enqueue_motion
    <2>2. e \in Event
      BY DEF Event
    <2>3. Abstract!Put(e)
      BY <1>1, <2>1, <2>2, EnqueueIsPut DEF Abstract!Put, enqueue_motion
    <2> QED  BY <2>2, <2>3 DEF Abstract!Next
  <1>2. ASSUME NEW keys \in SUBSET Buttons, parse_keys(keys)
        PROVE  UNCHANGED <<Queue, inp>>
    BY <1>2 DEF parse_keys, Queue, Count
  <1>3. ASSUME NEW i \in Buttons, gen_button_events(i)
        PROVE  Abstract!Next
    <2> DEFINE e == [type |-> "button", idx |-> i,
                     val |-> IF i \in keystate THEN 1 ELSE 0]
    <2>1. e \in Event /\ Enqueue(e)
      BY <1>3 DEF gen_button_events, Event, ButtonEvent
    <2> HIDE DEF e
    <2>2. Abstract!Put(e)
      BY <1>3, <2>1, EnqueueIsPut DEF Abstract!Put, gen_button_events
    <2> QED  BY <2>1, <2>2 DEF Abstract!Next
  <1>4. CASE read_dev_serial
    BY <1>4, ReadIsGet DEF Abstract!Get, Abstract!Next
  <1>5. CASE UNCHANGED vars
    BY <1>5 DEF vars, Queue, Count
  <1> QED  BY <1>1, <1>2, <1>3, <1>4, <1>5 DEF Next

(***************************************************************************)
(* The ring with its masked cursors behaves as a FIFO of Size - 1 events   *)
(* that drops its oldest event on overflow, for every ring size            *)
(* (dev_serial.c:231-237, 688-705 and 707-729).                            *)
(***************************************************************************)
THEOREM RingImplementsQueue == Spec => ImplementsQueue
  <1>1. Spec => []TypeOK
    BY TypeCorrect
  <1> QED  BY <1>1, InitRefines, StepRefines, PTL
           DEF Spec, ImplementsQueue, Abstract!Spec

-----------------------------------------------------------------------------
(* Buttons: what the events that wait say, and what has been told so far.  *)

(* The newest event of q about button i is the k-th.                       *)
Newest(q, i, k) ==
    /\ k \in 1..Len(q) /\ IsButton(q[k], i)
    /\ \A l \in k + 1..Len(q) : ~ IsButton(q[l], i)

None_(q, i) == \A k \in 1..Len(q) : ~ IsButton(q[k], i)

Alternates(q) ==
    \A i \in Buttons, k, l \in 1..Len(q) :
        (/\ k < l /\ IsButton(q[k], i) /\ IsButton(q[l], i)
         /\ \A m \in k + 1..l - 1 : ~ IsButton(q[m], i))
        => q[k].val # q[l].val

(* The state of the buttons that gen_button_events has reported so far.    *)
told == (keystate \ diff) \cup (diff \ keystate)

NewestIsTold == \A i \in Buttons, k \in 1..Len(Queue) :
                    Newest(Queue, i, k) => (Queue[k].val = 1 <=> i \in told)
SeenIsTold == \A i \in Buttons \ dropped :
                  None_(Queue, i) => (i \in seen <=> i \in told)

QInv == TypeOK /\ NewestIsTold /\ SeenIsTold /\ Alternates(Queue)

LEMMA ButtonValues ==
    ASSUME NEW e \in Event
    PROVE  /\ e.type = "button" => e.idx \in Buttons /\ e.val \in {0, 1}
           /\ \A i, j : IsButton(e, i) /\ IsButton(e, j) => i = j
  BY DEF Event, Zero, Flush, Motion, ButtonEvent, IsButton

(* Giving up the oldest event, and storing a new one. *)
LEMMA DropHead ==
    ASSUME NEW q \in Seq(Event), q # <<>>
    PROVE  /\ Tail(q) \in Seq(Event)
           /\ Alternates(q) => Alternates(Tail(q))
           /\ \A i : \A k \in 1..Len(Tail(q)) :
                  Newest(Tail(q), i, k) => Newest(q, i, k + 1) /\ Tail(q)[k] = q[k + 1]
           /\ \A i : None_(Tail(q), i) => None_(q, i) \/ Newest(q, i, 1)
           /\ Head(q) = q[1] /\ Head(q) \in Event
  <1> DEFINE t == Tail(q)
             n == Len(q)
  <1>1. /\ t \in Seq(Event) /\ Len(t) = n - 1 /\ \A k \in 1..n - 1 : t[k] = q[k + 1]
        /\ Head(q) = q[1] /\ Head(q) \in Event
    BY HeadTailProperties
  <1>2. n \in Nat /\ n >= 1
    OBVIOUS
  <1> HIDE DEF t
  <1>3. \A k \in 1..n - 1 : k + 1 \in 1..n
    BY <1>2
  <1>4. ASSUME Alternates(q) PROVE Alternates(t)
    <2> SUFFICES ASSUME NEW i \in Buttons, NEW k \in 1..n - 1, NEW l \in 1..n - 1, k < l,
                        IsButton(t[k], i), IsButton(t[l], i),
                        \A m \in k + 1..l - 1 : ~ IsButton(t[m], i)
                 PROVE  t[k].val # t[l].val
      BY <1>1 DEF Alternates
    <2>1. t[k] = q[k + 1] /\ t[l] = q[l + 1] /\ k + 1 \in 1..n /\ l + 1 \in 1..n /\ k + 1 < l + 1
      BY <1>1, <1>2
    <2>2. ASSUME NEW m \in k + 1 + 1..l + 1 - 1 PROVE ~ IsButton(q[m], i)
      <3>1. m - 1 \in k + 1..l - 1 /\ m - 1 \in 1..n - 1 /\ (m - 1) + 1 = m
        BY <1>2
      <3> QED  BY <1>1, <3>1
    <2> QED  BY <1>4, <2>1, <2>2 DEF Alternates
  <1>5. ASSUME NEW i, NEW k \in 1..n - 1, Newest(t, i, k) PROVE Newest(q, i, k + 1) /\ t[k] = q[k + 1]
    <2>1. t[k] = q[k + 1] /\ k + 1 \in 1..n /\ IsButton(t[k], i)
      BY <1>1, <1>3, <1>5 DEF Newest
    <2>2. ASSUME NEW l \in k + 1 + 1..n PROVE ~ IsButton(q[l], i)
      <3>1. l - 1 \in k + 1..n - 1 /\ l - 1 \in 1..n - 1 /\ (l - 1) + 1 = l
        BY <1>2
      <3> QED  BY <1>1, <1>5, <3>1 DEF Newest
    <2> QED  BY <2>1, <2>2 DEF Newest
  <1>6. ASSUME NEW i, None_(t, i) PROVE None_(q, i) \/ Newest(q, i, 1)
    <2>1. ASSUME NEW l \in 2..n PROVE ~ IsButton(q[l], i)
      <3>1. l - 1 \in 1..n - 1 /\ (l - 1) + 1 = l
        BY <1>2
      <3> QED  BY <1>1, <1>6, <3>1 DEF None_
    <2>2. \A l \in 1..n : l = 1 \/ l \in 2..n
      OBVIOUS
    <2>3. 1 \in 1..n /\ 1 + 1 = 2
      BY <1>2
    <2> QED  BY <2>1, <2>2, <2>3 DEF None_, Newest
  <1> QED  BY <1>1, <1>4, <1>5, <1>6 DEF t

LEMMA Store ==
    ASSUME NEW q \in Seq(Event), NEW e \in Event
    PROVE  /\ \A i : \A k \in 1..Len(q) + 1 :
                  Newest(Append(q, e), i, k) =>
                      \/ k = Len(q) + 1 /\ IsButton(e, i) /\ Append(q, e)[k] = e
                      \/ k \in 1..Len(q) /\ Newest(q, i, k) /\ ~ IsButton(e, i)
                         /\ Append(q, e)[k] = q[k]
           /\ \A i : None_(Append(q, e), i) => None_(q, i) /\ ~ IsButton(e, i)
           /\ Len(Append(q, e)) = Len(q) + 1
           /\ Alternates(q)
              /\ (\A i \in Buttons, k \in 1..Len(q) :
                      IsButton(e, i) /\ Newest(q, i, k) => q[k].val # e.val)
                  => Alternates(Append(q, e))
  <1> DEFINE t == Append(q, e)
             n == Len(q)
  <1>1. /\ t \in Seq(Event) /\ Len(t) = n + 1 /\ n \in Nat
        /\ \A k \in 1..n : t[k] = q[k]
        /\ t[n + 1] = e
    BY AppendProperties
  <1> HIDE DEF t
  <1>2. ASSUME NEW i, NEW k \in 1..n + 1, Newest(t, i, k)
        PROVE  \/ k = n + 1 /\ IsButton(e, i) /\ t[k] = e
               \/ k \in 1..n /\ Newest(q, i, k) /\ ~ IsButton(e, i) /\ t[k] = q[k]
    <2>1. CASE k = n + 1
      BY <1>1, <1>2, <2>1 DEF Newest
    <2>2. CASE k # n + 1
      <3>1. k \in 1..n /\ t[k] = q[k] /\ n + 1 \in k + 1..n + 1
        BY <1>1, <2>2
      <3>2. ~ IsButton(e, i)
        BY <1>1, <1>2, <3>1 DEF Newest
      <3>3. ASSUME NEW l \in k + 1..n PROVE ~ IsButton(q[l], i)
        <4>1. l \in k + 1..n + 1 /\ l \in 1..n
          BY <1>1
        <4> QED  BY <1>1, <1>2, <4>1 DEF Newest
      <3>4. IsButton(q[k], i)
        BY <1>2, <3>1 DEF Newest
      <3> QED  BY <3>1, <3>2, <3>3, <3>4 DEF Newest
    <2> QED  BY <2>1, <2>2
  <1>3. ASSUME NEW i, None_(t, i) PROVE None_(q, i) /\ ~ IsButton(e, i)
    <2>1. n + 1 \in 1..n + 1 /\ \A k \in 1..n : k \in 1..n + 1
      BY <1>1
    <2> QED  BY <1>1, <1>3, <2>1 DEF None_
  <1>4. ASSUME Alternates(q),
               \A i \in Buttons, k \in 1..n :
                   IsButton(e, i) /\ Newest(q, i, k) => q[k].val # e.val
        PROVE  Alternates(t)
    <2> SUFFICES ASSUME NEW i \in Buttons, NEW k \in 1..n + 1, NEW l \in 1..n + 1, k < l,
                        IsButton(t[k], i), IsButton(t[l], i),
                        \A m \in k + 1..l - 1 : ~ IsButton(t[m], i)
                 PROVE  t[k].val # t[l].val
      BY <1>1 DEF Alternates
    <2>1. k \in 1..n /\ t[k] = q[k]
      BY <1>1
    <2>2. \A m \in k + 1..l - 1 : m \in 1..n /\ ~ IsButton(q[m], i)
      BY <1>1
    <2>3. CASE l = n + 1
      <3>1. \A m \in k + 1..n : ~ IsButton(q[m], i)
        BY <1>1, <2>2, <2>3
      <3>2. Newest(q, i, k) /\ IsButton(e, i) /\ t[l] = e
        BY <1>1, <2>1, <2>3, <3>1 DEF Newest
      <3> QED  BY <1>4, <2>1, <3>2
    <2>4. CASE l # n + 1
      <3>1. l \in 1..n /\ t[l] = q[l]
        BY <1>1, <2>4
      <3> QED  BY <1>4, <2>1, <2>2, <3>1 DEF Alternates
    <2> QED  BY <2>3, <2>4
  <1> QED  BY <1>1, <1>2, <1>3, <1>4 DEF t

(* The ring is full when one more event makes the cursors meet. *)
LEMMA FullRing ==
    ASSUME TypeOK
    PROVE  /\ Queue \in Seq(Event) /\ Len(Queue) = Count /\ Count \in 0..Size-1 /\ Size \in Nat
           /\ Succ(evq_wr) = evq_rd <=> ~ (Len(Queue) < Size - 1)
           /\ Queue # <<>> => evqueue[evq_rd] = Queue[1]
  <1>1. Queue \in Seq(Event) /\ Len(Queue) = Count
        /\ \A k \in 1..Count : Queue[k] = evqueue[(evq_rd + k - 1) % Size]
    BY QueueProperties
  <1>2. /\ Count \in 0..Size-1
        /\ Count = IF evq_wr >= evq_rd THEN evq_wr - evq_rd ELSE evq_wr - evq_rd + Size
    BY CountProperties DEF Count, TypeOK
  <1>3. Size \in Nat /\ Size >= 2 /\ evq_rd \in 0..Size-1 /\ evq_wr \in 0..Size-1
    BY EvQueueAssumption DEF TypeOK
  <1>4. Succ(evq_wr) = IF evq_wr = Size - 1 THEN 0 ELSE evq_wr + 1
    BY <1>3, SuccProperties
  <1>5. Succ(evq_wr) = evq_rd <=> ~ (Count < Size - 1)
    BY <1>2, <1>3, <1>4
  <1>6. ASSUME Queue # <<>> PROVE evqueue[evq_rd] = Queue[1]
    <2>1. 1 \in 1..Count
      BY <1>1, <1>2, <1>3, <1>6
    <2>2. (evq_rd + 1 - 1) % Size = evq_rd
      BY <1>3, ModSmall
    <2> QED  BY <1>1, <2>1, <2>2
  <1> QED  BY <1>1, <1>2, <1>3, <1>5, <1>6

Kept == IF Len(Queue) < Size - 1 THEN Queue ELSE Tail(Queue)

(* What an overflow leaves is as good, but for the button it forgets.      *)
LEMMA KeptProperties ==
    ASSUME QInv, NEW new, Forget(new)
    PROVE  /\ Kept \in Seq(Event) /\ Alternates(Kept)
           /\ \A i \in Buttons, k \in 1..Len(Kept) :
                  Newest(Kept, i, k) => (Kept[k].val = 1 <=> i \in told)
           /\ \A i \in Buttons : i \notin dropped' /\ i \notin new /\ None_(Kept, i)
                                     => (i \in seen <=> i \in told)
  <1> USE DEF QInv
  <1>1. /\ Queue \in Seq(Event) /\ Len(Queue) = Count /\ Count \in 0..Size-1 /\ Size \in Nat
        /\ Size >= 2
        /\ Succ(evq_wr) = evq_rd <=> ~ (Len(Queue) < Size - 1)
        /\ Queue # <<>> => evqueue[evq_rd] = Queue[1]
    BY FullRing, EvQueueAssumption
  <1>2. CASE Len(Queue) < Size - 1
    <2>1. Kept = Queue
      BY <1>2 DEF Kept
    <2>2. \A i \in Buttons : i \notin dropped' /\ i \notin new => i \notin dropped
      BY DEF Forget
    <2> QED  BY <1>1, <2>1, <2>2 DEF NewestIsTold, SeenIsTold
  <1>3. CASE ~ (Len(Queue) < Size - 1)
    <2>1. Kept = Tail(Queue) /\ Queue # <<>>
      BY <1>1, <1>3 DEF Kept
    <2>2. /\ Tail(Queue) \in Seq(Event) /\ Len(Tail(Queue)) = Len(Queue) - 1
          /\ Alternates(Tail(Queue))
          /\ \A i : \A k \in 1..Len(Tail(Queue)) :
                 Newest(Tail(Queue), i, k) => Newest(Queue, i, k + 1)
                                              /\ Tail(Queue)[k] = Queue[k + 1]
          /\ \A i : None_(Tail(Queue), i) => None_(Queue, i) \/ Newest(Queue, i, 1)
      BY <1>1, <2>1, DropHead
    <2>3. \A k \in 1..Len(Tail(Queue)) : k + 1 \in 1..Len(Queue)
      BY <1>1, <2>2
    <2>4. ASSUME NEW i \in Buttons, i \notin dropped', i \notin new, None_(Kept, i)
          PROVE  i \in seen <=> i \in told
      <3>1. i \notin dropped
        BY <2>4 DEF Forget
      <3>2. ~ Newest(Queue, i, 1)
        <4> SUFFICES ASSUME Newest(Queue, i, 1) PROVE FALSE
          OBVIOUS
        <4>1. IsButton(evqueue[evq_rd], i) /\ \A l \in 2..Count : ~ IsButton(Queue[l], i)
          <5>1. IsButton(Queue[1], i) /\ \A l \in 1 + 1..Len(Queue) : ~ IsButton(Queue[l], i)
            BY DEF Newest
          <5> QED  BY <1>1, <2>1, <5>1
        <4>2. i \in {j \in Buttons : /\ Succ(evq_wr) = evq_rd
                                     /\ IsButton(evqueue[evq_rd], j)
                                     /\ ~ \E k \in 2..Count : IsButton(Queue[k], j)}
          BY <1>1, <1>3, <4>1
        <4> QED  BY <2>4, <4>2 DEF Forget
      <3> QED  BY <2>1, <2>2, <2>4, <3>1, <3>2 DEF SeenIsTold
    <2> QED  BY <2>1, <2>2, <2>3, <2>4 DEF NewestIsTold
  <1> QED  BY <1>2, <1>3

(* An event about one button, or none, is stored. *)
LEMMA StoreStep ==
    ASSUME QInv, TypeOK', NEW e \in Event, Enqueue(e), NEW new, Forget(new), seen' = seen,
           \A i \in new : IsButton(e, i),
           \A i \in Buttons : ~ IsButton(e, i) => (i \in told' <=> i \in told),
           \A i \in Buttons : IsButton(e, i) => /\ i \in told' <=> e.val = 1
                                                /\ i \in told' <=> i \notin told
    PROVE  QInv'
  <1>1. Queue' = Append(Kept, e)
    BY EnqueueIsPut DEF QInv, Kept
  <1>2. /\ Kept \in Seq(Event) /\ Alternates(Kept)
        /\ \A i \in Buttons, k \in 1..Len(Kept) :
               Newest(Kept, i, k) => (Kept[k].val = 1 <=> i \in told)
        /\ \A i \in Buttons : i \notin dropped' /\ i \notin new /\ None_(Kept, i)
                                  => (i \in seen <=> i \in told)
    BY KeptProperties
  <1> DEFINE q == Kept
  <1> HIDE DEF q
  <1>3. /\ q \in Seq(Event) /\ Alternates(q) /\ Queue' = Append(q, e)
        /\ \A i \in Buttons, k \in 1..Len(q) :
               Newest(q, i, k) => (q[k].val = 1 <=> i \in told)
        /\ \A i \in Buttons : i \notin dropped' /\ i \notin new /\ None_(q, i)
                                  => (i \in seen <=> i \in told)
    BY <1>1, <1>2 DEF q
  <1>4. /\ \A i : \A k \in 1..Len(q) + 1 :
               Newest(Queue', i, k) =>
                   \/ k = Len(q) + 1 /\ IsButton(e, i) /\ Queue'[k] = e
                   \/ k \in 1..Len(q) /\ Newest(q, i, k) /\ ~ IsButton(e, i) /\ Queue'[k] = q[k]
        /\ \A i : None_(Queue', i) => None_(q, i) /\ ~ IsButton(e, i)
        /\ Len(Queue') = Len(q) + 1
    BY <1>3, Store
  <1>5. Alternates(Queue')
    <2>1. \A i \in Buttons, k \in 1..Len(q) : IsButton(e, i) /\ Newest(q, i, k) => q[k].val # e.val
      BY <1>3
    <2> QED  BY <1>3, <2>1, Store
  <1>6. NewestIsTold'
    BY <1>3, <1>4 DEF NewestIsTold
  <1>7. SeenIsTold'
    BY <1>3, <1>4 DEF SeenIsTold
  <1> QED  BY <1>5, <1>6, <1>7 DEF QInv, Alternates

LEMMA StepQInv == QInv /\ [Next]_vars => QInv'
  <1> SUFFICES ASSUME QInv, [Next]_vars PROVE QInv'
    OBVIOUS
  <1> USE DEF QInv
  <1>0. TypeOK'
    BY StepTypeOK
  <1>1. CASE enqueue_motion
    <2>1. PICK e \in Motion \cup {Flush} : Enqueue(e)
      BY <1>1 DEF enqueue_motion
    <2>2. e \in Event /\ \A i : ~ IsButton(e, i)
      BY DEF Event, Motion, Flush, IsButton
    <2>3. Forget({}) /\ seen' = seen /\ told' = told
      BY <1>1 DEF enqueue_motion, told
    <2> HIDE DEF QInv
    <2> QED  BY <1>0, <2>1, <2>2, <2>3, StoreStep
  <1>2. ASSUME NEW keys \in SUBSET Buttons, parse_keys(keys) PROVE QInv'
    <2>1. /\ diff = {} /\ diff' = (keystate \ keys) \cup (keys \ keystate) /\ keystate' = keys
          /\ UNCHANGED <<evqueue, evq_rd, evq_wr, inp, seen, dropped>>
      BY <1>2 DEF parse_keys
    <2>2. Queue' = Queue
      BY <2>1 DEF Queue, Count
    <2>3. told' = told
      BY <2>1 DEF told
    <2>4. NewestIsTold' /\ SeenIsTold'
      BY <2>1, <2>2, <2>3 DEF NewestIsTold, SeenIsTold
    <2>5. Alternates(Queue')
      BY <2>2
    <2> QED  BY <1>0, <2>4, <2>5 DEF Alternates
  <1>3. ASSUME NEW i \in Buttons, gen_button_events(i) PROVE QInv'
    <2> DEFINE e == [type |-> "button", idx |-> i, val |-> IF i \in keystate THEN 1 ELSE 0]
    <2>1. /\ e \in Event /\ Enqueue(e) /\ Forget({i}) /\ seen' = seen
          /\ i \in diff /\ diff' = diff \ {i} /\ keystate' = keystate
      BY <1>3 DEF gen_button_events, Event, ButtonEvent
    <2>2. \A j : IsButton(e, j) <=> j = i
      BY DEF IsButton
    <2>3. e.val = 1 <=> i \in keystate
      OBVIOUS
    <2> HIDE DEF e, QInv
    <2>4. \A j \in Buttons : ~ IsButton(e, j) => (j \in told' <=> j \in told)
      BY <2>1, <2>2 DEF told
    <2>5. \A j \in Buttons : IsButton(e, j) => /\ j \in told' <=> e.val = 1
                                               /\ j \in told' <=> j \notin told
      BY <2>1, <2>2, <2>3 DEF told
    <2>6. \A j \in {i} : IsButton(e, j)
      BY <2>2
    <2> QED  BY <1>0, <2>1, <2>4, <2>5, <2>6, StoreStep
  <1>4. CASE read_dev_serial
    <2>1. /\ evqueue' = evqueue /\ keystate' = keystate /\ diff' = diff /\ dropped' = dropped
          /\ seen' = Heard(seen, evqueue[evq_rd]) /\ told' = told
      BY <1>4 DEF read_dev_serial, told
    <2>2. Queue # <<>> /\ Queue' = Tail(Queue)
      BY <1>0, <1>4, ReadIsGet
    <2>3. Queue \in Seq(Event) /\ evqueue[evq_rd] = Queue[1] /\ Len(Queue) \in Nat
      BY <2>2, FullRing
    <2>4. /\ Tail(Queue) \in Seq(Event) /\ Len(Tail(Queue)) = Len(Queue) - 1
          /\ Alternates(Tail(Queue))
          /\ \A i : \A k \in 1..Len(Tail(Queue)) :
                 Newest(Tail(Queue), i, k) => Newest(Queue, i, k + 1)
                                              /\ Tail(Queue)[k] = Queue[k + 1]
          /\ \A i : None_(Tail(Queue), i) => None_(Queue, i) \/ Newest(Queue, i, 1)
          /\ Queue[1] \in Event
      BY <2>2, <2>3, DropHead
    <2>5. \A k \in 1..Len(Tail(Queue)) : k + 1 \in 1..Len(Queue)
      BY <2>3, <2>4
    <2>6. NewestIsTold'
      BY <2>1, <2>2, <2>4, <2>5 DEF NewestIsTold
    <2>7. SeenIsTold'
      <3> SUFFICES ASSUME NEW i \in Buttons, i \notin dropped, None_(Tail(Queue), i)
                   PROVE  i \in seen' <=> i \in told
        BY <2>1, <2>2 DEF SeenIsTold
      <3> DEFINE e == Queue[1]
      <3> HIDE DEF e
      <3>1. e \in Event /\ seen' = Heard(seen, e)
        BY <2>1, <2>3, <2>4 DEF e
      <3>2. CASE Newest(Queue, i, 1)
        <4>1. 1 \in 1..Len(Queue) /\ IsButton(e, i) /\ (e.val = 1 <=> i \in told)
          BY <3>2 DEF Newest, NewestIsTold, e
        <4>2. e.type = "button" /\ e.idx = i /\ e.val \in {0, 1}
          BY <3>1, <4>1, ButtonValues DEF IsButton
        <4> QED  BY <3>1, <4>1, <4>2 DEF Heard
      <3>3. CASE ~ Newest(Queue, i, 1)
        <4>1. None_(Queue, i)
          BY <2>4, <3>3
        <4>2. i \in seen <=> i \in told
          BY <4>1 DEF SeenIsTold
        <4>3. ~ IsButton(e, i)
          <5>1. 1 \in 1..Len(Queue)
            BY <2>2, <2>3
          <5> QED  BY <4>1, <5>1 DEF None_, e
        <4>4. i \in Heard(seen, e) <=> i \in seen
          BY <4>3 DEF Heard, IsButton
        <4> QED  BY <3>1, <4>2, <4>4
      <3> QED  BY <3>2, <3>3
    <2>8. Alternates(Queue')
      BY <2>2, <2>4
    <2> QED  BY <1>0, <2>6, <2>7, <2>8 DEF Alternates
  <1>5. CASE UNCHANGED vars
    <2>1. Queue' = Queue /\ told' = told /\ seen' = seen /\ dropped' = dropped
      BY <1>5 DEF vars, Queue, Count, told
    <2>2. NewestIsTold' /\ SeenIsTold'
      BY <2>1 DEF NewestIsTold, SeenIsTold
    <2>3. Alternates(Queue')
      BY <2>1
    <2> QED  BY <1>0, <2>2, <2>3 DEF Alternates
  <1> QED  BY <1>1, <1>2, <1>3, <1>4, <1>5 DEF Next

LEMMA InitQInv == Init => QInv
  <1> SUFFICES ASSUME Init PROVE QInv
    OBVIOUS
  <1>1. TypeOK
    BY InitTypeOK
  <1>2. Count = 0
    BY EvQueueAssumption, ModSmall DEF Count, Init
  <1>3. Queue = <<>> /\ Len(Queue) = 0
    BY <1>2 DEF Queue
  <1>4. told = {} /\ seen = {}
    BY DEF Init, told
  <1> QED  BY <1>1, <1>3, <1>4 DEF QInv, NewestIsTold, SeenIsTold, Alternates

(* The greatest place of a set of places of a sequence. *)
LEMMA GreatestPlace ==
    ASSUME NEW n \in Nat, NEW T \in SUBSET (1..n), T # {}
    PROVE  \E k \in T : \A l \in T : l <= k
  <1> DEFINE U == {n - k : k \in T}
             R == {ss \in Nat \X Nat : ss[1] < ss[2]}
  <1>1. U \in SUBSET Nat /\ U # {}
    <2>1. \A k \in T : k \in 1..n /\ n - k \in Nat
      OBVIOUS
    <2> QED  BY <2>1
  <1>2. IsWellFoundedOn(R, Nat)
    BY Zenon, NatLessThanWellFounded DEF OpToRel
  <1>3. PICK x \in U : \A y \in U : ~ (<<y, x>> \in R)
    <2> HIDE DEF R, U
    <2> QED  BY <1>1, <1>2, WFMin
  <1>4. \A y \in U : <<y, x>> \in Nat \X Nat /\ <<y, x>>[1] = y /\ <<y, x>>[2] = x
    BY <1>1
  <1>5. \A y \in U : ~ (y < x)
    BY <1>3, <1>4
  <1>6. PICK k \in T : x = n - k
    OBVIOUS
  <1>7. ASSUME NEW l \in T PROVE l <= k
    <2>1. n - l \in U
      OBVIOUS
    <2>2. ~ (n - l < n - k)
      BY <1>5, <1>6, <2>1
    <2>3. l \in 1..n /\ k \in 1..n
      OBVIOUS
    <2> HIDE DEF U, R
    <2> QED  BY <2>2, <2>3
  <1> QED  BY <1>7

LEMMA KeepsButtons == QInv => QueueKeepsButtons
  <1> SUFFICES ASSUME QInv PROVE QueueKeepsButtons
    OBVIOUS
  <1> USE DEF QInv
  <1>1. Queue \in Seq(Event) /\ Len(Queue) \in Nat /\ DOMAIN Queue = 1..Len(Queue)
    BY QueueProperties
  <1>2. PressReleaseAlternate
    <2> SUFFICES ASSUME NEW k \in 1..Len(Queue), NEW l \in 1..Len(Queue), k < l,
                        Queue[k].type = "button", IsButton(Queue[l], Queue[k].idx),
                        \A m \in k+1..l-1 : ~ IsButton(Queue[m], Queue[k].idx)
                 PROVE  Queue[k].val # Queue[l].val
      BY <1>1 DEF PressReleaseAlternate
    <2>1. Queue[k] \in Event
      BY <1>1
    <2>2. Queue[k].idx \in Buttons /\ IsButton(Queue[k], Queue[k].idx)
      BY <2>1, ButtonValues DEF IsButton
    <2> QED  BY <2>2 DEF Alternates
  <1>3. ButtonsReachReader
    <2> SUFFICES ASSUME NEW i \in Buttons \ (diff \cup dropped)
                 PROVE  Drained(i) = (i \in keystate)
      BY DEF ButtonsReachReader
    <2> DEFINE about == {k \in DOMAIN Queue : IsButton(Queue[k], i)}
    <2>1. i \in told <=> i \in keystate
      BY DEF told
    <2>2. CASE about = {}
      <3>1. None_(Queue, i)
        BY <1>1, <2>2 DEF None_
      <3>2. i \in seen <=> i \in keystate
        BY <2>1, <3>1 DEF SeenIsTold
      <3>3. Drained(i) = (i \in seen)
        BY <2>2 DEF Drained
      <3>4. (i \in seen) = (i \in keystate)
        BY <3>2
      <3> QED  BY <3>3, <3>4
    <2>3. CASE about # {}
      <3>1. Drained(i) = \E k \in about : (\A l \in about : l <= k) /\ Queue[k].val = 1
        BY <2>3 DEF Drained
      <3>2. PICK k \in about : \A l \in about : l <= k
        <4>1. about \in SUBSET (1..Len(Queue))
          BY <1>1
        <4> HIDE DEF about
        <4> QED  BY <1>1, <2>3, <4>1, GreatestPlace
      <3>3. \A j \in about : (\A l \in about : l <= j) => j = k
        BY <1>1, <3>2
      <3>4. Newest(Queue, i, k)
        <4>1. \A l \in k + 1..Len(Queue) : l \in 1..Len(Queue) /\ ~ (l <= k)
          BY <1>1
        <4> QED  BY <1>1, <3>2, <4>1 DEF Newest
      <3>5. Queue[k].val = 1 <=> i \in keystate
        BY <1>1, <2>1, <3>4 DEF NewestIsTold
      <3>6. (\E j \in about : (\A l \in about : l <= j) /\ Queue[j].val = 1) <=> i \in keystate
        BY <3>2, <3>3, <3>5
      <3>7. (\E j \in about : (\A l \in about : l <= j) /\ Queue[j].val = 1) = (i \in keystate)
        <4> DEFINE A == \E j \in about : (\A l \in about : l <= j) /\ Queue[j].val = 1
                   B == i \in keystate
        <4>1. A \in BOOLEAN /\ B \in BOOLEAN /\ (A <=> B)
          BY <3>6
        <4> HIDE DEF A, B
        <4>2. A = B
          BY <4>1
        <4> QED  BY <4>2 DEF A, B
      <3> QED  BY <3>1, <3>7
    <2> QED  BY <2>2, <2>3
  <1> QED  BY <1>2, <1>3 DEF QueueKeepsButtons

(***************************************************************************)
(* A drained queue leaves the reader with the state the device reported    *)
(* last, unless an overflow took the newest event of that very button; the *)
(* presses and releases of a button that wait alternate                    *)
(* (dev_serial.c:707-729, 231-237).                                        *)
(***************************************************************************)
THEOREM ButtonsComeThrough == Spec => []QueueKeepsButtons
  BY InitQInv, StepQInv, KeepsButtons, PTL DEF Spec
-----------------------------------------------------------------------------
(***************************************************************************)
(* The line of a serial device.  Stream is what the parser has still to    *)
(* see: the rest of the input buffer and the bytes of the wire.  The       *)
(* invariant says of every line of the stream, a segment up to a CR, and   *)
(* of the unfinished line at its end, what the device or the noise made of *)
(* it; m excuses the first line, once it was moved wrongly, d says that    *)
(* the line was disturbed, and g that the device is a Magellan.            *)
(***************************************************************************)
Bytes == [n : 0..2, k : Nat, c : Values \cup {CR}]

Stream == Rest \o wire

NoCR(t, b, e) == \A j \in b..e : t[j].c # CR
Begins(t, b) == b = 1 \/ t[b - 1].c = CR
IsLine(t, b, e) == Begins(t, b) /\ NoCR(t, b, e - 1) /\ t[e].c = CR

(* A segment that is one packet as the device sent it.                     *)
Sent(t, b, e, g) ==
    /\ \A j \in b..e : t[j].k = j - b + 1 /\ t[j].n = t[b].n
    /\ t[b].c \in {D, K, Dot}
    /\ IF t[b].c = D THEN e - b = 4
       ELSE IF g THEN e - b \in {4, 5} /\ t[b + 1].c # D
       ELSE e - b = 2

(* A segment that the parsers skip, the key packets of a Magellan aside.   *)
Harmless(t, b, e, g) ==
    \/ t[b].c \notin {D, K, Dot}
    \/ g /\ t[b].c # D
    \/ e - b - 1 # IF t[b].c = D THEN 3 ELSE 1

LinesAreSound(t, m, d, g) ==
    \A b \in 1..Len(t) : \A e \in b..Len(t) :
        IsLine(t, b, e) => /\ d \/ e - b < 6
                           /\ \/ b = 1 /\ m
                              \/ Sent(t, b, e, g)
                              \/ d /\ Harmless(t, b, e, g)

(* What is left without a CR can only come of a disturbance, and whatever  *)
(* is sent next does not make a packet of it.                              *)
EndIsSound(t, m, d) ==
    \A b \in 1..Len(t) :
        Begins(t, b) /\ NoCR(t, b, Len(t)) =>
            /\ d
            /\ \/ b = 1 /\ m
               \/ t[b].c # D
               \/ Len(t) - b >= 2

Sound(t, m, d, g) == LinesAreSound(t, m, d, g) /\ EndIsSound(t, m, d)

STypeOK ==
    /\ hw \in Hardware /\ sent \in Nat
    /\ wire \in Seq(Bytes) /\ buf \in Seq(Bytes) /\ start \in 0..Len(buf)
    /\ mangled \in BOOLEAN /\ noisy \in BOOLEAN
    /\ motion_events \in Seq(Motion \cup {Flush})

(* What has been done by the time each state is reached.                   *)
Progress ==
    /\ state # "parse" => start = 0 /\ diff = {} /\ motion_events = <<>> /\ ~ HasCR(buf)
    /\ state \notin {"read", "parse"} => evq_rd = evq_wr
    /\ Len(buf) < BufSz

(* Nobody but a Spaceball says "@1", and nobody but a Magellan "v"; a       *)
(* device is not open without a parser.                                    *)
Says(piece) == \E i \in 1..Len(answer) : answer[i] = piece
Handshake ==
    /\ answer \in Seq({"text", "@1", "v"})
    /\ state = "reset" /\ Says("@1") => hw \in {"sball", "sball4000"}
    /\ state = "vQ" /\ Says("v") => hw = "magellan"
    /\ Open => parse # "none"

Mag == hw = "magellan"

SInv == STypeOK /\ Progress /\ Handshake /\ RightParser /\ Sound(Stream, mangled, noisy, Mag)

(* Bytes the device sends: a packet.                                       *)
IsPacket(p, g) ==
    /\ Len(p) \in {3, 5, 6} /\ (Len(p) = 3 => ~ g)
    /\ Sent(p, 1, Len(p), g) /\ IsLine(p, 1, Len(p))

(***************************************************************************)
(* What the five things that happen to a stream make of its lines: a       *)
(* packet is sent, noise is added, a byte is lost, a line is taken off the *)
(* front, the first line is moved.                                         *)
(***************************************************************************)
LEMMA SendKeepsSound ==
    ASSUME NEW t \in Seq(Bytes), NEW p \in Seq(Bytes), NEW m, NEW d, NEW g,
           Sound(t, m, d, g), IsPacket(p, g)
    PROVE  Sound(t \o p, m, d, g)
  <1> DEFINE u == t \o p
             n == Len(t)
             l == Len(p)
  <1>1. /\ n \in Nat /\ l \in {3, 5, 6} /\ Len(u) = n + l
        /\ \A i \in 1..n : u[i] = t[i]
        /\ \A i \in 1..l : u[n + i] = p[i]
    <2>1. n \in Nat /\ l \in {3, 5, 6}
      BY LenProperties DEF IsPacket
    <2>2. /\ Len(u) = n + l
          /\ \A i \in 1..n + l : u[i] = IF i <= n THEN t[i] ELSE p[i - n]
      BY ConcatProperties
    <2> HIDE DEF u, n, l
    <2> QED  BY <2>1, <2>2
  <1>2. /\ p[l].c = CR /\ \A i \in 1..l - 1 : p[i].c # CR
        /\ Sent(p, 1, l, g)
    BY DEF IsPacket, IsLine, NoCR
  <1>3. LinesAreSound(t, m, d, g) /\ EndIsSound(t, m, d)
    BY DEF Sound
  <1> SUFFICES Sound(u, m, d, g)
    OBVIOUS
  <1> HIDE DEF u, n, l
  <1>4. ASSUME NEW b \in 1..n + l, NEW e \in b..n + l, IsLine(u, b, e)
        PROVE  /\ d \/ e - b < 6
               /\ \/ b = 1 /\ m
                  \/ Sent(u, b, e, g)
                  \/ d /\ Harmless(u, b, e, g)
    <2>1. Begins(u, b) /\ NoCR(u, b, e - 1) /\ u[e].c = CR
      BY <1>4 DEF IsLine
    <2>2. CASE e <= n
      <3>1. /\ b \in 1..n /\ e \in b..n /\ \A i \in b..e : u[i] = t[i]
            /\ b # 1 => u[b - 1] = t[b - 1]
            /\ b \in b..e /\ e \in b..e /\ b..e - 1 \subseteq b..e
            /\ e - b \in {4, 5} => b + 1 \in b..e
        <4>1. b \in 1..n /\ e \in b..n /\ \A i \in b..e : i \in 1..n
          BY <1>1, <2>2
        <4>2. b # 1 => b - 1 \in 1..n
          BY <1>1, <2>2
        <4> QED  BY <1>1, <4>1, <4>2
      <3>2. IsLine(t, b, e)
        BY <2>1, <3>1 DEF IsLine, Begins, NoCR
      <3>3. Sent(t, b, e, g) => Sent(u, b, e, g)
        BY <3>1 DEF Sent
      <3>4. Harmless(t, b, e, g) => Harmless(u, b, e, g)
        BY <3>1 DEF Harmless
      <3> QED  BY <1>3, <3>1, <3>2, <3>3, <3>4 DEF LinesAreSound, n
    <2>3. CASE b <= n /\ e > n
      <3>1. e = n + l
        <4> SUFFICES ASSUME e # n + l PROVE FALSE
          OBVIOUS
        <4>1. e - n \in 1..l - 1 /\ e - n \in 1..l /\ n + (e - n) = e
          BY <1>1, <2>3
        <4>2. u[e] = p[e - n]
          BY <1>1, <4>1
        <4> QED  BY <1>2, <2>1, <4>1, <4>2
      <3>2. Begins(t, b) /\ NoCR(t, b, n)
        BY <1>1, <2>1, <2>3 DEF Begins, NoCR
      <3>3. d /\ ((b = 1 /\ m) \/ t[b].c # D \/ n - b >= 2)
        BY <1>1, <1>3, <2>3, <3>2 DEF EndIsSound, n
      <3>4. Harmless(u, b, e, g) \/ (b = 1 /\ m)
        BY <1>1, <2>3, <3>1, <3>3 DEF Harmless
      <3> QED  BY <3>3, <3>4
    <2>4. CASE b > n
      <3>1. b = n + 1
        <4> SUFFICES ASSUME b # n + 1 PROVE FALSE
          OBVIOUS
        <4>1. b - 1 - n \in 1..l - 1 /\ u[n + (b - 1 - n)] = p[b - 1 - n] /\ n + (b - 1 - n) = b - 1
          BY <1>1, <2>4
        <4>2. u[b - 1].c = CR
          BY <1>1, <2>1, <2>4 DEF Begins
        <4> QED  BY <1>2, <4>1, <4>2
      <3>2. e = n + l
        <4> SUFFICES ASSUME e # n + l PROVE FALSE
          OBVIOUS
        <4>1. e - n \in 1..l - 1 /\ u[n + (e - n)] = p[e - n] /\ n + (e - n) = e
          BY <1>1, <2>4
        <4> QED  BY <1>2, <2>1, <4>1
      <3>3. \A j \in b..e : j - n \in 1..l /\ u[j] = p[j - n]
        <4> SUFFICES ASSUME NEW j \in b..e PROVE j - n \in 1..l /\ u[j] = p[j - n]
          OBVIOUS
        <4>1. j - n \in 1..l /\ n + (j - n) = j
          BY <1>1, <3>1, <3>2
        <4> QED  BY <1>1, <4>1
      <3>4. /\ b \in b..e /\ u[b] = p[1] /\ e - b = l - 1
            /\ e - b \in {4, 5} => u[b + 1] = p[1 + 1]
        <4>1. /\ b \in b..e /\ b - n = 1 /\ e - b = l - 1
              /\ e - b \in {4, 5} => b + 1 \in b..e /\ (b + 1) - n = 1 + 1
          BY <1>1, <3>1, <3>2
        <4> QED  BY <3>3, <4>1
      <3>5. Sent(u, b, e, g)
        <4>1. \A j \in b..e : u[j].k = j - b + 1 /\ u[j].n = u[b].n
          <5> SUFFICES ASSUME NEW j \in b..e PROVE u[j].k = j - b + 1 /\ u[j].n = u[b].n
            OBVIOUS
          <5>1. j - n \in 1..l /\ u[j] = p[j - n] /\ (j - n) - 1 + 1 = j - b + 1
            BY <1>1, <3>1, <3>3
          <5> QED  BY <1>2, <3>4, <5>1 DEF Sent
        <4>2. u[b].c \in {D, K, Dot}
          BY <1>2, <3>4 DEF Sent
        <4>3. IF u[b].c = D THEN e - b = 4
              ELSE IF g THEN e - b \in {4, 5} /\ u[b + 1].c # D
              ELSE e - b = 2
          BY <1>2, <3>4 DEF Sent
        <4> QED  BY <4>1, <4>2, <4>3 DEF Sent
      <3> QED  BY <1>1, <3>4, <3>5
    <2> QED  BY <1>1, <2>2, <2>3, <2>4
  <1>5. ASSUME NEW b \in 1..n + l PROVE ~ NoCR(u, b, n + l)
    <2>1. u[n + l] = p[l] /\ n + l \in b..n + l
      BY <1>1, <1>5
    <2> QED  BY <1>2, <2>1 DEF NoCR
  <1> QED  BY <1>1, <1>4, <1>5 DEF Sound, LinesAreSound, EndIsSound

LEMMA NoiseKeepsSound ==
    ASSUME NEW t \in Seq(Bytes), NEW z \in Seq(Bytes), NEW m, NEW g,
           Sound(t, m, FALSE, g), \A i \in 1..Len(z) : z[i].c = Junk
    PROVE  Sound(t \o z, m, TRUE, g)
  <1> DEFINE u == t \o z
             n == Len(t)
             l == Len(z)
  <1>1. /\ n \in Nat /\ l \in Nat /\ Len(u) = n + l
        /\ \A i \in 1..n + l : u[i] = IF i <= n THEN t[i] ELSE z[i - n]
    BY ConcatProperties, LenProperties
  <1>2. LinesAreSound(t, m, FALSE, g) /\ EndIsSound(t, m, FALSE)
    BY DEF Sound
  <1> SUFFICES Sound(u, m, TRUE, g)
    OBVIOUS
  <1>3. \A i \in 1..l : z[i].c = Junk
    OBVIOUS
  <1> HIDE DEF u, n, l
  <1>4. ASSUME NEW b \in 1..n + l, NEW e \in b..n + l, IsLine(u, b, e)
        PROVE  (b = 1 /\ m) \/ Sent(u, b, e, g) \/ Harmless(u, b, e, g)
    <2>1. Begins(u, b) /\ NoCR(u, b, e - 1) /\ u[e].c = CR
      BY <1>4 DEF IsLine
    <2>2. e <= n
      <3> SUFFICES ASSUME e > n PROVE FALSE
        BY <1>1
      <3>1. e - n \in 1..l /\ u[e] = z[e - n]
        BY <1>1
      <3> QED  BY <1>3, <2>1, <3>1 DEF Junk, CR
    <2>3. b \in 1..n /\ e \in b..n /\ \A i \in b..e : u[i] = t[i]
      BY <1>1, <2>2
    <2>4. IsLine(t, b, e)
      BY <1>1, <2>1, <2>2, <2>3 DEF IsLine, Begins, NoCR
    <2>5. Sent(t, b, e, g) => Sent(u, b, e, g)
      BY <2>3 DEF Sent
    <2> QED  BY <1>2, <2>3, <2>4, <2>5 DEF LinesAreSound, n
  <1>5. ASSUME NEW b \in 1..n + l, Begins(u, b), NoCR(u, b, n + l)
        PROVE  u[b].c # D
    <2>1. CASE b <= n
      <3>1. Begins(t, b) /\ NoCR(t, b, n)
        BY <1>1, <1>5, <2>1 DEF Begins, NoCR
      <3> QED  BY <1>1, <1>2, <2>1, <3>1 DEF EndIsSound, n
    <2>2. CASE b > n
      <3>1. b - n \in 1..l /\ u[b] = z[b - n]
        BY <1>1, <2>2
      <3> QED  BY <1>3, <3>1 DEF Junk, D
    <2> QED  BY <1>1, <2>1, <2>2
  <1> QED  BY <1>1, <1>4, <1>5 DEF Sound, LinesAreSound, EndIsSound

(* What is left once the first line, f bytes long, was taken off.          *)
Beheaded(t, u, f) ==
    /\ f \in 1..Len(t) /\ t[f].c = CR
    /\ Len(u) = Len(t) - f /\ \A i \in 1..Len(u) : u[i] = t[i + f]

LEMMA ParseKeepsSound ==
    ASSUME NEW t \in Seq(Bytes), NEW u \in Seq(Bytes), NEW m, NEW d, NEW g,
           NEW f, Beheaded(t, u, f), Sound(t, m, d, g)
    PROVE  Sound(u, FALSE, d, g)
  <1> DEFINE n == Len(t)
             l == Len(u)
  <1>1. n \in Nat /\ l \in Nat /\ l = n - f /\ f \in 1..n /\ f \in Nat /\ t[f].c = CR
    BY LenProperties DEF Beheaded
  <1>2. LinesAreSound(t, m, d, g) /\ EndIsSound(t, m, d)
    BY DEF Sound
  <1>3. \A i \in 1..l : u[i] = t[i + f]
    BY DEF Beheaded
  <1> HIDE DEF n, l
  <1>4. ASSUME NEW b \in 1..l, Begins(u, b)
        PROVE  Begins(t, b + f) /\ b + f \in 1..n /\ b + f # 1 /\ u[b] = t[b + f]
    <2>1. b + f \in 1..n /\ b + f # 1
      BY <1>1
    <2>2. CASE b = 1
      <3>0. (b + f) - 1 = f
        BY <1>1, <2>2
      <3>1. u[b] = t[b + f]
        BY <1>3
      <3> QED  BY <1>1, <2>1, <3>0, <3>1 DEF Begins
    <2>3. CASE b # 1
      <3>1. b - 1 \in 1..l /\ (b - 1) + f = (b + f) - 1
        BY <1>1, <2>3
      <3> QED  BY <1>3, <1>4, <2>1, <2>3, <3>1 DEF Begins
    <2> QED  BY <2>2, <2>3
  <1>5. ASSUME NEW b \in 1..l, NEW e \in b..l, IsLine(u, b, e)
        PROVE  (d \/ e - b < 6) /\ (Sent(u, b, e, g) \/ (d /\ Harmless(u, b, e, g)))
    <2>1. Begins(u, b) /\ NoCR(u, b, e - 1) /\ u[e].c = CR
      BY <1>5 DEF IsLine
    <2>2. /\ b + f \in 1..n /\ e + f \in b + f..n /\ (e + f) - (b + f) = e - b
          /\ b + f # 1 /\ Begins(t, b + f) /\ u[b] = t[b + f]
      BY <1>1, <1>4, <2>1
    <2>3. \A j \in b + f..e + f : j - f \in b..e /\ t[j] = u[j - f]
      <3> SUFFICES ASSUME NEW j \in b + f..e + f PROVE j - f \in b..e /\ t[j] = u[j - f]
        OBVIOUS
      <3>1. j - f \in b..e /\ j - f \in 1..l /\ (j - f) + f = j
        BY <1>1
      <3> QED  BY <1>3, <3>1
    <2>4. \A j \in b..e : j + f \in b + f..e + f /\ u[j] = t[j + f]
      <3> SUFFICES ASSUME NEW j \in b..e PROVE j + f \in b + f..e + f /\ u[j] = t[j + f]
        OBVIOUS
      <3>1. j + f \in b + f..e + f /\ j \in 1..l
        BY <1>1
      <3> QED  BY <1>3, <3>1
    <2>5. NoCR(t, b + f, e + f - 1)
      <3> SUFFICES ASSUME NEW j \in b + f..e + f - 1 PROVE t[j].c # CR
        BY DEF NoCR
      <3>1. j \in b + f..e + f /\ j - f \in b..e - 1
        BY <1>1
      <3> QED  BY <2>1, <2>3, <3>1 DEF NoCR
    <2>6. e + f \in b + f..e + f /\ t[e + f].c = CR
      BY <1>1, <2>1, <2>4
    <2>7. IsLine(t, b + f, e + f)
      BY <1>1, <2>2, <2>5, <2>6 DEF IsLine
    <2>8. /\ d \/ e - b < 6
          /\ Sent(t, b + f, e + f, g) \/ (d /\ Harmless(t, b + f, e + f, g))
      BY <1>2, <2>2, <2>7 DEF LinesAreSound, n
    <2>9. Sent(t, b + f, e + f, g) => Sent(u, b, e, g)
      <3> SUFFICES ASSUME Sent(t, b + f, e + f, g) PROVE Sent(u, b, e, g)
        OBVIOUS
      <3>1. \A j \in b..e : u[j].k = j - b + 1 /\ u[j].n = u[b].n
        <4> SUFFICES ASSUME NEW j \in b..e PROVE u[j].k = j - b + 1 /\ u[j].n = u[b].n
          OBVIOUS
        <4>1. j + f \in b + f..e + f /\ u[j] = t[j + f] /\ (j + f) - (b + f) + 1 = j - b + 1
          BY <1>1, <2>4
        <4> QED  BY <2>2, <4>1 DEF Sent
      <3>2. e - b \in {4, 5} => b + 1 \in b..e /\ (b + 1) + f = (b + f) + 1
        BY <1>1
      <3>3. e - b \in {4, 5} => u[b + 1] = t[(b + f) + 1]
        BY <2>4, <3>2
      <3> QED  BY <2>2, <3>1, <3>3 DEF Sent
    <2>10. Harmless(t, b + f, e + f, g) => Harmless(u, b, e, g)
      BY <2>2 DEF Harmless
    <2> QED  BY <2>8, <2>9, <2>10
  <1>6. ASSUME NEW b \in 1..l, Begins(u, b), NoCR(u, b, l)
        PROVE  d /\ (u[b].c # D \/ l - b >= 2)
    <2>1. /\ b + f \in 1..n /\ b + f # 1 /\ Begins(t, b + f) /\ u[b] = t[b + f]
          /\ n - (b + f) = l - b
      BY <1>1, <1>4, <1>6
    <2>2. NoCR(t, b + f, n)
      <3> SUFFICES ASSUME NEW j \in b + f..n PROVE t[j].c # CR
        BY DEF NoCR
      <3>1. j - f \in b..l /\ j - f \in 1..l /\ (j - f) + f = j
        BY <1>1
      <3> QED  BY <1>3, <1>6, <3>1 DEF NoCR
    <2> QED  BY <1>2, <2>1, <2>2 DEF EndIsSound, n
  <1> QED  BY <1>5, <1>6 DEF Sound, LinesAreSound, EndIsSound, l

(* A byte is lost: a packet that misses one, or two that have become one,  *)
(* have no length that the parsers accept.                                 *)
LEMMA LossKeepsSound ==
    ASSUME NEW t \in Seq(Bytes), NEW u \in Seq(Bytes), NEW m, NEW g,
           NEW q \in 1..Len(t), Sound(t, m, FALSE, g), Len(u) = Len(t) - 1,
           \A i \in 1..Len(u) : u[i] = IF i < q THEN t[i] ELSE t[i + 1]
    PROVE  Sound(u, m, TRUE, g)
  <1> DEFINE n == Len(t)
             l == Len(u)
  <1>1. n \in Nat /\ l = n - 1 /\ q \in 1..n
    BY LenProperties
  <1>2. LinesAreSound(t, m, FALSE, g) /\ EndIsSound(t, m, FALSE)
    BY DEF Sound
  <1>3. \A i \in 1..l : u[i] = IF i < q THEN t[i] ELSE t[i + 1]
    OBVIOUS
  <1> HIDE DEF n, l
  <1>4. ASSUME NEW b \in 1..n, NEW e \in b..n, IsLine(t, b, e), ~ (b = 1 /\ m)
        PROVE  /\ Sent(t, b, e, g) /\ t[b].c \in {D, K, Dot}
               /\ \/ t[b].c = D /\ e - b = 4
                  \/ t[b].c # D /\ g /\ e - b \in {4, 5} /\ t[b + 1].c # D
                  \/ t[b].c # D /\ ~ g /\ e - b = 2
    BY <1>2, <1>4 DEF LinesAreSound, Sent, n
  <1>5. \A i \in 1..l : /\ i < q => u[i] = t[i]
                        /\ i >= q => u[i] = t[i + 1]
    BY <1>1, <1>3
  (* A line, or the unfinished end, that holds the place of the lost byte. *)
  <1>6. ASSUME NEW b \in 1..l, NEW e \in b..l, Begins(u, b), b <= q
        PROVE  /\ Begins(t, b)
               /\ NoCR(u, b, e - 1) /\ q <= e => \A j \in b..e : j # q => t[j].c # CR
    <2>1. Begins(t, b)
      <3>1. CASE b = 1
        BY <3>1 DEF Begins
      <3>2. CASE b # 1
        <4>1. b - 1 \in 1..l /\ b - 1 < q
          BY <1>1, <1>6, <3>2
        <4> QED  BY <1>5, <1>6, <3>2, <4>1 DEF Begins
      <3> QED  BY <3>1, <3>2
    <2>2. ASSUME NoCR(u, b, e - 1), q <= e, NEW j \in b..e, j # q PROVE t[j].c # CR
      <3>1. CASE j < q
        <4>1. j \in 1..l /\ j \in b..e - 1
          BY <1>1, <2>2, <3>1
        <4> QED  BY <1>5, <2>2, <3>1, <4>1 DEF NoCR
      <3>2. CASE j > q
        <4>1. j - 1 \in 1..l /\ j - 1 \in b..e - 1 /\ j - 1 >= q /\ (j - 1) + 1 = j
          BY <1>1, <1>6, <2>2, <3>2
        <4> QED  BY <1>5, <2>2, <4>1 DEF NoCR
      <3> QED  BY <1>1, <2>2, <3>1, <3>2
    <2> QED  BY <2>1, <2>2
  <1>7. ASSUME NEW b \in 1..l, NEW e \in b..l, IsLine(u, b, e), ~ (b = 1 /\ m)
        PROVE  Sent(u, b, e, g) \/ Harmless(u, b, e, g)
    <2>1. Begins(u, b) /\ NoCR(u, b, e - 1) /\ u[e].c = CR
      BY <1>7 DEF IsLine
    <2>2. CASE e < q
      <3>1. b \in 1..n /\ e \in b..n /\ \A i \in b..e : i \in 1..l /\ u[i] = t[i]
        BY <1>1, <1>5, <2>2
      <3>2. b # 1 => b - 1 \in 1..l /\ u[b - 1] = t[b - 1]
        BY <1>1, <1>5, <2>2
      <3>3. b \in b..e /\ e \in b..e /\ b..e - 1 \subseteq b..e
        BY <1>1
      <3>4. IsLine(t, b, e)
        BY <2>1, <3>1, <3>2, <3>3 DEF IsLine, Begins, NoCR
      <3>5. Sent(t, b, e, g)
        BY <1>4, <1>7, <3>1, <3>4
      <3>6. e - b \in {4, 5} => b + 1 \in b..e
        BY <1>1
      <3> QED  BY <3>1, <3>3, <3>5, <3>6 DEF Sent
    <2>3. CASE b > q
      <3>1. /\ b + 1 \in 1..n /\ e + 1 \in b + 1..n /\ (e + 1) - (b + 1) = e - b
            /\ (b + 1) - 1 = b /\ (e + 1) - 1 = e
        BY <1>1
      <3>2. \A i \in b..e : u[i] = t[i + 1]
        <4>1. \A i \in b..e : i \in 1..l /\ i >= q
          BY <1>1, <2>3
        <4> QED  BY <1>5, <4>1
      <3>3. t[b].c = CR
        <4>1. b - 1 \in 1..l /\ b - 1 >= q /\ (b - 1) + 1 = b
          BY <1>1, <2>3
        <4>2. b # 1 /\ u[b - 1].c = CR
          BY <1>1, <2>1, <2>3 DEF Begins
        <4> QED  BY <1>5, <4>1, <4>2
      <3>4. NoCR(t, b + 1, e)
        <4> SUFFICES ASSUME NEW j \in b + 1..e PROVE t[j].c # CR
          BY DEF NoCR
        <4>1. j - 1 \in b..e - 1 /\ j - 1 \in b..e /\ (j - 1) + 1 = j
          BY <1>1
        <4> QED  BY <2>1, <3>2, <4>1 DEF NoCR
      <3>5. e \in b..e /\ t[e + 1].c = CR
        <4>1. e \in b..e
          BY <1>1
        <4> QED  BY <2>1, <3>2, <4>1
      <3>6. IsLine(t, b + 1, e + 1)
        BY <3>1, <3>3, <3>4, <3>5 DEF IsLine, Begins
      <3>7. b + 1 # 1
        BY <1>1
      <3>8. Sent(t, b + 1, e + 1, g)
        BY <1>4, <3>1, <3>6, <3>7
      <3>9. \A j \in b..e : u[j].k = j - b + 1 /\ u[j].n = t[b + 1].n
        <4> SUFFICES ASSUME NEW j \in b..e PROVE u[j].k = j - b + 1 /\ u[j].n = t[b + 1].n
          OBVIOUS
        <4>1. j + 1 \in b + 1..e + 1 /\ (j + 1) - (b + 1) + 1 = j - b + 1
          BY <1>1
        <4> QED  BY <3>2, <3>8, <4>1 DEF Sent
      <3>10. b \in b..e /\ u[b] = t[b + 1]
        <4>1. b \in b..e
          BY <1>1
        <4> QED  BY <3>2, <4>1
      <3>11. e - b \in {4, 5} => u[b + 1] = t[(b + 1) + 1]
        <4>1. e - b \in {4, 5} => b + 1 \in b..e
          BY <1>1
        <4> QED  BY <3>2, <4>1
      <3> QED  BY <3>1, <3>8, <3>9, <3>10, <3>11 DEF Sent
    <2>4. CASE b <= q /\ q <= e
      <3>1. /\ Begins(t, b) /\ b \in 1..n /\ q \in b..n /\ e + 1 \in b..n
            /\ \A j \in b..e : j # q => t[j].c # CR
        BY <1>1, <1>6, <2>1, <2>4
      <3>2. t[e + 1].c = CR
        BY <1>1, <1>5, <2>1, <2>4
      <3>3. b < q => u[b] = t[b]
        BY <1>1, <1>5
      <3>4. CASE t[q].c # CR
        <4>1. IsLine(t, b, e + 1)
          BY <1>1, <3>1, <3>2, <3>4 DEF IsLine, NoCR
        <4>2. /\ t[b].c \in {D, K, Dot}
              /\ \/ t[b].c = D /\ (e + 1) - b = 4
                 \/ t[b].c # D /\ g /\ (e + 1) - b \in {4, 5} /\ t[b + 1].c # D
                 \/ t[b].c # D /\ ~ g /\ (e + 1) - b = 2
          BY <1>4, <1>7, <3>1, <4>1
        <4>3. b = q => u[b] = t[b + 1]
          BY <1>1, <1>5
        <4>4. CASE t[b].c = D /\ (e + 1) - b = 4
          <5>1. e - b - 1 = 2
            BY <1>1, <4>4
          <5> QED  BY <5>1 DEF Harmless
        <4>5. CASE t[b].c # D /\ g /\ t[b + 1].c # D
          <5>1. u[b].c # D
            BY <1>1, <3>1, <3>3, <4>3, <4>5
          <5> QED  BY <4>5, <5>1 DEF Harmless
        <4>6. CASE (e + 1) - b = 2
          <5>1. e - b - 1 = 0
            BY <1>1, <4>6
          <5> QED  BY <5>1 DEF Harmless
        <4> QED  BY <4>2, <4>4, <4>5, <4>6
      <3>5. CASE t[q].c = CR
        <4>1. IsLine(t, b, q)
          BY <1>1, <2>4, <3>1, <3>5 DEF IsLine, NoCR
        <4>2. \/ t[b].c = D /\ q - b = 4
              \/ t[b].c # D /\ g /\ q - b \in {4, 5}
              \/ t[b].c # D /\ ~ g /\ q - b = 2
          BY <1>4, <1>7, <3>1, <4>1
        <4>3. u[b] = t[b] /\ q + 1 \in 1..n /\ e + 1 \in q + 1..n /\ q + 1 # 1 /\ (q + 1) - 1 = q
          BY <1>1, <2>4, <3>3, <4>2
        <4>4. NoCR(t, q + 1, e)
          BY <1>1, <2>4, <3>1 DEF NoCR
        <4>5. IsLine(t, q + 1, e + 1)
          <5>1. Begins(t, q + 1)
            BY <3>5, <4>3 DEF Begins
          <5>2. (e + 1) - 1 = e
            BY <1>1
          <5> QED  BY <3>2, <4>4, <5>1, <5>2 DEF IsLine
        <4>6. (e + 1) - (q + 1) \in {2, 4, 5}
          BY <1>4, <4>3, <4>5
        <4>7. (g /\ u[b].c # D) \/ e - b - 1 # IF u[b].c = D THEN 3 ELSE 1
          BY <1>1, <4>2, <4>3, <4>6
        <4> QED  BY <4>7 DEF Harmless
      <3> QED  BY <3>4, <3>5
    <2> QED  BY <1>1, <2>2, <2>3, <2>4
  <1>8. ASSUME NEW b \in 1..l, Begins(u, b), NoCR(u, b, l), ~ (b = 1 /\ m)
        PROVE  u[b].c # D \/ l - b >= 2
    <2>1. n \in 1..n /\ t[n].c = CR
      <3>2. SUFFICES ASSUME t[n].c # CR PROVE FALSE
        BY <1>1
      <3>4. CASE b > q
        <4>1. b + 1 \in 1..n /\ t[b].c = CR
          <5>1. b - 1 \in 1..l /\ b - 1 >= q /\ (b - 1) + 1 = b /\ b # 1 /\ b + 1 \in 1..n
            BY <1>1, <3>4
          <5>2. u[b - 1] = t[b]
            BY <1>5, <5>1
          <5> QED  BY <1>8, <5>1, <5>2 DEF Begins
        <4>2. NoCR(t, b + 1, n)
          <5> SUFFICES ASSUME NEW j \in b + 1..n PROVE t[j].c # CR
            BY DEF NoCR
          <5>1. j - 1 \in b..l /\ j - 1 \in 1..l /\ j - 1 >= q /\ (j - 1) + 1 = j
            BY <1>1, <3>4
          <5> QED  BY <1>5, <1>8, <5>1 DEF NoCR
        <4>3. Begins(t, b + 1)
          BY <1>1, <4>1 DEF Begins
        <4> QED  BY <1>2, <4>1, <4>2, <4>3 DEF EndIsSound, n
      <3>5. CASE b <= q
        <4>2. Begins(t, b) /\ b \in 1..n
          <5>1. l \in b..l
            BY <1>1
          <5>2. Begins(t, b)
            BY <1>6, <1>8, <3>5, <5>1
          <5> QED  BY <1>1, <5>2
        <4>3. \A j \in b..n : j # q => t[j].c # CR
          <5> SUFFICES ASSUME NEW j \in b..n, j # q PROVE t[j].c # CR
            OBVIOUS
          <5>1. CASE j < q
            <6>1. j \in 1..l /\ j \in b..l
              BY <1>1, <5>1
            <6> QED  BY <1>5, <1>8, <5>1, <6>1 DEF NoCR
          <5>2. CASE j > q
            <6>1. j - 1 \in 1..l /\ j - 1 \in b..l /\ j - 1 >= q /\ (j - 1) + 1 = j
              BY <1>1, <3>5, <5>2
            <6> QED  BY <1>5, <1>8, <6>1 DEF NoCR
          <5> QED  BY <1>1, <5>1, <5>2
        <4>4. CASE t[q].c # CR
          BY <1>1, <1>2, <4>2, <4>3, <4>4 DEF EndIsSound, NoCR, n
        <4>5. CASE t[q].c = CR
          <5>1. q # n /\ q + 1 \in 1..n /\ (q + 1) - 1 = q
            BY <1>1, <3>2, <4>5
          <5>2. Begins(t, q + 1) /\ NoCR(t, q + 1, n)
            BY <1>1, <3>5, <4>3, <4>5, <5>1 DEF Begins, NoCR
          <5> QED  BY <1>2, <5>1, <5>2 DEF EndIsSound, n
        <4> QED  BY <4>4, <4>5
      <3> QED  BY <1>1, <3>4, <3>5
    <2>2. q = n
      <3> SUFFICES ASSUME q # n PROVE FALSE
        OBVIOUS
      <3>1. u[l] = t[n] /\ l \in b..l
        BY <1>1, <1>5
      <3> QED  BY <1>8, <2>1, <3>1 DEF NoCR
    <2>3. /\ Begins(t, b) /\ b \in 1..n /\ n \in b..n /\ u[b] = t[b]
          /\ NoCR(t, b, n - 1)
      <3>1. Begins(t, b)
        <4>1. l \in b..l /\ b <= q
          BY <1>1, <2>2
        <4> QED  BY <1>6, <1>8, <4>1
      <3>2. \A i \in 1..l : u[i] = t[i]
        BY <1>1, <1>5, <2>2
      <3> QED  BY <1>1, <1>8, <3>1, <3>2 DEF NoCR
    <2>4. t[b].c = D => n - b = 4
      BY <1>4, <1>8, <2>1, <2>3 DEF IsLine
    <2> QED  BY <1>1, <2>3, <2>4
  <1> QED  BY <1>7, <1>8 DEF Sound, LinesAreSound, EndIsSound, l

(* The first f bytes, no CR among them, are moved, rightly or wrongly.     *)
OnlyMoved(t, u, f) ==
    /\ f \in 1..Len(t) /\ Len(u) = Len(t)
    /\ \A i \in 1..f : t[i].c # CR /\ u[i].c # CR
    /\ \A i \in f + 1..Len(t) : u[i] = t[i]

LEMMA MoveKeepsSound ==
    ASSUME NEW t \in Seq(Bytes), NEW u \in Seq(Bytes), NEW m, NEW d, NEW g,
           NEW f, OnlyMoved(t, u, f), Sound(t, m, d, g)
    PROVE  Sound(u, TRUE, d, g)
  <1> DEFINE n == Len(t)
  <1>1. n \in Nat /\ f \in 1..n /\ Len(u) = n
    BY LenProperties DEF OnlyMoved
  <1>2. LinesAreSound(t, m, d, g) /\ EndIsSound(t, m, d)
    BY DEF Sound
  <1>3. /\ \A i \in 1..f : t[i].c # CR /\ u[i].c # CR
        /\ \A i \in f + 1..n : u[i] = t[i]
    BY DEF OnlyMoved
  <1> HIDE DEF n
  <1>4. ASSUME NEW b \in 1..n, Begins(u, b)
        PROVE  Begins(t, b) /\ (b # 1 => b > f + 1)
    <2>1. CASE b = 1
      BY <2>1 DEF Begins
    <2>2. CASE b # 1
      <3>1. b - 1 \in 1..n /\ u[b - 1].c = CR
        BY <1>1, <1>4, <2>2 DEF Begins
      <3>2. b - 1 \notin 1..f
        BY <1>3, <3>1
      <3>3. b - 1 \in f + 1..n
        BY <1>1, <3>1, <3>2
      <3> QED  BY <1>1, <1>3, <3>1, <3>3 DEF Begins
    <2> QED  BY <2>1, <2>2
  <1>5. \A i \in 1..n : u[i].c = CR <=> t[i].c = CR
    BY <1>1, <1>3
  <1>6. ASSUME NEW b \in 1..n, NEW e \in b..n, IsLine(u, b, e)
        PROVE  /\ d \/ e - b < 6
               /\ b = 1 \/ Sent(u, b, e, g) \/ (d /\ Harmless(u, b, e, g))
    <2>1. Begins(u, b) /\ NoCR(u, b, e - 1) /\ u[e].c = CR
      BY <1>6 DEF IsLine
    <2>2. IsLine(t, b, e)
      BY <1>1, <1>4, <1>5, <2>1 DEF IsLine, NoCR
    <2>3. /\ d \/ e - b < 6
          /\ b = 1 \/ Sent(t, b, e, g) \/ (d /\ Harmless(t, b, e, g))
      BY <1>2, <2>2 DEF LinesAreSound, n
    <2>4. b # 1 => \A j \in b..e : u[j] = t[j]
      BY <1>1, <1>3, <1>4, <2>1
    <2>5. b # 1 /\ Sent(t, b, e, g) => Sent(u, b, e, g)
      <3>1. b \in b..e /\ (e - b \in {4, 5} => b + 1 \in b..e)
        BY <1>1
      <3> QED  BY <2>4, <3>1 DEF Sent
    <2>6. b # 1 /\ Harmless(t, b, e, g) => Harmless(u, b, e, g)
      <3>1. b \in b..e
        BY <1>1
      <3> QED  BY <2>4, <3>1 DEF Harmless
    <2> QED  BY <2>3, <2>5, <2>6
  <1>7. ASSUME NEW b \in 1..n, Begins(u, b), NoCR(u, b, n)
        PROVE  d /\ (b = 1 \/ u[b].c # D \/ n - b >= 2)
    <2>1. Begins(t, b) /\ NoCR(t, b, n)
      BY <1>1, <1>4, <1>5, <1>7 DEF NoCR
    <2>2. d /\ (b = 1 \/ t[b].c # D \/ n - b >= 2)
      BY <1>2, <2>1 DEF EndIsSound, n
    <2>3. b # 1 => u[b] = t[b]
      BY <1>1, <1>3, <1>4, <1>7
    <2> QED  BY <2>2, <2>3
  <1> QED  BY <1>1, <1>6, <1>7 DEF Sound, LinesAreSound, EndIsSound

(***************************************************************************)
(* The pieces of the input buffer.                                         *)
(***************************************************************************)
LEMMA LeastPlace ==
    ASSUME NEW n \in Nat, NEW T \in SUBSET (1..n), T # {}
    PROVE  \E k \in T : \A l \in T : k <= l
  <1> DEFINE U == {n + 1 - k : k \in T}
  <1>1. \A k \in T : k \in 1..n /\ n + 1 - k \in 1..n
    OBVIOUS
  <1>2. U \in SUBSET (1..n) /\ U # {}
    BY <1>1
  <1>3. PICK x \in U : \A y \in U : y <= x
    <2> HIDE DEF U
    <2> QED  BY <1>2, GreatestPlace
  <1>4. PICK k \in T : x = n + 1 - k
    OBVIOUS
  <1>5. ASSUME NEW l \in T PROVE k <= l
    <2>1. n + 1 - l <= n + 1 - k
      BY <1>3, <1>4
    <2>2. k \in 1..n /\ l \in 1..n
      BY <1>1
    <2> HIDE DEF U
    <2> QED  BY <2>1, <2>2
  <1> QED  BY <1>5

LEMMA FirstCRProperties ==
    ASSUME NEW s \in Seq(Bytes), HasCR(s)
    PROVE  /\ FirstCR(s) \in 1..Len(s) /\ s[FirstCR(s)].c = CR
           /\ NoCR(s, 1, FirstCR(s) - 1)
  <1> DEFINE T == {k \in 1..Len(s) : s[k].c = CR}
  <1>1. Len(s) \in Nat /\ DOMAIN s = 1..Len(s)
    BY LenProperties
  <1>2. T \in SUBSET (1..Len(s)) /\ T # {}
    BY <1>1 DEF HasCR
  <1>3. PICK k \in T : \A l \in T : k <= l
    <2> HIDE DEF T
    <2> QED  BY <1>1, <1>2, LeastPlace
  <1>4. k \in DOMAIN s /\ s[k].c = CR /\ \A j \in 1..k - 1 : s[j].c # CR
    <2>1. k \in 1..Len(s) /\ s[k].c = CR
      OBVIOUS
    <2>2. ASSUME NEW j \in 1..k - 1 PROVE s[j].c # CR
      <3>1. j \in 1..Len(s) /\ ~ (k <= j)
        BY <1>1, <2>1
      <3>2. j \notin T
        BY <1>3, <3>1
      <3> QED  BY <3>1, <3>2
    <2> QED  BY <1>1, <2>1, <2>2
  <1> HIDE DEF T
  <1>5. /\ FirstCR(s) \in DOMAIN s /\ s[FirstCR(s)].c = CR
        /\ \A j \in 1..FirstCR(s) - 1 : s[j].c # CR
    BY <1>4 DEF FirstCR
  <1> QED  BY <1>1, <1>5 DEF NoCR

LEMMA StreamProperties ==
    ASSUME NEW s \in Seq(Bytes), NEW k \in 0..Len(s), NEW w \in Seq(Bytes),
           NEW r, r = SubSeq(s, k + 1, Len(s)), NEW t, t = r \o w
    PROVE  /\ r \in Seq(Bytes) /\ Len(r) = Len(s) - k /\ Len(r) \in Nat
           /\ \A i \in 1..Len(r) : r[i] = s[k + i]
           /\ t \in Seq(Bytes) /\ Len(t) = Len(r) + Len(w)
           /\ \A i \in 1..Len(t) : t[i] = IF i <= Len(r) THEN r[i] ELSE w[i - Len(r)]
  <1>1. Len(s) \in Nat /\ Len(w) \in Nat /\ \A i \in k + 1..Len(s) : s[i] \in Bytes
    BY LenProperties, ElementOfSeq
  <1>2. /\ r \in Seq(Bytes)
        /\ Len(r) = IF k + 1 <= Len(s) THEN Len(s) - (k + 1) + 1 ELSE 0
        /\ \A i \in 1..Len(s) - (k + 1) + 1 : r[i] = s[(k + 1) + i - 1]
    <2>1. k + 1 \in Int /\ Len(s) \in Int
      BY <1>1
    <2> QED  BY <1>1, <2>1, SubSeqProperties
  <1>3. Len(r) = Len(s) - k /\ Len(r) \in Nat
    BY <1>1, <1>2
  <1>4. ASSUME NEW i \in 1..Len(r) PROVE r[i] = s[k + i]
    <2>1. i \in 1..Len(s) - (k + 1) + 1 /\ (k + 1) + i - 1 = k + i
      BY <1>1, <1>3
    <2> QED  BY <1>2, <2>1
  <1>5. /\ t \in Seq(Bytes) /\ Len(t) = Len(r) + Len(w)
        /\ \A i \in 1..Len(r) + Len(w) : t[i] = IF i <= Len(r) THEN r[i] ELSE w[i - Len(r)]
    BY <1>2, ConcatProperties
  <1> QED  BY <1>2, <1>3, <1>4, <1>5

(* The first line of what is left, and its payload.                        *)
LEMMA LineProperties ==
    ASSUME NEW r \in Seq(Bytes), HasCR(r)
    PROVE  LET f  == FirstCR(r)
               ln == SubSeq(r, 1, f)
               da == SubSeq(ln, 2, Len(ln) - 1)
           IN  /\ ln \in Seq(Bytes) /\ Len(ln) = f /\ DOMAIN ln = 1..f
               /\ \A i \in 1..f : ln[i] = r[i]
               /\ Len(da) = IF f > 2 THEN f - 2 ELSE 0
               /\ \A i \in 1..Len(da) : da[i].c \in Values
  <1> DEFINE f == FirstCR(r)
             ln == SubSeq(r, 1, f)
             da == SubSeq(ln, 2, Len(ln) - 1)
  <1>1. /\ f \in 1..Len(r) /\ Len(r) \in Nat
        /\ NoCR(r, 1, f - 1) /\ \A i \in 1..Len(r) : r[i] \in Bytes
    BY FirstCRProperties, LenProperties, ElementOfSeq
  <1> HIDE DEF f
  <1>0. f \in Nat /\ f >= 1
    BY <1>1
  <1>2. /\ ln \in Seq(Bytes)
        /\ Len(ln) = IF 1 <= f THEN f - 1 + 1 ELSE 0
        /\ \A i \in 1..f - 1 + 1 : ln[i] = r[1 + i - 1]
    <2>1. 1 \in Int /\ f \in Int /\ \A i \in 1..f : r[i] \in Bytes
      BY <1>1
    <2> QED  BY <2>1, SubSeqProperties
  <1> HIDE DEF ln
  <1>3. Len(ln) = f /\ DOMAIN ln = 1..f
    <2>1. Len(ln) = f
      BY <1>0, <1>2
    <2> QED  BY <1>2, <2>1, LenProperties
  <1>4. ASSUME NEW i \in 1..f PROVE ln[i] = r[i] /\ ln[i] \in Bytes
    <2>1. i \in 1..f - 1 + 1 /\ 1 + i - 1 = i /\ i \in 1..Len(r)
      BY <1>1
    <2> QED  BY <1>1, <1>2, <2>1
  <1>5. ASSUME NEW i \in 2..f - 1 PROVE ln[i] \in Bytes /\ ln[i].c # CR
    <2>1. i \in 1..f /\ i \in 1..f - 1
      BY <1>0
    <2> QED  BY <1>1, <1>4, <2>1 DEF NoCR
  <1>6. /\ Len(da) = IF 2 <= f - 1 THEN (f - 1) - 2 + 1 ELSE 0
        /\ \A i \in 1..(f - 1) - 2 + 1 : da[i] = ln[2 + i - 1]
    <2>1. 2 \in Int /\ f - 1 \in Int
      BY <1>0
    <2>2. \A i \in 2..f - 1 : ln[i] \in Bytes
      BY <1>5
    <2>3. da = SubSeq(ln, 2, f - 1)
      BY <1>3
    <2> HIDE DEF da
    <2>4. /\ Len(SubSeq(ln, 2, f - 1)) = IF 2 <= f - 1 THEN (f - 1) - 2 + 1 ELSE 0
          /\ \A i \in 1..(f - 1) - 2 + 1 : SubSeq(ln, 2, f - 1)[i] = ln[2 + i - 1]
      BY <2>1, <2>2, SubSeqProperties
    <2> QED  BY <2>3, <2>4, Zenon
  <1> HIDE DEF da
  <1>7. ASSUME NEW i \in 1..Len(da) PROVE da[i].c \in Values
    <2>1. i \in 1..(f - 1) - 2 + 1 /\ 2 + i - 1 \in 2..f - 1
      BY <1>0, <1>6
    <2>2. da[i] \in Bytes /\ da[i].c # CR
      BY <1>5, <1>6, <2>1
    <2> QED  BY <2>2 DEF Bytes
  <1>8. Len(da) = IF f > 2 THEN f - 2 ELSE 0
    BY <1>0, <1>6
  <1> QED  BY <1>2, <1>3, <1>4, <1>7, <1>8, Zenon DEF f, ln, da

(* A packet is what its name says, and a line of its own.                  *)
LEMMA PacketProperties ==
    ASSUME NEW id \in {D, K, Dot}, NEW data \in Seq(Values \ {CR}), sent \in Nat, NEW g,
           id = D => Len(data) = 3,
           id # D /\ g => Len(data) \in {3, 4} /\ data[1] # D,
           id # D /\ ~ g => Len(data) = 1
    PROVE  Packet(id, data) \in Seq(Bytes) /\ IsPacket(Packet(id, data), g)
  <1> DEFINE l == Len(data) + 2
             B(k) == Byte(sent % 2, k, IF k = 1 THEN id ELSE IF k = l THEN CR ELSE data[k - 1])
             p == [k \in 1..l |-> B(k)]
  <1>1. /\ l \in {3, 5, 6} /\ l \in Nat /\ (l = 3 => ~ g)
        /\ IF id = D THEN l - 1 = 4
           ELSE IF g THEN l - 1 \in {4, 5} /\ B(2).c # D
           ELSE l - 1 = 2
    <2>1. Len(data) \in Nat
      BY LenProperties
    <2>2. id # D /\ g => l # 2 /\ B(2).c = data[1]
      <3>1. B(2).c = IF 2 = 1 THEN id ELSE IF 2 = l THEN CR ELSE data[2 - 1]
        BY DEF Byte
      <3> QED  BY <2>1, <3>1
    <2> HIDE DEF B
    <2>3. CASE id = D
      <3>1. Len(data) = 3
        BY <2>3
      <3>2. l = 5 /\ l - 1 = 4
        BY <3>1
      <3> HIDE DEF l
      <3> QED  BY <2>3, <3>2
    <2>4. CASE id # D /\ g
      <3>0. Len(data) \in {3, 4}
        BY <2>4, Zenon
      <3>1. l \in {5, 6}
        <4>1. \A n \in {3, 4} : n + 2 \in {5, 6}
          OBVIOUS
        <4> QED  BY <3>0, <4>1, Zenon
      <3>2. B(2).c # D
        BY <2>2, <2>4
      <3>3. l \in {3, 5, 6} /\ l \in Nat /\ l # 3 /\ l - 1 \in {4, 5}
        BY <3>1
      <3> HIDE DEF l
      <3> QED  BY <2>4, <3>2, <3>3
    <2>5. CASE id # D /\ ~ g
      <3>1. Len(data) = 1
        BY <2>5
      <3>2. l = 3 /\ l - 1 = 2
        BY <3>1
      <3> HIDE DEF l
      <3> QED  BY <2>5, <3>2
    <2> QED  BY <2>3, <2>4, <2>5
  <1>2. Packet(id, data) = p
    BY DEF Packet
  <1>3. sent % 2 \in 0..2
    OBVIOUS
  <1>4. ASSUME NEW k \in 1..l
        PROVE  /\ B(k) \in Bytes /\ B(k).k = k /\ B(k).n = sent % 2
               /\ B(k).c = CR <=> k = l
               /\ k = 1 => B(k).c = id
    <2>1. CASE k = 1
      BY <1>1, <1>3, <2>1, SerialInputAssumption DEF Byte, Bytes, D, K, Dot, CR
    <2>2. CASE k = l
      BY <1>1, <1>3, <2>2, SerialInputAssumption DEF Byte, Bytes, D, K, Dot, CR
    <2>3. CASE k # 1 /\ k # l
      <3>1. k - 1 \in 1..Len(data)
        BY <1>1, <2>3
      <3>2. data[k - 1] \in Values /\ data[k - 1] # CR
        BY <3>1, ElementOfSeq
      <3> QED  BY <1>3, <2>3, <3>2 DEF Byte, Bytes
    <2> QED  BY <2>1, <2>2, <2>3
  <1> HIDE DEF B
  <1>5. p \in Seq(Bytes) /\ Len(p) = l /\ \A k \in 1..l : p[k] = B(k)
    <2>1. p \in [1..l -> Bytes]
      BY <1>4
    <2>2. p \in Seq(Bytes)
      BY <1>1, <2>1
    <2> QED  BY <1>1, <2>1, <2>2, LenProperties
  <1> HIDE DEF p, l
  <1>6. \A k \in 1..l : /\ p[k].k = k /\ p[k].n = sent % 2
                        /\ p[k].c = CR <=> k = l
                        /\ k = 1 => p[k].c = id
    BY <1>4, <1>5
  <1>7. 1 \in 1..l /\ l \in 1..l /\ 2 \in 1..l /\ p[2] = B(2)
    BY <1>1, <1>5
  <1>8. Sent(p, 1, l, g)
    <2>1. \A j \in 1..l : p[j].k = j - 1 + 1 /\ p[j].n = p[1].n
      BY <1>6, <1>7
    <2>2. p[1].c = id /\ p[1 + 1] = B(2)
      BY <1>6, <1>7
    <2> QED  BY <1>1, <2>1, <2>2 DEF Sent
  <1>9. IsLine(p, 1, l)
    BY <1>1, <1>6, <1>7 DEF IsLine, Begins, NoCR
  <1> QED  BY <1>1, <1>2, <1>5, <1>8, <1>9 DEF IsPacket

LEMMA PacketsAreSent ==
    ASSUME sent \in Nat, NEW p \in Packets
    PROVE  p \in Seq(Bytes) /\ IsPacket(p, Mag)
  <1>1. CASE p \in {Packet(D, r) : r \in Readings}
    <2>1. PICK r \in Readings : p = Packet(D, r)
      BY <1>1
    <2>2. r \in [1..3 -> Values \ {CR}]
      BY SerialInputAssumption
    <2>3. r \in Seq(Values \ {CR}) /\ Len(r) = 3
      <3>1. 3 \in Nat
        OBVIOUS
      <3>2. r \in Seq(Values \ {CR})
        BY <2>2, <3>1, SeqDef, Zenon
      <3> QED  BY <2>2, <3>2, LenProperties
    <2> QED  BY <2>1, <2>3, PacketProperties
  <1>2. ASSUME NEW b \in KeyBytes, NEW id \in {K, Dot}, p = Packet(id, <<b>>), ~ Mag
        PROVE  p \in Seq(Bytes) /\ IsPacket(p, Mag)
    <2>1. b \in Values \ {CR} /\ id # D
      BY SerialInputAssumption DEF D, K, Dot
    <2>2. <<b>> \in Seq(Values \ {CR}) /\ Len(<<b>>) = 1
      BY <2>1
    <2> HIDE DEF Packet
    <2> QED  BY <1>2, <2>1, <2>2, PacketProperties
  <1>3. ASSUME NEW data \in KeyNibbles, p = Packet(K, data), Mag
        PROVE  p \in Seq(Bytes) /\ IsPacket(p, Mag)
    <2>1. PICK n \in {3, 4} : data \in [1..n -> (Nat \cap Values) \ {CR, D}]
      BY SerialInputAssumption
    <2>2. data \in [1..n -> Values \ {CR}] /\ data[1] # D /\ n \in Nat
      BY <2>1
    <2>3. data \in Seq(Values \ {CR}) /\ Len(data) = n
      BY <2>2, FunctionIsSeq
    <2>4. K # D /\ K \in {D, K, Dot}
      BY DEF D, K
    <2> HIDE DEF Packet
    <2>5. Packet(K, data) \in Seq(Bytes) /\ IsPacket(Packet(K, data), Mag)
      BY <1>3, <2>1, <2>2, <2>3, <2>4, PacketProperties
    <2> QED  BY <1>3, <2>5
  <1> QED  BY <1>1, <1>2, <1>3 DEF Packets, Mag

(* The events of a motion packet.                                          *)
LEMMA MotionEventsType ==
    ASSUME NEW axes \in SUBSET Axes, NEW reading \in [Axes -> Values]
    PROVE  MotionEvents(axes, reading) \in Seq(Motion \cup {Flush})
  <1> DEFINE M == Motion \cup {Flush}
             Changed(a) == IF a \in axes THEN <<[type |-> "motion", idx |-> a, val |-> reading[a]]>>
                           ELSE <<>>
             last == IF axes = {} THEN <<>> ELSE <<Flush>>
  <1>1. ASSUME NEW a \in Axes PROVE Changed(a) \in Seq(M)
    <2>1. CASE a \in axes
      <3>1. [type |-> "motion", idx |-> a, val |-> reading[a]] \in M
        BY DEF Motion
      <3> QED  BY <2>1, <3>1
    <2>2. CASE a \notin axes
      BY <2>2
    <2> QED  BY <2>1, <2>2
  <1>2. last \in Seq(M)
    <2>1. <<>> \in Seq(M) /\ (Flush \in M)
      OBVIOUS
    <2>2. <<Flush>> \in Seq(M)
      <3> HIDE DEF M
      <3> QED  BY <2>1
    <2> QED  BY <2>1, <2>2
  <1>3. MotionEvents(axes, reading) = Changed(0) \o Changed(1) \o last
    BY DEF MotionEvents
  <1>4. Changed(0) \in Seq(M) /\ Changed(1) \in Seq(M)
    BY <1>1, SerialInputAssumption
  <1> HIDE DEF Changed, last, M
  <1>5. Changed(0) \o Changed(1) \in Seq(M)
    BY <1>4, ConcatProperties
  <1>6. Changed(0) \o Changed(1) \o last \in Seq(M)
    BY <1>2, <1>5, ConcatProperties
  <1> QED  BY <1>3, <1>6 DEF M

(* What noise, loss and the move of the rest make of a sequence of bytes.  *)
LEMMA NoiseProperties ==
    ASSUME NEW b \in Nat
    PROVE  LET z == [k \in 1..b |-> Byte(2, 0, Junk)]
           IN  z \in Seq(Bytes) /\ Len(z) = b /\ \A i \in 1..Len(z) : z[i].c = Junk
  <1> DEFINE z == [k \in 1..b |-> Byte(2, 0, Junk)]
  <1>1. Byte(2, 0, Junk) \in Bytes /\ Byte(2, 0, Junk).c = Junk
    BY SerialInputAssumption DEF Byte, Bytes
  <1>2. z \in [1..b -> Bytes]
    BY <1>1
  <1>3. z \in Seq(Bytes) /\ Len(z) = b
    <2> HIDE DEF z
    <2> QED  BY <1>2, FunctionIsSeq
  <1> QED  BY <1>1, <1>3

LEMMA LossProperties ==
    ASSUME NEW w \in Seq(Bytes), NEW k \in 1..Len(w)
    PROVE  /\ RemoveAt(w, k) \in Seq(Bytes) /\ Len(RemoveAt(w, k)) = Len(w) - 1
           /\ \A i \in 1..Len(w) - 1 : RemoveAt(w, k)[i] = IF i < k THEN w[i] ELSE w[i + 1]
  <1> DEFINE n == Len(w)
             a == SubSeq(w, 1, k - 1)
             z == SubSeq(w, k + 1, Len(w))
  <1>1. n \in Nat /\ k \in 1..n /\ \A i \in 1..n : w[i] \in Bytes
    BY LenProperties, ElementOfSeq
  <1>2. /\ a \in Seq(Bytes) /\ Len(a) = IF 1 <= k - 1 THEN (k - 1) - 1 + 1 ELSE 0
        /\ \A i \in 1..(k - 1) - 1 + 1 : a[i] = w[1 + i - 1]
    <2>1. 1 \in Int /\ k - 1 \in Int /\ \A i \in 1..k - 1 : w[i] \in Bytes
      BY <1>1
    <2> QED  BY <2>1, SubSeqProperties
  <1>3. /\ z \in Seq(Bytes) /\ Len(z) = IF k + 1 <= n THEN n - (k + 1) + 1 ELSE 0
        /\ \A i \in 1..n - (k + 1) + 1 : z[i] = w[(k + 1) + i - 1]
    <2>1. k + 1 \in Int /\ n \in Int /\ \A i \in k + 1..n : w[i] \in Bytes
      BY <1>1
    <2> QED  BY <2>1, SubSeqProperties
  <1>4. RemoveAt(w, k) = a \o z
    BY DEF RemoveAt
  <1> HIDE DEF a, z
  <1>5. /\ a \o z \in Seq(Bytes) /\ Len(a \o z) = Len(a) + Len(z)
        /\ \A i \in 1..Len(a) + Len(z) : (a \o z)[i] = IF i <= Len(a) THEN a[i] ELSE z[i - Len(a)]
    BY <1>2, <1>3, ConcatProperties
  <1> HIDE DEF n
  <1>6. Len(a) = k - 1 /\ Len(z) = n - k
    BY <1>1, <1>2, <1>3
  <1>7. ASSUME NEW i \in 1..n - 1
        PROVE  (a \o z)[i] = IF i < k THEN w[i] ELSE w[i + 1]
    <2>1. (a \o z)[i] = IF i <= Len(a) THEN a[i] ELSE z[i - Len(a)]
      <3>1. i \in 1..Len(a) + Len(z)
        BY <1>1, <1>6
      <3> QED  BY <1>5, <3>1
    <2>2. CASE i < k
      <3>1. i \in 1..(k - 1) - 1 + 1 /\ 1 + i - 1 = i /\ i <= Len(a)
        BY <1>1, <1>6, <2>2
      <3> QED  BY <1>2, <2>1, <2>2, <3>1
    <2>3. CASE ~ (i < k)
      <3>1. /\ i - Len(a) \in 1..n - (k + 1) + 1 /\ (k + 1) + (i - Len(a)) - 1 = i + 1
            /\ ~ (i <= Len(a))
        BY <1>1, <1>6, <2>3
      <3> QED  BY <1>3, <2>1, <2>3, <3>1
    <2> QED  BY <2>2, <2>3
  <1>8. Len(a \o z) = n - 1
    BY <1>1, <1>5, <1>6
  <1> QED  BY <1>4, <1>5, <1>7, <1>8 DEF n

LEMMA MovedProperties ==
    ASSUME NEW s \in Seq(Bytes), NEW n \in 0..Len(s)
    PROVE  /\ Moved(s, n) \in Seq(Bytes) /\ Len(Moved(s, n)) = Len(s) - n
           /\ \A k \in 1..Len(s) - n : Moved(s, n)[k] = IF k <= n THEN s[n + k] ELSE s[k]
  <1> DEFINE l == Len(s) - n
             v == Moved(s, n)
  <1>1. Len(s) \in Nat /\ l \in Nat /\ \A i \in 1..Len(s) : s[i] \in Bytes
    BY LenProperties, ElementOfSeq
  <1>2. v = [k \in 1..l |-> IF k <= n THEN s[n + k] ELSE s[k]]
    BY DEF Moved
  <1>3. \A k \in 1..l : n + k \in 1..Len(s) /\ k \in 1..Len(s)
    BY <1>1
  <1> HIDE DEF v, l
  <1>4. v \in [1..l -> Bytes]
    BY <1>1, <1>2, <1>3
  <1>5. v \in Seq(Bytes) /\ Len(v) = l
    BY <1>1, <1>4, FunctionIsSeq
  <1> QED  BY <1>2, <1>5 DEF v, l

(* What a read takes off the wire.                                         *)
LEMMA ArrivedProperties ==
    ASSUME STypeOK, Progress, NEW k \in Arrived
    PROVE  /\ k \in 1..Len(wire)
           /\ SubSeq(wire, 1, k) \in Seq(Bytes) /\ Len(SubSeq(wire, 1, k)) = k
           /\ \A i \in 1..k : SubSeq(wire, 1, k)[i] = wire[i]
           /\ SubSeq(wire, k + 1, Len(wire)) \in Seq(Bytes)
           /\ Len(SubSeq(wire, k + 1, Len(wire))) = Len(wire) - k
           /\ \A i \in 1..Len(wire) - k : SubSeq(wire, k + 1, Len(wire))[i] = wire[k + i]
  <1>1. wire \in Seq(Bytes) /\ Len(wire) \in Nat /\ \A i \in 1..Len(wire) : wire[i] \in Bytes
    BY LenProperties, ElementOfSeq DEF STypeOK
  <1>2. k \in 1..Len(wire)
    <2>1. Room \in Nat
      BY LenProperties, SerialInputAssumption DEF Room, Progress, STypeOK
    <2>2. CASE parse # "mag"
      BY <1>1, <2>2 DEF Arrived
    <2>3. CASE parse = "mag"
      <3>1. HasCR(wire) /\ k \in {IF FirstCR(wire) <= Room THEN FirstCR(wire) ELSE Room} \ {0}
        BY <2>3 DEF Arrived, Readable
      <3>2. FirstCR(wire) \in 1..Len(wire)
        BY <1>1, <3>1, FirstCRProperties
      <3> QED  BY <1>1, <2>1, <3>1, <3>2
    <2> QED  BY <2>2, <2>3
  <1>3. /\ SubSeq(wire, 1, k) \in Seq(Bytes) /\ Len(SubSeq(wire, 1, k)) = k
        /\ \A i \in 1..k : SubSeq(wire, 1, k)[i] = wire[i]
    <2>1. 1 \in Int /\ k \in Int /\ 1 <= k /\ k - 1 + 1 = k /\ \A i \in 1..k : wire[i] \in Bytes /\ 1 + i - 1 = i
      BY <1>1, <1>2
    <2>2. /\ SubSeq(wire, 1, k) \in Seq(Bytes)
          /\ Len(SubSeq(wire, 1, k)) = IF 1 <= k THEN k - 1 + 1 ELSE 0
          /\ \A i \in 1..k - 1 + 1 : SubSeq(wire, 1, k)[i] = wire[1 + i - 1]
      BY <2>1, SubSeqProperties
    <2> QED  BY <2>1, <2>2, Zenon
  <1>4. k \in 0..Len(wire)
    BY <1>2
  <1>5. <<>> \in Seq(Bytes)
    OBVIOUS
  <1> DEFINE r == SubSeq(wire, k + 1, Len(wire))
             t == r \o <<>>
  <1>6. r \in Seq(Bytes) /\ Len(r) = Len(wire) - k /\ \A i \in 1..Len(r) : r[i] = wire[k + i]
    BY <1>1, <1>4, <1>5, StreamProperties
  <1> HIDE DEF r
  <1>7. \A i \in 1..Len(wire) - k : r[i] = wire[k + i]
    BY <1>6
  <1> QED  BY <1>2, <1>3, <1>6, <1>7, Zenon DEF r

-----------------------------------------------------------------------------
LEMMA InitSInv == SerialInit => SInv
  <1> SUFFICES ASSUME SerialInit PROVE SInv
    OBVIOUS
  <1>1. STypeOK
    <2>1. /\ buf = <<>> /\ wire = <<>> /\ motion_events = <<>> /\ start = 0 /\ sent = 0
          /\ mangled = FALSE /\ noisy = FALSE /\ hw \in Hardware
      BY DEF SerialInit
    <2>2. buf \in Seq(Bytes) /\ wire \in Seq(Bytes) /\ Len(buf) = 0
      BY <2>1
    <2>3. motion_events \in Seq(Motion \cup {Flush})
      BY <2>1
    <2>4. mangled \in BOOLEAN /\ noisy \in BOOLEAN
      BY <2>1, Zenon
    <2> QED  BY <2>1, <2>2, <2>3, <2>4 DEF STypeOK
  <1>2. Progress
    <2>1. Len(buf) = 0 /\ DOMAIN buf = {}
      BY DEF SerialInit
    <2> QED  BY <2>1, SerialInputAssumption DEF SerialInit, Init, Progress, HasCR
  <1>3. Handshake /\ RightParser
    <2>1. answer \in Seq({"text", "@1", "v"})
      BY DEF SerialInit
    <2> QED  BY <2>1 DEF SerialInit, Handshake, RightParser, Open
  <1>4. Len(Stream) = 0
    <2>1. wire \in Seq(Bytes) /\ Len(wire) = 0 /\ start = 0 /\ Len(buf) = 0
      BY <1>1 DEF SerialInit, STypeOK
    <2>2. Len(Rest) = Len(buf) - start /\ Len(Stream) = Len(Rest) + Len(wire)
      BY <1>1, StreamProperties DEF STypeOK, Rest, Stream
    <2> QED  BY <2>1, <2>2
  <1>5. Sound(Stream, mangled, noisy, Mag)
    BY <1>4 DEF Sound, LinesAreSound, EndIsSound
  <1> QED  BY <1>1, <1>2, <1>3, <1>5 DEF SInv

(* The first line of the buffer, and what the parsers do with it.          *)
LEMMA ParseTypes ==
    ASSUME STypeOK, Parse
    PROVE  /\ Rest \in Seq(Bytes) /\ Len(Rest) = Len(buf) - start
           /\ FirstCR(Rest) \in 1..Len(Rest) /\ start' = start + FirstCR(Rest)
           /\ Len(Line) = FirstCR(Rest) /\ DOMAIN Line = 1..FirstCR(Rest)
           /\ \A i \in 1..FirstCR(Rest) : Line[i] = Rest[i]
           /\ Len(Data) = IF FirstCR(Rest) > 2 THEN FirstCR(Rest) - 2 ELSE 0
           /\ motion_events' \in Seq(Motion \cup {Flush})
  <1>1. Rest \in Seq(Bytes) /\ Len(Rest) = Len(buf) - start
    BY StreamProperties DEF STypeOK, Rest
  <1>2. HasCR(Rest) /\ start' = start + Len(Line) /\ motion_events = <<>>
    BY DEF Parse
  <1>3. FirstCR(Rest) \in 1..Len(Rest)
    BY <1>1, <1>2, FirstCRProperties
  <1>4. /\ Len(Line) = FirstCR(Rest) /\ DOMAIN Line = 1..FirstCR(Rest)
        /\ \A i \in 1..FirstCR(Rest) : Line[i] = Rest[i]
        /\ Len(Data) = IF FirstCR(Rest) > 2 THEN FirstCR(Rest) - 2 ELSE 0
        /\ \A i \in 1..Len(Data) : Data[i].c \in Values
    BY <1>1, <1>2, LineProperties DEF Line, Data
  <1>5. CASE Line[1].c = D /\ Len(Data) = 3 /\ motion_packet
    <2> DEFINE reading == [a \in Axes |-> Data[a + 2].c]
               axes == {a \in Axes : reading[a] # mot[a]}
    <2>1. Len(Data) = 3
      BY <1>5
    <2>2. \A a \in Axes : a + 2 \in 1..Len(Data)
      BY <2>1, SerialInputAssumption
    <2>3. reading \in [Axes -> Values]
      BY <1>4, <2>2
    <2>4. motion_events' = MotionEvents(axes, reading)
      BY <1>5 DEF motion_packet
    <2>5. axes \in SUBSET Axes
      OBVIOUS
    <2> HIDE DEF axes, reading
    <2>6. motion_events' \in Seq(Motion \cup {Flush})
      BY <2>3, <2>4, <2>5, MotionEventsType
    <2> QED  BY <1>1, <1>2, <1>3, <1>4, <2>6
  <1>6. CASE motion_events' = motion_events
    BY <1>1, <1>2, <1>3, <1>4, <1>6 DEF STypeOK
  <1>7. \/ Line[1].c = D /\ Len(Data) = 3 /\ motion_packet
        \/ motion_events' = motion_events
    BY DEF Parse, sball_parsepkt, mag_parsepkt, pkt, ValidLength, MagValidLength
  <1> QED  BY <1>5, <1>6, <1>7

LEMMA StepTypes == SInv /\ [SerialNext]_svars => STypeOK'
  <1> SUFFICES ASSUME SInv, [SerialNext]_svars PROVE STypeOK'
    OBVIOUS
  <1>0. STypeOK
    BY DEF SInv
  <1>1. CASE SendPacket
    <2>1. PICK p \in Packets : wire' = wire \o p
      BY <1>1 DEF SendPacket
    <2>2. wire' \in Seq(Bytes)
      BY <1>0, <2>1, PacketsAreSent, ConcatProperties DEF STypeOK
    <2> QED  BY <1>0, <1>1, <2>2 DEF SendPacket, STypeOK, input, pkt
  <1>2. CASE Disturb
    <2>1. wire' \in Seq(Bytes)
      <3>1. ASSUME NEW b \in Bursts, wire' = wire \o [k \in 1..b |-> Byte(2, 0, Junk)]
            PROVE  wire' \in Seq(Bytes)
        BY <1>0, <3>1, NoiseProperties, ConcatProperties, SerialInputAssumption DEF STypeOK
      <3>2. ASSUME NEW k \in DOMAIN wire, wire' = RemoveAt(wire, k)
            PROVE  wire' \in Seq(Bytes)
        <4>1. wire \in Seq(Bytes) /\ k \in 1..Len(wire)
          BY <1>0, <3>2, LenProperties DEF STypeOK
        <4> QED  BY <3>2, <4>1, LossProperties
      <3> QED  BY <1>2, <3>1, <3>2 DEF Disturb
    <2> QED  BY <1>0, <1>2, <2>1 DEF Disturb, STypeOK, input, pkt
  <1>3. CASE Read
    <2>1. PICK k \in Arrived : /\ buf' = buf \o SubSeq(wire, 1, k)
                               /\ wire' = SubSeq(wire, k + 1, Len(wire))
      BY <1>3 DEF Read
    <2>2. wire' \in Seq(Bytes) /\ SubSeq(wire, 1, k) \in Seq(Bytes)
      BY <1>0, <2>1, ArrivedProperties DEF SInv
    <2>3. buf' \in Seq(Bytes) /\ Len(buf') \in Nat
      BY <1>0, <2>1, <2>2, ConcatProperties, LenProperties DEF STypeOK
    <2> QED  BY <1>0, <1>3, <2>2, <2>3 DEF Read, STypeOK, pkt
  <1>4. CASE Parse
    <2>1. start' \in 0..Len(buf) /\ motion_events' \in Seq(Motion \cup {Flush})
      <3>1. Len(buf) \in Nat /\ start \in 0..Len(buf)
        BY <1>0, LenProperties DEF STypeOK
      <3> QED  BY <1>0, <1>4, <3>1, ParseTypes
    <2> QED  BY <1>0, <1>4, <2>1 DEF Parse, STypeOK, line
  <1>5. CASE EnqueueMotion
    <2>1. motion_events' \in Seq(Motion \cup {Flush})
      BY <1>0, <1>5, HeadTailProperties DEF EnqueueMotion, STypeOK
    <2> QED  BY <1>0, <1>5, <2>1 DEF EnqueueMotion, STypeOK, line, input
  <1>6. CASE EndOfParse
    <2>1. buf' \in Seq(Bytes) /\ Len(buf') \in Nat
      BY <1>0, <1>6, MovedProperties, LenProperties DEF EndOfParse, STypeOK
    <2> QED  BY <1>0, <1>6, <2>1 DEF EndOfParse, STypeOK, line, pkt
  <1>7. CASE Sleep
    <2>1. ~ (Len(buf) >= BufSz)
      BY <1>0, LenProperties, SerialInputAssumption DEF SInv, Progress, STypeOK
    <2> QED  BY <1>0, <1>7, <2>1 DEF Sleep, STypeOK, line, pkt
  <1>8. CASE UNCHANGED <<line, input, motion_events>>
    BY <1>0, <1>8 DEF STypeOK, line, input
  <1>9. \/ SendPacket \/ Disturb \/ Read \/ Parse \/ EnqueueMotion \/ EndOfParse \/ Sleep
        \/ UNCHANGED <<line, input, motion_events>>
    BY DEF SerialNext, SerialDaemon, open_dev_serial, SballProbed, MagProbed, close_dev_serial,
           Start, EnqueueButton, Deliver, Answer, svars, pkt, line, input
  <1> QED  BY <1>1, <1>2, <1>3, <1>4, <1>5, <1>6, <1>7, <1>8, <1>9

LEMMA StreamType ==
    ASSUME STypeOK
    PROVE  /\ Rest \in Seq(Bytes) /\ Len(Rest) = Len(buf) - start /\ Len(Rest) \in Nat
           /\ \A i \in 1..Len(Rest) : Rest[i] = buf[start + i]
           /\ Stream \in Seq(Bytes) /\ Len(Stream) = Len(Rest) + Len(wire)
           /\ \A i \in 1..Len(Stream) :
                  Stream[i] = IF i <= Len(Rest) THEN Rest[i] ELSE wire[i - Len(Rest)]
           /\ Len(buf) \in Nat /\ Len(wire) \in Nat /\ start \in 0..Len(buf)
  BY StreamProperties, LenProperties DEF STypeOK, Rest, Stream

(* The same of the next state.                                             *)
LEMMA StreamTypeNext ==
    ASSUME STypeOK'
    PROVE  /\ Rest' \in Seq(Bytes) /\ Len(Rest') = Len(buf') - start' /\ Len(Rest') \in Nat
           /\ \A i \in 1..Len(Rest') : Rest'[i] = buf'[start' + i]
           /\ Stream' \in Seq(Bytes) /\ Len(Stream') = Len(Rest') + Len(wire')
           /\ \A i \in 1..Len(Stream') :
                  Stream'[i] = IF i <= Len(Rest') THEN Rest'[i] ELSE wire'[i - Len(Rest')]
           /\ Len(buf') \in Nat /\ Len(wire') \in Nat /\ start' \in 0..Len(buf')
  <1>1. buf' \in Seq(Bytes) /\ start' \in 0..Len(buf') /\ wire' \in Seq(Bytes)
    BY DEF STypeOK
  <1>2. Rest' = SubSeq(buf', start' + 1, Len(buf')) /\ Stream' = Rest' \o wire'
    BY DEF Rest, Stream
  <1>3. Len(buf') \in Nat /\ Len(wire') \in Nat
    BY <1>1, LenProperties
  <1> DEFINE s == buf'
             k == start'
             w == wire'
             r == Rest'
             t == Stream'
  <1>4. /\ s \in Seq(Bytes) /\ k \in 0..Len(s) /\ w \in Seq(Bytes)
        /\ r = SubSeq(s, k + 1, Len(s)) /\ t = r \o w
    BY <1>1, <1>2
  <1> HIDE DEF s, k, w, r, t
  <1>5. /\ r \in Seq(Bytes) /\ Len(r) = Len(s) - k /\ Len(r) \in Nat
        /\ \A i \in 1..Len(r) : r[i] = s[k + i]
        /\ t \in Seq(Bytes) /\ Len(t) = Len(r) + Len(w)
        /\ \A i \in 1..Len(t) : t[i] = IF i <= Len(r) THEN r[i] ELSE w[i - Len(r)]
    BY <1>4, StreamProperties, SMTT(60)
  <1> QED  BY <1>1, <1>3, <1>5, Zenon DEF s, k, w, r, t

(* An action that leaves what was received alone, or moves the border      *)
(* between the wire and the buffer.                                        *)
LEMMA SameStream ==
    ASSUME STypeOK, STypeOK', Sound(Stream, mangled, noisy, Mag),
           mangled' = mangled, noisy' = noisy,
           Len(buf') - start' + Len(wire') = Len(buf) - start + Len(wire),
           \A i \in 1..Len(buf) - start + Len(wire) :
               /\ i <= Len(buf) - start => i <= Len(buf') - start' /\ buf'[start' + i] = buf[start + i]
               /\ i > Len(buf) - start /\ i <= Len(buf') - start' =>
                      buf'[start' + i] = wire[i - (Len(buf) - start)]
               /\ i > Len(buf') - start' =>
                      wire'[i - (Len(buf') - start')] = wire[i - (Len(buf) - start)]
    PROVE  Sound(Stream', mangled', noisy', Mag)
  <1> DEFINE r == Len(buf) - start
             q == Len(buf') - start'
             n == r + Len(wire)
  <1>1. /\ r \in Nat /\ Len(wire) \in Nat /\ n \in Nat
        /\ Stream \in Seq(Bytes) /\ Len(Stream) = n
        /\ \A i \in 1..n : Stream[i] = IF i <= r THEN Rest[i] ELSE wire[i - r]
        /\ \A i \in 1..r : Rest[i] = buf[start + i]
    BY StreamType
  <1>2. /\ q \in Nat /\ Len(wire') \in Nat
        /\ Stream' \in Seq(Bytes) /\ Len(Stream') = q + Len(wire')
        /\ \A i \in 1..q + Len(wire') : Stream'[i] = IF i <= q THEN Rest'[i] ELSE wire'[i - q]
        /\ \A i \in 1..q : Rest'[i] = buf'[start' + i]
    BY StreamTypeNext
  <1>3. q + Len(wire') = n
    OBVIOUS
  <1>4. \A i \in 1..n :
           /\ i <= r => i <= q /\ buf'[start' + i] = buf[start + i]
           /\ i > r /\ i <= q => buf'[start' + i] = wire[i - r]
           /\ i > q => wire'[i - q] = wire[i - r]
    OBVIOUS
  <1> HIDE DEF r, q, n
  <1>5. ASSUME NEW i \in 1..n PROVE Stream'[i] = Stream[i]
    <2>0. i \in 1..q + Len(wire')
      BY <1>3
    <2>1. /\ Stream[i] = IF i <= r THEN Rest[i] ELSE wire[i - r]
          /\ Stream'[i] = IF i <= q THEN Rest'[i] ELSE wire'[i - q]
      BY <1>1, <1>2, <2>0
    <2>2. /\ i <= r => i <= q /\ buf'[start' + i] = buf[start + i]
          /\ i > r /\ i <= q => buf'[start' + i] = wire[i - r]
          /\ i > q => wire'[i - q] = wire[i - r]
      BY <1>4
    <2>3. CASE i <= r
      <3>1. i \in 1..r /\ i \in 1..q
        BY <1>1, <1>2, <2>2, <2>3
      <3> QED  BY <1>1, <1>2, <2>1, <2>2, <2>3, <3>1
    <2>4. CASE ~ (i <= r) /\ i <= q
      <3>1. i \in 1..q /\ i > r
        BY <1>1, <1>2, <2>4
      <3> QED  BY <1>2, <2>1, <2>2, <2>4, <3>1
    <2>5. CASE ~ (i <= r) /\ ~ (i <= q)
      <3>1. i > q
        BY <1>1, <1>2, <2>5
      <3> QED  BY <2>1, <2>2, <2>5, <3>1
    <2> QED  BY <2>2, <2>3, <2>4, <2>5
  <1>6. Stream' = Stream
    BY <1>1, <1>2, <1>3, <1>5, SeqEqual
  <1> QED  BY <1>6

(* The first line of the stream, once the buffer holds all of it.          *)
LEMMA FirstLine ==
    ASSUME STypeOK, HasCR(Rest)
    PROVE  /\ FirstCR(Rest) \in 1..Len(Rest) /\ FirstCR(Rest) \in 1..Len(Stream)
           /\ IsLine(Stream, 1, FirstCR(Rest))
           /\ \A i \in 1..FirstCR(Rest) : Stream[i] = Rest[i]
  <1> DEFINE f == FirstCR(Rest)
  <1>1. f \in 1..Len(Rest) /\ Rest[f].c = CR /\ NoCR(Rest, 1, f - 1)
    BY StreamType, FirstCRProperties
  <1> HIDE DEF f
  <1>2. f \in 1..Len(Stream) /\ \A i \in 1..f : Stream[i] = Rest[i]
    <2>1. Len(Rest) \in Nat /\ Len(wire) \in Nat /\ Len(Stream) = Len(Rest) + Len(wire)
      BY StreamType
    <2>2. f \in 1..Len(Stream) /\ \A i \in 1..f : i \in 1..Len(Stream) /\ i <= Len(Rest)
      BY <1>1, <2>1
    <2> QED  BY <2>2, StreamType
  <1>3. IsLine(Stream, 1, f)
    BY <1>1, <1>2 DEF IsLine, Begins, NoCR
  <1> QED  BY <1>1, <1>2, <1>3 DEF f

LEMMA ParseLines ==
    ASSUME STypeOK, STypeOK', Sound(Stream, mangled, noisy, Mag), Parse
    PROVE  Sound(Stream', mangled', noisy', Mag)
  <1> DEFINE f == FirstCR(Rest)
             n == Len(Stream)
             l == Len(Stream')
  <1>1. /\ buf' = buf /\ wire' = wire /\ mangled' = FALSE /\ noisy' = noisy /\ HasCR(Rest)
        /\ mangled \in BOOLEAN /\ noisy \in BOOLEAN
    BY DEF Parse, line, STypeOK
  <1>2. start' = start + f
    BY ParseTypes
  <1>3. f \in 1..Len(Rest) /\ f \in 1..n /\ Stream[f].c = CR
    BY <1>1, FirstLine DEF IsLine
  <1>4. /\ Len(Rest') = Len(buf) - start'
        /\ \A i \in 1..Len(Rest') : Rest'[i] = buf[start' + i]
        /\ Stream' \in Seq(Bytes) /\ l = Len(Rest') + Len(wire)
        /\ \A i \in 1..l : Stream'[i] = IF i <= Len(Rest') THEN Rest'[i] ELSE wire[i - Len(Rest')]
    BY <1>1, StreamTypeNext
  <1>5. /\ Stream \in Seq(Bytes) /\ n = Len(Rest) + Len(wire)
        /\ \A i \in 1..n : Stream[i] = IF i <= Len(Rest) THEN Rest[i] ELSE wire[i - Len(Rest)]
        /\ \A i \in 1..Len(Rest) : Rest[i] = buf[start + i]
        /\ Len(Rest) = Len(buf) - start
        /\ Len(buf) \in Nat /\ Len(wire) \in Nat /\ start \in Nat
    BY StreamType
  <1> HIDE DEF f, n, l
  <1>6. Len(Rest') = Len(Rest) - f /\ l = n - f
    BY <1>2, <1>3, <1>4, <1>5
  <1>7. ASSUME NEW i \in 1..l PROVE Stream'[i] = Stream[i + f]
    <2>1. i + f \in 1..n
      BY <1>3, <1>5, <1>6
    <2>2. CASE i <= Len(Rest')
      <3>1. /\ i + f <= Len(Rest) /\ i + f \in 1..Len(Rest) /\ i \in 1..Len(Rest')
            /\ start + (i + f) = start' + i
        <4>1. i \in Nat /\ i >= 1 /\ f \in Nat /\ f >= 1 /\ Len(Rest) \in Nat
          BY <1>3, <1>5
        <4> QED  BY <1>2, <1>5, <1>6, <2>2, <4>1
      <3> QED  BY <1>4, <1>5, <2>1, <2>2, <3>1
    <2>3. CASE ~ (i <= Len(Rest'))
      <3>1. ~ (i + f <= Len(Rest)) /\ (i + f) - Len(Rest) = i - Len(Rest')
        BY <1>3, <1>5, <1>6, <2>3
      <3> QED  BY <1>4, <1>5, <2>1, <2>3, <3>1
    <2> QED  BY <2>2, <2>3
  <1>8. Sound(Stream', FALSE, noisy, Mag)
    <2>1. Beheaded(Stream, Stream', f)
      BY <1>3, <1>6, <1>7 DEF n, l, Beheaded
    <2>2. Stream \in Seq(Bytes) /\ Stream' \in Seq(Bytes)
      BY <1>4, <1>5
    <2> QED  BY <2>1, <2>2, ParseKeepsSound
  <1> QED  BY <1>1, <1>8

LEMMA MoveLines ==
    ASSUME STypeOK, STypeOK', Sound(Stream, mangled, noisy, Mag), EndOfParse
    PROVE  Sound(Stream', mangled', noisy', Mag)
  <1>1. /\ wire' = wire /\ start' = 0 /\ noisy' = noisy /\ ~ HasCR(Rest)
        /\ buf' = IF start = 0 THEN buf ELSE Moved(buf, start)
        /\ mangled' = (mangled \/ (start > 0 /\ Len(buf) - start > start))
        /\ mangled \in BOOLEAN /\ noisy \in BOOLEAN
    BY DEF EndOfParse, line, STypeOK
  <1>2. /\ buf \in Seq(Bytes) /\ wire \in Seq(Bytes) /\ start \in 0..Len(buf)
        /\ Len(buf) \in Nat /\ Len(wire) \in Nat
    BY LenProperties DEF STypeOK
  <1>3. CASE start = 0
    <2>1. buf' = buf /\ mangled' = mangled
      <3>1. ~ (start > 0)
        BY <1>3
      <3> QED  BY <1>1, <1>3, <3>1, Zenon
    <2>2. Stream' = Stream
      BY <1>1, <1>3, <2>1 DEF Stream, Rest
    <2> QED  BY <1>1, <2>1, <2>2
  <1>4. CASE start # 0
    <2> DEFINE r == Len(buf) - start
    <2>1. /\ buf' = Moved(buf, start) /\ Len(buf') = r
          /\ \A k \in 1..r : buf'[k] = IF k <= start THEN buf[start + k] ELSE buf[k]
      BY <1>1, <1>2, <1>4, MovedProperties
    <2>2. /\ Len(Rest) = r /\ r \in Nat
          /\ \A i \in 1..r : Rest[i] = buf[start + i]
          /\ Stream \in Seq(Bytes) /\ Len(Stream) = r + Len(wire)
          /\ \A i \in 1..r + Len(wire) : Stream[i] = IF i <= r THEN Rest[i] ELSE wire[i - r]
      BY StreamType
    <2>3. /\ Len(Rest') = r
          /\ \A i \in 1..r : Rest'[i] = buf'[start' + i]
          /\ Stream' \in Seq(Bytes) /\ Len(Stream') = r + Len(wire)
          /\ \A i \in 1..r + Len(wire) : Stream'[i] = IF i <= r THEN Rest'[i] ELSE wire[i - r]
      <3>2. /\ Len(Rest') = Len(buf') - start'
            /\ \A i \in 1..Len(Rest') : Rest'[i] = buf'[start' + i]
            /\ Stream' \in Seq(Bytes) /\ Len(Stream') = Len(Rest') + Len(wire')
            /\ \A i \in 1..Len(Stream') :
                   Stream'[i] = IF i <= Len(Rest') THEN Rest'[i] ELSE wire'[i - Len(Rest')]
        BY StreamTypeNext
      <3>3. Len(Rest') = r
        BY <1>1, <2>1, <2>2, <3>2
      <3> HIDE DEF r
      <3> QED  BY <1>1, <3>2, <3>3
    <2>4. \A i \in 1..r : Rest'[i] = IF i <= start THEN Rest[i] ELSE buf[i]
      <3> SUFFICES ASSUME NEW i \in 1..r PROVE Rest'[i] = IF i <= start THEN Rest[i] ELSE buf[i]
        OBVIOUS
      <3>1. start' + i = i
        BY <1>1
      <3> HIDE DEF r
      <3> QED  BY <2>1, <2>2, <2>3, <3>1
    <2>5. \A i \in 1..r : Rest[i].c # CR
      BY <1>1, <2>2, StreamType, LenProperties DEF HasCR
    <2> HIDE DEF r
    <2>6. CASE r <= start
      <3>1. mangled' = mangled
        <4>1. ~ (Len(buf) - start > start)
          BY <1>2, <2>6 DEF r
        <4> QED  BY <1>1, <4>1, Zenon
      <3>2. \A i \in 1..r : Rest'[i] = Rest[i]
        BY <1>2, <2>2, <2>4, <2>6
      <3>3. \A i \in 1..Len(Stream) : Stream'[i] = Stream[i]
        BY <1>2, <2>2, <2>3, <3>2
      <3>4. Stream' = Stream
        BY <2>2, <2>3, <3>3, SeqEqual
      <3> QED  BY <1>1, <3>1, <3>4
    <2>7. CASE r > start
      <3>1. mangled' = TRUE
        <4>1. start > 0 /\ Len(buf) - start > start
          BY <1>2, <1>4, <2>7 DEF r
        <4> QED  BY <1>1, <4>1, Zenon
      <3>2. r \in 1..Len(Stream)
        BY <1>2, <2>2, <2>7
      <3>3. \A i \in 1..r : Stream[i].c # CR /\ Stream'[i].c # CR
        <4> SUFFICES ASSUME NEW i \in 1..r PROVE Stream[i].c # CR /\ Stream'[i].c # CR
          OBVIOUS
        <4>1. i \in 1..r + Len(wire) /\ i <= r
          BY <1>2, <2>2
        <4>2. Stream[i] = Rest[i] /\ Stream'[i] = Rest'[i]
          BY <2>2, <2>3, <4>1
        <4>3. CASE i <= start
          BY <2>4, <2>5, <4>2, <4>3
        <4>4. CASE ~ (i <= start)
          <5>1. i - start \in 1..r /\ start + (i - start) = i
            BY <1>2, <2>2, <4>4
          <5>2. Rest[i - start] = buf[i]
            BY <2>2, <5>1
          <5> QED  BY <2>4, <2>5, <4>2, <4>4, <5>1, <5>2
        <4> QED  BY <4>3, <4>4
      <3>4. \A i \in r + 1..Len(Stream) : Stream'[i] = Stream[i]
        <4> SUFFICES ASSUME NEW i \in r + 1..Len(Stream) PROVE Stream'[i] = Stream[i]
          OBVIOUS
        <4>1. i \in 1..r + Len(wire) /\ ~ (i <= r)
          BY <1>2, <2>2
        <4> QED  BY <2>2, <2>3, <4>1
      <3>5. Len(Stream') = Len(Stream)
        BY <2>2, <2>3
      <3>6. Sound(Stream', TRUE, noisy, Mag)
        <4>1. Stream \in Seq(Bytes) /\ Stream' \in Seq(Bytes)
          BY <2>2, <2>3
        <4>2. OnlyMoved(Stream, Stream', r)
          BY <3>2, <3>3, <3>4, <3>5 DEF OnlyMoved
        <4> QED  BY <4>1, <4>2, MoveKeepsSound
      <3> QED  BY <1>1, <3>1, <3>6
    <2> QED  BY <1>2, <2>2, <2>6, <2>7
  <1> QED  BY <1>3, <1>4

LEMMA DisturbLines ==
    ASSUME STypeOK, STypeOK', Sound(Stream, mangled, noisy, Mag), Disturb
    PROVE  Sound(Stream', mangled', noisy', Mag)
  <1>1. /\ buf' = buf /\ start' = start /\ mangled' = mangled
        /\ noisy = FALSE /\ noisy' = TRUE /\ mangled \in BOOLEAN
    BY DEF Disturb, input, STypeOK
  <1>2. /\ Rest' = Rest /\ Rest \in Seq(Bytes) /\ wire \in Seq(Bytes) /\ wire' \in Seq(Bytes)
        /\ Stream = Rest \o wire /\ Stream' = Rest \o wire'
        /\ Len(Rest) \in Nat /\ Len(wire) \in Nat
    BY <1>1, StreamType, LenProperties DEF Rest, Stream, STypeOK
  <1>3. ASSUME NEW b \in Bursts, wire' = wire \o [k \in 1..b |-> Byte(2, 0, Junk)]
        PROVE  Sound(Stream', mangled, TRUE, Mag)
    <2> DEFINE z == [k \in 1..b |-> Byte(2, 0, Junk)]
    <2>1. z \in Seq(Bytes) /\ \A i \in 1..Len(z) : z[i].c = Junk
      BY NoiseProperties, SerialInputAssumption
    <2> HIDE DEF z
    <2>2. Stream' = Stream \o z
      <3>1. wire' = wire \o z
        BY <1>3 DEF z
      <3>2. (Rest \o wire) \o z = Rest \o (wire \o z)
        BY <1>2, <2>1, ConcatAssociative
      <3> QED  BY <1>2, <3>1, <3>2, Zenon
    <2> QED  BY <1>1, <1>2, <2>1, <2>2, StreamType, NoiseKeepsSound
  <1>4. ASSUME NEW k \in DOMAIN wire, wire' = RemoveAt(wire, k)
        PROVE  Sound(Stream', mangled, TRUE, Mag)
    <2> DEFINE r == Len(Rest)
               n == Len(wire)
    <2>1. k \in 1..n /\ n \in Nat /\ r \in Nat
      BY <1>2, <1>4, LenProperties
    <2>2. Len(wire') = n - 1 /\ \A i \in 1..n - 1 : wire'[i] = IF i < k THEN wire[i] ELSE wire[i + 1]
      BY <1>2, <1>4, <2>1, LossProperties
    <2>3. /\ Stream \in Seq(Bytes) /\ Len(Stream) = r + n
          /\ \A i \in 1..r + n : Stream[i] = IF i <= r THEN Rest[i] ELSE wire[i - r]
      BY <1>2, ConcatProperties
    <2>4. /\ Stream' \in Seq(Bytes) /\ Len(Stream') = r + Len(wire')
          /\ \A i \in 1..r + Len(wire') : Stream'[i] = IF i <= r THEN Rest[i] ELSE wire'[i - r]
      BY <1>2, ConcatProperties
    <2> HIDE DEF r, n
    <2>5. r + k \in 1..Len(Stream) /\ Len(Stream') = Len(Stream) - 1 /\ Len(Stream') = r + (n - 1)
      BY <2>1, <2>2, <2>3, <2>4
    <2>6. ASSUME NEW i \in 1..Len(Stream')
          PROVE  Stream'[i] = IF i < r + k THEN Stream[i] ELSE Stream[i + 1]
      <3>1. i \in 1..r + n /\ i + 1 \in 1..r + n /\ i \in 1..r + Len(wire')
        BY <2>1, <2>4, <2>5
      <3>2. CASE i <= r
        BY <2>1, <2>3, <2>4, <3>1, <3>2
      <3>3. CASE ~ (i <= r)
        <4>1. /\ i - r \in 1..n - 1 /\ (i + 1) - r = (i - r) + 1 /\ ~ (i + 1 <= r)
              /\ i - r < k <=> i < r + k
          BY <2>1, <2>5, <3>3
        <4> QED  BY <2>2, <2>3, <2>4, <3>1, <3>3, <4>1
      <3> QED  BY <3>2, <3>3
    <2> QED  BY <1>1, <2>3, <2>4, <2>5, <2>6, LossKeepsSound
  <1> QED  BY <1>1, <1>3, <1>4 DEF Disturb

LEMMA ReadLines ==
    ASSUME STypeOK, STypeOK', Sound(Stream, mangled, noisy, Mag), Progress, start = 0, Read
    PROVE  Sound(Stream', mangled', noisy', Mag)
  <1>1. PICK k \in Arrived : /\ buf' = buf \o SubSeq(wire, 1, k)
                             /\ wire' = SubSeq(wire, k + 1, Len(wire))
    BY DEF Read
  <1>2. mangled' = mangled /\ noisy' = noisy /\ start' = 0
    BY DEF Read
  <1> DEFINE x == SubSeq(wire, 1, k)
             y == SubSeq(wire, k + 1, Len(wire))
             n == Len(buf)
             l == Len(wire)
  <1>3. /\ k \in 1..l /\ n \in Nat /\ l \in Nat /\ x \in Seq(Bytes) /\ Len(x) = k
        /\ \A i \in 1..k : x[i] = wire[i]
        /\ Len(y) = l - k /\ \A i \in 1..l - k : y[i] = wire[k + i]
    BY ArrivedProperties, StreamType
  <1>4. buf' = buf \o x /\ wire' = y /\ buf \in Seq(Bytes)
    BY <1>1 DEF STypeOK
  <1> HIDE DEF x, y, n, l
  <1>5. Len(buf') = n + k /\ \A i \in 1..n + k : buf'[i] = IF i <= n THEN buf[i] ELSE x[i - n]
    BY <1>3, <1>4, ConcatProperties DEF n
  <1>6. Len(buf') - start' + Len(wire') = n - start + l
    <2>1. start = 0 /\ start' = 0 /\ Len(wire') = l - k /\ Len(buf') = n + k
      BY <1>2, <1>3, <1>4, <1>5
    <2> QED  BY <1>3, <2>1
  <1>7. ASSUME NEW i \in 1..n - start + l
        PROVE  /\ i <= n - start => i <= Len(buf') - start' /\ buf'[start' + i] = buf[start + i]
               /\ i > n - start /\ i <= Len(buf') - start' =>
                      buf'[start' + i] = wire[i - (n - start)]
               /\ i > Len(buf') - start' =>
                      wire'[i - (Len(buf') - start')] = wire[i - (n - start)]
    <2>1. /\ start + i = i /\ start' + i = i /\ n - start = n /\ Len(buf') - start' = n + k
          /\ i \in 1..n + l
      BY <1>2, <1>3, <1>5
    <2>2. CASE i <= n
      <3>1. i \in 1..n + k /\ i <= n + k /\ ~ (i > n) /\ ~ (i > n + k)
        BY <1>3, <2>1, <2>2
      <3> QED  BY <1>5, <2>1, <2>2, <3>1
    <2>3. CASE i > n /\ i <= n + k
      <3>1. i \in 1..n + k /\ i - n \in 1..k /\ ~ (i <= n) /\ ~ (i > n + k)
        BY <1>3, <2>1, <2>3
      <3> QED  BY <1>3, <1>5, <2>1, <3>1
    <2>4. CASE i > n + k
      <3>1. i - (n + k) \in 1..l - k /\ k + (i - (n + k)) = i - n /\ ~ (i <= n) /\ ~ (i <= n + k)
        BY <1>3, <2>1, <2>4
      <3> QED  BY <1>3, <1>4, <2>1, <3>1
    <2> QED  BY <1>3, <2>1, <2>2, <2>3, <2>4
  <1> QED  BY <1>2, <1>6, <1>7, SameStream DEF n, l

LEMMA SendLines ==
    ASSUME STypeOK, STypeOK', Sound(Stream, mangled, noisy, Mag), SendPacket
    PROVE  Sound(Stream', mangled', noisy', Mag)
  <1>1. PICK p \in Packets : wire' = wire \o p
    BY DEF SendPacket
  <1>2. p \in Seq(Bytes) /\ IsPacket(p, Mag)
    BY PacketsAreSent DEF STypeOK
  <1>3. UNCHANGED <<buf, start, mangled, noisy>>
    BY DEF SendPacket, input
  <1>4. Rest' = Rest /\ Rest \in Seq(Bytes) /\ wire \in Seq(Bytes) /\ Stream \in Seq(Bytes)
    BY <1>3, StreamType DEF Rest, STypeOK
  <1>5. Stream' = Stream \o p
    <2>1. (Rest \o wire) \o p = Rest \o (wire \o p)
      <3>1. \A a, b, c \in Seq(Bytes) : (a \o b) \o c = a \o (b \o c)
        BY ConcatAssociative
      <3> QED  BY <1>2, <1>4, <3>1, Zenon
    <2> QED  BY <1>1, <1>4, <2>1, Zenon DEF Stream
  <1> DEFINE t == Stream
             m == mangled
             d == noisy
  <1>6. t \in Seq(Bytes) /\ m \in BOOLEAN /\ d \in BOOLEAN /\ Sound(t, m, d, Mag)
    BY <1>4 DEF STypeOK
  <1> HIDE DEF t, m, d
  <1>7. Sound(t \o p, m, d, Mag)
    BY <1>2, <1>6, SendKeepsSound
  <1> QED  BY <1>3, <1>5, <1>7 DEF t, m, d

LEMMA StepLines ==
    ASSUME SInv, STypeOK', [SerialNext]_svars
    PROVE  Sound(Stream', mangled', noisy', Mag')
  <1>0. STypeOK /\ Sound(Stream, mangled, noisy, Mag)
    BY DEF SInv
  <1>9. Mag' = Mag
    BY DEF SerialNext, SerialDaemon, open_dev_serial, SballProbed, MagProbed, close_dev_serial,
           Start, Read, Parse, EnqueueMotion, EnqueueButton, EndOfParse, Deliver, Sleep,
           SendPacket, Disturb, Answer, svars, line, Mag
  <1> SUFFICES Sound(Stream', mangled', noisy', Mag)
    BY <1>9
  <1>1. CASE SendPacket
    BY <1>0, <1>1, SendLines
  <1>2. CASE Disturb
    BY <1>0, <1>2, DisturbLines
  <1>3. CASE Read
    <2>1. start = 0 /\ Progress
      BY <1>3 DEF Read, SInv, Progress
    <2> QED  BY <1>0, <1>3, <2>1, ReadLines
  <1>4. CASE Parse
    BY <1>0, <1>4, ParseLines
  <1>5. CASE EndOfParse
    BY <1>0, <1>5, MoveLines
  <1>6. CASE UNCHANGED <<buf, start, wire, mangled, noisy>>
    <2>1. Stream' = Stream /\ mangled' = mangled /\ noisy' = noisy
      BY <1>6 DEF Stream, Rest
    <2> QED  BY <1>0, <2>1
  <1>7. CASE Sleep
    <2>1. ~ (Len(buf) >= BufSz)
      BY StreamType, SerialInputAssumption, <1>0 DEF SInv, Progress
    <2>2. UNCHANGED <<buf, start, wire, mangled, noisy>>
      BY <1>7, <2>1 DEF Sleep, line
    <2> QED  BY <1>6, <2>2
  <1>8. \/ SendPacket \/ Disturb \/ Read \/ Parse \/ EndOfParse \/ Sleep
        \/ UNCHANGED <<buf, start, wire, mangled, noisy>>
    BY DEF SerialNext, SerialDaemon, open_dev_serial, SballProbed, MagProbed, close_dev_serial,
           Start, EnqueueMotion, EnqueueButton, Deliver, Answer, svars, line, input
  <1> QED  BY <1>1, <1>2, <1>3, <1>4, <1>5, <1>6, <1>7, <1>8

(* What has been done by the time each state is reached.                   *)
LEMMA StepProgress ==
    ASSUME SInv, STypeOK', [SerialNext]_svars
    PROVE  Progress'
  <1>0. STypeOK /\ Progress
    BY DEF SInv
  <1>1. CASE Read
    <2>1. PICK k \in Arrived : k <= Room /\ buf' = buf \o SubSeq(wire, 1, k)
      BY <1>1 DEF Read
    <2>2. Len(buf') = Len(buf) + k /\ Len(buf) \in Nat /\ k \in Nat
      <3>1. k \in 1..Len(wire) /\ SubSeq(wire, 1, k) \in Seq(Bytes) /\ Len(SubSeq(wire, 1, k)) = k
        BY <1>0, <2>1, ArrivedProperties
      <3>2. buf \in Seq(Bytes)
        BY <1>0 DEF STypeOK
      <3> QED  BY <2>1, <3>1, <3>2, ConcatProperties, LenProperties
    <2>3. Len(buf') < BufSz
      BY <2>1, <2>2, SerialInputAssumption DEF Room
    <2> QED  BY <1>1, <2>3 DEF Read, Progress
  <1>2. CASE Parse
    BY <1>0, <1>2 DEF Parse, Progress
  <1>3. CASE EndOfParse
    <2>1. /\ state' = "read" /\ start' = 0 /\ ~ HasCR(Rest) /\ diff' = {} /\ motion_events' = <<>>
          /\ buf' = IF start = 0 THEN buf ELSE Moved(buf, start)
      BY <1>3 DEF EndOfParse, vars, pkt
    <2>2. /\ Len(Rest) = Len(buf) - start /\ DOMAIN Rest = 1..Len(Rest)
          /\ \A i \in 1..Len(Rest) : Rest[i] = buf[start + i]
          /\ Len(buf) \in Nat /\ start \in 0..Len(buf)
      BY <1>0, StreamType, LenProperties
    <2>3. \A i \in 1..Len(buf) - start : buf[start + i].c # CR
      BY <2>1, <2>2 DEF HasCR
    <2>4. buf \in Seq(Bytes) /\ DOMAIN buf = 1..Len(buf)
      BY <1>0, LenProperties DEF STypeOK
    <2>5. CASE start = 0
      <3>1. \A i \in 1..Len(buf) : buf[i].c # CR
        BY <2>2, <2>3, <2>5
      <3> QED  BY <1>0, <2>1, <2>4, <2>5, <3>1 DEF Progress, HasCR
    <2>6. CASE start # 0
      <3>1. /\ buf' \in Seq(Bytes) /\ Len(buf') = Len(buf) - start
            /\ \A k \in 1..Len(buf) - start :
                   buf'[k] = IF k <= start THEN buf[start + k] ELSE buf[k]
        BY <2>1, <2>2, <2>4, <2>6, MovedProperties
      <3>2. DOMAIN buf' = 1..Len(buf) - start
        BY <3>1, LenProperties
      <3>3. ASSUME NEW k \in 1..Len(buf) - start PROVE buf'[k].c # CR
        <4>1. CASE k <= start
          BY <2>3, <3>1, <4>1
        <4>2. CASE ~ (k <= start)
          <5>1. k - start \in 1..Len(buf) - start /\ start + (k - start) = k
            BY <2>2, <4>2
          <5>2. buf[start + (k - start)].c # CR
            BY <2>3, <5>1
          <5> QED  BY <3>1, <4>2, <5>1, <5>2
        <4> QED  BY <4>1, <4>2
      <3>4. ~ HasCR(buf)'
        BY <3>2, <3>3 DEF HasCR
      <3>5. Len(buf') < BufSz
        BY <1>0, <2>2, <3>1, SerialInputAssumption DEF Progress
      <3> QED  BY <2>1, <3>4, <3>5 DEF Progress
    <2> QED  BY <2>5, <2>6
  <1>4. CASE Sleep
    <2>1. ~ (Len(buf) >= BufSz)
      BY <1>0, StreamType, SerialInputAssumption DEF Progress
    <2> QED  BY <1>0, <1>4, <2>1 DEF Sleep, Progress, vars, pkt, HasCR
  <1>5. CASE Deliver
    BY <1>0, <1>5 DEF Deliver, read_dev_serial, Progress, input, pkt, HasCR
  <1>6. CASE EnqueueMotion
    <2>1. state = "parse"
      BY <1>0, <1>6 DEF EnqueueMotion, Progress
    <2> QED  BY <1>0, <1>6, <2>1 DEF EnqueueMotion, Progress, input
  <1>7. CASE EnqueueButton
    <2>1. state = "parse"
      BY <1>0, <1>7 DEF EnqueueButton, gen_button_events, Progress
    <2> QED  BY <1>0, <1>7, <2>1 DEF EnqueueButton, Progress, input
  <1>8. CASE open_dev_serial \/ SballProbed \/ MagProbed \/ close_dev_serial
    <2>1. /\ UNCHANGED <<buf, start, diff, motion_events, evq_rd, evq_wr>>
          /\ state \notin {"read", "parse"}
          /\ state' \notin {"read", "parse"}
      BY <1>8 DEF open_dev_serial, SballProbed, MagProbed, close_dev_serial, Start,
                  vars, input, pkt
    <2> QED  BY <1>0, <2>1 DEF Progress, HasCR
  <1>9. CASE SendPacket \/ Disturb \/ Answer \/ UNCHANGED svars
    BY <1>0, <1>9 DEF SendPacket, Disturb, Answer, svars, Progress, vars, input, pkt, HasCR
  <1> QED  BY <1>1, <1>2, <1>3, <1>4, <1>5, <1>6, <1>7, <1>8, <1>9 DEF SerialNext, SerialDaemon

(* The handshake tells the devices apart.                                  *)
LEMMA StepHandshake ==
    ASSUME SInv, [SerialNext]_svars
    PROVE  Handshake' /\ RightParser'
  <1>0. Handshake /\ RightParser /\ hw \in Hardware
    BY DEF SInv, STypeOK
  <1>1. \A t : memstr(answer, t) => Says(t)
    <2>1. Len(answer) \in Nat
      BY <1>0, LenProperties DEF Handshake
    <2> QED  BY <2>1 DEF memstr, Says
  <1>2. answer # <<>> => Head(answer) = answer[1] /\ 1 \in 1..Len(answer)
    BY <1>0, LenProperties, EmptySeq DEF Handshake
  <1>3. <<>> \in Seq({"text", "@1", "v"}) /\ Len(<<>>) = 0
    OBVIOUS
  <1>4. answer' = <<>> => answer' \in Seq({"text", "@1", "v"}) /\ ~ Says("@1")' /\ ~ Says("v")'
    BY <1>3 DEF Says
  <1>5. CASE Answer
    <2>1. PICK t \in Pieces : answer' = Append(answer, t)
      BY <1>5 DEF Answer
    <2>2. /\ state \in {"reset", "vQ"} /\ state' = state /\ hw' = hw
          /\ t \in {"text", "@1", "v"}
          /\ t = "@1" => state = "reset" /\ hw \in {"sball", "sball4000"}
          /\ t = "v" => state = "vQ" /\ hw = "magellan"
      BY <1>5, <2>1 DEF Answer, Pieces, line
    <2>3. /\ answer' \in Seq({"text", "@1", "v"}) /\ Len(answer') = Len(answer) + 1
          /\ \A i \in 1..Len(answer) : answer'[i] = answer[i]
          /\ answer'[Len(answer) + 1] = t /\ Len(answer) \in Nat
      BY <1>0, <2>1, <2>2, AppendProperties, LenProperties DEF Handshake
    <2>4. \A p : Says(p)' => Says(p) \/ p = t
      <3> SUFFICES ASSUME NEW p, NEW i \in 1..Len(answer'), answer'[i] = p PROVE Says(p) \/ p = t
        BY DEF Says
      <3>1. i \in 1..Len(answer) \/ i = Len(answer) + 1
        BY <2>3
      <3> QED  BY <2>3, <3>1 DEF Says
    <2>5. Says("@1")' => Says("@1") \/ t = "@1"
      BY <2>4
    <2>6. Says("v")' => Says("v") \/ t = "v"
      BY <2>4
    <2> QED  BY <1>0, <2>2, <2>3, <2>5, <2>6 DEF Handshake, RightParser, Open
  <1>6. CASE open_dev_serial
    <2>1. answer' = <<>> /\ state' \in {"reset", "failed"}
      BY <1>6 DEF open_dev_serial
    <2> QED  BY <1>4, <2>1 DEF Handshake, RightParser, Open
  <1>7. CASE SballProbed
    <2>1. /\ state = "reset" /\ answer' = <<>> /\ hw' = hw
          /\ \/ sball_answered /\ state' = "select" /\ parse' = "sball"
             \/ state' \in {"vQ", "failed"}
      BY <1>7 DEF SballProbed, Start, line
    <2>2. sball_answered => hw \in {"sball", "sball4000"}
      BY <1>0, <1>1, <2>1 DEF sball_answered, Handshake
    <2> QED  BY <1>4, <2>1, <2>2 DEF Handshake, RightParser, Open
  <1>8. CASE MagProbed
    <2>1. /\ state = "vQ" /\ answer' = <<>> /\ hw' = hw
          /\ \/ mag_answered /\ state' = "select" /\ parse' = "mag"
             \/ state' = "failed"
      BY <1>8 DEF MagProbed, Start, line
    <2>2. mag_answered => hw = "magellan"
      BY <1>0, <1>2, <2>1 DEF mag_answered, Handshake, Says
    <2> QED  BY <1>4, <2>1, <2>2 DEF Handshake, RightParser, Open
  <1>9. CASE /\ UNCHANGED <<hw, answer, parse>>
             /\ \/ state' = state
                \/ Open /\ state' \in {"select", "read", "parse", "gone"}
                \/ state' = "undefined"
    BY <1>0, <1>9 DEF Handshake, RightParser, Open, Says
  <1>10. \/ Answer \/ open_dev_serial \/ SballProbed \/ MagProbed
         \/ /\ UNCHANGED <<hw, answer, parse>>
            /\ \/ state' = state
               \/ Open /\ state' \in {"select", "read", "parse", "gone"}
               \/ state' = "undefined"
    BY DEF SerialNext, SerialDaemon, Read, Parse, EnqueueMotion, EnqueueButton, EndOfParse, Deliver,
           Sleep, close_dev_serial, SendPacket, Disturb, svars, Open, line, probe
  <1> QED  BY <1>5, <1>6, <1>7, <1>8, <1>9, <1>10

LEMMA StepSInv == SInv /\ [SerialNext]_svars => SInv'
  BY StepTypes, StepLines, StepProgress, StepHandshake DEF SInv

LEMMA Invariance == SerialSpec => []SInv
  BY InitSInv, StepSInv, PTL DEF SerialSpec

-----------------------------------------------------------------------------
(***************************************************************************)
(* What the invariant is for.  A device that is opened is spoken to in its *)
(* own language, and another kind of device is not opened                  *)
(* (dev_serial.c:159-215).                                                 *)
(***************************************************************************)
THEOREM DevicesAreToldApart == SerialSpec => []RightParser
  <1>1. SInv => RightParser
    BY DEF SInv
  <1> QED  BY <1>1, Invariance, PTL

LEMMA ReadyWhenSleeping == SInv => ReadyForMore
  <1> SUFFICES ASSUME SInv PROVE ReadyForMore
    OBVIOUS
  <1>1. NothingLeftBehind
    BY DEF SInv, Progress, NothingLeftBehind
  <1>2. ASSUME state = "select", Room = 0, ~ noisy PROVE FALSE
    <2>1. /\ Rest \in Seq(Bytes) /\ Len(Rest) = Len(buf) - start
          /\ \A i \in 1..Len(Rest) : Rest[i] = buf[start + i]
          /\ Stream \in Seq(Bytes) /\ Len(Stream) = Len(Rest) + Len(wire)
          /\ \A i \in 1..Len(Stream) :
                 Stream[i] = IF i <= Len(Rest) THEN Rest[i] ELSE wire[i - Len(Rest)]
          /\ Len(buf) \in Nat /\ Len(wire) \in Nat
      BY StreamType DEF SInv
    <2>2. start = 0 /\ ~ HasCR(buf)
      BY <1>2 DEF SInv, Progress
    <2>3. Len(buf) >= 6 /\ Len(Rest) = Len(buf)
      BY <1>2, <2>1, <2>2, SerialInputAssumption DEF Room
    <2>4. \A i \in 1..Len(buf) : Stream[i] = buf[i] /\ buf[i].c # CR
      <3>1. DOMAIN buf = 1..Len(buf)
        BY LenProperties DEF SInv, STypeOK
      <3>2. \A i \in 1..Len(buf) : i \in 1..Len(Stream) /\ i <= Len(Rest) /\ start + i = i
        BY <2>1, <2>2, <2>3
      <3> QED  BY <2>1, <2>2, <2>3, <3>1, <3>2 DEF HasCR
    <2>5. HasCR(Stream)
      <3> SUFFICES ASSUME ~ HasCR(Stream) PROVE FALSE
        OBVIOUS
      <3>1. DOMAIN Stream = 1..Len(Stream) /\ 1 \in 1..Len(Stream)
        BY <2>1, <2>3, LenProperties
      <3>2. Begins(Stream, 1) /\ NoCR(Stream, 1, Len(Stream))
        BY <3>1 DEF HasCR, Begins, NoCR
      <3> QED  BY <1>2, <3>1, <3>2 DEF SInv, Sound, EndIsSound
    <2> DEFINE f == FirstCR(Stream)
    <2>6. f \in 1..Len(Stream) /\ Stream[f].c = CR /\ NoCR(Stream, 1, f - 1)
      BY <2>1, <2>5, FirstCRProperties
    <2> HIDE DEF f
    <2>7. IsLine(Stream, 1, f)
      BY <2>6 DEF IsLine, Begins
    <2>8. f - 1 < 6
      <3>1. 1 \in 1..Len(Stream) /\ f \in 1..Len(Stream)
        BY <2>1, <2>6
      <3> QED  BY <1>2, <2>7, <3>1 DEF SInv, Sound, LinesAreSound
    <2>9. f \in 1..Len(buf)
      BY <2>1, <2>3, <2>6, <2>8
    <2> QED  BY <2>4, <2>6, <2>9
  <1> QED  BY <1>1, <1>2 DEF ReadyForMore, DeafOnlyAfterNoise

(***************************************************************************)
(* When select is called every packet that was read is parsed and every    *)
(* event taken, and the buffer has room unless there was noise on the line *)
(* (dev_serial.c:217-247, 333-353).                                        *)
(***************************************************************************)
THEOREM SleepsReady == SerialSpec => []ReadyForMore
  BY Invariance, ReadyWhenSleeping, PTL

(* A line that is no packet of the device changes nothing, but for the     *)
(* buttons of a Magellan on a line that was disturbed.                     *)
LEMMA OnlyGenuine ==
    ASSUME SInv, [SerialNext]_svars,
           mot' # mot \/ (keystate' # keystate /\ ~ (parse = "mag" /\ noisy))
    PROVE  Genuine(Line) \/ mangled
  <1> SUFFICES ASSUME ~ mangled PROVE Genuine(Line)
    OBVIOUS
  <1>0. STypeOK
    BY DEF SInv
  <1>1. Parse
    BY DEF SerialNext, SerialDaemon, open_dev_serial, SballProbed, MagProbed, close_dev_serial,
           Start, Read, EnqueueMotion, EnqueueButton, gen_button_events, EndOfParse, Deliver,
           read_dev_serial, Sleep, SendPacket, Disturb, Answer, svars, vars, pkt
  <1> DEFINE f == FirstCR(Rest)
  <1>2. /\ f \in 1..Len(Rest) /\ Len(Line) = f /\ DOMAIN Line = 1..f
        /\ \A i \in 1..f : Line[i] = Rest[i]
        /\ Len(Data) = IF f > 2 THEN f - 2 ELSE 0
    BY <1>0, <1>1, ParseTypes
  <1>3. /\ f \in 1..Len(Stream) /\ IsLine(Stream, 1, f)
        /\ \A i \in 1..f : Stream[i] = Rest[i]
    BY <1>0, <1>1, FirstLine DEF Parse
  <1> HIDE DEF f
  <1>4. 1 \in 1..Len(Stream) /\ f \in Nat /\ 1 \in 1..f
    BY <1>0, <1>2, <1>3, StreamType
  <1>5. Sent(Stream, 1, f, Mag) \/ (noisy /\ Harmless(Stream, 1, f, Mag))
    BY <1>3, <1>4 DEF SInv, Sound, LinesAreSound
  <1>6. \A i \in 1..f : Line[i] = Stream[i]
    BY <1>2, <1>3
  (* The line that was believed.                                           *)
  <1>7. \/ Line[1].c = D /\ Len(Data) = 3
        \/ Line[1].c \in {K, Dot} /\ Len(Data) = 1 /\ parse = "sball"
        \/ Line[1].c = K /\ parse # "sball" /\ mot' = mot /\ keystate' # keystate
    BY <1>1 DEF Parse, sball_parsepkt, mag_parsepkt, vars, pkt, ValidLength, MagValidLength,
                D, K, Dot
  <1>8. Open /\ (parse = "sball" => ~ Mag) /\ (parse # "sball" => parse = "mag")
    <2>1. Open
      BY <1>1 DEF Parse, Open
    <2>2. hw \in {"sball", "sball4000", "magellan", "other"}
      BY DEF SInv, STypeOK, Hardware
    <2>3. hw = "magellan" => parse = "mag"
      BY <2>1 DEF SInv, RightParser
    <2>4. hw \in {"sball", "sball4000"} => parse = "sball"
      BY <2>1 DEF SInv, RightParser
    <2>5. hw = "other" => parse = "none"
      BY <2>1 DEF SInv, RightParser
    <2>6. parse # "none"
      BY <2>1 DEF SInv, Handshake
    <2> QED  BY <2>1, <2>2, <2>3, <2>4, <2>5, <2>6 DEF Mag
  <1>9. ASSUME \/ Line[1].c = D /\ Len(Data) = 3
               \/ Line[1].c \in {K, Dot} /\ Len(Data) = 1 /\ parse = "sball"
        PROVE  Sent(Stream, 1, f, Mag)
    <2>1. f - 2 = Len(Data)
      BY <1>2, <1>4, <1>9
    <2>2. Stream[1].c = Line[1].c /\ f - 1 - 1 = Len(Data)
      BY <1>4, <1>6, <2>1
    <2>3. ~ Harmless(Stream, 1, f, Mag)
      <3>1. CASE Line[1].c = D /\ Len(Data) = 3
        BY <2>2, <3>1 DEF Harmless
      <3>2. CASE Line[1].c \in {K, Dot} /\ Len(Data) = 1 /\ parse = "sball"
        <4>1. Stream[1].c \in {D, K, Dot} /\ Stream[1].c # D /\ ~ Mag /\ f - 1 - 1 = 1
          BY <1>8, <2>2, <3>2 DEF D, K, Dot
        <4> QED  BY <4>1 DEF Harmless
      <3> QED  BY <1>9, <3>1, <3>2
    <2> QED  BY <1>5, <2>3
  <1>10. Sent(Stream, 1, f, Mag)
    <2>1. CASE parse # "sball" /\ mot' = mot
      <3>1. ~ noisy
        BY <1>8, <2>1
      <3> QED  BY <1>5, <3>1
    <2> QED  BY <1>7, <1>9, <2>1
  <1>11. \A i \in 1..f : Line[i].k = i - 1 + 1 /\ Line[i].n = Line[1].n
    BY <1>4, <1>6, <1>10 DEF Sent
  <1> QED  BY <1>2, <1>4, <1>11 DEF Genuine

(***************************************************************************)
(* Motion and buttons change only by a packet that the device sent just    *)
(* so, wherever the reads cut it and whatever noise or loss came between;  *)
(* except a packet whose beginning was moved wrongly, and the buttons of a *)
(* Magellan on a disturbed line (dev_serial.c:333-353, 357-421, 433-600).  *)
(***************************************************************************)
THEOREM PacketsAreGenuine == SerialSpec => GenuinePackets
  <1>1. ASSUME SInv, [SerialNext]_svars
        PROVE  [/\ mot' # mot => Genuine(Line) \/ mangled
                /\ keystate' # keystate
                       => Genuine(Line) \/ mangled \/ (parse = "mag" /\ noisy)]_svars
    BY <1>1, OnlyGenuine
  <1> QED  BY <1>1, Invariance, PTL DEF SerialSpec, GenuinePackets

-----------------------------------------------------------------------------
(* The parser and the queue.                                               *)
LEMMA StepDrives ==
    ASSUME SInv, [SerialNext]_svars
    PROVE  [Next]_vars
  <1>1. CASE Parse
    <2>1. \/ UNCHANGED vars
          \/ \E keys \in SUBSET Buttons : KeyPacket(keys)
      <3>1. /\ \A b, mask : Keys(b) \cap mask \in SUBSET Buttons
            /\ \A data : MagKeys(data) \in SUBSET Buttons
        BY DEF Keys, MagKeys
      <3> QED  BY <1>1, <3>1 DEF Parse, sball_parsepkt, mag_parsepkt, motion_packet
    <2>2. ASSUME NEW keys \in SUBSET Buttons, KeyPacket(keys) PROVE [Next]_vars
      BY <2>2 DEF KeyPacket, Next
    <2> QED  BY <2>1, <2>2
  <1>2. CASE EnqueueMotion
    <2>1. Head(motion_events) \in Motion \cup {Flush}
      BY <1>2, HeadTailProperties DEF EnqueueMotion, SInv, STypeOK
    <2>2. enqueue_motion
      BY <1>2, <2>1 DEF EnqueueMotion, enqueue_motion
    <2> QED  BY <2>2 DEF Next
  <1>3. CASE EnqueueButton
    BY <1>3 DEF EnqueueButton, Next
  <1>4. CASE Deliver
    BY <1>4 DEF Deliver, Next
  <1>5. CASE UNCHANGED vars
    BY <1>5
  <1>6. Parse \/ EnqueueMotion \/ EnqueueButton \/ Deliver \/ UNCHANGED vars
    BY DEF SerialNext, SerialDaemon, open_dev_serial, SballProbed, MagProbed, close_dev_serial,
           Start, Read, EndOfParse, Sleep, SendPacket, Disturb, Answer, svars
  <1> QED  BY <1>1, <1>2, <1>3, <1>4, <1>5, <1>6

(***************************************************************************)
(* The parser, the handshake and the reader use the queue only as EvQueue  *)
(* allows: the serial device implements EvQueue (dev_serial.c:217-247,     *)
(* 433-600, 690-729).                                                      *)
(***************************************************************************)
THEOREM SerialDrivesQueue == SerialSpec => DrivesQueue
  <1>1. SerialInit => Init
    BY DEF SerialInit
  <1>2. SInv /\ [SerialNext]_svars => [Next]_vars
    BY StepDrives
  <1> QED  BY <1>1, <1>2, Invariance, PTL DEF SerialSpec, DrivesQueue, Spec

(***************************************************************************)
(* So what is proved of the queue alone holds under the parser: it is a    *)
(* drop-oldest FIFO.                                                       *)
(***************************************************************************)
THEOREM SerialRingIsQueue == SerialSpec => ImplementsQueue
  BY SerialDrivesQueue, RingImplementsQueue, PTL DEF DrivesQueue

(***************************************************************************)
(* And the buttons of the device come through it.                          *)
(***************************************************************************)
THEOREM SerialButtonsComeThrough == SerialSpec => []QueueKeepsButtons
  BY SerialDrivesQueue, ButtonsComeThrough, PTL DEF DrivesQueue
=============================================================================
