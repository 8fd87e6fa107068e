---------------------------- MODULE DevicesProofs ----------------------------
(***************************************************************************)
(* What is proved of Devices, for every set of device files and addresses, *)
(* every width of last_id and every amount of unread input.                *)
(***************************************************************************)
EXTENDS Devices, SequenceTheorems, TLAPS

(* The saved next pointer survives the destruction of the device read.     *)
Cursors ==
    /\ pc = "devices" => cur \in Listed \cup {None}
    /\ pc = "read" => cur \in Listed
    /\ pc = "flush" => cur \in Addr
    /\ pc \in {"read", "flush"} => nxt \in Listed \cup {None} /\ nxt # cur

(* Motion is accumulated only for the device that is being read. *)
PendingIsRead ==
    \A a \in Addr : get_dev_event(a).pending => pc \in {"read", "flush"} /\ a = cur

(* Ids are given out in rising order, until they wrap around. *)
IdsRise == ~ wrapped => \A a \in Listed : dev[a].id < last_id

IInv == /\ TypeOK /\ OpenedOnce /\ Cursors /\ PendingIsRead /\ OrphansAreBlank
        /\ IdsRise /\ ObserverKnowsDevices

(* The observer is in step with a device that was not withheld from it,    *)
(* but for what has accumulated.                                           *)
InStep(a) ==
    \/ dev[a].id \in missed \/ get_dev_event(a).pending
    \/ dev[a].id \in moving <=> get_dev_event(a).moved

SeenOrPending ==
    ~ wrapped => /\ moving \cup missed \subseteq Ids(Listed)
                 /\ \A a \in Listed : InStep(a)
-----------------------------------------------------------------------------
(* Taking an element out of a sequence. *)
LEMMA TakeOut ==
    ASSUME NEW S, NEW s \in Seq(S), NEW k \in 1..Len(s)
    PROVE  LET t == SubSeq(s, 1, k - 1) \o SubSeq(s, k + 1, Len(s))
           IN  /\ t \in Seq(S)
               /\ Len(t) = Len(s) - 1
               /\ \A j \in 1..Len(t) : t[j] = IF j < k THEN s[j] ELSE s[j + 1]
  <1> DEFINE f == SubSeq(s, 1, k - 1)
             g == SubSeq(s, k + 1, Len(s))
  <1>1. f \in Seq(S) /\ Len(f) = k - 1 /\ \A j \in 1..k-1 : f[j] = s[j]
    OBVIOUS
  <1>2. g \in Seq(S) /\ Len(g) = Len(s) - k /\ \A j \in 1..Len(s)-k : g[j] = s[j + k]
    OBVIOUS
  <1> HIDE DEF f, g
  <1>3. f \o g \in Seq(S) /\ Len(f \o g) = Len(s) - 1
    <2>1. f \o g \in Seq(S) /\ Len(f \o g) = Len(f) + Len(g)
      BY <1>1, <1>2, ConcatProperties
    <2> QED  BY <2>1, <1>1, <1>2
  <1>4. ASSUME NEW j \in 1..Len(s)-1
        PROVE  (f \o g)[j] = IF j < k THEN s[j] ELSE s[j + 1]
    <2>1. CASE j < k
      BY <1>1, <1>2, <2>1
    <2>2. CASE ~ (j < k)
      <3>1. (f \o g)[j] = g[j - (k - 1)]
        BY <1>1, <1>2, <2>2
      <3>2. g[j - (k - 1)] = s[j - (k - 1) + k]
        BY <1>2, <2>2
      <3> QED  BY <3>1, <3>2, <2>2
    <2> QED  BY <2>1, <2>2
  <1> QED  BY <1>3, <1>4 DEF f, g

(* Where a listed address stands. *)
LEMMA PlaceProperties ==
    ASSUME dev_list \in Seq(Addr), NEW a \in Listed
    PROVE  Place(a) \in 1..Len(dev_list) /\ dev_list[Place(a)] = a
  <1>1. PICK i \in DOMAIN dev_list : dev_list[i] = a
    BY DEF Listed
  <1> QED  BY <1>1 DEF Place

LEMMA ListedAddr ==
    ASSUME dev_list \in Seq(Addr)
    PROVE  Listed \subseteq Addr
  BY DEF Listed

(* dev->next is another listed device or null. *)
LEMMA NextProperties ==
    ASSUME dev_list \in Seq(Addr), OpenedOnce, NEW a \in Listed
    PROVE  NextOf(a) \in Listed \cup {None} /\ NextOf(a) # a
  <1>1. Place(a) \in 1..Len(dev_list) /\ dev_list[Place(a)] = a
    BY PlaceProperties
  <1>2. CASE Place(a) = Len(dev_list)
    <2>1. a # None
      BY ListedAddr, DevicesAssumption
    <2> QED  BY <1>2, <2>1 DEF NextOf
  <1>3. CASE Place(a) # Len(dev_list)
    <2>1. Place(a) + 1 \in DOMAIN dev_list /\ Place(a) \in DOMAIN dev_list
      BY <1>1, <1>3
    <2>2. dev_list[Place(a) + 1] # dev_list[Place(a)]
      BY <2>1, <1>1 DEF OpenedOnce
    <2>3. dev_list[Place(a) + 1] \in Listed
      BY <2>1 DEF Listed
    <2> QED  BY <1>1, <1>3, <2>2, <2>3 DEF NextOf
  <1> QED  BY <1>2, <1>3

(* remove_device's loop takes out this device and no other. *)
LEMMA UnlinkProperties ==
    ASSUME dev_list \in Seq(Addr), OpenedOnce, NEW a \in Listed
    PROVE  /\ Unlinked(a) \in Seq(Addr)
           /\ \A i, j \in DOMAIN Unlinked(a) :
                  i # j => /\ Unlinked(a)[i] # Unlinked(a)[j]
                           /\ dev[Unlinked(a)[i]].path # dev[Unlinked(a)[j]].path
           /\ {Unlinked(a)[i] : i \in DOMAIN Unlinked(a)} = Listed \ {a}
  <1> DEFINE k == Place(a)
             t == Unlinked(a)
  <1>1. k \in 1..Len(dev_list) /\ dev_list[k] = a
    BY PlaceProperties
  <1>2. /\ t \in Seq(Addr) /\ Len(t) = Len(dev_list) - 1
        /\ \A j \in 1..Len(t) : t[j] = IF j < k THEN dev_list[j] ELSE dev_list[j + 1]
    BY <1>1, TakeOut DEF Unlinked
  <1> HIDE DEF k, t
  <1>3. ASSUME NEW i \in 1..Len(t), NEW j \in 1..Len(t), i # j
        PROVE  t[i] # t[j] /\ dev[t[i]].path # dev[t[j]].path
    <2>1. PICK x \in DOMAIN dev_list, y \in DOMAIN dev_list :
              x # y /\ t[i] = dev_list[x] /\ t[j] = dev_list[y]
      <3>1. /\ (IF i < k THEN i ELSE i + 1) \in DOMAIN dev_list
            /\ (IF j < k THEN j ELSE j + 1) \in DOMAIN dev_list
            /\ (IF i < k THEN i ELSE i + 1) # (IF j < k THEN j ELSE j + 1)
        BY <1>1, <1>2, <1>3
      <3> QED  BY <1>2, <3>1
    <2> QED  BY <2>1 DEF OpenedOnce
  <1>4. ASSUME NEW i \in 1..Len(t)
        PROVE  t[i] \in Listed \ {a}
    <2>1. PICK x \in DOMAIN dev_list : x # k /\ t[i] = dev_list[x]
      <3>1. (IF i < k THEN i ELSE i + 1) \in DOMAIN dev_list
            /\ (IF i < k THEN i ELSE i + 1) # k
        BY <1>1, <1>2, <1>4
      <3> QED  BY <1>2, <3>1
    <2>2. dev_list[x] # dev_list[k]
      BY <2>1, <1>1 DEF OpenedOnce
    <2> QED  BY <2>1, <2>2, <1>1 DEF Listed
  <1>5. ASSUME NEW b \in Listed \ {a}
        PROVE  \E i \in 1..Len(t) : t[i] = b
    <2>1. PICK x \in 1..Len(dev_list) : dev_list[x] = b
      BY DEF Listed
    <2>2. x # k
      BY <2>1, <1>1
    <2>3. CASE x < k
      BY <2>1, <2>3, <1>1, <1>2
    <2>4. CASE x > k
      <3>1. x - 1 \in 1..Len(t) /\ t[x - 1] = dev_list[x - 1 + 1]
        BY <2>1, <2>4, <1>1, <1>2
      <3> QED  BY <3>1, <2>1
    <2> QED  BY <2>1, <2>2, <2>3, <2>4, <1>1
  <1>6. DOMAIN t = 1..Len(t)
    BY <1>2
  <1>7. {t[i] : i \in DOMAIN t} = Listed \ {a}
    BY <1>4, <1>5, <1>6
  <1> QED  BY <1>2, <1>3, <1>6, <1>7 DEF t

LEMMA NextId ==
    ASSUME NEW n \in Id
    PROVE  /\ (n + 1) % IdLimit \in Id
           /\ (n + 1) % IdLimit # 0 => (n + 1) % IdLimit = n + 1
  <1>1. CASE n = IdLimit - 1
    <2>1. (n + 1) % IdLimit = 0
      BY <1>1, DevicesAssumption
    <2> QED  BY <2>1, DevicesAssumption DEF Id
  <1>2. CASE n # IdLimit - 1
    <2>1. n + 1 \in 0..IdLimit-1
      BY <1>2, DevicesAssumption DEF Id
    <2>2. (n + 1) % IdLimit = n + 1
      BY <2>1, DevicesAssumption
    <2> QED  BY <2>1, <2>2 DEF Id
  <1> QED  BY <1>1, <1>2

(* What process_input leaves of a dev_event. *)
LEMMA EventProperties ==
    ASSUME TypeOK, NEW a \in Addr
    PROVE  /\ get_dev_event(a) \in DevEvent
           /\ [get_dev_event(a) EXCEPT !.pending = FALSE] \in DevEvent
           /\ [get_dev_event(a) EXCEPT !.pending = FALSE].pending = FALSE
           /\ [get_dev_event(a) EXCEPT !.pending = FALSE].moved = get_dev_event(a).moved
  <1>1. dev_ev[a] \in DevEvent \cup {None}
    BY DEF TypeOK
  <1>2. Blank \in DevEvent
    BY DEF Blank, DevEvent
  <1>3. get_dev_event(a) \in DevEvent
    BY <1>1, <1>2 DEF get_dev_event
  <1> QED  BY <1>3 DEF DevEvent

LEMMA InitIInv == Init => IInv
  <1> SUFFICES ASSUME Init PROVE IInv
    OBVIOUS
  <1>1. Listed = {}
    BY DEF Init, Listed
  <1>2. TypeOK
    <2>1. dev \in [Addr -> [path : Path \cup {None}, id : Id, there : BOOLEAN]]
      <3>1. NoDev \in [path : Path \cup {None}, id : Id, there : BOOLEAN]
        BY DevicesAssumption DEF NoDev, Id
      <3> QED  BY <3>1 DEF Init
    <2>2. last_id \in Id
      BY DevicesAssumption DEF Init, Id
    <2>3. wrapped \in BOOLEAN
      BY DEF Init
    <2>4. /\ pc \in {"select", "devices", "read", "flush", "scan"}
          /\ present \subseteq Path /\ rset \subseteq Addr
          /\ dev_list \in Seq(Addr)
          /\ inq \in [Addr -> Seq(Items)]
          /\ dev_ev \in [Addr -> DevEvent \cup {None}]
          /\ cur \in Addr \cup {None} /\ nxt \in Addr \cup {None}
          /\ known \subseteq Id /\ moving \subseteq Id /\ missed \subseteq Id
      BY DEF Init
    <2> QED  BY <2>1, <2>2, <2>3, <2>4 DEF TypeOK
  <1>3. OpenedOnce
    BY DEF Init, OpenedOnce
  <1>4. Cursors /\ IdsRise
    BY <1>1 DEF Init, Cursors, IdsRise
  <1>5. PendingIsRead
    BY DEF Init, PendingIsRead, get_dev_event, Blank
  <1>6. OrphansAreBlank
    BY DEF Init, OrphansAreBlank, Free
  <1>7. ObserverKnowsDevices
    BY <1>1 DEF Init, ObserverKnowsDevices, Ids
  <1> QED  BY <1>2, <1>3, <1>4, <1>5, <1>6, <1>7 DEF IInv

(* A device file appears. *)
LEMMA PlugStep ==
    ASSUME IInv, NEW p \in Path, Plug(p)
    PROVE  IInv'
  <1> USE DEF IInv
  <1>1. dev_list' = dev_list /\ dev' = dev /\ dev_ev' = dev_ev /\ last_id' = last_id
        /\ wrapped' = wrapped /\ known' = known
    BY DEF Plug, lists, loop, observer
  <1>2. Listed' = Listed
    BY <1>1 DEF Listed
  <1>c1. TypeOK'
    BY DEF TypeOK, Plug, lists, loop, observer
  <1>c2. OpenedOnce'
    BY <1>1 DEF OpenedOnce
  <1>c3. Cursors'
    BY <1>2 DEF Cursors, Plug, lists, loop, observer
  <1>c4. PendingIsRead'
    BY <1>1 DEF PendingIsRead, get_dev_event, Plug, lists, loop, observer
  <1>c5. OrphansAreBlank'
    BY <1>1, <1>2 DEF OrphansAreBlank, Free
  <1>c6. IdsRise'
    BY <1>1, <1>2 DEF IdsRise
  <1>c7. ObserverKnowsDevices'
    BY <1>1, <1>2 DEF ObserverKnowsDevices, Ids
  <1> QED  BY <1>c1, <1>c2, <1>c3, <1>c4, <1>c5, <1>c6, <1>c7

(* A device sends input. *)
LEMMA MoveStep ==
    ASSUME IInv, NEW a \in Addr, NEW item \in Items, Move(a, item)
    PROVE  IInv'
  <1> USE DEF IInv
  <1>1. dev_list' = dev_list /\ dev' = dev /\ dev_ev' = dev_ev /\ last_id' = last_id
        /\ wrapped' = wrapped /\ known' = known
    BY DEF Move, lists, loop, observer
  <1>2. Listed' = Listed
    BY <1>1 DEF Listed
  <1>c1. TypeOK'
    BY DEF TypeOK, Move, lists, loop, observer
  <1>c2. OpenedOnce'
    BY <1>1 DEF OpenedOnce
  <1>c3. Cursors'
    BY <1>2 DEF Cursors, Move, lists, loop, observer
  <1>c4. PendingIsRead'
    BY <1>1 DEF PendingIsRead, get_dev_event, Move, lists, loop, observer
  <1>c5. OrphansAreBlank'
    BY <1>1, <1>2 DEF OrphansAreBlank, Free
  <1>c6. IdsRise'
    BY <1>1, <1>2 DEF IdsRise
  <1>c7. ObserverKnowsDevices'
    BY <1>1, <1>2 DEF ObserverKnowsDevices, Ids
  <1> QED  BY <1>c1, <1>c2, <1>c3, <1>c4, <1>c5, <1>c6, <1>c7

(* select returns. *)
LEMMA SelectStep ==
    ASSUME IInv, Select
    PROVE  IInv'
  <1> USE DEF IInv
  <1>1. dev_list' = dev_list /\ dev' = dev /\ dev_ev' = dev_ev /\ last_id' = last_id
        /\ wrapped' = wrapped /\ known' = known
    BY DEF Select, world, lists, observer
  <1>2. Listed' = Listed
    BY <1>1 DEF Listed
  <1>c1. TypeOK'
    <2>1. cur' \in Addr \cup {None}
      BY DEF Select, TypeOK
    <2>2. rset' \subseteq Addr
      BY ListedAddr DEF Select, TypeOK
    <2> QED  BY <2>1, <2>2 DEF TypeOK, Select, world, lists, observer
  <1>c2. OpenedOnce'
    BY <1>1 DEF OpenedOnce
  <1>c3. Cursors'
    <2>1. dev_list # <<>> => Head(dev_list) \in Listed
      <3>1. dev_list # <<>> => 1 \in DOMAIN dev_list /\ Head(dev_list) = dev_list[1]
        BY DEF TypeOK
      <3> QED  BY <3>1 DEF Listed
    <2> QED  BY <1>2, <2>1 DEF Cursors, Select
  <1>c4. PendingIsRead'
    BY <1>1 DEF PendingIsRead, get_dev_event, Select, world, lists, observer
  <1>c5. OrphansAreBlank'
    BY <1>1, <1>2 DEF OrphansAreBlank, Free
  <1>c6. IdsRise'
    BY <1>1, <1>2 DEF IdsRise
  <1>c7. ObserverKnowsDevices'
    BY <1>1, <1>2 DEF ObserverKnowsDevices, Ids
  <1> QED  BY <1>c1, <1>c2, <1>c3, <1>c4, <1>c5, <1>c6, <1>c7

(* The loop looks at the next device. *)
LEMMA VisitStep ==
    ASSUME IInv, VisitDevice
    PROVE  IInv'
  <1> USE DEF IInv
  <1>1. dev_list' = dev_list /\ dev' = dev /\ dev_ev' = dev_ev /\ last_id' = last_id
        /\ wrapped' = wrapped /\ known' = known
    BY DEF VisitDevice, world, lists, observer
  <1>2. Listed' = Listed
    BY <1>1 DEF Listed
  <1>c1. TypeOK'
    <2>1. cur \in Listed
      BY DEF VisitDevice, Cursors
    <2>2. NextOf(cur) \in Addr \cup {None}
      BY <2>1, NextProperties, ListedAddr DEF TypeOK
    <2> QED  BY <2>2 DEF TypeOK, VisitDevice, world, lists, observer
  <1>c2. OpenedOnce'
    BY <1>1 DEF OpenedOnce
  <1>c3. Cursors'
    <2>1. cur \in Listed
      BY DEF VisitDevice, Cursors
    <2>2. NextOf(cur) \in Listed \cup {None} /\ NextOf(cur) # cur
      BY <2>1, NextProperties DEF TypeOK
    <2> QED  BY <1>2, <2>1, <2>2 DEF Cursors, VisitDevice
  <1>c4. PendingIsRead'
    BY <1>1 DEF PendingIsRead, get_dev_event, VisitDevice, world, lists, observer
  <1>c5. OrphansAreBlank'
    BY <1>1, <1>2 DEF OrphansAreBlank, Free
  <1>c6. IdsRise'
    BY <1>1, <1>2 DEF IdsRise
  <1>c7. ObserverKnowsDevices'
    BY <1>1, <1>2 DEF ObserverKnowsDevices, Ids
  <1> QED  BY <1>c1, <1>c2, <1>c3, <1>c4, <1>c5, <1>c6, <1>c7

(* The loop is at the end of the list. *)
LEMMA EndOfDevicesStep ==
    ASSUME IInv, EndOfDevices
    PROVE  IInv'
  <1> USE DEF IInv
  <1>1. dev_list' = dev_list /\ dev' = dev /\ dev_ev' = dev_ev /\ last_id' = last_id
        /\ wrapped' = wrapped /\ known' = known
    BY DEF EndOfDevices, world, lists, observer
  <1>2. Listed' = Listed
    BY <1>1 DEF Listed
  <1>c1. TypeOK'
    BY DEF TypeOK, EndOfDevices, world, lists, observer
  <1>c2. OpenedOnce'
    BY <1>1 DEF OpenedOnce
  <1>c3. Cursors'
    BY <1>2 DEF Cursors, EndOfDevices, world, lists, observer
  <1>c4. PendingIsRead'
    BY <1>1 DEF PendingIsRead, get_dev_event, EndOfDevices, world, lists, observer
  <1>c5. OrphansAreBlank'
    BY <1>1, <1>2 DEF OrphansAreBlank, Free
  <1>c6. IdsRise'
    BY <1>1, <1>2 DEF IdsRise
  <1>c7. ObserverKnowsDevices'
    BY <1>1, <1>2 DEF ObserverKnowsDevices, Ids
  <1> QED  BY <1>c1, <1>c2, <1>c3, <1>c4, <1>c5, <1>c6, <1>c7

(* The input has run out. *)
LEMMA ReadNothingStep ==
    ASSUME IInv, ReadNothing
    PROVE  IInv'
  <1> USE DEF IInv
  <1>1. dev_list' = dev_list /\ dev' = dev /\ dev_ev' = dev_ev /\ last_id' = last_id
        /\ wrapped' = wrapped /\ known' = known
    BY DEF ReadNothing, world, lists, observer
  <1>2. Listed' = Listed
    BY <1>1 DEF Listed
  <1>c1. TypeOK'
    BY DEF TypeOK, ReadNothing, world, lists, observer
  <1>c2. OpenedOnce'
    BY <1>1 DEF OpenedOnce
  <1>c3. Cursors'
    BY <1>2, ListedAddr DEF Cursors, ReadNothing, TypeOK
  <1>c4. PendingIsRead'
    BY <1>1 DEF PendingIsRead, get_dev_event, ReadNothing, world, lists, observer
  <1>c5. OrphansAreBlank'
    BY <1>1, <1>2 DEF OrphansAreBlank, Free
  <1>c6. IdsRise'
    BY <1>1, <1>2 DEF IdsRise
  <1>c7. ObserverKnowsDevices'
    BY <1>1, <1>2 DEF ObserverKnowsDevices, Ids
  <1> QED  BY <1>c1, <1>c2, <1>c3, <1>c4, <1>c5, <1>c6, <1>c7

(* The scan is over. *)
LEMMA EndOfScanStep ==
    ASSUME IInv, EndOfScan
    PROVE  IInv'
  <1> USE DEF IInv
  <1>1. dev_list' = dev_list /\ dev' = dev /\ dev_ev' = dev_ev /\ last_id' = last_id
        /\ wrapped' = wrapped /\ known' = known
    BY DEF EndOfScan, world, lists, observer
  <1>2. Listed' = Listed
    BY <1>1 DEF Listed
  <1>c1. TypeOK'
    BY DEF TypeOK, EndOfScan, world, lists, observer
  <1>c2. OpenedOnce'
    BY <1>1 DEF OpenedOnce
  <1>c3. Cursors'
    BY <1>2 DEF Cursors, EndOfScan, world, lists, observer
  <1>c4. PendingIsRead'
    BY <1>1 DEF PendingIsRead, get_dev_event, EndOfScan, world, lists, observer
  <1>c5. OrphansAreBlank'
    BY <1>1, <1>2 DEF OrphansAreBlank, Free
  <1>c6. IdsRise'
    BY <1>1, <1>2 DEF IdsRise
  <1>c7. ObserverKnowsDevices'
    BY <1>1, <1>2 DEF ObserverKnowsDevices, Ids
  <1> QED  BY <1>c1, <1>c2, <1>c3, <1>c4, <1>c5, <1>c6, <1>c7

(* A device is unplugged. *)
LEMMA UnplugStep ==
    ASSUME IInv, NEW p \in Path, Unplug(p)
    PROVE  IInv'
  <1> USE DEF IInv
  <1>1. /\ dev_list' = dev_list /\ dev_ev' = dev_ev /\ last_id' = last_id
        /\ wrapped' = wrapped /\ known' = known /\ pc' = pc /\ cur' = cur /\ nxt' = nxt
    BY DEF Unplug, loop, observer
  <1>2. Listed' = Listed
    BY <1>1 DEF Listed
  <1>3. dev' \in [Addr -> [path : Path \cup {None}, id : Id, there : BOOLEAN]]
    BY DEF TypeOK, Unplug
  <1>4. \A a \in Addr : dev'[a].path = dev[a].path /\ dev'[a].id = dev[a].id
    BY DEF TypeOK, Unplug
  <1>5. Listed \subseteq Addr
    BY ListedAddr DEF TypeOK
  <1>c1. TypeOK'
    <2>1. inq' \in [Addr -> Seq(Items)]
      BY DEF TypeOK, Unplug
    <2> QED  BY <1>1, <1>3, <2>1 DEF TypeOK, Unplug, loop, observer
  <1>c2. OpenedOnce'
    <2>1. \A i \in DOMAIN dev_list : dev_list[i] \in Addr
      BY DEF TypeOK
    <2> QED  BY <1>1, <1>4, <2>1 DEF OpenedOnce
  <1>c3. Cursors'
    BY <1>1, <1>2 DEF Cursors
  <1>c4. PendingIsRead'
    BY <1>1 DEF PendingIsRead, get_dev_event
  <1>c5. OrphansAreBlank'
    BY <1>1, <1>2 DEF OrphansAreBlank, Free
  <1>c6. IdsRise'
    BY <1>1, <1>2, <1>4, <1>5 DEF IdsRise
  <1>c7. ObserverKnowsDevices'
    <2>1. Ids(Listed)' = Ids(Listed)
      BY <1>2, <1>4, <1>5 DEF Ids
    <2> QED  BY <1>1, <1>2, <1>4, <1>5, <2>1 DEF ObserverKnowsDevices
  <1> QED  BY <1>c1, <1>c2, <1>c3, <1>c4, <1>c5, <1>c6, <1>c7

(* process_input handles an input event. *)
LEMMA ReadItemStep ==
    ASSUME IInv, ReadItem
    PROVE  IInv'
  <1> USE DEF IInv
  <1>1. dev_list' = dev_list /\ dev' = dev /\ last_id' = last_id
        /\ wrapped' = wrapped /\ known' = known
    BY DEF ReadItem, Accumulate, Flush, Button, Ignored, observer
  <1>2. Listed' = Listed
    BY <1>1 DEF Listed
  <1>3. cur \in Listed /\ cur \in Addr /\ pc = "read"
    BY ListedAddr DEF ReadItem, Cursors, TypeOK
  <1>4. pc' \in {"read", "flush"} /\ cur' = cur /\ nxt' = nxt
    BY <1>3 DEF ReadItem, Accumulate, Flush, Button, Ignored
  <1>5. \/ dev_ev' = dev_ev
        \/ \E e \in DevEvent : dev_ev' = [dev_ev EXCEPT ![cur] = e]
    <2>1. get_dev_event(cur) \in DevEvent
          /\ [get_dev_event(cur) EXCEPT !.pending = FALSE] \in DevEvent
      BY <1>3, EventProperties
    <2>2. ASSUME NEW item, Accumulate(item)
          PROVE  \E e \in DevEvent : dev_ev' = [dev_ev EXCEPT ![cur] = e]
      <3>1. [pending |-> TRUE, moved |-> item = "move"] \in DevEvent
        BY DEF DevEvent
      <3> QED  BY <2>2, <3>1 DEF Accumulate
    <2> QED  BY <2>1, <2>2 DEF ReadItem, Flush, Button, Ignored
  <1>c1. TypeOK'
    <2>1. dev_ev' \in [Addr -> DevEvent \cup {None}]
      BY <1>3, <1>5 DEF TypeOK
    <2>2. inq' \in [Addr -> Seq(Items)]
      BY <1>3 DEF TypeOK, ReadItem
    <2>3. moving' \subseteq Id /\ missed' \subseteq Id
      <3>1. dev[cur].id \in Id
        BY <1>3 DEF TypeOK
      <3> QED  BY <3>1 DEF TypeOK, ReadItem, Accumulate, Flush, Button, Ignored,
                           SendMotion, observer
    <2> QED  BY <1>1, <1>4, <2>1, <2>2, <2>3 DEF TypeOK, ReadItem
  <1>c2. OpenedOnce'
    BY <1>1 DEF OpenedOnce
  <1>c3. Cursors'
    BY <1>2, <1>3, <1>4 DEF Cursors
  <1>c4. PendingIsRead'
    <2>1. ASSUME NEW a \in Addr, a # cur
          PROVE  dev_ev'[a] = dev_ev[a]
      BY <1>5, <2>1 DEF TypeOK
    <2> QED  BY <1>4, <2>1 DEF PendingIsRead, get_dev_event
  <1>c5. OrphansAreBlank'
    <2>1. ASSUME NEW a \in Free
          PROVE  dev_ev'[a] = dev_ev[a]
      BY <1>3, <1>5 DEF TypeOK, Free
    <2> QED  BY <1>2, <2>1 DEF OrphansAreBlank, Free
  <1>c6. IdsRise'
    BY <1>1, <1>2 DEF IdsRise
  <1>c7. ObserverKnowsDevices'
    BY <1>1, <1>2 DEF ObserverKnowsDevices, Ids
  <1> QED  BY <1>c1, <1>c2, <1>c3, <1>c4, <1>c5, <1>c6, <1>c7

(* The implicit flush, for a device that is there or was just freed. *)
LEMMA FlushStep ==
    ASSUME IInv, FlushDevice
    PROVE  IInv'
  <1> USE DEF IInv
  <1>1. dev_list' = dev_list /\ dev' = dev /\ last_id' = last_id
        /\ wrapped' = wrapped /\ known' = known
    BY DEF FlushDevice
  <1>2. Listed' = Listed
    BY <1>1 DEF Listed
  <1>3. cur \in Addr /\ pc = "flush" /\ pc' = "devices" /\ cur' = nxt /\ nxt' = nxt
    BY DEF FlushDevice, Cursors
  <1>4. PICK e \in DevEvent : /\ dev_ev' = [dev_ev EXCEPT ![cur] = e]
                              /\ e.pending = FALSE
                              /\ e.moved = get_dev_event(cur).moved
    BY <1>3, EventProperties DEF FlushDevice
  <1>c1. TypeOK'
    <2>1. dev_ev' \in [Addr -> DevEvent \cup {None}]
      BY <1>3, <1>4 DEF TypeOK
    <2>2. moving' \subseteq Id /\ missed' \subseteq Id
      <3>1. dev[cur].id \in Id
        BY <1>3 DEF TypeOK
      <3> QED  BY <3>1 DEF TypeOK, FlushDevice, SendMotion
    <2> QED  BY <1>1, <1>3, <2>1, <2>2 DEF TypeOK, FlushDevice, world
  <1>c2. OpenedOnce'
    BY <1>1 DEF OpenedOnce
  <1>c3. Cursors'
    BY <1>2, <1>3 DEF Cursors
  <1>c4. PendingIsRead'
    <2>1. ASSUME NEW a \in Addr, a # cur
          PROVE  ~ get_dev_event(a).pending'
      <3>1. dev_ev'[a] = dev_ev[a]
        BY <1>4, <2>1 DEF TypeOK
      <3>2. ~ get_dev_event(a).pending
        BY <2>1 DEF PendingIsRead
      <3> QED  BY <3>1, <3>2 DEF get_dev_event
    <2>2. ASSUME NEW a \in Addr, a = cur
          PROVE  ~ get_dev_event(a).pending'
      <3>1. dev_ev'[a] = e
        BY <1>3, <1>4, <2>2 DEF TypeOK
      <3>2. ~ e.pending /\ ~ Blank.pending
        BY <1>4 DEF Blank
      <3> QED  BY <3>1, <3>2 DEF get_dev_event
    <2> QED  BY <2>1, <2>2 DEF PendingIsRead
  <1>c5. OrphansAreBlank'
    <2>1. ASSUME NEW a \in Free, a # cur
          PROVE  dev_ev'[a] = dev_ev[a]
      BY <1>4, <2>1 DEF TypeOK, Free
    <2>2. ASSUME cur \in Free
          PROVE  dev_ev'[cur] = Blank
      <3>1. get_dev_event(cur) = Blank
        BY <2>2 DEF OrphansAreBlank, get_dev_event
      <3>2. dev_ev'[cur] = [Blank EXCEPT !.pending = FALSE]
        BY <1>3, <3>1 DEF FlushDevice, TypeOK
      <3> QED  BY <3>2 DEF Blank
    <2> QED  BY <1>2, <2>1, <2>2 DEF OrphansAreBlank, Free
  <1>c6. IdsRise'
    BY <1>1, <1>2 DEF IdsRise
  <1>c7. ObserverKnowsDevices'
    BY <1>1, <1>2 DEF ObserverKnowsDevices, Ids
  <1> QED  BY <1>c1, <1>c2, <1>c3, <1>c4, <1>c5, <1>c6, <1>c7

(* A read fails and the device is removed. *)
LEMMA ReadErrorStep ==
    ASSUME IInv, ReadError
    PROVE  IInv'
  <1> USE DEF IInv
  <1>1. cur \in Listed /\ cur \in Addr /\ pc = "read" /\ dev_list \in Seq(Addr)
    BY ListedAddr DEF ReadError, Cursors, TypeOK
  <1>2. /\ dev_list' = Unlinked(cur)
        /\ dev' = [dev EXCEPT ![cur] = NoDev]
        /\ dev_ev' = [dev_ev EXCEPT ![cur] = None]
        /\ known' = known \ {dev[cur].id}
        /\ pc' = "flush" /\ cur' = cur /\ nxt' = nxt
        /\ last_id' = last_id /\ wrapped' = wrapped
    BY DEF ReadError, remove_device
  <1>3. Listed' = Listed \ {cur}
    BY <1>1, <1>2, UnlinkProperties DEF Listed
  <1>4. Listed \subseteq Addr
    BY ListedAddr DEF TypeOK
  <1>5. \A a \in Addr \ {cur} : dev'[a] = dev[a] /\ dev_ev'[a] = dev_ev[a]
    BY <1>2 DEF TypeOK
  <1>6. dev_ev'[cur] = None
    BY <1>1, <1>2 DEF TypeOK
  <1>c1. TypeOK'
    <2>1. dev' \in [Addr -> [path : Path \cup {None}, id : Id, there : BOOLEAN]]
      <3>1. NoDev \in [path : Path \cup {None}, id : Id, there : BOOLEAN]
        BY DevicesAssumption DEF NoDev, Id
      <3> QED  BY <1>2, <3>1 DEF TypeOK
    <2>2. dev_ev' \in [Addr -> DevEvent \cup {None}]
      BY <1>2 DEF TypeOK
    <2>3. dev_list' \in Seq(Addr)
      BY <1>1, <1>2, UnlinkProperties
    <2>4. inq' \in [Addr -> Seq(Items)]
      <3>1. inq' = [inq EXCEPT ![cur] = <<>>]
        BY DEF ReadError, remove_device
      <3>2. <<>> \in Seq(Items)
        OBVIOUS
      <3>3. inq \in [Addr -> Seq(Items)]
        BY DEF TypeOK
      <3> QED  BY <3>1, <3>2, <3>3
    <2>5. known' \subseteq Id /\ moving' \subseteq Id /\ missed' \subseteq Id
      <3>1. known' \subseteq known /\ moving' \subseteq moving /\ missed' \subseteq missed
        BY DEF ReadError, remove_device
      <3> QED  BY <3>1 DEF TypeOK
    <2> QED  BY <1>2, <2>1, <2>2, <2>3, <2>4, <2>5 DEF TypeOK, ReadError
  <1>c2. OpenedOnce'
    <2>1. \A i \in DOMAIN dev_list' : dev_list'[i] \in Addr \ {cur}
      BY <1>3, <1>4 DEF Listed
    <2>2. \A i, j \in DOMAIN dev_list' :
              i # j => /\ dev_list'[i] # dev_list'[j]
                       /\ dev[dev_list'[i]].path # dev[dev_list'[j]].path
      BY <1>1, <1>2, UnlinkProperties
    <2> QED  BY <1>5, <2>1, <2>2 DEF OpenedOnce
  <1>c3. Cursors'
    BY <1>1, <1>2, <1>3 DEF Cursors
  <1>c4. PendingIsRead'
    <2>1. ASSUME NEW a \in Addr \ {cur}
          PROVE  ~ get_dev_event(a)'.pending
      BY <1>5 DEF PendingIsRead, get_dev_event
    <2> QED  BY <1>2, <2>1 DEF PendingIsRead, get_dev_event
  <1>c5. OrphansAreBlank'
    BY <1>1, <1>3, <1>5, <1>6 DEF OrphansAreBlank, Free
  <1>c6. IdsRise'
    BY <1>2, <1>3, <1>4, <1>5 DEF IdsRise
  <1>c7. ObserverKnowsDevices'
    <2> SUFFICES ASSUME ~ wrapped
                 PROVE  /\ known' = Ids(Listed)'
                        /\ \A a, b \in Listed' : a # b => dev'[a].id # dev'[b].id
      BY <1>2 DEF ObserverKnowsDevices
    <2>1. \A a, b \in Listed : a # b => dev[a].id # dev[b].id
      BY DEF ObserverKnowsDevices
    <2>2. Ids(Listed)' = Ids(Listed) \ {dev[cur].id}
      BY <1>1, <1>3, <1>4, <1>5, <2>1 DEF Ids
    <2>3. known = Ids(Listed)
      BY DEF ObserverKnowsDevices
    <2>4. known' = Ids(Listed)'
      BY <1>2, <2>2, <2>3
    <2>5. ASSUME NEW a \in Listed', NEW b \in Listed', a # b
          PROVE  dev'[a].id # dev'[b].id
      BY <1>3, <1>4, <1>5, <2>1, <2>5
    <2> QED  BY <2>4, <2>5
  <1> QED  BY <1>c1, <1>c2, <1>c3, <1>c4, <1>c5, <1>c6, <1>c7

(* A new device is opened. *)
LEMMA OpenStep ==
    ASSUME IInv, NEW p \in Path, NEW a \in Addr, OpenDevice(p, a)
    PROVE  IInv'
  <1> USE DEF IInv
  <1>1. /\ a \in Free /\ pc = "scan" /\ pc' = pc /\ cur' = cur /\ nxt' = nxt
        /\ dev_list' = <<a>> \o dev_list
        /\ dev' = [dev EXCEPT ![a] = [path |-> p, id |-> last_id, there |-> TRUE]]
        /\ last_id' = (last_id + 1) % IdLimit
        /\ wrapped' = (wrapped \/ last_id' = 0)
        /\ known' = known \cup {last_id}
        /\ dev_ev' = dev_ev
    BY DEF OpenDevice, add_device, loop
  <1>2. /\ dev_list' \in Seq(Addr)
        /\ DOMAIN dev_list = 1..Len(dev_list)
        /\ DOMAIN dev_list' = 1..Len(dev_list)+1
        /\ dev_list'[1] = a
        /\ \A i \in 1..Len(dev_list) : dev_list'[i + 1] = dev_list[i]
        /\ {dev_list'[i] : i \in DOMAIN dev_list'} = {a} \cup {dev_list[i] : i \in DOMAIN dev_list}
    <2>1. a \in Addr /\ dev_list \in Seq(Addr) /\ dev_list' = <<a>> \o dev_list
      BY <1>1 DEF TypeOK
    <2>2. /\ dev_list' \in Seq(Addr)
          /\ DOMAIN dev_list = 1..Len(dev_list)
          /\ DOMAIN dev_list' = 1..Len(dev_list)+1
          /\ dev_list'[1] = a
      BY <2>1
    <2>3. \A i \in 1..Len(dev_list) : dev_list'[i + 1] = dev_list[i]
      BY <2>1
    <2>4. ASSUME NEW i \in 1..Len(dev_list)+1
          PROVE  dev_list'[i] \in {a} \cup {dev_list[k] : k \in 1..Len(dev_list)}
      <3>1. CASE i = 1
        BY <2>2, <3>1
      <3>2. CASE i # 1
        <4>1. PICK k \in 1..Len(dev_list) : i = k + 1
          BY <3>2, i - 1 \in 1..Len(dev_list), <2>1
        <4> QED  BY <2>3, <4>1
      <3> QED  BY <3>1, <3>2
    <2>5. \A k \in 1..Len(dev_list) : k + 1 \in 1..Len(dev_list)+1
      BY <2>1
    <2>6. \A y \in {a} \cup {dev_list[k] : k \in 1..Len(dev_list)} :
              \E i \in 1..Len(dev_list)+1 : dev_list'[i] = y
      BY <2>1, <2>2, <2>3, <2>5
    <2>7. {dev_list'[i] : i \in DOMAIN dev_list'} = {a} \cup {dev_list[i] : i \in DOMAIN dev_list}
      BY <2>2, <2>4, <2>6
    <2> QED  BY <2>2, <2>3, <2>7
  <1>3. Listed' = Listed \cup {a}
    BY <1>2 DEF Listed
  <1>4. Listed \subseteq Addr /\ a \notin Listed
    BY <1>1, ListedAddr DEF TypeOK, Free
  <1>5. \A b \in Listed : dev'[b] = dev[b]
    BY <1>1, <1>4 DEF TypeOK
  <1>6. dev'[a].path = p /\ dev'[a].id = last_id
    BY <1>1 DEF TypeOK
  <1>7. last_id' \in Id /\ (last_id' # 0 => last_id' = last_id + 1)
    BY <1>1, NextId DEF TypeOK
  <1>c1. TypeOK'
    <2>1. [path |-> p, id |-> last_id, there |-> TRUE]
              \in [path : Path \cup {None}, id : Id, there : BOOLEAN]
      BY DEF TypeOK
    <2>2. dev' \in [Addr -> [path : Path \cup {None}, id : Id, there : BOOLEAN]]
      BY <1>1, <2>1 DEF TypeOK
    <2>3. wrapped' \in BOOLEAN
      BY <1>1 DEF TypeOK
    <2>4. known' \subseteq Id
      BY <1>1 DEF TypeOK
    <2> QED  BY <1>1, <1>2, <1>7, <2>2, <2>3, <2>4 DEF TypeOK, OpenDevice, loop, world
  <1>c2. OpenedOnce'
    <2>1. \A b \in Listed : dev[b].path # p
      BY DEF OpenDevice, dev_path_in_use
    <2>2. \A k \in 1..Len(dev_list) :
              /\ dev_list[k] \in Listed
              /\ dev_list'[k + 1] # dev_list'[1]
              /\ dev'[dev_list'[k + 1]].path = dev[dev_list[k]].path
              /\ dev'[dev_list'[k + 1]].path # dev'[dev_list'[1]].path
      BY <1>2, <1>4, <1>5, <1>6, <2>1 DEF Listed
    <2>3. ASSUME NEW i \in 1..Len(dev_list)+1, NEW j \in 1..Len(dev_list)+1, i # j
          PROVE  /\ dev_list'[i] # dev_list'[j]
                 /\ dev'[dev_list'[i]].path # dev'[dev_list'[j]].path
      <3>1. CASE i = 1
        <4>1. PICK k \in 1..Len(dev_list) : j = k + 1
          BY <2>3, <3>1, j - 1 \in 1..Len(dev_list)
        <4> QED  BY <2>2, <3>1, <4>1
      <3>2. CASE j = 1
        <4>1. PICK k \in 1..Len(dev_list) : i = k + 1
          BY <2>3, <3>2, i - 1 \in 1..Len(dev_list)
        <4> QED  BY <2>2, <3>2, <4>1
      <3>3. CASE i # 1 /\ j # 1
        <4>1. PICK k \in 1..Len(dev_list), l \in 1..Len(dev_list) :
                  i = k + 1 /\ j = l + 1 /\ k # l
          <5>1. /\ i - 1 \in 1..Len(dev_list) /\ i = (i - 1) + 1
                /\ j - 1 \in 1..Len(dev_list) /\ j = (j - 1) + 1
                /\ i - 1 # j - 1
            BY <2>3, <3>3
          <5> QED  BY <5>1
        <4>2. /\ dev_list[k] # dev_list[l]
              /\ dev[dev_list[k]].path # dev[dev_list[l]].path
          BY <1>2, <4>1 DEF OpenedOnce
        <4> QED  BY <1>2, <2>2, <4>1, <4>2
      <3> QED  BY <3>1, <3>2, <3>3
    <2> QED  BY <1>2, <2>3 DEF OpenedOnce
  <1>c3. Cursors'
    BY <1>1 DEF Cursors
  <1>c4. PendingIsRead'
    BY <1>1 DEF PendingIsRead, get_dev_event
  <1>c5. OrphansAreBlank'
    BY <1>1, <1>3 DEF OrphansAreBlank, Free
  <1>c6. IdsRise'
    <2> SUFFICES ASSUME ~ wrapped', NEW b \in Listed'
                 PROVE  dev'[b].id < last_id'
      BY DEF IdsRise
    <2>1. ~ wrapped /\ last_id' = last_id + 1
      BY <1>1, <1>7
    <2>2. last_id \in Int
      BY DEF TypeOK, Id
    <2>3. CASE b = a
      BY <1>6, <2>1, <2>2, <2>3
    <2>4. CASE b \in Listed
      <3>1. dev[b].id < last_id /\ dev[b].id \in Int
        BY <1>4, <2>1, <2>4 DEF IdsRise, TypeOK, Id
      <3> QED  BY <1>5, <2>1, <2>2, <2>4, <3>1
    <2> QED  BY <1>3, <2>3, <2>4
  <1>c7. ObserverKnowsDevices'
    <2> SUFFICES ASSUME ~ wrapped'
                 PROVE  /\ known' = Ids(Listed)'
                        /\ \A b, c \in Listed' : b # c => dev'[b].id # dev'[c].id
      BY DEF ObserverKnowsDevices
    <2>1. ~ wrapped
      BY <1>1
    <2>2. \A b \in Listed : dev[b].id # last_id
      BY <1>4, <2>1 DEF IdsRise, TypeOK, Id
    <2>3. known = Ids(Listed) /\ \A b, c \in Listed : b # c => dev[b].id # dev[c].id
      BY <2>1 DEF ObserverKnowsDevices
    <2>4. Ids(Listed)' = Ids(Listed) \cup {last_id}
      BY <1>3, <1>5, <1>6 DEF Ids
    <2>5. known' = Ids(Listed)'
      BY <1>1, <2>3, <2>4
    <2>6. ASSUME NEW b \in Listed', NEW c \in Listed', b # c
          PROVE  dev'[b].id # dev'[c].id
      BY <1>3, <1>5, <1>6, <2>2, <2>3, <2>6
    <2> QED  BY <2>5, <2>6
  <1> QED  BY <1>c1, <1>c2, <1>c3, <1>c4, <1>c5, <1>c6, <1>c7

(* A device cannot be opened: the id is spent. *)
LEMMA FailStep ==
    ASSUME IInv, NEW p \in Path, NEW a \in Addr, FailOpen(p, a)
    PROVE  IInv'
  <1> USE DEF IInv
  <1>1. /\ a \in Free /\ pc = "scan" /\ pc' = pc /\ cur' = cur /\ nxt' = nxt
        /\ dev_list' = dev_list /\ dev' = dev
        /\ last_id' = (last_id + 1) % IdLimit
        /\ wrapped' = (wrapped \/ last_id' = 0)
        /\ known' = known \ {last_id}
        /\ dev_ev' = [dev_ev EXCEPT ![a] = None]
    BY DEF FailOpen, loop
  <1>2. Listed' = Listed /\ Listed \subseteq Addr
    BY <1>1, ListedAddr DEF Listed, TypeOK
  <1>3. last_id' \in Id /\ (last_id' # 0 => last_id' = last_id + 1)
    BY <1>1, NextId DEF TypeOK
  <1>4. dev_ev'[a] = None /\ \A b \in Addr \ {a} : dev_ev'[b] = dev_ev[b]
    BY <1>1 DEF TypeOK
  <1>c1. TypeOK'
    <2>1. wrapped' \in BOOLEAN
      BY <1>1 DEF TypeOK
    <2>2. dev_ev' \in [Addr -> DevEvent \cup {None}]
      BY <1>1 DEF TypeOK
    <2>3. known' \subseteq Id
      BY <1>1 DEF TypeOK
    <2> QED  BY <1>1, <1>3, <2>1, <2>2, <2>3 DEF TypeOK, FailOpen, loop, world
  <1>c2. OpenedOnce'
    BY <1>1 DEF OpenedOnce
  <1>c3. Cursors'
    BY <1>1 DEF Cursors
  <1>c4. PendingIsRead'
    <2>1. ~ Blank.pending
      BY DEF Blank
    <2> QED  BY <1>1, <1>4, <2>1 DEF PendingIsRead, get_dev_event
  <1>c5. OrphansAreBlank'
    BY <1>2, <1>4 DEF OrphansAreBlank, Free
  <1>c6. IdsRise'
    <2> SUFFICES ASSUME ~ wrapped', NEW b \in Listed
                 PROVE  dev[b].id < last_id'
      BY <1>1, <1>2 DEF IdsRise
    <2>1. ~ wrapped /\ last_id' = last_id + 1
      BY <1>1, <1>3
    <2>2. dev[b].id < last_id
      BY <2>1 DEF IdsRise
    <2> QED  BY <1>2, <2>1, <2>2 DEF TypeOK, Id
  <1>c7. ObserverKnowsDevices'
    <2> SUFFICES ASSUME ~ wrapped'
                 PROVE  ObserverKnowsDevices'
      BY DEF ObserverKnowsDevices
    <2>1. ~ wrapped
      BY <1>1
    <2>2. \A b \in Listed : dev[b].id # last_id
      BY <1>2, <2>1 DEF IdsRise, TypeOK, Id
    <2>3. known = Ids(Listed)
      BY <2>1 DEF ObserverKnowsDevices
    <2>4. known' = known
      BY <1>1, <2>2, <2>3 DEF Ids
    <2> QED  BY <1>1, <1>2, <2>4 DEF ObserverKnowsDevices, Ids
  <1> QED  BY <1>c1, <1>c2, <1>c3, <1>c4, <1>c5, <1>c6, <1>c7

LEMMA NextIInv == IInv /\ [Next]_vars => IInv'
  <1> SUFFICES ASSUME IInv, [Next]_vars PROVE IInv'
    OBVIOUS
  <1>1. CASE UNCHANGED vars
    <2> USE <1>1 DEF IInv, vars, world, lists, loop, observer
    <2>1. Listed' = Listed
      BY DEF Listed
    <2>2. TypeOK' /\ OpenedOnce' /\ Cursors'
      BY <2>1 DEF TypeOK, OpenedOnce, Cursors
    <2>3. PendingIsRead' /\ OrphansAreBlank'
      BY <2>1 DEF PendingIsRead, OrphansAreBlank, get_dev_event, Free
    <2>4. IdsRise' /\ ObserverKnowsDevices'
      BY <2>1 DEF IdsRise, ObserverKnowsDevices, Ids
    <2> QED  BY <2>2, <2>3, <2>4
  <1>2. ASSUME NEW p \in Path, Plug(p) \/ Unplug(p)
        PROVE  IInv'
    BY <1>2, PlugStep, UnplugStep
  <1>3. ASSUME NEW a \in Addr, NEW item \in Items, Move(a, item)
        PROVE  IInv'
    BY <1>3, MoveStep
  <1>4. CASE Daemon
    BY <1>4, SelectStep, VisitStep, EndOfDevicesStep, ReadItemStep, ReadNothingStep,
       ReadErrorStep, FlushStep, EndOfScanStep DEF Daemon
  <1>5. ASSUME NEW p \in Path, NEW a \in Addr, OpenDevice(p, a) \/ FailOpen(p, a)
        PROVE  IInv'
    BY <1>5, OpenStep, FailStep
  <1> QED  BY <1>1, <1>2, <1>3, <1>4, <1>5 DEF Next
-----------------------------------------------------------------------------
(* What the observer has seen of the motion. *)

(* Steps that leave events, ids and the observer alone. *)
LEMMA QuietStep ==
    ASSUME SeenOrPending, UNCHANGED <<dev_list, dev_ev, moving, missed, wrapped>>,
           \A a \in Listed : dev'[a].id = dev[a].id
    PROVE  SeenOrPending'
  <1>1. Listed' = Listed
    BY DEF Listed
  <1>2. Ids(Listed)' = Ids(Listed)
    BY <1>1 DEF Ids
  <1>3. \A a \in Listed : InStep(a) => InStep(a)'
    BY DEF InStep, get_dev_event
  <1> QED  BY <1>1, <1>2, <1>3 DEF SeenOrPending

(* Steps that change the event of the device read, and what is known of it. *)
LEMMA EventStep ==
    ASSUME IInv, SeenOrPending, cur \in Listed, UNCHANGED <<dev_list, dev, wrapped>>,
           NEW e \in DevEvent, dev_ev' = [dev_ev EXCEPT ![cur] = e],
           \A n : n # dev[cur].id =>
                     (n \in moving' => n \in moving) /\ (n \in moving => n \in moving')
                     /\ (n \in missed' => n \in missed) /\ (n \in missed => n \in missed'),
           ~ wrapped => \/ dev[cur].id \in missed' \/ e.pending
                        \/ dev[cur].id \in moving' <=> e.moved
    PROVE  SeenOrPending'
  <1>1. Listed' = Listed /\ Ids(Listed)' = Ids(Listed)
    BY DEF Listed, Ids
  <1>2. Listed \subseteq Addr /\ cur \in Addr
    BY ListedAddr DEF IInv, TypeOK
  <1> SUFFICES ASSUME ~ wrapped
               PROVE  /\ moving' \cup missed' \subseteq Ids(Listed)
                      /\ \A a \in Listed : InStep(a)'
    BY <1>1 DEF SeenOrPending
  <1>3. moving' \cup missed' \subseteq Ids(Listed)
    <2>1. dev[cur].id \in Ids(Listed) /\ moving \cup missed \subseteq Ids(Listed)
      BY DEF Ids, SeenOrPending
    <2> QED  BY <2>1
  <1>4. ASSUME NEW a \in Listed, a # cur
        PROVE  InStep(a)'
    <2>1. dev[a].id # dev[cur].id
      BY <1>4 DEF IInv, ObserverKnowsDevices
    <2>2. dev_ev'[a] = dev_ev[a]
      BY <1>2, <1>4 DEF IInv, TypeOK
    <2>3. get_dev_event(a)' = get_dev_event(a)
      BY <2>2 DEF get_dev_event
    <2>4. InStep(a)
      BY DEF SeenOrPending
    <2> QED  BY <2>1, <2>3, <2>4 DEF InStep
  <1>5. ASSUME NEW a \in Listed, a = cur
        PROVE  InStep(a)'
    <2>1. dev_ev'[a] = e /\ e # None
      BY <1>2, <1>5, DevicesAssumption DEF IInv, TypeOK
    <2>2. get_dev_event(a)' = e
      BY <2>1 DEF get_dev_event
    <2> QED  BY <1>5, <2>2 DEF InStep
  <1> QED  BY <1>3, <1>4, <1>5

(* dispatch_event, for a device that has motion. *)
LEMMA MotionSent ==
    ASSUME TypeOK, cur \in Addr, get_dev_event(cur).pending, SendMotion(cur)
    PROVE  /\ dev[cur].id \in missed' \/ (dev[cur].id \in moving' <=> get_dev_event(cur).moved)
           /\ \A n : n # dev[cur].id =>
                     (n \in moving' => n \in moving) /\ (n \in moving => n \in moving')
                     /\ (n \in missed' => n \in missed) /\ (n \in missed => n \in missed')
  <1>1. get_dev_event(cur) = dev_ev[cur]
    BY DEF get_dev_event, Blank
  <1>2. CASE Dispatched(cur)
    <2>1. moving' = IF dev_ev[cur].moved THEN moving \cup {dev[cur].id}
                                         ELSE moving \ {dev[cur].id}
      BY <1>2 DEF SendMotion
    <2>2. missed' = missed
      BY <1>2 DEF SendMotion
    <2> QED  BY <1>1, <2>1, <2>2
  <1>3. CASE ~ Dispatched(cur)
    <2>1. moving' = moving /\ missed' = missed \cup {dev[cur].id}
      BY <1>3 DEF SendMotion
    <2> QED  BY <2>1
  <1> QED  BY <1>2, <1>3

(* A button: motion that was pending is sent, or there was none. *)
LEMMA ButtonSeen ==
    ASSUME IInv, SeenOrPending, ~ wrapped, cur \in Listed, Button("button")
    PROVE  /\ dev_ev' = [dev_ev EXCEPT ![cur] = [get_dev_event(cur) EXCEPT !.pending = FALSE]]
           /\ \/ dev[cur].id \in missed'
              \/ dev[cur].id \in moving' <=> get_dev_event(cur).moved
           /\ \A n : n # dev[cur].id =>
                     (n \in moving' => n \in moving) /\ (n \in moving => n \in moving')
                     /\ (n \in missed' => n \in missed) /\ (n \in missed => n \in missed')
  <1>1. TypeOK /\ cur \in Addr
    BY ListedAddr DEF IInv, TypeOK
  <1>2. dev_ev' = [dev_ev EXCEPT ![cur] = [get_dev_event(cur) EXCEPT !.pending = FALSE]]
    BY DEF Button
  <1>3. CASE get_dev_event(cur).pending
    <2>1. SendMotion(cur)
      BY <1>3 DEF Button
    <2> QED  BY <1>1, <1>2, <1>3, <2>1, MotionSent
  <1>4. CASE ~ get_dev_event(cur).pending
    <2>1. /\ missed' = IF Dispatched(cur) THEN missed ELSE missed \cup {dev[cur].id}
          /\ moving' = moving
      BY <1>4 DEF Button
    <2>2. dev[cur].id \in missed \/ (dev[cur].id \in moving <=> get_dev_event(cur).moved)
      BY <1>4 DEF SeenOrPending, InStep
    <2> QED  BY <1>2, <2>1, <2>2
  <1> QED  BY <1>3, <1>4

LEMMA InputStep ==
    ASSUME IInv, SeenOrPending, ReadItem
    PROVE  SeenOrPending'
  <1>1. cur \in Listed /\ cur \in Addr /\ TypeOK
    BY ListedAddr DEF IInv, ReadItem, Cursors, TypeOK
  <1>2. UNCHANGED <<dev_list, dev, wrapped>>
    BY DEF ReadItem
  <1> DEFINE item == Head(inq[cur])
             e == [get_dev_event(cur) EXCEPT !.pending = FALSE]
  <1>3. e \in DevEvent /\ e.moved = get_dev_event(cur).moved
    BY <1>1, EventProperties
  <1>4. Accumulate(item) \/ Flush(item) \/ Button(item) \/ Ignored(item)
    BY DEF ReadItem
  <1>5. CASE Accumulate(item)
    <2> DEFINE d == [pending |-> TRUE, moved |-> item = "move"]
    <2>1. d \in DevEvent /\ d.pending
      BY DEF DevEvent
    <2>2. dev_ev' = [dev_ev EXCEPT ![cur] = d] /\ UNCHANGED <<moving, missed>>
      BY <1>5 DEF Accumulate, observer
    <2> HIDE DEF d
    <2> QED  BY <1>1, <1>2, <2>1, <2>2, EventStep
  <1>6. CASE Flush(item)
    <2>1. dev_ev' = [dev_ev EXCEPT ![cur] = e]
      BY <1>6 DEF Flush
    <2>2. CASE get_dev_event(cur).pending
      <3>1. SendMotion(cur)
        BY <1>6, <2>2 DEF Flush
      <3> HIDE DEF e
      <3> QED  BY <1>1, <1>2, <1>3, <2>1, <2>2, <3>1, MotionSent, EventStep
    <2>3. CASE ~ get_dev_event(cur).pending
      <3>1. UNCHANGED <<moving, missed>>
        BY <1>6, <2>3 DEF Flush
      <3>2. ~ wrapped => InStep(cur)
        BY <1>1 DEF SeenOrPending
      <3> HIDE DEF e
      <3> QED  BY <1>1, <1>2, <1>3, <2>1, <2>3, <3>1, <3>2, EventStep DEF InStep
    <2> QED  BY <2>2, <2>3
  <1>7. CASE Button(item)
    <2>1. item = "button" /\ dev_ev' = [dev_ev EXCEPT ![cur] = e] /\ wrapped' = wrapped
      BY <1>2, <1>7 DEF Button
    <2>2. CASE ~ wrapped
      <3>1. Button("button")
        BY <1>7, <2>1
      <3> HIDE DEF e
      <3> QED  BY <1>1, <1>2, <1>3, <2>1, <2>2, <3>1, ButtonSeen, EventStep
    <2>3. CASE wrapped
      BY <1>2, <2>3 DEF SeenOrPending
    <2> QED  BY <2>2, <2>3
  <1>8. CASE Ignored(item)
    <2>1. UNCHANGED <<dev_list, dev_ev, moving, missed, wrapped, dev>>
      BY <1>2, <1>8 DEF Ignored, observer
    <2> QED  BY <2>1, QuietStep
  <1> QED  BY <1>4, <1>5, <1>6, <1>7, <1>8

(* The implicit flush: what was accumulated goes to the observer; of a     *)
(* device just freed there is nothing.                                     *)
LEMMA ImplicitFlushStep ==
    ASSUME IInv, SeenOrPending, FlushDevice
    PROVE  SeenOrPending'
  <1>1. cur \in Addr /\ TypeOK /\ UNCHANGED <<dev_list, dev, wrapped>>
    BY DEF IInv, Cursors, FlushDevice
  <1> DEFINE e == [get_dev_event(cur) EXCEPT !.pending = FALSE]
  <1>2. e \in DevEvent /\ e.moved = get_dev_event(cur).moved
    BY <1>1, EventProperties
  <1>3. dev_ev' = [dev_ev EXCEPT ![cur] = e]
    BY DEF FlushDevice
  <1>4. CASE cur \in Listed
    <2>1. CASE get_dev_event(cur).pending
      <3>1. SendMotion(cur)
        BY <2>1 DEF FlushDevice
      <3> HIDE DEF e
      <3> QED  BY <1>1, <1>2, <1>3, <1>4, <2>1, <3>1, MotionSent, EventStep
    <2>2. CASE ~ get_dev_event(cur).pending
      <3>1. UNCHANGED <<moving, missed>>
        BY <2>2 DEF FlushDevice
      <3>2. ~ wrapped => InStep(cur)
        BY <1>4 DEF SeenOrPending
      <3> HIDE DEF e
      <3> QED  BY <1>1, <1>2, <1>3, <1>4, <2>2, <3>1, <3>2, EventStep DEF InStep
    <2> QED  BY <2>1, <2>2
  <1>5. CASE cur \notin Listed
    <2>1. dev_ev[cur] \in {None, Blank}
      BY <1>1, <1>5 DEF IInv, OrphansAreBlank, Free
    <2>2. ~ get_dev_event(cur).pending
      BY <2>1 DEF get_dev_event, Blank
    <2>3. UNCHANGED <<moving, missed>>
      BY <2>2 DEF FlushDevice
    <2>4. Listed' = Listed /\ Ids(Listed)' = Ids(Listed) /\ Listed \subseteq Addr
      BY <1>1, ListedAddr DEF Listed, Ids, TypeOK
    <2>5. ASSUME NEW a \in Listed, InStep(a)
          PROVE  InStep(a)'
      <3>1. dev_ev'[a] = dev_ev[a]
        BY <1>1, <1>3, <1>5, <2>4 DEF TypeOK
      <3>2. get_dev_event(a)' = get_dev_event(a)
        BY <3>1 DEF get_dev_event
      <3> QED  BY <1>1, <2>3, <2>5, <3>2 DEF InStep
    <2> QED  BY <1>1, <2>3, <2>4, <2>5 DEF SeenOrPending
  <1> QED  BY <1>4, <1>5

(* A device that is removed takes its id along. *)
LEMMA RemovalStep ==
    ASSUME IInv, SeenOrPending, ReadError
    PROVE  SeenOrPending'
  <1>1. cur \in Listed /\ cur \in Addr /\ dev_list \in Seq(Addr) /\ Listed \subseteq Addr
    BY ListedAddr DEF IInv, ReadError, Cursors, TypeOK
  <1>2. /\ dev_list' = Unlinked(cur) /\ dev' = [dev EXCEPT ![cur] = NoDev]
        /\ dev_ev' = [dev_ev EXCEPT ![cur] = None] /\ wrapped' = wrapped
        /\ moving' = moving \ {dev[cur].id} /\ missed' = missed \ {dev[cur].id}
    BY DEF ReadError, remove_device
  <1>3. Listed' = Listed \ {cur}
    BY <1>1, <1>2, UnlinkProperties DEF Listed, IInv
  <1>4. \A a \in Addr \ {cur} : dev'[a] = dev[a] /\ dev_ev'[a] = dev_ev[a]
    BY <1>2 DEF IInv, TypeOK
  <1> SUFFICES ASSUME ~ wrapped
               PROVE  /\ moving' \cup missed' \subseteq Ids(Listed)'
                      /\ \A a \in Listed' : InStep(a)'
    BY <1>2 DEF SeenOrPending
  <1>5. moving' \cup missed' \subseteq Ids(Listed)'
    <2>1. Ids(Listed) \ {dev[cur].id} \subseteq Ids(Listed)'
      BY <1>1, <1>3, <1>4 DEF Ids
    <2> QED  BY <1>2, <2>1 DEF SeenOrPending
  <1>6. ASSUME NEW a \in Listed'
        PROVE  InStep(a)'
    <2>1. a \in Listed /\ a # cur /\ a \in Addr \ {cur}
      BY <1>1, <1>3
    <2>2. dev[a].id # dev[cur].id
      BY <1>1, <2>1 DEF IInv, ObserverKnowsDevices
    <2>3. get_dev_event(a)' = get_dev_event(a) /\ dev'[a] = dev[a]
      BY <1>4, <2>1 DEF get_dev_event
    <2>4. InStep(a)
      BY <2>1 DEF SeenOrPending
    <2> QED  BY <1>2, <2>2, <2>3, <2>4 DEF InStep
  <1> QED  BY <1>5, <1>6

(* A new device has an id that no motion is known of, and at its address   *)
(* there is no motion either.                                              *)
LEMMA ArrivalStep ==
    ASSUME IInv, SeenOrPending, NEW p \in Path, NEW a \in Addr, OpenDevice(p, a)
    PROVE  SeenOrPending'
  <1>1. /\ a \in Free /\ dev_list' = <<a>> \o dev_list
        /\ dev' = [dev EXCEPT ![a] = [path |-> p, id |-> last_id, there |-> TRUE]]
        /\ wrapped' = (wrapped \/ last_id' = 0)
        /\ UNCHANGED <<dev_ev, moving, missed>>
    BY DEF OpenDevice, add_device
  <1>2. Listed \subseteq Addr /\ dev_list \in Seq(Addr)
    BY ListedAddr DEF IInv, TypeOK
  <1>3. Listed' = Listed \cup {a}
    <2>1. /\ Len(dev_list') = Len(dev_list) + 1 /\ Len(dev_list) \in Nat
          /\ DOMAIN dev_list = 1..Len(dev_list) /\ DOMAIN dev_list' = 1..Len(dev_list')
          /\ \A i \in 1..Len(dev_list) + 1 :
                dev_list'[i] = IF i = 1 THEN a ELSE dev_list[i - 1]
      BY <1>1, <1>2
    <2>2. ASSUME NEW b \in Listed
          PROVE  b \in Listed'
      <3>1. PICK i \in 1..Len(dev_list) : dev_list[i] = b
        BY <2>1 DEF Listed
      <3>2. i + 1 \in 1..Len(dev_list) + 1 /\ i + 1 # 1 /\ (i + 1) - 1 = i
        BY <2>1
      <3>3. dev_list'[i + 1] = b /\ i + 1 \in DOMAIN dev_list'
        BY <2>1, <3>1, <3>2
      <3> QED  BY <3>3 DEF Listed
    <2>3. a \in Listed'
      <3>1. 1 \in DOMAIN dev_list' /\ dev_list'[1] = a
        BY <2>1
      <3> QED  BY <3>1 DEF Listed
    <2>4. ASSUME NEW b \in Listed'
          PROVE  b \in Listed \cup {a}
      <3>1. PICK i \in 1..Len(dev_list) + 1 : dev_list'[i] = b
        BY <2>1 DEF Listed
      <3>2. i # 1 => i - 1 \in DOMAIN dev_list
        BY <2>1
      <3> QED  BY <2>1, <3>1, <3>2 DEF Listed
    <2> QED  BY <2>2, <2>3, <2>4
  <1>4. (\A b \in Listed : b # a /\ dev'[b] = dev[b]) /\ dev'[a].id = last_id
    BY <1>1, <1>2 DEF IInv, TypeOK, Free
  <1> SUFFICES ASSUME ~ wrapped
               PROVE  /\ moving' \cup missed' \subseteq Ids(Listed)'
                      /\ \A b \in Listed' : InStep(b)'
    BY <1>1 DEF SeenOrPending
  <1>5. moving' \cup missed' \subseteq Ids(Listed)'
    <2>1. Ids(Listed) \subseteq Ids(Listed)'
      BY <1>3, <1>4 DEF Ids
    <2> QED  BY <1>1, <2>1 DEF SeenOrPending
  <1>6. ASSUME NEW b \in Listed
        PROVE  InStep(b)'
    BY <1>1, <1>4 DEF SeenOrPending, InStep, get_dev_event
  <1>7. InStep(a)'
    <2>1. ~ get_dev_event(a)'.moved
      BY <1>1 DEF IInv, OrphansAreBlank, get_dev_event, Blank
    <2>2. last_id \notin Ids(Listed)
      <3>1. \A b \in Listed : dev[b].id < last_id /\ dev[b].id \in Int
        BY <1>2 DEF IInv, IdsRise, TypeOK, Id
      <3>2. last_id \in Int
        BY DEF IInv, TypeOK, Id
      <3> QED  BY <3>1, <3>2 DEF Ids
    <2>3. dev'[a].id \notin moving'
      BY <1>1, <1>4, <2>2 DEF SeenOrPending
    <2> QED  BY <2>1, <2>3 DEF InStep
  <1> QED  BY <1>3, <1>5, <1>6, <1>7

(* One that cannot be opened leaves nothing but a spent id. *)
LEMMA FailureStep ==
    ASSUME IInv, SeenOrPending, NEW p \in Path, NEW a \in Addr, FailOpen(p, a)
    PROVE  SeenOrPending'
  <1>1. /\ a \in Free /\ dev_ev' = [dev_ev EXCEPT ![a] = None]
        /\ wrapped' = (wrapped \/ last_id' = 0)
        /\ UNCHANGED <<dev_list, dev, moving, missed>>
    BY DEF FailOpen
  <1>2. Listed' = Listed /\ Ids(Listed)' = Ids(Listed) /\ Listed \subseteq Addr
    BY <1>1, ListedAddr DEF Listed, Ids, IInv, TypeOK
  <1>3. ASSUME NEW b \in Listed, InStep(b)
        PROVE  InStep(b)'
    <2>1. dev_ev'[b] = dev_ev[b]
      BY <1>1, <1>2 DEF IInv, TypeOK, Free
    <2>2. get_dev_event(b)' = get_dev_event(b)
      BY <2>1 DEF get_dev_event
    <2> QED  BY <1>1, <1>3, <2>2 DEF InStep
  <1> QED  BY <1>1, <1>2, <1>3 DEF SeenOrPending

LEMMA NextSeenOrPending == IInv /\ SeenOrPending /\ [Next]_vars => SeenOrPending'
  <1> SUFFICES ASSUME IInv, SeenOrPending, [Next]_vars PROVE SeenOrPending'
    OBVIOUS
  <1>1. CASE UNCHANGED vars
    <2>1. UNCHANGED <<dev_list, dev_ev, moving, missed, wrapped, dev>>
      BY <1>1 DEF vars, lists, observer
    <2> QED  BY <2>1, QuietStep
  <1>2. ASSUME NEW p \in Path, Plug(p) \/ Unplug(p)
        PROVE  SeenOrPending'
    <2>1. UNCHANGED <<dev_list, dev_ev, moving, missed, wrapped>>
      BY <1>2 DEF Plug, Unplug, lists, observer
    <2>2. \A a \in Addr : dev'[a].id = dev[a].id
      <3>1. CASE Plug(p)
        BY <3>1 DEF Plug, lists
      <3>2. CASE Unplug(p)
        BY <3>2 DEF Unplug, IInv, TypeOK
      <3> QED  BY <1>2, <3>1, <3>2
    <2>3. Listed \subseteq Addr
      BY ListedAddr DEF IInv, TypeOK
    <2> QED  BY <2>1, <2>2, <2>3, QuietStep
  <1>3. ASSUME \/ \E a \in Addr, item \in Items : Move(a, item)
               \/ Select \/ VisitDevice \/ EndOfDevices \/ ReadNothing \/ EndOfScan
        PROVE  SeenOrPending'
    <2>1. UNCHANGED <<dev_list, dev_ev, moving, missed, wrapped, dev>>
      BY <1>3 DEF Move, Select, VisitDevice, EndOfDevices, ReadNothing, EndOfScan, lists, observer
    <2> QED  BY <2>1, QuietStep
  <1>4. ASSUME NEW p \in Path, NEW a \in Addr, OpenDevice(p, a) \/ FailOpen(p, a)
        PROVE  SeenOrPending'
    BY <1>4, ArrivalStep, FailureStep
  <1>5. CASE ReadItem \/ FlushDevice \/ ReadError
    BY <1>5, InputStep, ImplicitFlushStep, RemovalStep
  <1> QED  BY <1>1, <1>2, <1>3, <1>4, <1>5 DEF Next, Daemon
-----------------------------------------------------------------------------
(***************************************************************************)
(* The inductive invariant holds whatever the user does while the daemon   *)
(* reads and scans its devices (spnavd.c:436-485, dev.c:162-298).          *)
(***************************************************************************)
THEOREM Invariance == Spec => []IInv
  <1> QED  BY InitIInv, NextIInv, PTL DEF Spec

(***************************************************************************)
(* last_id stays within its width (dev.c:115), and dev_path_in_use keeps   *)
(* init_devices_usb from opening a device file a second time, also while   *)
(* the descriptor of an unplugged device is still listed (dev.c:162-241,   *)
(* 300-310).                                                               *)
(***************************************************************************)
THEOREM NoDeviceTwice == Spec => []ListedOnce
  <1>1. IInv => TypeOK /\ OpenedOnce
    BY DEF IInv
  <1>2. IInv => ListedOnce
    BY <1>1 DEF ListedOnce
  <1> QED  BY Invariance, <1>2, PTL

(***************************************************************************)
(* DEV_ADD and DEV_RM tell clients the truth about the open devices until  *)
(* the 16 bits of last_id are used up (dev.c:243-298, 228-235).            *)
(***************************************************************************)
THEOREM ClientsKnowDevices == Spec => []ObserverKnowsDevices
  <1>1. IInv => ObserverKnowsDevices
    BY DEF IInv
  <1> QED  BY Invariance, <1>1, PTL

(***************************************************************************)
(* The flush of a device that read_evdev has just freed leaves nothing     *)
(* behind that the next device at that address could be taken for, and     *)
(* when the main loop sleeps all accumulated motion has been dispatched    *)
(* (spnavd.c:467-477, event.c:65-126 and 198-308).                         *)
(***************************************************************************)
THEOREM NoMotionIsKept == Spec => []NoMotionKept
  <1>1. IInv => OrphansAreBlank
    BY DEF IInv
  <1>2. IInv => NothingPendingAsleep
    BY DEF IInv, PendingIsRead, NothingPendingAsleep
  <1>3. IInv => NoMotionKept
    BY <1>1, <1>2 DEF NoMotionKept
  <1> QED  BY Invariance, <1>3, PTL

LEMMA SeenOrPendingHolds == Spec => []SeenOrPending
  <1>1. Init => SeenOrPending
    <2> SUFFICES ASSUME Init PROVE SeenOrPending
      OBVIOUS
    <2>1. Listed = {}
      BY DEF Init, Listed
    <2> QED  BY <2>1 DEF Init, SeenOrPending
  <1> QED  BY <1>1, NextSeenOrPending, Invariance, PTL DEF Spec

(***************************************************************************)
(* What clients saw last of a device's motion is where the device is when  *)
(* the main loop sleeps, unless its input was withheld from them, for as   *)
(* long as ids are not given out again (event.c:65-126 and 198-308,        *)
(* dev.c:243-298).                                                         *)
(***************************************************************************)
THEOREM MotionStaysCurrent == Spec => []MotionIsCurrent
  <1>1. IInv /\ SeenOrPending => MotionIsCurrent
    <2> SUFFICES ASSUME IInv, SeenOrPending, pc = "select", ~ wrapped, NEW a \in Listed
                 PROVE  \/ dev[a].id \in missed
                        \/ (dev[a].id \in moving) = get_dev_event(a).moved
      BY DEF MotionIsCurrent
    <2>1. a \in Addr
      BY ListedAddr DEF IInv, TypeOK
    <2>2. ~ get_dev_event(a).pending
      BY <2>1 DEF IInv, PendingIsRead
    <2>3. dev[a].id \in missed \/ (dev[a].id \in moving <=> get_dev_event(a).moved)
      BY <2>2 DEF SeenOrPending, InStep
    <2>4. get_dev_event(a).moved \in {TRUE, FALSE}
      <3>1. get_dev_event(a) \in DevEvent
        BY <2>1, EventProperties DEF IInv
      <3> QED  BY <3>1 DEF DevEvent
    <2>5. CASE get_dev_event(a).moved = TRUE
      BY <2>3, <2>5, Zenon
    <2>6. CASE get_dev_event(a).moved = FALSE
      <3>1. dev[a].id \in missed \/ dev[a].id \notin moving
        BY <2>3, <2>6
      <3>2. dev[a].id \notin moving => (dev[a].id \in moving) = FALSE
        OBVIOUS
      <3> QED  BY <2>6, <3>1, <3>2
    <2> QED  BY <2>4, <2>5, <2>6
  <1> QED  BY <1>1, Invariance, SeenOrPendingHolds, PTL

(***************************************************************************)
(* process_input sends the motion that is pending before a button, for any *)
(* number of devices and any order of their input (event.c:195, 252-267).  *)
(***************************************************************************)
THEOREM MotionGoesFirst == Spec => MotionBeforeButton
  <1> DEFINE Pressed == ReadItem /\ Head(inq[cur]) = "button"
                        /\ ~ wrapped /\ dev[cur].id \notin missed'
             Seen == (dev[cur].id \in moving') = dev_ev'[cur].moved
  <1>1. ASSUME IInv, SeenOrPending, Pressed
        PROVE  Seen
    <2>1. cur \in Listed /\ cur \in Addr /\ TypeOK
      BY <1>1, ListedAddr DEF IInv, ReadItem, Cursors, TypeOK
    <2>2. Button("button")
      BY <1>1 DEF ReadItem, Accumulate, Flush, Button, Ignored
    <2>3. /\ dev_ev' = [dev_ev EXCEPT ![cur] = [get_dev_event(cur) EXCEPT !.pending = FALSE]]
          /\ dev[cur].id \in moving' <=> get_dev_event(cur).moved
      BY <1>1, <2>1, <2>2, ButtonSeen
    <2>4. /\ get_dev_event(cur).moved \in BOOLEAN
          /\ dev_ev'[cur].moved = get_dev_event(cur).moved
      <3>1. get_dev_event(cur) \in DevEvent
            /\ [get_dev_event(cur) EXCEPT !.pending = FALSE].moved = get_dev_event(cur).moved
        BY <2>1, EventProperties
      <3>2. dev_ev'[cur] = [get_dev_event(cur) EXCEPT !.pending = FALSE]
        BY <2>1, <2>3 DEF TypeOK
      <3>3. dev_ev'[cur].moved = get_dev_event(cur).moved
        BY <3>1, <3>2, Zenon
      <3>4. get_dev_event(cur).moved \in BOOLEAN
        BY <3>1 DEF DevEvent
      <3> QED  BY <3>3, <3>4
    <2>5. CASE dev_ev'[cur].moved = TRUE
      <3>1. dev[cur].id \in moving'
        BY <2>3, <2>4, <2>5
      <3> QED  BY <2>5, <3>1, Zenon
    <2>6. CASE dev_ev'[cur].moved = FALSE
      <3>1. dev[cur].id \notin moving'
        BY <2>3, <2>4, <2>6
      <3>2. dev[cur].id \notin moving' => (dev[cur].id \in moving') = FALSE
        OBVIOUS
      <3> QED  BY <2>6, <3>1, <3>2
    <2> QED  BY <2>4, <2>5, <2>6
  <1> HIDE DEF Pressed, Seen
  <1>2. IInv /\ SeenOrPending => [Pressed => Seen]_vars
    BY <1>1
  <1>3. Spec => [][Pressed => Seen]_vars
    BY <1>2, Invariance, SeenOrPendingHolds, PTL
  <1> QED  BY <1>3 DEF MotionBeforeButton, Pressed, Seen
=============================================================================
