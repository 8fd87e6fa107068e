----------------------------- MODULE MotionProofs -----------------------------
(***************************************************************************)
(* What is proved of Motion, for any axes, samples, configurations and     *)
(* actions of buttons.                                                     *)
(***************************************************************************)
EXTENDS Motion, SequenceTheorems, FiniteSetTheorems, TLAPS

Inputs == [type : {"motion"}, idx : Axis, val : Samples]
              \cup [type : {"button"}, act : Actions] \cup [type : {"flush"}]

IsSample(x, a) == x.type = "motion" /\ x.idx = a

(* The samples in q bring an axis that was heard at h to where it is, r. *)
Traced(q, h, r, a) ==
    /\ \A i \in 1..Len(q) :
          IsSample(q[i], a) /\ (\A j \in 1..Len(q) : j > i => ~ IsSample(q[j], a))
              => q[i].val = r
    /\ (\A i \in 1..Len(q) : ~ IsSample(q[i], a)) => h = r

(* What the variables hold that TypeOK does not mention. *)
MoreTypes ==
    /\ inq \in Seq(Inputs) /\ heard \in [Axis -> Samples]
    /\ old \subseteq Out /\ changes \in Nat

HeardComesToRaw == \A a \in Axis : Traced(inq, heard[a], raw[a], a)

(* A deflected axis of the event has a source that was read off its        *)
(* center, unless its source was mapped elsewhere.                         *)
DeflectionHasSource ==
    \A o \in Out : data[o] = 0 \/ o \in left \/ \E a \in Sources(cfg, o) : heard[a] # 0

(* The event is what process_input makes of the last samples. *)
CurrentFor(a) ==
    \/ map_axis(a) = -1 \/ map_axis(a) \in old \/ Sources(cfg, map_axis(a)) # {a}
    \/ data[map_axis(a)] = Scaled(map_axis(a), Alive(a, heard[a]))

EventIsCurrent == ~ dom_axis_mode => \A a \in Axis : CurrentFor(a)

(* What is not pending was sent, and what is pending is sent in this turn. *)
SeenIsEvent == IF pending THEN pc = "read" ELSE seen = data

(* The magnitude of the dominant axis is that of a source of it. *)
MagnitudeIsHeard ==
    dom_axis_mode /\ ~ unsure =>
        \/ cur_axis_mag[cur_dom_axis] = 0
        \/ \E a \in Sources(cfg, cur_dom_axis) : Abs(heard[a]) = cur_axis_mag[cur_dom_axis]

IInv == /\ TypeOK /\ MoreTypes /\ HeardComesToRaw /\ DeflectionHasSource
        /\ EventIsCurrent /\ SeenIsEvent /\ MagnitudeIsHeard
-----------------------------------------------------------------------------
LEMMA Bounds ==
    /\ MaxQueue \in Nat /\ MaxChanges \in Nat
    /\ Axis \subseteq 0..63 /\ 0 \in Samples /\ Samples \subseteq Int
  BY MotionAssumption
-----------------------------------------------------------------------------
(* Where a value goes. *)

LEMMA AbsIsNat == \A n \in Int : Abs(n) \in Nat /\ (Abs(n) = 0 <=> n = 0)
  BY DEF Abs

(* What an axis is mapped to is an axis of the event, or nothing. *)
LEMMA MapAxisType ==
    ASSUME NEW c \in Settings, NEW a \in Axis
    PROVE  MapAxis(c, a) \in Out \cup {-1}
  <1>1. c.map_axis[a] \in Int
    BY DEF Settings
  <1>2. \A n \in 0..5 : swaptab[n + 1] \in 0..5
    BY DEF swaptab
  <1> QED  BY <1>1, <1>2 DEF MapAxis, Out

(* The conversion gives a number, and zero for zero. *)
LEMMA ScaledType ==
    ASSUME cfg \in Settings, NEW o \in Out, NEW v \in Int
    PROVE  Scaled(o, v) \in Int /\ Scaled(o, 0) = 0
  <1>1. Abs(Weight(o)) \in Nat
    <2>1. Weight(o) \in Int
      BY DEF Weight, Settings
    <2> QED  BY <2>1, AbsIsNat
  <1>2. (Abs(v) * Abs(Weight(o))) \div One \in Int
    <2>1. Abs(v) * Abs(Weight(o)) \in Int
      BY <1>1, AbsIsNat
    <2> QED  BY <2>1 DEF One
  <1>3. (Abs(0) * Abs(Weight(o))) \div One = 0
    <2>1. Abs(0) = 0
      BY DEF Abs
    <2>2. Abs(0) * Abs(Weight(o)) = 0
      BY <1>1, <2>1
    <2> QED  BY <2>2 DEF One
  <1> QED  BY <1>2, <1>3 DEF Scaled

LEMMA AliveType ==
    ASSUME NEW a, NEW v \in Int
    PROVE  Alive(a, v) \in {0, v} /\ Alive(a, 0) = 0
  BY DEF Alive

(* The conversion is that of the settings alone. *)
LEMMA SameSettings ==
    ASSUME UNCHANGED <<cfg, modes>>
    PROVE  /\ \A a, v : Alive(a, v)' = Alive(a, v)
           /\ \A o, v : Scaled(o, v)' = Scaled(o, v)
           /\ \A a : map_axis(a)' = map_axis(a)
  BY DEF modes, Alive, Scaled, Weight, map_axis
-----------------------------------------------------------------------------
(* What a queue says of where an axis is. *)

LEMMA TailIsTraced ==
    ASSUME NEW q \in Seq(Inputs), q # <<>>, NEW h, NEW r, NEW a,
           Traced(q, h, r, a)
    PROVE  Traced(Tail(q), IF IsSample(Head(q), a) THEN Head(q).val ELSE h, r, a)
  <1> DEFINE now == IF IsSample(Head(q), a) THEN Head(q).val ELSE h
  <1>1. /\ Len(q) \in Nat /\ Len(q) >= 1 /\ Len(Tail(q)) = Len(q) - 1 /\ Head(q) = q[1]
        /\ \A i \in 1..Len(q) - 1 : Tail(q)[i] = q[i + 1]
    BY HeadTailProperties, EmptySeq, LenProperties
  <1>2. ASSUME NEW i \in 1..Len(Tail(q)), IsSample(Tail(q)[i], a),
               \A j \in 1..Len(Tail(q)) : j > i => ~ IsSample(Tail(q)[j], a)
        PROVE  Tail(q)[i].val = r
    <2>1. i + 1 \in 1..Len(q) /\ Tail(q)[i] = q[i + 1]
      BY <1>1
    <2>2. ASSUME NEW j \in 1..Len(q), j > i + 1
          PROVE  ~ IsSample(q[j], a)
      <3>1. j - 1 \in 1..Len(q) - 1 /\ j - 1 > i /\ (j - 1) + 1 = j
        BY <1>1, <2>2
      <3>2. Tail(q)[j - 1] = q[j]
        BY <1>1, <3>1
      <3> QED  BY <1>1, <1>2, <3>1, <3>2
    <2> QED  BY <1>2, <2>1, <2>2 DEF Traced
  <1>3. ASSUME \A i \in 1..Len(Tail(q)) : ~ IsSample(Tail(q)[i], a)
        PROVE  now = r
    <2>1. ASSUME NEW j \in 1..Len(q), j > 1
          PROVE  ~ IsSample(q[j], a)
      <3>1. j - 1 \in 1..Len(q) - 1 /\ (j - 1) + 1 = j
        BY <1>1, <2>1
      <3>2. Tail(q)[j - 1] = q[j]
        BY <1>1, <3>1
      <3> QED  BY <1>1, <1>3, <3>1, <3>2
    <2>2. CASE IsSample(Head(q), a)
      BY <1>1, <2>1, <2>2 DEF Traced
    <2>3. CASE ~ IsSample(Head(q), a)
      <3>1. \A j \in 1..Len(q) : ~ IsSample(q[j], a)
        BY <1>1, <2>1, <2>3
      <3> QED  BY <2>3, <3>1 DEF Traced
    <2> QED  BY <2>2, <2>3
  <1> QED  BY <1>2, <1>3 DEF Traced

(* What is added and no sample of the axis changes nothing for it. *)
LEMMA OthersAreTraced ==
    ASSUME NEW q \in Seq(Inputs), NEW s \in Seq(Inputs), NEW h, NEW r, NEW a,
           Traced(q, h, r, a), \A i \in 1..Len(s) : ~ IsSample(s[i], a)
    PROVE  Traced(q \o s, h, r, a)
  <1>1. /\ Len(q) \in Nat /\ Len(s) \in Nat /\ Len(q \o s) = Len(q) + Len(s)
        /\ \A i \in 1..Len(q) + Len(s) :
              (q \o s)[i] = IF i <= Len(q) THEN q[i] ELSE s[i - Len(q)]
    BY ConcatProperties, LenProperties
  <1>2. \A i \in 1..Len(q) : i \in 1..Len(q \o s) /\ (q \o s)[i] = q[i]
    BY <1>1
  <1>3. \A i \in 1..Len(q \o s) : IsSample((q \o s)[i], a) => i \in 1..Len(q)
    <2> TAKE i \in 1..Len(q \o s)
    <2>1. CASE i > Len(q)
      <3>1. i - Len(q) \in 1..Len(s) /\ (q \o s)[i] = s[i - Len(q)]
        BY <1>1, <2>1
      <3> QED  BY <3>1
    <2> QED  BY <1>1, <2>1
  <1>4. ASSUME NEW i \in 1..Len(q \o s), IsSample((q \o s)[i], a),
               \A j \in 1..Len(q \o s) : j > i => ~ IsSample((q \o s)[j], a)
        PROVE  (q \o s)[i].val = r
    <2>1. i \in 1..Len(q) /\ (q \o s)[i] = q[i]
      BY <1>2, <1>3, <1>4
    <2>2. \A j \in 1..Len(q) : j > i => ~ IsSample(q[j], a)
      BY <1>2, <1>4
    <2> QED  BY <1>4, <2>1, <2>2 DEF Traced
  <1>5. ASSUME \A i \in 1..Len(q \o s) : ~ IsSample((q \o s)[i], a)
        PROVE  h = r
    BY <1>2, <1>5 DEF Traced
  <1> QED  BY <1>4, <1>5 DEF Traced

(* What is added and has samples of the axis says where it is. *)
LEMMA NewSamplesAreTraced ==
    ASSUME NEW q \in Seq(Inputs), NEW s \in Seq(Inputs), NEW h, NEW r, NEW a,
           \E i \in 1..Len(s) : IsSample(s[i], a),
           \A i \in 1..Len(s) : IsSample(s[i], a) => s[i].val = r
    PROVE  Traced(q \o s, h, r, a)
  <1>1. /\ Len(q) \in Nat /\ Len(s) \in Nat /\ Len(q \o s) = Len(q) + Len(s)
        /\ \A i \in 1..Len(q) + Len(s) :
              (q \o s)[i] = IF i <= Len(q) THEN q[i] ELSE s[i - Len(q)]
    BY ConcatProperties, LenProperties
  <1>2. PICK k \in 1..Len(s) : IsSample(s[k], a)
    OBVIOUS
  <1>3. /\ Len(q) + k \in 1..Len(q \o s) /\ Len(q) + k > Len(q)
        /\ (Len(q) + k) - Len(q) = k /\ k \in Nat
    BY <1>1
  <1>4. IsSample((q \o s)[Len(q) + k], a)
    BY <1>1, <1>2, <1>3
  <1>5. ASSUME NEW i \in 1..Len(q \o s), IsSample((q \o s)[i], a),
               \A j \in 1..Len(q \o s) : j > i => ~ IsSample((q \o s)[j], a)
        PROVE  (q \o s)[i].val = r
    <2>1. ~ (Len(q) + k > i)
      BY <1>3, <1>4, <1>5
    <2>2. i > Len(q) /\ i - Len(q) \in 1..Len(s)
      BY <1>1, <1>3, <2>1
    <2>3. (q \o s)[i] = s[i - Len(q)]
      BY <1>1, <2>2
    <2> QED  BY <1>5, <2>2, <2>3
  <1> QED  BY <1>3, <1>4, <1>5 DEF Traced
-----------------------------------------------------------------------------
(* The steps, one by one. *)

(* Steps that change neither settings nor event keep what is said of them. *)
LEMMA EventStays ==
    ASSUME IInv, UNCHANGED <<cfg, modes, dom, data, hist>>
    PROVE  DeflectionHasSource' /\ EventIsCurrent' /\ MagnitudeIsHeard'
  <1>1. /\ \A o : Sources(cfg, o)' = Sources(cfg, o)
        /\ \A a : map_axis(a)' = map_axis(a)
        /\ \A o, v : Scaled(o, v)' = Scaled(o, v)
        /\ \A a, v : Alive(a, v)' = Alive(a, v)
        /\ dom_axis_mode' = dom_axis_mode
    BY SameSettings DEF Sources, modes
  <1>2. UNCHANGED <<cur_axis_mag, cur_dom_axis, data, heard, old, left, unsure>>
    BY DEF dom, hist
  <1>3. DeflectionHasSource'
    BY <1>1, <1>2 DEF IInv, DeflectionHasSource
  <1>4. EventIsCurrent'
    BY <1>1, <1>2 DEF IInv, EventIsCurrent, CurrentFor
  <1>5. MagnitudeIsHeard'
    BY <1>1, <1>2 DEF IInv, MagnitudeIsHeard
  <1> QED  BY <1>3, <1>4, <1>5

LEMMA FlushSends ==
    ASSUME SeenIsEvent, FlushPending
    PROVE  ~ pending' /\ seen' = data /\ UNCHANGED data
  BY DEF SeenIsEvent, FlushPending, dispatch_event

(* Reading an input takes what it says of an axis over to heard. *)
LEMMA ReadingIsTraced ==
    ASSUME IInv, inq # <<>>, inq' = Tail(inq), UNCHANGED raw,
           \A a \in Axis :
               heard'[a] = IF IsSample(Head(inq), a) THEN Head(inq).val ELSE heard[a]
    PROVE  HeardComesToRaw' /\ inq' \in Seq(Inputs) /\ Len(inq') <= MaxQueue
  <1>1. inq \in Seq(Inputs) /\ Len(inq) <= MaxQueue
    BY DEF IInv, MoreTypes, TypeOK
  <1>2. inq' \in Seq(Inputs) /\ Len(inq') <= MaxQueue
    <2>1. Tail(inq) \in Seq(Inputs) /\ Len(Tail(inq)) = Len(inq) - 1 /\ Len(inq) \in Nat
      BY <1>1, HeadTailProperties, LenProperties
    <2> QED  BY <1>1, <2>1, Bounds
  <1>3. ASSUME NEW a \in Axis
        PROVE  Traced(inq', heard'[a], raw'[a], a)
    <2>1. Traced(inq, heard[a], raw[a], a)
      BY DEF IInv, HeardComesToRaw
    <2>2. Traced(Tail(inq), IF IsSample(Head(inq), a) THEN Head(inq).val ELSE heard[a],
                 raw[a], a)
      BY <1>1, <2>1, TailIsTraced
    <2> QED  BY <2>2
  <1> QED  BY <1>2, <1>3 DEF HeardComesToRaw

LEMMA HeadIsInput ==
    ASSUME IInv, inq # <<>>
    PROVE  Head(inq) \in Inputs
  BY HeadTailProperties DEF IInv, MoreTypes

LEMMA InitIsIInv == Init => IInv
  <1> SUFFICES ASSUME Init PROVE IInv
    OBVIOUS
  <1> USE DEF Init
  <1>1. cfg \in Settings /\ raw \in [Axis -> Samples] /\ heard \in [Axis -> Samples]
    BY MotionAssumption
  <1>2. Len(inq) = 0 /\ inq \in Seq(Inputs)
    BY EmptySeq
  <1>3. TypeOK
    <2>1. Zero \in [Out -> Nat] /\ Zero \in [Out -> Int] /\ 0 \in Out
      BY DEF Zero, Out
    <2>2. /\ cur_axis_mag \in [Out -> Nat] /\ cur_dom_axis \in Out
          /\ data \in [Out -> Int] /\ seen \in [Out -> Int]
      BY <2>1
    <2>3. ~ (disable_rotation /\ disable_translation) /\ left \subseteq old
      OBVIOUS
    <2>4. Len(inq) <= MaxQueue
      BY <1>2, Bounds
    <2>5. /\ pc \in {"select", "read", "turn"} /\ repeat_on_timeout \in BOOLEAN
          /\ pending \in BOOLEAN
      OBVIOUS
    <2> HIDE DEF Init
    <2> QED  BY <1>1, <2>2, <2>3, <2>4, <2>5 DEF TypeOK
  <1>4. MoreTypes
    BY <1>1, <1>2 DEF MoreTypes
  <1>5. HeardComesToRaw
    BY <1>2 DEF HeardComesToRaw, Traced
  <1>6. DeflectionHasSource
    BY DEF DeflectionHasSource, Zero
  <1>7. ASSUME NEW a \in Axis PROVE CurrentFor(a)
    <2>1. map_axis(a) \in Out \cup {-1}
      BY <1>1, MapAxisType DEF map_axis
    <2>2. heard[a] = 0 /\ Alive(a, 0) = 0
      BY AliveType
    <2>3. map_axis(a) \in Out => data[map_axis(a)] = 0 /\ Scaled(map_axis(a), 0) = 0
      BY <1>1, ScaledType DEF Zero
    <2> QED  BY <2>1, <2>2, <2>3 DEF CurrentFor
  <1>8. EventIsCurrent
    BY <1>7 DEF EventIsCurrent
  <1>9. SeenIsEvent /\ MagnitudeIsHeard
    BY DEF SeenIsEvent, MagnitudeIsHeard
  <1> QED  BY <1>3, <1>4, <1>5, <1>6, <1>8, <1>9 DEF IInv

LEMMA OrdersAreSequences ==
    ASSUME NEW new, NEW axes \in Orders({a \in Axis : new[a] # raw[a]})
    PROVE  /\ axes \in Seq(Axis) /\ Len(axes) \in Nat
           /\ \A i \in 1..Len(axes) : axes[i] \in Axis /\ new[axes[i]] # raw[axes[i]]
           /\ \A a \in Axis : new[a] # raw[a] => \E i \in 1..Len(axes) : axes[i] = a
  <1> DEFINE moved == {a \in Axis : new[a] # raw[a]}
             n == Cardinality(moved)
  <1>1. n \in Nat
    <2>1. moved \subseteq 0..63 /\ IsFiniteSet(0..63)
      <3>1. moved \subseteq Axis
        OBVIOUS
      <3>2. IsFiniteSet(0..63)
        <4>1. 0 \in Int /\ 63 \in Int
          OBVIOUS
        <4> QED  BY <4>1, FS_Interval, Zenon
      <3> QED  BY <3>1, <3>2, Bounds
    <2> QED  BY <2>1, FS_Subset, FS_CardinalityType
  <1>2. axes \in [1..n -> moved] /\ \A a \in moved : \E i \in DOMAIN axes : axes[i] = a
    BY DEF Orders
  <1> HIDE DEF n
  <1>3. axes \in Seq(moved) /\ Len(axes) = n
    BY <1>1, <1>2
  <1> QED  BY <1>1, <1>2, <1>3

LEMMA MoveKeepsIInv == IInv /\ Move => IInv'
  <1> SUFFICES ASSUME IInv, Move PROVE IInv'
    OBVIOUS
  <1>1. PICK new \in [Axis -> Samples] :
          \E axes \in Orders({a \in Axis : new[a] # raw[a]}) :
            /\ Len(inq) + Len(axes) < MaxQueue
            /\ raw' = new
            /\ inq' = Append(inq \o Report(axes, new), [type |-> "flush"])
            /\ UNCHANGED <<cfg, modes, dom, event, loop, seen, changes, hist>>
    BY DEF Move
  <1>2. PICK axes \in Orders({a \in Axis : new[a] # raw[a]}) :
            /\ Len(inq) + Len(axes) < MaxQueue
            /\ raw' = new
            /\ inq' = Append(inq \o Report(axes, new), [type |-> "flush"])
            /\ UNCHANGED <<cfg, modes, dom, event, loop, seen, changes, hist>>
    BY <1>1
  <1> DEFINE s == Report(axes, new)
             q == inq \o s
             e == [type |-> "flush"]
  <1>3. /\ axes \in Seq(Axis) /\ Len(axes) \in Nat
        /\ \A i \in 1..Len(axes) : axes[i] \in Axis /\ new[axes[i]] # raw[axes[i]]
        /\ \A a \in Axis : new[a] # raw[a] => \E i \in 1..Len(axes) : axes[i] = a
    BY OrdersAreSequences
  <1>4. /\ s \in Seq(Inputs) /\ Len(s) = Len(axes)
        /\ \A i \in 1..Len(s) :
              s[i].type = "motion" /\ s[i].idx = axes[i] /\ s[i].val = new[axes[i]]
    <2>1. DOMAIN axes = 1..Len(axes)
      BY <1>3
    <2>2. \A i \in 1..Len(axes) :
             [type |-> "motion", idx |-> axes[i], val |-> new[axes[i]]] \in Inputs
      BY <1>3 DEF Inputs
    <2>3. s \in [1..Len(axes) -> Inputs]
      BY <2>1, <2>2 DEF Report
    <2>4. s \in Seq(Inputs) /\ Len(s) = Len(axes)
      <3> HIDE DEF s
      <3> QED  BY <1>3, <2>3
    <2> QED  BY <2>1, <2>4 DEF Report
  <1> HIDE DEF s
  <1>5. inq \in Seq(Inputs) /\ Len(inq) \in Nat /\ e \in Inputs
    BY LenProperties DEF IInv, MoreTypes, Inputs
  <1>6. q \in Seq(Inputs) /\ Len(q) = Len(inq) + Len(axes)
    <2>1. s \in Seq(Inputs) /\ Len(s) = Len(axes)
      BY <1>4
    <2>2. inq \o s \in Seq(Inputs) /\ Len(inq \o s) = Len(inq) + Len(s)
      BY <1>5, <2>1, ConcatProperties
    <2> QED  BY <2>1, <2>2
  <1>7. ASSUME NEW a \in Axis
        PROVE  Traced(q, heard[a], new[a], a)
    <2>0. Traced(inq, heard[a], raw[a], a)
      BY DEF IInv, HeardComesToRaw
    <2>1. CASE new[a] # raw[a]
      <3>1. \E i \in 1..Len(s) : IsSample(s[i], a)
        BY <1>3, <1>4, <2>1 DEF IsSample
      <3>2. \A i \in 1..Len(s) : IsSample(s[i], a) => s[i].val = new[a]
        BY <1>4 DEF IsSample
      <3> QED  BY <1>4, <1>5, <3>1, <3>2, NewSamplesAreTraced
    <2>2. CASE new[a] = raw[a]
      <3>1. \A i \in 1..Len(s) : ~ IsSample(s[i], a)
        BY <1>3, <1>4, <2>2 DEF IsSample
      <3> QED  BY <1>4, <1>5, <2>0, <2>2, <3>1, OthersAreTraced
    <2> QED  BY <2>1, <2>2
  <1> HIDE DEF q
  <1>8. inq' = q \o <<e>> /\ <<e>> \in Seq(Inputs) /\ Len(<<e>>) = 1 /\ <<e>>[1] = e
    BY <1>2, <1>5, <1>6, AppendIsConcat DEF s, q
  <1>9. inq' \in Seq(Inputs) /\ Len(inq') = Len(inq) + Len(axes) + 1
    BY <1>5, <1>6, <1>8, ConcatProperties
  <1>10. HeardComesToRaw'
    <2>1. ASSUME NEW a \in Axis
          PROVE  Traced(q \o <<e>>, heard[a], new[a], a)
      <3>1. \A i \in 1..Len(<<e>>) : ~ IsSample(<<e>>[i], a)
        BY <1>8 DEF IsSample
      <3> QED  BY <1>6, <1>7, <1>8, <3>1, OthersAreTraced
    <2>2. raw' = new /\ heard' = heard
      BY <1>2 DEF hist
    <2> QED  BY <1>8, <2>1, <2>2 DEF HeardComesToRaw
  <1>11. TypeOK' /\ MoreTypes' /\ SeenIsEvent'
    <2>1. UNCHANGED <<cfg, modes, dom, event, loop, seen, changes, hist>> /\ raw' = new
      BY <1>2
    <2>2. Len(inq') <= MaxQueue
      BY <1>2, <1>3, <1>5, <1>9, Bounds
    <2> QED  BY <1>9, <2>1, <2>2 DEF IInv, TypeOK, MoreTypes, SeenIsEvent, modes, dom, event,
                                     loop, hist
  <1>12. DeflectionHasSource' /\ EventIsCurrent' /\ MagnitudeIsHeard'
    BY <1>2, EventStays DEF event
  <1> QED  BY <1>10, <1>11, <1>12 DEF IInv

LEMMA ReleaseKeepsIInv == IInv /\ Release => IInv'
  <1> SUFFICES ASSUME IInv, Release PROVE IInv'
    OBVIOUS
  <1>1. PICK act \in Actions : inq' = Append(inq, [type |-> "button", act |-> act])
    BY DEF Release
  <1> DEFINE e == [type |-> "button", act |-> act]
  <1>2. /\ Len(inq) < MaxQueue /\ changes' = changes + 1
        /\ UNCHANGED <<raw, cfg, modes, dom, event, loop, seen, hist>>
    BY DEF Release
  <1>3. inq \in Seq(Inputs) /\ e \in Inputs /\ Len(inq) \in Nat
    BY LenProperties DEF IInv, MoreTypes, Inputs
  <1>4. inq' = inq \o <<e>> /\ <<e>> \in Seq(Inputs) /\ Len(<<e>>) = 1 /\ <<e>>[1] = e
    BY <1>1, <1>3, AppendIsConcat
  <1>5. inq' \in Seq(Inputs) /\ Len(inq') = Len(inq) + 1
    BY <1>3, <1>4, ConcatProperties
  <1>6. HeardComesToRaw'
    <2>1. ASSUME NEW a \in Axis
          PROVE  Traced(inq \o <<e>>, heard[a], raw[a], a)
      <3>1. \A i \in 1..Len(<<e>>) : ~ IsSample(<<e>>[i], a)
        BY <1>4 DEF IsSample
      <3>2. Traced(inq, heard[a], raw[a], a)
        BY DEF IInv, HeardComesToRaw
      <3> QED  BY <1>3, <1>4, <3>1, <3>2, OthersAreTraced
    <2>2. UNCHANGED <<raw, heard>>
      BY <1>2 DEF hist
    <2> QED  BY <1>4, <2>1, <2>2 DEF HeardComesToRaw
  <1>7. TypeOK' /\ MoreTypes' /\ SeenIsEvent'
    <2>1. Len(inq') <= MaxQueue /\ changes' \in Nat
      BY <1>2, <1>3, <1>5, Bounds DEF IInv, MoreTypes
    <2> QED  BY <1>2, <1>5, <2>1 DEF IInv, TypeOK, MoreTypes, SeenIsEvent, modes, dom, event,
                                     loop, hist
  <1>8. DeflectionHasSource' /\ EventIsCurrent' /\ MagnitudeIsHeard'
    BY <1>2, EventStays DEF event
  <1> QED  BY <1>6, <1>7, <1>8 DEF IInv

(* A sample: what it changes in the event is what the axis says now. *)
LEMMA MotionKeepsIInv ==
    ASSUME IInv, ReadItem, Head(inq).type = "motion",
           InputMotion(Head(inq).idx, Head(inq).val)
    PROVE  IInv'
  <1> DEFINE a == Head(inq).idx
             v == Head(inq).val
             o == map_axis(a)
             kept == IF Passes(Abs(v)) THEN Alive(a, v) ELSE 0
  <1>1. /\ pc = "read" /\ inq # <<>> /\ inq' = Tail(inq)
        /\ UNCHANGED <<raw, pc, repeat_on_timeout, changes>>
    BY DEF ReadItem, loop
  <1>2. a \in Axis /\ v \in Samples /\ v \in Int
    <2>1. Head(inq) \in Inputs
      BY <1>1, HeadIsInput
    <2> QED  BY <2>1, Bounds DEF Inputs
  <1>3. /\ heard' = [heard EXCEPT ![a] = v]
        /\ UNCHANGED <<cfg, modes, seen>>
        /\ \/ o = -1 /\ UNCHANGED <<dom, event, old, left, unsure>>
           \/ /\ o # -1
              /\ IF dom_axis_mode THEN Dominates(o, Abs(v)) ELSE UNCHANGED <<dom, unsure>>
              /\ data' = [data EXCEPT ![o] = Scaled(o, kept)]
              /\ pending' = TRUE
              /\ old' = old \ {o} /\ left' = left \ {o}
    BY DEF InputMotion
  <1>4. \A b \in Axis : IsSample(Head(inq), b) <=> b = a
    BY DEF IsSample
  <1> HIDE DEF a, v, kept
  <1>5. /\ heard \in [Axis -> Samples] /\ heard' \in [Axis -> Samples]
        /\ \A b \in Axis : heard'[b] = IF b = a THEN v ELSE heard[b]
    BY <1>2, <1>3 DEF IInv, MoreTypes
  <1>6. HeardComesToRaw' /\ inq' \in Seq(Inputs) /\ Len(inq') <= MaxQueue
    <2>1. \A b \in Axis :
             heard'[b] = IF IsSample(Head(inq), b) THEN Head(inq).val ELSE heard[b]
      BY <1>4, <1>5 DEF v
    <2> QED  BY <1>1, <2>1, ReadingIsTraced
  <1>7. /\ o \in Out \cup {-1} /\ cfg \in Settings
        /\ \A b \in Axis : map_axis(b) \in Out \cup {-1}
    BY <1>2, MapAxisType DEF IInv, TypeOK, map_axis
  <1>8. /\ \A p : Sources(cfg, p)' = Sources(cfg, p)
        /\ \A p : \A b \in Axis : b \in Sources(cfg, p) <=> map_axis(b) = p
        /\ \A b : map_axis(b)' = map_axis(b)
        /\ \A p, w : Scaled(p, w)' = Scaled(p, w)
        /\ \A b, w : Alive(b, w)' = Alive(b, w)
        /\ dom_axis_mode' = dom_axis_mode
    <2>1. UNCHANGED <<cfg, modes>>
      BY <1>3
    <2>2. /\ \A p : Sources(cfg, p)' = Sources(cfg, p)
          /\ \A p : \A b \in Axis : b \in Sources(cfg, p) <=> map_axis(b) = p
      BY <2>1 DEF Sources, map_axis
    <2> QED  BY <2>1, <2>2, SameSettings DEF modes
  <1>9. CASE o = -1
    <2>1. UNCHANGED <<dom, event, old, left, unsure>>
      BY <1>3, <1>9
    <2>2. TypeOK' /\ MoreTypes' /\ SeenIsEvent'
      BY <1>1, <1>3, <1>5, <1>6, <2>1 DEF IInv, TypeOK, MoreTypes, SeenIsEvent, dom, event, modes
    <2>3. DeflectionHasSource'
      <3>1. ASSUME NEW p \in Out
            PROVE  data'[p] = 0 \/ p \in left' \/ \E b \in Sources(cfg, p)' : heard'[b] # 0
        <4>1. data[p] = 0 \/ p \in left \/ \E b \in Sources(cfg, p) : heard[b] # 0
          BY DEF IInv, DeflectionHasSource
        <4>2. ASSUME NEW b \in Sources(cfg, p), heard[b] # 0
              PROVE  b \in Sources(cfg, p)' /\ heard'[b] # 0
          <5>1. b \in Axis /\ p # -1
            BY DEF Sources, Out
          <5> QED  BY <1>5, <1>8, <1>9, <4>2, <5>1
        <4> QED  BY <2>1, <4>1, <4>2 DEF event
      <3> QED  BY <3>1 DEF DeflectionHasSource
    <2>4. EventIsCurrent'
      <3>1. ASSUME ~ dom_axis_mode, NEW b \in Axis
            PROVE  CurrentFor(b)'
        <4>1. CurrentFor(b)
          BY <3>1 DEF IInv, EventIsCurrent
        <4>2. b = a => CurrentFor(b)'
          BY <1>8, <1>9 DEF CurrentFor
        <4>3. b # a => heard'[b] = heard[b]
          BY <1>5
        <4> QED  BY <1>8, <2>1, <4>1, <4>2, <4>3 DEF CurrentFor, event
      <3> QED  BY <1>8, <3>1 DEF EventIsCurrent
    <2>5. MagnitudeIsHeard'
      <3>1. cur_dom_axis' = cur_dom_axis /\ cur_axis_mag' = cur_axis_mag /\ unsure' = unsure
        BY <2>1 DEF dom
      <3>2. cur_dom_axis \in Out
        BY DEF IInv, TypeOK
      <3>3. ASSUME NEW b \in Sources(cfg, cur_dom_axis)
            PROVE  heard'[b] = heard[b]
        <4>1. b \in Axis /\ map_axis(b) # -1
          BY <1>8, <3>2 DEF Sources, Out
        <4> QED  BY <1>5, <1>9, <4>1
      <3> QED  BY <1>8, <3>1, <3>3 DEF IInv, MagnitudeIsHeard
    <2> QED  BY <1>6, <2>2, <2>3, <2>4, <2>5 DEF IInv
  <1>10. CASE o # -1
    <2>1. /\ IF dom_axis_mode THEN Dominates(o, Abs(v)) ELSE UNCHANGED <<dom, unsure>>
          /\ data' = [data EXCEPT ![o] = Scaled(o, kept)]
          /\ pending' = TRUE
          /\ old' = old \ {o} /\ left' = left \ {o}
      BY <1>3, <1>10
    <2>2. /\ o \in Out /\ a \in Sources(cfg, o) /\ Abs(v) \in Nat
          /\ \A b \in Axis : b # a => heard'[b] = heard[b]
      BY <1>2, <1>5, <1>7, <1>8, <1>10, AbsIsNat
    <2>3. kept \in {0, v} /\ Scaled(o, kept) \in Int /\ (kept = 0 => Scaled(o, kept) = 0)
      <3>1. kept \in {0, v} /\ kept \in Int
        BY <1>2, AliveType DEF kept
      <3> QED  BY <1>7, <2>2, <3>1, ScaledType
    <2> HIDE DEF o
    <2>4. /\ data \in [Out -> Int] /\ data' \in [Out -> Int]
          /\ \A p \in Out : data'[p] = IF p = o THEN Scaled(o, kept) ELSE data[p]
      BY <2>1, <2>2, <2>3 DEF IInv, TypeOK
    <2>5. cur_axis_mag' \in [Out -> Nat] /\ cur_dom_axis' \in Out
      <3>1. cur_axis_mag \in [Out -> Nat] /\ cur_dom_axis \in Out
        BY DEF IInv, TypeOK
      <3> QED  BY <2>1, <2>2, <3>1 DEF Dominates, dom
    <2>6. TypeOK' /\ MoreTypes' /\ SeenIsEvent'
      <3>1. UNCHANGED <<disable_rotation, disable_translation, dom_axis_mode, cfg, seen>>
        BY <1>3 DEF modes
      <3>2. left' \subseteq old' /\ old' \subseteq Out
        BY <2>1 DEF IInv, TypeOK, MoreTypes
      <3>3. raw' \in [Axis -> Samples] /\ changes' \in Nat
        BY <1>1 DEF IInv, TypeOK, MoreTypes
      <3>4. seen' \in [Out -> Int] /\ pending' \in BOOLEAN
        BY <2>1, <3>1 DEF IInv, TypeOK
      <3>5. /\ pc' \in {"select", "read", "turn"} /\ repeat_on_timeout' \in BOOLEAN
            /\ cfg' \in Settings /\ ~ (disable_rotation' /\ disable_translation')
        BY <1>1, <3>1 DEF IInv, TypeOK
      <3>6. TypeOK'
        BY <1>6, <2>4, <2>5, <3>2, <3>3, <3>4, <3>5 DEF TypeOK
      <3> QED  BY <1>1, <1>5, <1>6, <2>1, <3>2, <3>3, <3>6 DEF MoreTypes, SeenIsEvent
    <2>7. DeflectionHasSource'
      <3>1. ASSUME NEW p \in Out
            PROVE  data'[p] = 0 \/ p \in left' \/ \E b \in Sources(cfg, p)' : heard'[b] # 0
        <4>1. CASE p = o
          <5>1. v = 0 => data'[p] = 0
            BY <2>3, <2>4, <4>1
          <5>2. heard'[a] = v /\ a \in Sources(cfg, p)'
            BY <1>2, <1>5, <1>8, <2>2, <4>1
          <5> QED  BY <5>1, <5>2
        <4>2. CASE p # o
          <5>1. data[p] = 0 \/ p \in left \/ \E b \in Sources(cfg, p) : heard[b] # 0
            BY DEF IInv, DeflectionHasSource
          <5>2. ASSUME NEW b \in Sources(cfg, p), heard[b] # 0
                PROVE  b \in Sources(cfg, p)' /\ heard'[b] # 0
            <6>1. b \in Axis
              BY DEF Sources
            <6>2. b # a
              BY <1>8, <2>2, <4>2, <6>1
            <6> QED  BY <1>8, <2>2, <5>2, <6>1, <6>2
          <5>3. data'[p] = data[p] /\ (p \in left => p \in left')
            BY <2>1, <2>4, <4>2
          <5> QED  BY <5>1, <5>2, <5>3
        <4> QED  BY <4>1, <4>2
      <3> QED  BY <3>1 DEF DeflectionHasSource
    <2>8. EventIsCurrent'
      <3>1. ASSUME ~ dom_axis_mode, NEW b \in Axis
            PROVE  CurrentFor(b)'
        <4>1. CurrentFor(b)
          BY <3>1 DEF IInv, EventIsCurrent
        <4>2. CASE b = a
          <5>1. kept = Alive(a, v)
            BY <3>1 DEF kept, Passes
          <5>2. data'[o] = Scaled(o, Alive(a, v)) /\ heard'[a] = v
            BY <1>2, <1>5, <2>2, <2>4, <5>1
          <5>3. map_axis(b)' = o
            BY <1>8, <4>2 DEF o
          <5>4. data'[map_axis(b)'] = Scaled(map_axis(b), Alive(b, heard[b]))'
            BY <1>8, <4>2, <5>2, <5>3
          <5> QED  BY <5>4 DEF CurrentFor
        <4>3. CASE b # a /\ map_axis(b) = o
          <5>1. Sources(cfg, o) # {b}
            BY <2>2, <4>3
          <5> QED  BY <1>8, <4>3, <5>1 DEF CurrentFor
        <4>4. CASE b # a /\ map_axis(b) # o
          <5>1. heard'[b] = heard[b]
            BY <2>2, <4>4
          <5>2. map_axis(b) # -1 => data'[map_axis(b)] = data[map_axis(b)]
            BY <1>7, <2>4, <4>4
          <5>3. map_axis(b) \in old => map_axis(b) \in old'
            BY <2>1, <4>4
          <5> QED  BY <1>8, <4>1, <5>1, <5>2, <5>3 DEF CurrentFor
        <4> QED  BY <4>2, <4>3, <4>4
      <3> QED  BY <1>8, <3>1 DEF EventIsCurrent
    <2>9. MagnitudeIsHeard'
      <3>0. cur_axis_mag \in [Out -> Nat] /\ cur_dom_axis \in Out
        BY DEF IInv, TypeOK
      <3>1. ASSUME dom_axis_mode, ~ unsure'
            PROVE  \/ cur_axis_mag'[cur_dom_axis'] = 0
                   \/ \E b \in Sources(cfg, cur_dom_axis') :
                          Abs(heard'[b]) = cur_axis_mag'[cur_dom_axis']
        <4>1. /\ cur_dom_axis' = IF Abs(v) > cur_axis_mag[cur_dom_axis] THEN o ELSE cur_dom_axis
              /\ cur_axis_mag' = [cur_axis_mag EXCEPT ![o] = Abs(v)]
              /\ unsure' = (unsure /\ o # cur_dom_axis /\ Abs(v) <= cur_axis_mag[cur_dom_axis])
          BY <2>1, <3>1 DEF Dominates
        <4>2. CASE cur_dom_axis' = o
          <5>1. cur_axis_mag'[cur_dom_axis'] = Abs(v)
            BY <2>2, <3>0, <4>1, <4>2
          <5>2. Abs(heard'[a]) = Abs(v)
            BY <1>2, <1>5
          <5> QED  BY <2>2, <4>2, <5>1, <5>2
        <4>3. CASE cur_dom_axis' # o
          <5>1. /\ cur_dom_axis' = cur_dom_axis /\ o # cur_dom_axis
                /\ Abs(v) <= cur_axis_mag[cur_dom_axis]
            BY <2>2, <3>0, <4>1, <4>3
          <5>2. ~ unsure /\ cur_axis_mag'[cur_dom_axis'] = cur_axis_mag[cur_dom_axis]
            BY <2>2, <3>0, <3>1, <4>1, <5>1
          <5>3. \/ cur_axis_mag[cur_dom_axis] = 0
                \/ \E b \in Sources(cfg, cur_dom_axis) :
                       Abs(heard[b]) = cur_axis_mag[cur_dom_axis]
            BY <3>1, <5>2 DEF IInv, MagnitudeIsHeard
          <5>4. ASSUME NEW b \in Sources(cfg, cur_dom_axis)
                PROVE  heard'[b] = heard[b]
            <6>1. b \in Axis
              BY DEF Sources
            <6> QED  BY <1>8, <2>2, <5>1, <6>1
          <5> QED  BY <5>1, <5>2, <5>3, <5>4
        <4> QED  BY <4>2, <4>3
      <3>2. Sources(cfg, cur_dom_axis)' = Sources(cfg, cur_dom_axis')
        BY <1>3 DEF Sources, MapAxis
      <3>3. \A b : Abs(heard[b])' = Abs(heard'[b])
        BY DEF Abs
      <3> QED  BY <1>8, <3>1, <3>2, <3>3 DEF MagnitudeIsHeard
    <2> QED  BY <1>6, <2>6, <2>7, <2>8, <2>9 DEF IInv
  <1> QED  BY <1>9, <1>10

(* A button: the event is sent as it is, and is old from now on. *)
LEMMA ButtonKeepsIInv ==
    ASSUME IInv, ReadItem, Head(inq).type = "button", InputButton(Head(inq).act)
    PROVE  IInv'
  <1> DEFINE act == Head(inq).act
  <1>1. /\ pc = "read" /\ inq # <<>> /\ inq' = Tail(inq)
        /\ UNCHANGED <<raw, pc, repeat_on_timeout, changes>>
    BY DEF ReadItem, loop
  <1>2. FlushPending /\ handle_button_action(act) /\ UNCHANGED dom
    BY DEF InputButton
  <1>3. /\ heard' = heard /\ left' = left /\ old' = Out
        /\ unsure' = (unsure \/ act = "dominant")
    BY <1>2 DEF handle_button_action
  <1>4. /\ cfg' \in Settings /\ cfg'.map_axis = cfg.map_axis /\ cfg'.swapyz = cfg.swapyz
        /\ ~ (disable_rotation' /\ disable_translation')
        /\ act = "dominant" \/ dom_axis_mode' = dom_axis_mode
    <2>1. cfg \in Settings /\ ~ (disable_rotation /\ disable_translation)
      BY DEF IInv, TypeOK
    <2>2. ASSUME NEW n \in Int
          PROVE  /\ [cfg EXCEPT !.sensitivity = n] \in Settings
                 /\ [cfg EXCEPT !.sensitivity = n].map_axis = cfg.map_axis
                 /\ [cfg EXCEPT !.sensitivity = n].swapyz = cfg.swapyz
      BY <2>1 DEF Settings
    <2>3. /\ \/ cfg' = cfg
             \/ cfg' = [cfg EXCEPT !.sensitivity = (cfg.sensitivity * 11) \div 10]
             \/ cfg' = [cfg EXCEPT !.sensitivity = (cfg.sensitivity * 9) \div 10]
             \/ cfg' = [cfg EXCEPT !.sensitivity = One]
          /\ act = "dominant" \/ dom_axis_mode' = dom_axis_mode
      BY <1>2 DEF handle_button_action, modes
    <2>4. \/ UNCHANGED <<disable_rotation, disable_translation>>
          \/ /\ disable_rotation' = ~ disable_rotation
             /\ disable_translation' = (disable_translation /\ disable_rotation)
          \/ /\ disable_translation' = ~ disable_translation
             /\ disable_rotation' = (disable_rotation /\ disable_translation)
      BY <1>2 DEF handle_button_action, modes
    <2>5. ~ (disable_rotation' /\ disable_translation')
      BY <2>1, <2>4, Zenon
    <2>6. cfg' \in Settings /\ cfg'.map_axis = cfg.map_axis /\ cfg'.swapyz = cfg.swapyz
      <3>1. /\ (cfg.sensitivity * 11) \div 10 \in Int
            /\ (cfg.sensitivity * 9) \div 10 \in Int
            /\ One \in Int
        BY <2>1 DEF Settings, One
      <3>2. CASE cfg' = cfg
        BY <2>1, <3>2
      <3>3. CASE \E n \in Int : cfg' = [cfg EXCEPT !.sensitivity = n]
        BY <2>2, <3>3, Zenon
      <3> QED  BY <2>3, <3>1, <3>2, <3>3, Zenon
    <2> QED  BY <2>3, <2>5, <2>6, Zenon
  <1>5. ~ pending' /\ seen' = data /\ data' = data
    BY <1>2, FlushSends DEF IInv
  <1>6. HeardComesToRaw' /\ inq' \in Seq(Inputs) /\ Len(inq') <= MaxQueue
    <2>1. \A b \in Axis :
             heard'[b] = IF IsSample(Head(inq), b) THEN Head(inq).val ELSE heard[b]
      BY <1>3 DEF IsSample
    <2> QED  BY <1>1, <2>1, ReadingIsTraced
  <1>7. /\ \A p : Sources(cfg, p)' = Sources(cfg, p)
        /\ \A b : map_axis(b)' = map_axis(b)
    BY <1>4 DEF Sources, MapAxis, map_axis
  <1> HIDE DEF act
  <1>8. TypeOK' /\ MoreTypes' /\ SeenIsEvent'
    <2>1. cur_axis_mag' = cur_axis_mag /\ cur_dom_axis' = cur_dom_axis
      BY <1>2 DEF dom
    <2>2. pending' \in BOOLEAN
      BY <1>2 DEF FlushPending
    <2>3. left' \subseteq old' /\ old' \subseteq Out
      BY <1>3 DEF IInv, TypeOK, MoreTypes
    <2>4. seen' \in [Out -> Int] /\ data' \in [Out -> Int]
      BY <1>5 DEF IInv, TypeOK
    <2>5. TypeOK'
      BY <1>1, <1>4, <1>6, <2>1, <2>2, <2>3, <2>4 DEF IInv, TypeOK
    <2> QED  BY <1>1, <1>3, <1>5, <1>6, <2>3, <2>5 DEF IInv, MoreTypes, SeenIsEvent
  <1>9. DeflectionHasSource'
    BY <1>3, <1>5, <1>7 DEF IInv, DeflectionHasSource
  <1>10. EventIsCurrent'
    <2>1. \A b \in Axis : map_axis(b)' \in Out \cup {-1}
      BY <1>4, MapAxisType DEF map_axis
    <2> QED  BY <1>3, <2>1 DEF EventIsCurrent, CurrentFor
  <1>11. MagnitudeIsHeard'
    <2>1. ASSUME dom_axis_mode', ~ unsure'
          PROVE  dom_axis_mode /\ ~ unsure
      BY <1>3, <1>4, <2>1
    <2>2. cur_axis_mag' = cur_axis_mag /\ cur_dom_axis' = cur_dom_axis
      BY <1>2 DEF dom
    <2> QED  BY <1>3, <1>7, <2>1, <2>2 DEF IInv, MagnitudeIsHeard
  <1> QED  BY <1>6, <1>8, <1>9, <1>10, <1>11 DEF IInv

(* What flushing leaves of the invariant when nothing else happens. *)
LEMMA FlushKeeps ==
    ASSUME IInv, FlushPending, UNCHANGED <<raw, cfg, modes, dom, changes, hist>>,
           HeardComesToRaw', inq' \in Seq(Inputs), Len(inq') <= MaxQueue,
           pc' \in {"select", "read", "turn"}, repeat_on_timeout' \in BOOLEAN
    PROVE  IInv'
  <1>1. ~ pending' /\ seen' = data /\ UNCHANGED data
    BY FlushSends DEF IInv
  <1>2. DeflectionHasSource' /\ EventIsCurrent' /\ MagnitudeIsHeard'
    BY <1>1, EventStays
  <1>3. pending' \in BOOLEAN
    BY DEF FlushPending
  <1>4. TypeOK'
    BY <1>1, <1>3 DEF IInv, TypeOK, modes, dom, hist
  <1>5. MoreTypes' /\ SeenIsEvent'
    BY <1>1 DEF IInv, MoreTypes, SeenIsEvent, hist
  <1> QED  BY <1>2, <1>4, <1>5 DEF IInv

LEMMA ReadItemKeepsIInv == IInv /\ ReadItem => IInv'
  <1> SUFFICES ASSUME IInv, ReadItem PROVE IInv'
    OBVIOUS
  <1>1. process_input(Head(inq))
    BY DEF ReadItem
  <1>2. CASE Head(inq).type = "motion" /\ InputMotion(Head(inq).idx, Head(inq).val)
    BY <1>2, MotionKeepsIInv
  <1>3. CASE Head(inq).type = "button" /\ InputButton(Head(inq).act)
    BY <1>3, ButtonKeepsIInv
  <1>4. CASE /\ Head(inq).type = "flush" /\ FlushPending
             /\ UNCHANGED <<cfg, modes, dom, hist>>
    <2>1. /\ inq # <<>> /\ inq' = Tail(inq) /\ heard' = heard
          /\ UNCHANGED <<raw, pc, repeat_on_timeout, changes>>
      BY <1>4 DEF ReadItem, loop, hist
    <2>2. \A b \in Axis :
             heard'[b] = IF IsSample(Head(inq), b) THEN Head(inq).val ELSE heard[b]
      BY <1>4, <2>1 DEF IsSample
    <2>3. HeardComesToRaw' /\ inq' \in Seq(Inputs) /\ Len(inq') <= MaxQueue
      BY <2>1, <2>2, ReadingIsTraced
    <2>4. pc' \in {"select", "read", "turn"} /\ repeat_on_timeout' \in BOOLEAN
      BY <2>1 DEF IInv, TypeOK
    <2> QED  BY <1>4, <2>1, <2>3, <2>4, FlushKeeps
  <1> QED  BY <1>1, <1>2, <1>3, <1>4 DEF process_input

LEMMA EndOfInputKeepsIInv == IInv /\ EndOfInput => IInv'
  <1> SUFFICES ASSUME IInv, EndOfInput PROVE IInv'
    OBVIOUS
  <1>1. /\ pc' = "turn" /\ FlushPending
        /\ UNCHANGED <<raw, inq, cfg, modes, dom, repeat_on_timeout, changes, hist>>
    BY DEF EndOfInput
  <1>2. HeardComesToRaw' /\ inq' \in Seq(Inputs) /\ Len(inq') <= MaxQueue
    BY <1>1 DEF IInv, HeardComesToRaw, MoreTypes, TypeOK, hist
  <1>3. pc' \in {"select", "read", "turn"} /\ repeat_on_timeout' \in BOOLEAN
    BY <1>1 DEF IInv, TypeOK
  <1> QED  BY <1>1, <1>2, <1>3, FlushKeeps

(* A configuration keeps the event, which is old from now on. *)
LEMMA ReconfigureKeepsIInv == IInv /\ Reconfigure => IInv'
  <1> SUFFICES ASSUME IInv, Reconfigure PROVE IInv'
    OBVIOUS
  <1>1. PICK c \in Configs : cfg' = c /\ Outdate(c)
    BY DEF Reconfigure
  <1>2. /\ pc = "select" /\ changes' = changes + 1
        /\ pc' = IF inq = <<>> THEN "turn" ELSE "read"
        /\ UNCHANGED <<raw, inq, modes, dom, event, repeat_on_timeout, seen>>
    BY DEF Reconfigure
  <1>3. /\ old' = Out /\ UNCHANGED heard
        /\ left' = left \cup {o \in Out : data[o] # 0 /\ ~ Sources(cfg, o) \subseteq Sources(c, o)}
        /\ unsure' = (unsure \/ Sources(cfg, cur_dom_axis) # Sources(c, cur_dom_axis))
    BY <1>1 DEF Outdate
  <1>4. c \in Settings
    BY MotionAssumption
  <1>5. \A o : Sources(cfg, o)' = Sources(c, o)
    BY <1>1 DEF Sources, MapAxis
  <1>6. TypeOK' /\ MoreTypes'
    <2>1. left' \subseteq old' /\ old' \subseteq Out
      BY <1>3 DEF IInv, TypeOK, MoreTypes
    <2>2. UNCHANGED <<disable_rotation, disable_translation, dom_axis_mode, cur_axis_mag,
                      cur_dom_axis, data, pending, repeat_on_timeout, seen, raw, inq>>
      BY <1>2 DEF modes, dom, event
    <2>3. pc' \in {"select", "read", "turn"} /\ changes' \in Nat
      BY <1>2 DEF IInv, MoreTypes
    <2>4. TypeOK'
      BY <1>1, <1>4, <2>1, <2>2, <2>3 DEF IInv, TypeOK
    <2> QED  BY <1>3, <2>1, <2>2, <2>3, <2>4 DEF IInv, MoreTypes
  <1>7. HeardComesToRaw'
    BY <1>2, <1>3 DEF IInv, HeardComesToRaw
  <1>8. SeenIsEvent'
    BY <1>2 DEF IInv, SeenIsEvent, event
  <1>9. DeflectionHasSource'
    <2>1. ASSUME NEW o \in Out
          PROVE  data'[o] = 0 \/ o \in left' \/ \E a \in Sources(cfg, o)' : heard'[a] # 0
      <3>1. data[o] = 0 \/ o \in left \/ \E a \in Sources(cfg, o) : heard[a] # 0
        BY DEF IInv, DeflectionHasSource
      <3> QED  BY <1>2, <1>3, <1>5, <3>1 DEF event
    <2> QED  BY <2>1 DEF DeflectionHasSource
  <1>10. EventIsCurrent'
    <2>1. \A a \in Axis : map_axis(a)' \in Out \cup {-1}
      BY <1>1, <1>4, MapAxisType DEF map_axis
    <2> QED  BY <1>3, <2>1 DEF EventIsCurrent, CurrentFor
  <1>11. MagnitudeIsHeard'
    <2>1. UNCHANGED <<dom_axis_mode, cur_axis_mag, cur_dom_axis>>
      BY <1>2 DEF modes, dom
    <2>2. ~ unsure' => ~ unsure /\ Sources(cfg, cur_dom_axis)' = Sources(cfg, cur_dom_axis)
      BY <1>1, <1>3, <2>1 DEF Sources, MapAxis
    <2> QED  BY <1>3, <2>1, <2>2 DEF IInv, MagnitudeIsHeard
  <1> QED  BY <1>6, <1>7, <1>8, <1>9, <1>10, <1>11 DEF IInv

(* The steps of the loop that only look at the event, and stuttering. *)
LEMMA LookingKeepsIInv ==
    ASSUME IInv, UNCHANGED <<raw, inq, cfg, modes, dom, event, changes, hist>>,
           \/ pc = pc'
           \/ pc \in {"select", "turn"} /\ pc' \in {"select", "read", "turn"},
           repeat_on_timeout' \in BOOLEAN, seen' \in {seen, data},
           pending => seen' = seen
    PROVE  IInv'
  <1>1. DeflectionHasSource' /\ EventIsCurrent' /\ MagnitudeIsHeard'
    BY EventStays DEF event
  <1>2. pc' \in {"select", "read", "turn"} /\ seen' \in [Out -> Int]
    BY DEF IInv, TypeOK
  <1>3. TypeOK' /\ MoreTypes'
    BY <1>2 DEF IInv, TypeOK, MoreTypes, modes, dom, event, hist
  <1>4. HeardComesToRaw'
    BY DEF IInv, HeardComesToRaw, hist
  <1>5. SeenIsEvent'
    BY DEF IInv, SeenIsEvent, event
  <1> QED  BY <1>1, <1>3, <1>4, <1>5 DEF IInv

LEMMA StepKeepsIInv == IInv /\ [Next]_vars => IInv'
  <1> SUFFICES ASSUME IInv, [Next]_vars PROVE IInv'
    OBVIOUS
  <1>0. repeat_on_timeout \in BOOLEAN /\ (pending => pc = "read")
    BY DEF IInv, TypeOK, SeenIsEvent
  <1>1. CASE Sleep
    <2>1. /\ pc = "turn" /\ pc' = "select" /\ repeat_on_timeout' \in BOOLEAN
          /\ UNCHANGED <<raw, inq, cfg, modes, dom, event, seen, changes, hist>>
      <3>1. repeat_on_timeout' = (cfg.repeat /\ ~ in_deadzone)
        BY <1>1 DEF Sleep
      <3>2. repeat_on_timeout' \in BOOLEAN
        BY <3>1, Zenon
      <3> QED  BY <1>1, <3>2 DEF Sleep
    <2> QED  BY <2>1, LookingKeepsIInv
  <1>2. CASE repeat_last_motion_event
    <2>1. /\ pc = "select" /\ pc' = "turn" /\ repeat_on_timeout' \in BOOLEAN /\ seen' = data
          /\ UNCHANGED <<raw, inq, cfg, modes, dom, event, changes, hist>>
      BY <1>0, <1>2 DEF repeat_last_motion_event, dispatch_event
    <2>2. ~ pending
      BY <1>0, <2>1
    <2> QED  BY <2>1, <2>2, LookingKeepsIInv
  <1>3. CASE Wake
    <2>1. /\ pc = "select" /\ pc' = "read" /\ repeat_on_timeout' \in BOOLEAN
          /\ UNCHANGED <<raw, inq, cfg, modes, dom, event, seen, changes, hist>>
      BY <1>0, <1>3 DEF Wake
    <2> QED  BY <2>1, LookingKeepsIInv
  <1>4. CASE UNCHANGED vars
    <2>1. UNCHANGED <<raw, inq, cfg, modes, dom, event, seen, changes, hist, pc, repeat_on_timeout>>
      BY <1>4 DEF vars, loop
    <2> QED  BY <1>0, <2>1, LookingKeepsIInv
  <1> QED
    BY <1>1, <1>2, <1>3, <1>4, ReadItemKeepsIInv, EndOfInputKeepsIInv, ReconfigureKeepsIInv,
       MoveKeepsIInv, ReleaseKeepsIInv DEF Next, Daemon
-----------------------------------------------------------------------------
(***************************************************************************)
(* What was written under other settings is dispatched like all else, what *)
(* is pending is sent before the daemon sleeps, and an axis that is off    *)
(* its center in the event is so in the samples.                           *)
(***************************************************************************)
LEMMA Invariance == Spec => []IInv
  <1>1. Init => IInv
    BY InitIsIInv
  <1>2. IInv /\ [Next]_vars => IInv'
    BY StepKeepsIInv
  <1> QED  BY <1>1, <1>2, PTL DEF Spec

(* Asleep, the daemon has read where the device is and sent what it made   *)
(* of it.                                                                  *)
LEMMA AsleepIsHeard ==
    ASSUME IInv, Asleep
    PROVE  seen = data /\ \A a \in Axis : heard[a] = raw[a]
  <1>1. pc = "select" /\ Len(inq) = 0
    BY EmptySeq DEF Asleep
  <1>2. seen = data
    BY <1>1 DEF IInv, SeenIsEvent
  <1>3. \A a \in Axis : heard[a] = raw[a]
    BY <1>1 DEF IInv, HeardComesToRaw, Traced
  <1> QED  BY <1>2, <1>3

(***************************************************************************)
(* process_input, handle_button_action and the loop: when the daemon       *)
(* sleeps, a device at rest was seen at rest and every axis where it is,   *)
(* whatever settings, modes and dominant axes there were on the way.       *)
(***************************************************************************)
THEOREM MotionComesThrough == Spec => []MotionIsSeen
  <1>1. IInv => MotionIsSeen
    <2> SUFFICES ASSUME IInv PROVE MotionIsSeen
      OBVIOUS
    <2>1. RestIsSeen
      <3>1. ASSUME Asleep, \A a \in Axis : raw[a] = 0, NEW o \in Out
            PROVE  seen[o] = 0 \/ o \in left
        <4>1. seen = data /\ \A a \in Axis : heard[a] = 0
          BY <3>1, AsleepIsHeard
        <4>2. data[o] = 0 \/ o \in left \/ \E a \in Sources(cfg, o) : heard[a] # 0
          BY DEF IInv, DeflectionHasSource
        <4> QED  BY <4>1, <4>2 DEF Sources
      <3> QED  BY <3>1 DEF RestIsSeen
    <2>2. SeenIsCurrent
      <3>1. ASSUME Asleep, ~ dom_axis_mode, NEW a \in Axis
            PROVE  \/ map_axis(a) = -1 \/ map_axis(a) \in old \/ Sources(cfg, map_axis(a)) # {a}
                   \/ seen[map_axis(a)] = Scaled(map_axis(a), Alive(a, raw[a]))
        <4>1. seen = data /\ heard[a] = raw[a]
          BY <3>1, AsleepIsHeard
        <4> QED  BY <3>1, <4>1 DEF IInv, EventIsCurrent, CurrentFor
      <3> QED  BY <3>1 DEF SeenIsCurrent
    <2> QED  BY <2>1, <2>2 DEF IInv, MotionIsSeen
  <1> QED  BY <1>1, Invariance, PTL

(***************************************************************************)
(* process_input in dominant axis mode: the sample that exceeds all others *)
(* is let through, though it is compared with the magnitude kept for the   *)
(* dominant axis of the event only.                                        *)
(***************************************************************************)
THEOREM StrongestIsLetThrough == Spec => StrongestPasses
  <1> DEFINE Beats(a) ==
               /\ ReadItem /\ dom_axis_mode /\ ~ unsure
               /\ Head(inq).type = "motion" /\ Head(inq).idx = a /\ map_axis(a) # -1
               /\ \A b \in Axis : Abs(Head(inq).val) > Abs(heard[b])
             Through(a) ==
               data'[map_axis(a)] = Scaled(map_axis(a), Alive(a, Head(inq).val))
  <1>1. ASSUME IInv, NEW a \in Axis, Beats(a)
        PROVE  Through(a)
    <2> DEFINE v == Head(inq).val
    <2>1. InputMotion(a, v)
      BY <1>1 DEF ReadItem, process_input
    <2>2. v \in Int
      <3>1. Head(inq) \in Inputs
        BY <1>1, HeadIsInput DEF ReadItem
      <3> QED  BY <1>1, <3>1, Bounds DEF Inputs
    <2>3. /\ heard \in [Axis -> Samples] /\ cur_axis_mag \in [Out -> Nat] /\ cur_dom_axis \in Out
          /\ data \in [Out -> Int] /\ cfg \in Settings
      BY <1>1 DEF IInv, TypeOK, MoreTypes
    <2>4. Abs(v) > cur_axis_mag[cur_dom_axis]
      <3>1. \/ cur_axis_mag[cur_dom_axis] = 0
            \/ \E b \in Sources(cfg, cur_dom_axis) : Abs(heard[b]) = cur_axis_mag[cur_dom_axis]
        BY <1>1 DEF IInv, MagnitudeIsHeard
      <3>2. \A b \in Axis : Abs(v) > Abs(heard[b]) /\ Abs(heard[b]) \in Nat
        <4>1. \A b \in Axis : heard[b] \in Int
          BY <2>3, Bounds
        <4> QED  BY <1>1, <4>1, AbsIsNat
      <3>3. Abs(v) \in Nat
        BY <2>2, AbsIsNat
      <3>4. Abs(v) > 0
        BY <1>1, <3>2, <3>3
      <3> QED  BY <3>1, <3>2, <3>4 DEF Sources
    <2>5. Passes(Abs(v)) /\ map_axis(a) \in Out
      BY <1>1, <2>3, <2>4, MapAxisType DEF Passes, map_axis
    <2>6. data' = [data EXCEPT ![map_axis(a)] = Scaled(map_axis(a), Alive(a, v))]
      BY <1>1, <2>1, <2>5 DEF InputMotion
    <2> QED  BY <2>3, <2>5, <2>6
  <1> HIDE DEF Beats, Through
  <1>2. IInv => [\A a \in Axis : Beats(a) => Through(a)]_vars
    BY <1>1
  <1>3. Spec => [][\A a \in Axis : Beats(a) => Through(a)]_vars
    BY <1>2, Invariance, PTL
  <1> QED  BY <1>3 DEF StrongestPasses, Beats, Through
=============================================================================
