----------------------------- MODULE ButtonsProofs -----------------------------
(***************************************************************************)
(* What is proved of Buttons, for any buttons and any configurations.      *)
(***************************************************************************)
EXTENDS Buttons, SequenceTheorems, WellFoundedInduction, TLAPS

IsStuck(i) == \E r \in stuck : r.btn = i

(* The input of a button alternates: down is what the daemon will have     *)
(* heard to be down after each of the unread events.                       *)
Follows(before, inp, after) ==
    \/ inp = Msc /\ after = before
    \/ inp # Msc /\ inp.val = 1 /\ inp.btn \notin before /\ after = before \cup {inp.btn}
    \/ inp # Msc /\ inp.val = 0 /\ inp.btn \in before /\ after = before \ {inp.btn}

InputAlternates ==
    \E down \in [0..Len(kq) -> SUBSET Button] :
        /\ down[0] = heard /\ down[Len(kq)] = pressed
        /\ \A k \in 1..Len(kq) : Follows(down[k - 1], kq[k], down[k])

(* A timer runs for a button that is down and has a hold mapping, unless   *)
(* the button was rebound under it.                                        *)
TimersHaveButtons ==
    \A i \in Button : timer[i] # Off => IsStuck(i) \/ (i \in heard /\ cfg.hold[i] # None)

(* A timer shows what is left of the hold_timeout since the press.         *)
TimersCount ==
    \A i \in Button :
        timer[i] # Off => timer[i] = IF age[i] >= due[i] THEN 0 ELSE due[i] - age[i]

(* The two halves of ViewIsWhatIsDown. *)
SeenIsDown ==
    \A d \in view :
        \/ \E r \in stuck : r.out = d
        \/ \E i \in heard : d = Dest(cfg, i, FALSE) /\ cfg.hold[i] = None

Own(i, d) == \A c \in Configs, j \in Button \ {i}, h \in BOOLEAN : Dest(c, j, h) # d

DownIsSeen ==
    \A i \in heard :
        \/ Dest(cfg, i, FALSE) \in view \cup {Action} \/ cfg.hold[i] # None
        \/ ~ Own(i, Dest(cfg, i, FALSE)) \/ IsStuck(i)

Reports == KindMatchesDuration /\ NoNumberOnlyAfterRebind

IInv == /\ TypeOK /\ InputAlternates /\ TimersHaveButtons /\ TimersCount
        /\ OneReportPerHold /\ Reports /\ SeenIsDown /\ DownIsSeen
-----------------------------------------------------------------------------
LEMMA ViewHalves == SeenIsDown /\ DownIsSeen => ViewIsWhatIsDown
  <1> SUFFICES ASSUME SeenIsDown, DownIsSeen PROVE ViewIsWhatIsDown
    OBVIOUS
  <1>1. \A d \in view :
            \/ \E r \in stuck : r.out = d
            \/ \E i \in heard : d = Dest(cfg, i, FALSE) /\ cfg.hold[i] = None
    BY DEF SeenIsDown
  <1>2. ASSUME NEW i \in heard
        PROVE  \/ Dest(cfg, i, FALSE) \in view
               \/ Dest(cfg, i, FALSE) = Action
               \/ cfg.hold[i] # None
               \/ ~ (\A c \in Configs, j \in Button \ {i}, h \in BOOLEAN :
                         Dest(c, j, h) # Dest(cfg, i, FALSE))
               \/ \E r \in stuck : r.btn = i
    BY Zenon, <1>2 DEF DownIsSeen, IsStuck, Own
  <1> QED  BY Zenon, <1>1, <1>2 DEF ViewIsWhatIsDown

(* Every set of timers has an earliest one. *)
LEMMA LeastNat ==
    ASSUME NEW T \in SUBSET Nat, T # {}
    PROVE  \E n \in T : \A m \in T : n <= m
  <1> DEFINE R == {ss \in Nat \X Nat : ss[1] < ss[2]}
  <1>1. IsWellFoundedOn(R, Nat)
    BY Zenon, NatLessThanWellFounded DEF OpToRel
  <1>2. PICK x \in T : \A y \in T : ~ (<<y, x>> \in R)
    <2> HIDE DEF R
    <2> QED BY WFMin, <1>1
  <1>3. \A y \in T : <<y, x>> \in Nat \X Nat /\ <<y, x>>[1] = y /\ <<y, x>>[2] = x
    OBVIOUS
  <1>4. \A y \in T : ~ (y < x)
    BY <1>2, <1>3
  <1> QED  BY <1>4

LEMMA Timeout ==
    /\ MaxTimeout \in Nat /\ 0 \in 0..MaxTimeout
    /\ \A c \in Configs : c.timeout \in 0..MaxTimeout
  <1>1. MaxTimeout \in Timeouts /\ \A u \in Timeouts : u <= MaxTimeout
    BY ButtonsAssumption DEF MaxTimeout
  <1>2. Timeouts \subseteq Nat
    BY ButtonsAssumption DEF Timeouts
  <1>3. MaxTimeout \in Nat
    BY <1>1, <1>2
  <1>4. ASSUME NEW c \in Configs PROVE c.timeout \in 0..MaxTimeout
    <2>1. c.timeout \in Timeouts
      BY DEF Timeouts
    <2>2. c.timeout \in Nat /\ c.timeout <= MaxTimeout
      BY <1>1, <1>2, <2>1
    <2> QED  BY <1>3, <2>2
  <1> QED  BY <1>3, <1>4

LEMMA OffIsNoTime == Off \notin 0..MaxTimeout /\ Off # 0
  BY ButtonsAssumption

LEMMA DestType ==
    ASSUME NEW c \in Configs, NEW i \in Button, NEW h \in BOOLEAN
    PROVE  Dest(c, i, h) \in Outputs
  <1>1. Dest(c, i, h) \in {Dest(c, j, g) : j \in Button, g \in BOOLEAN}
    OBVIOUS
  <1> QED  BY <1>1 DEF Outputs

LEMMA TimeoutType == TypeOK => next_button_timeout \in Timer
  <1> SUFFICES ASSUME TypeOK, Armed # {} PROVE next_button_timeout \in Timer
    BY DEF next_button_timeout, Timer
  <1> DEFINE T == {timer[i] : i \in Armed}
  <1>1. T \subseteq 0..MaxTimeout /\ T \subseteq Nat /\ T # {}
    <2>1. \A i \in Armed : timer[i] \in 0..MaxTimeout
      BY DEF TypeOK, Armed, Timer
    <2>2. 0..MaxTimeout \subseteq Nat
      BY Timeout
    <2> QED  BY <2>1, <2>2
  <1>2. \E t \in T : \A u \in T : t <= u
    BY <1>1, LeastNat
  <1>3. \E t \in T : \A i \in Armed : t <= timer[i]
    BY <1>2
  <1>4. next_button_timeout \in T
    BY <1>3 DEF next_button_timeout
  <1> QED  BY <1>1, <1>4 DEF Timer

LEMMA InitIInv == Init => IInv
  <1> SUFFICES ASSUME Init PROVE IInv
    OBVIOUS
  <1> USE DEF Init
  <1>1. TypeOK
    <2>1. /\ owed \in [Button -> Int] /\ age \in [Button -> 0..MaxTimeout+1]
          /\ due \in [Button -> 0..MaxTimeout] /\ tv \in Timer /\ timer \in [Button -> Timer]
      BY Timeout DEF Timer
    <2>2. kq \in Seq(Input) /\ Len(kq) <= MaxQueue /\ changes \in 0..MaxChanges
      BY ButtonsAssumption
    <2> QED  BY <2>1, <2>2 DEF TypeOK
  <1>2. InputAlternates
    <2> DEFINE down == [k \in 0..Len(kq) |-> {}]
    <2>1. down \in [0..Len(kq) -> SUBSET Button] /\ Len(kq) = 0 /\ down[0] = {}
      OBVIOUS
    <2> HIDE DEF down
    <2> QED  BY <2>1 DEF InputAlternates
  <1>3. OneReportPerHold /\ TimersHaveButtons /\ TimersCount
    BY DEF OneReportPerHold, TimersHaveButtons, TimersCount
  <1>4. Reports /\ SeenIsDown /\ DownIsSeen
    BY DEF Reports, KindMatchesDuration, NoNumberOnlyAfterRebind, SeenIsDown, DownIsSeen
  <1> QED  BY <1>1, <1>2, <1>3, <1>4 DEF IInv
-----------------------------------------------------------------------------
(* What the kernel and the user add, and what is read, keeps alternating. *)
LEMMA AppendInput ==
    ASSUME TypeOK, InputAlternates, NEW inp \in Input, kq' = Append(kq, inp),
           heard' = heard, NEW now, now \subseteq Button, pressed' = now,
           Follows(pressed, inp, now)
    PROVE  InputAlternates'
  <1> DEFINE n == Len(kq)
  <1>0. kq \in Seq(Input) /\ n \in Nat
    BY DEF TypeOK
  <1>1. PICK down \in [0..n -> SUBSET Button] :
           /\ down[0] = heard /\ down[n] = pressed
           /\ \A k \in 1..n : Follows(down[k - 1], kq[k], down[k])
    BY DEF InputAlternates
  <1>2. /\ Len(kq') = n + 1 /\ kq'[n + 1] = inp
        /\ \A k \in 1..n : kq'[k] = kq[k]
    BY <1>0
  <1> DEFINE new == [k \in 0..n + 1 |-> IF k <= n THEN down[k] ELSE now]
  <1>3. new \in [0..n + 1 -> SUBSET Button]
    BY <1>0
  <1>4. new[n + 1] = now /\ \A k \in 0..n : new[k] = down[k]
    BY <1>0
  <1> HIDE DEF new
  <1>5. ASSUME NEW k \in 1..n + 1 PROVE Follows(new[k - 1], kq'[k], new[k])
    <2>1. CASE k \in 1..n
      <3>1. k - 1 \in 0..n /\ k \in 0..n
        BY <1>0, <2>1
      <3> QED  BY <1>1, <1>2, <1>4, <2>1, <3>1
    <2>2. CASE k = n + 1
      <3>1. k - 1 = n /\ n \in 0..n
        BY <1>0, <2>2
      <3> QED  BY <1>1, <1>2, <1>4, <2>2, <3>1
    <2> QED  BY <1>0, <2>1, <2>2
  <1>6. new[0] = heard
    BY <1>0, <1>1, <1>4
  <1> QED  BY <1>2, <1>3, <1>4, <1>5, <1>6 DEF InputAlternates

LEMMA ReadOne ==
    ASSUME TypeOK, InputAlternates, kq # <<>>
    PROVE  /\ Head(kq) \in Input /\ Tail(kq) \in Seq(Input) /\ Len(Tail(kq)) = Len(kq) - 1
           /\ \E now \in SUBSET Button :
                 /\ Follows(heard, Head(kq), now)
                 /\ kq' = Tail(kq) /\ pressed' = pressed /\ heard' = now => InputAlternates'
  <1> DEFINE n == Len(kq)
             q == Tail(kq)
  <1>0. kq \in Seq(Input) /\ n \in Nat /\ n >= 1
    BY DEF TypeOK
  <1>1. /\ Head(kq) \in Input /\ q \in Seq(Input) /\ Len(q) = n - 1 /\ Head(kq) = kq[1]
        /\ \A k \in 1..n - 1 : q[k] = kq[k + 1]
    <2> DEFINE S == Input
    <2>1. kq \in Seq(S)
      BY <1>0
    <2> HIDE DEF S
    <2>2. /\ Head(kq) \in S /\ q \in Seq(S) /\ Len(q) = n - 1 /\ Head(kq) = kq[1]
          /\ \A k \in 1..n - 1 : q[k] = kq[k + 1]
      BY <2>1, HeadTailProperties
    <2> QED  BY <2>2 DEF S
  <1>2. PICK down \in [0..n -> SUBSET Button] :
           /\ down[0] = heard /\ down[n] = pressed
           /\ \A k \in 1..n : Follows(down[k - 1], kq[k], down[k])
    BY DEF InputAlternates
  <1>3. Follows(heard, Head(kq), down[1]) /\ down[1] \in SUBSET Button
    <2>1. 1 \in 1..n /\ 1 - 1 = 0
      BY <1>0
    <2>2. Follows(down[1 - 1], kq[1], down[1])
      BY <1>2, <2>1
    <2> QED  BY <1>0, <1>1, <1>2, <2>1, <2>2
  <1>4. ASSUME kq' = q, pressed' = pressed, heard' = down[1] PROVE InputAlternates'
    <2> DEFINE new == [k \in 0..n - 1 |-> down[k + 1]]
    <2>1. \A k \in 0..n - 1 : k + 1 \in 0..n
      BY <1>0
    <2>2. new \in [0..n - 1 -> SUBSET Button]
      BY <2>1
    <2>3. new[0] = down[1] /\ new[n - 1] = down[n]
      BY <1>0
    <2>4. ASSUME NEW k \in 1..n - 1 PROVE Follows(new[k - 1], q[k], new[k])
      <3>1. /\ k + 1 \in 1..n /\ k - 1 \in 0..n - 1 /\ k \in 0..n - 1
            /\ (k + 1) - 1 = k /\ (k - 1) + 1 = k
        BY <1>0
      <3>2. new[k - 1] = down[k] /\ new[k] = down[k + 1]
        BY <3>1
      <3>3. Follows(down[(k + 1) - 1], kq[k + 1], down[k + 1])
        BY <1>2, <3>1
      <3> HIDE DEF new, q
      <3> QED  BY <1>1, <3>1, <3>2, <3>3
    <2> HIDE DEF new, q
    <2>5. Len(kq') = n - 1 /\ new[0] = heard' /\ new[n - 1] = pressed'
      BY <1>1, <1>2, <1>4, <2>3
    <2>6. \A k \in 1..n - 1 : Follows(new[k - 1], kq'[k], new[k])
      BY <1>4, <2>4
    <2> QED  BY <2>2, <2>5, <2>6 DEF InputAlternates
  <1> QED  BY <1>1, <1>3, <1>4

(* Steps that report nothing and change no button. *)
LEMMA QuietStep ==
    ASSUME IInv, UNCHANGED <<cfg, timer, view, heard, owed, age, due, stuck>>,
           last' = {} \/ last' = last, TypeOK', InputAlternates'
    PROVE  IInv'
  <1> USE DEF IInv
  <1>1. \A i : IsStuck(i)' <=> IsStuck(i)
    BY DEF IsStuck
  <1>2. OneReportPerHold' /\ TimersHaveButtons' /\ TimersCount'
    BY <1>1 DEF OneReportPerHold, TimersHaveButtons, TimersCount
  <1>3. Reports'
    BY DEF Reports, KindMatchesDuration, NoNumberOnlyAfterRebind
  <1>4. SeenIsDown' /\ DownIsSeen'
    BY <1>1 DEF SeenIsDown, DownIsSeen
  <1> QED  BY <1>2, <1>3, <1>4

LEMMA InputStep ==
    ASSUME IInv, NEW i \in Button, Press(i) \/ Release(i) \/ OtherInput
    PROVE  IInv'
  <1> USE DEF IInv
  <1>1. PICK inp \in Input, now \in SUBSET Button :
           /\ Len(kq) < MaxQueue /\ kq' = Append(kq, inp) /\ pressed' = now
           /\ Follows(pressed, inp, now) /\ last' = {}
           /\ UNCHANGED <<pc, tv, cfg, newcfg, timer, view, heard, owed, age, due, stuck, changes>>
    <2>1. CASE Press(i)
      <3> DEFINE inp == [btn |-> i, val |-> 1]
      <3>1. inp \in Input /\ inp # Msc /\ inp.val = 1 /\ inp.btn = i
        BY DEF Input, Msc
      <3>2. /\ i \notin pressed /\ Len(kq) < MaxQueue /\ kq' = Append(kq, inp)
            /\ pressed' = pressed \cup {i} /\ last' = {}
            /\ UNCHANGED <<pc, tv, cfg, newcfg, timer, view, heard, owed, age, due, stuck, changes>>
        BY <2>1 DEF Press
      <3>3. pressed \cup {i} \in SUBSET Button
        BY DEF TypeOK
      <3> HIDE DEF inp
      <3>4. Follows(pressed, inp, pressed \cup {i})
        BY <3>1, <3>2 DEF Follows
      <3> QED  BY <3>1, <3>2, <3>3, <3>4
    <2>2. CASE Release(i)
      <3> DEFINE inp == [btn |-> i, val |-> 0]
      <3>1. inp \in Input /\ inp # Msc /\ inp.val = 0 /\ inp.btn = i
        <4>1. inp # Msc
          BY ButtonsAssumption DEF Msc
        <4> QED  BY <4>1 DEF Input
      <3>2. /\ i \in pressed /\ Len(kq) < MaxQueue /\ kq' = Append(kq, inp)
            /\ pressed' = pressed \ {i} /\ last' = {}
            /\ UNCHANGED <<pc, tv, cfg, newcfg, timer, view, heard, owed, age, due, stuck, changes>>
        BY <2>2 DEF Release
      <3>3. pressed \ {i} \in SUBSET Button
        BY DEF TypeOK
      <3> HIDE DEF inp
      <3>4. Follows(pressed, inp, pressed \ {i})
        BY <3>1, <3>2 DEF Follows
      <3> QED  BY <3>1, <3>2, <3>3, <3>4
    <2>3. CASE OtherInput
      <3>1. Msc \in Input /\ Follows(pressed, Msc, pressed) /\ pressed \in SUBSET Button
        BY DEF Input, Follows, TypeOK
      <3> QED  BY <2>3, <3>1 DEF OtherInput
    <2> QED  BY <2>1, <2>2, <2>3
  <1>2. InputAlternates'
    BY <1>1, AppendInput
  <1>3. kq' \in Seq(Input) /\ Len(kq') <= MaxQueue
    <2> DEFINE S == Input
    <2>1. kq \in Seq(S) /\ inp \in S
      BY <1>1 DEF TypeOK
    <2> HIDE DEF S
    <2>2. kq' \in Seq(S) /\ Len(kq') = Len(kq) + 1 /\ Len(kq) \in Nat
      BY <1>1, <2>1, AppendProperties
    <2> QED  BY <1>1, <2>2, ButtonsAssumption DEF S
  <1>4. TypeOK'
    BY <1>1, <1>3 DEF TypeOK
  <1> QED  BY <1>1, <1>2, <1>4, QuietStep

LEMMA TimerValues ==
    ASSUME TypeOK, NEW i \in Button
    PROVE  /\ timer[i] = Off \/ timer[i] \in 0..MaxTimeout
           /\ owed[i] \in Int /\ age[i] \in 0..MaxTimeout+1 /\ due[i] \in 0..MaxTimeout
           /\ MaxTimeout \in Nat /\ Off \notin Int
  BY Timeout, ButtonsAssumption DEF TypeOK, Timer

LEMMA TickStep ==
    ASSUME IInv, Tick
    PROVE  IInv'
  <1> USE DEF IInv
  <1>1. /\ tv' = Sooner(tv) /\ timer' = [i \in Button |-> Sooner(timer[i])]
        /\ age' = [i \in Button |-> IF timer[i] # Off /\ age[i] < MaxTimeout + 1
                                    THEN age[i] + 1 ELSE age[i]]
        /\ last' = {}
        /\ UNCHANGED <<pc, kq, pressed, cfg, newcfg, view, heard, owed, due, stuck, changes>>
    BY DEF Tick
  <1>2. ASSUME NEW t \in Timer
        PROVE  Sooner(t) \in Timer /\ (Sooner(t) = Off <=> t = Off)
    <2>1. CASE t = Off \/ t = 0
      BY <2>1 DEF Sooner
    <2>2. CASE t # Off /\ t # 0
      <3>1. t \in 0..MaxTimeout /\ t >= 1 /\ Sooner(t) = t - 1 /\ MaxTimeout \in Nat
        BY <2>2, Timeout DEF Timer, Sooner
      <3> QED  BY <2>2, <3>1, OffIsNoTime DEF Timer
    <2> QED  BY <2>1, <2>2
  <1>3. ASSUME NEW i \in Button
        PROVE  /\ age'[i] \in 0..MaxTimeout+1 /\ (timer'[i] = Off <=> timer[i] = Off)
               /\ timer'[i] \in Timer
               /\ timer'[i] # Off => timer'[i] = IF age'[i] >= due[i] THEN 0 ELSE due[i] - age'[i]
    <2>1. timer'[i] = Sooner(timer[i]) /\ timer[i] \in Timer
      BY <1>1 DEF TypeOK
    <2>2. timer'[i] \in Timer /\ (timer'[i] = Off <=> timer[i] = Off)
      BY <1>2, <2>1
    <2>3. age'[i] = IF timer[i] # Off /\ age[i] < MaxTimeout + 1 THEN age[i] + 1 ELSE age[i]
      BY <1>1
    <2>4. age'[i] \in 0..MaxTimeout+1
      BY <2>3, TimerValues
    <2>5. ASSUME timer'[i] # Off
          PROVE  timer'[i] = IF age'[i] >= due[i] THEN 0 ELSE due[i] - age'[i]
      <3>1. /\ timer[i] # Off /\ timer[i] = IF age[i] >= due[i] THEN 0 ELSE due[i] - age[i]
            /\ timer[i] \in 0..MaxTimeout
        BY <2>2, <2>5, TimerValues DEF TimersCount
      <3>2. timer'[i] = IF timer[i] = 0 THEN 0 ELSE timer[i] - 1
        BY <2>1, <3>1, OffIsNoTime DEF Sooner
      <3> QED  BY <2>3, <3>1, <3>2, TimerValues
    <2> QED  BY <2>2, <2>4, <2>5
  <1>4. TypeOK'
    <2>1. tv' \in Timer
      BY <1>1, <1>2 DEF TypeOK
    <2>2. timer' \in [Button -> Timer] /\ age' \in [Button -> 0..MaxTimeout+1]
      BY <1>1, <1>3
    <2> QED  BY <1>1, <2>1, <2>2 DEF TypeOK
  <1>5. InputAlternates'
    BY <1>1 DEF InputAlternates
  <1>6. \A i : IsStuck(i)' <=> IsStuck(i)
    BY <1>1 DEF IsStuck
  <1>7. OneReportPerHold' /\ TimersHaveButtons' /\ TimersCount'
    BY <1>1, <1>3, <1>6 DEF OneReportPerHold, TimersHaveButtons, TimersCount
  <1>8. Reports' /\ SeenIsDown' /\ DownIsSeen'
    BY <1>1, <1>6 DEF Reports, KindMatchesDuration, NoNumberOnlyAfterRebind, SeenIsDown, DownIsSeen
  <1> QED  BY <1>4, <1>5, <1>7, <1>8

(* A new configuration: what is rebound under a button is remembered.      *)
LEMMA TakeConfigStep ==
    ASSUME IInv, TakeConfig
    PROVE  IInv'
  <1> USE DEF IInv
  <1>1. /\ pc' = "events" /\ cfg' = (IF newcfg = None THEN cfg ELSE newcfg) /\ newcfg' = None
        /\ stuck' = stuck \cup {[btn |-> i, out |-> Dest(cfg, i, FALSE)] : i \in Rebound(cfg')}
        /\ last' = {}
        /\ UNCHANGED <<tv, kq, pressed, timer, view, heard, owed, age, due, changes>>
    BY DEF TakeConfig
  <1>2. cfg \in Configs /\ cfg' \in Configs
    BY <1>1 DEF TypeOK
  <1>3. stuck \subseteq stuck' /\ \A i \in Button : IsStuck(i) => IsStuck(i)'
    BY <1>1 DEF IsStuck
  <1>4. ASSUME NEW i \in heard
        PROVE  \/ Dest(cfg', i, FALSE) = Dest(cfg, i, FALSE) /\ cfg'.hold[i] = cfg.hold[i]
               \/ IsStuck(i)' /\ \E r \in stuck' : r.out = Dest(cfg, i, FALSE)
    <2>1. CASE i \in Rebound(cfg')
      <3> DEFINE r == [btn |-> i, out |-> Dest(cfg, i, FALSE)]
      <3>1. r \in stuck' /\ r.btn = i /\ r.out = Dest(cfg, i, FALSE)
        BY <1>1, <2>1
      <3> HIDE DEF r
      <3> QED  BY <3>1 DEF IsStuck
    <2>2. CASE i \notin Rebound(cfg')
      BY <2>2 DEF Rebound
    <2> QED  BY <2>1, <2>2
  <1>5. TypeOK'
    <2>1. stuck' \subseteq [btn : Button, out : Outputs]
      <3> SUFFICES ASSUME NEW r \in stuck', r \notin stuck PROVE r \in [btn : Button, out : Outputs]
        BY DEF TypeOK
      <3>1. PICK i \in Rebound(cfg') : r = [btn |-> i, out |-> Dest(cfg, i, FALSE)]
        BY <1>1
      <3>2. i \in Button /\ Dest(cfg, i, FALSE) \in Outputs
        BY <1>2, DestType DEF Rebound, TypeOK
      <3> QED  BY <3>1, <3>2
    <2> QED  BY <1>1, <1>2, <2>1 DEF TypeOK
  <1>6. InputAlternates'
    BY <1>1 DEF InputAlternates
  <1>7. OneReportPerHold'
    BY <1>1, <1>3 DEF OneReportPerHold
  <1>8. TimersHaveButtons'
    BY <1>1, <1>3, <1>4 DEF TimersHaveButtons
  <1>9. TimersCount'
    BY <1>1 DEF TimersCount
  <1>10. Reports'
    BY <1>1 DEF Reports, KindMatchesDuration, NoNumberOnlyAfterRebind
  <1>11. SeenIsDown'
    <2> SUFFICES ASSUME NEW d \in view
                 PROVE  \/ \E r \in stuck' : r.out = d
                        \/ \E i \in heard : d = Dest(cfg', i, FALSE) /\ cfg'.hold[i] = None
      BY <1>1 DEF SeenIsDown
    <2>1. CASE \E r \in stuck : r.out = d
      BY <1>3, <2>1
    <2>2. CASE \E i \in heard : d = Dest(cfg, i, FALSE) /\ cfg.hold[i] = None
      BY <1>4, <2>2
    <2> QED  BY <2>1, <2>2 DEF SeenIsDown
  <1>12. DownIsSeen'
    <2> SUFFICES ASSUME NEW i \in heard
                 PROVE  \/ Dest(cfg', i, FALSE) \in view \cup {Action} \/ cfg'.hold[i] # None
                        \/ ~ Own(i, Dest(cfg', i, FALSE)) \/ IsStuck(i)'
      BY <1>1 DEF DownIsSeen
    <2>1. i \in Button
      BY DEF TypeOK
    <2> QED  BY <1>3, <1>4, <2>1 DEF DownIsSeen
  <1> QED  BY <1>5, <1>6, <1>7, <1>8, <1>9, <1>10, <1>11, <1>12

(* The device is gone: whatever was down stays so for those who saw it.    *)
LEMMA UnplugStep ==
    ASSUME IInv, Unplug
    PROVE  IInv'
  <1> USE DEF IInv
  <1>1. /\ pc' = "timeouts" /\ changes < MaxChanges /\ changes' = changes + 1
        /\ kq' = <<>> /\ pressed' = {} /\ timer' = [i \in Button |-> Off]
        /\ owed' = [i \in Button |-> 0]
        /\ stuck' = stuck \cup {[btn |-> i, out |-> Dest(cfg, i, FALSE)] : i \in heard}
        /\ heard' = {} /\ last' = {}
        /\ UNCHANGED <<tv, cfg, newcfg, view, age, due>>
    BY DEF Unplug
  <1>2. TypeOK'
    <2>1. stuck' \subseteq [btn : Button, out : Outputs]
      <3> SUFFICES ASSUME NEW r \in stuck', r \notin stuck PROVE r \in [btn : Button, out : Outputs]
        BY DEF TypeOK
      <3>1. PICK i \in heard : r = [btn |-> i, out |-> Dest(cfg, i, FALSE)]
        BY <1>1
      <3>2. i \in Button /\ Dest(cfg, i, FALSE) \in Outputs
        BY DestType DEF TypeOK
      <3> QED  BY <3>1, <3>2
    <2>2. timer' \in [Button -> Timer] /\ owed' \in [Button -> Int]
      BY <1>1 DEF Timer
    <2>3. kq' \in Seq(Input) /\ Len(kq') <= MaxQueue /\ changes' \in 0..MaxChanges
      BY <1>1, ButtonsAssumption DEF TypeOK
    <2> QED  BY <1>1, <2>1, <2>2, <2>3 DEF TypeOK
  <1>3. InputAlternates'
    <2> DEFINE down == [k \in 0..Len(kq') |-> {}]
    <2>1. down \in [0..Len(kq') -> SUBSET Button] /\ Len(kq') = 0 /\ down[0] = {}
      BY <1>1
    <2> HIDE DEF down
    <2> QED  BY <1>1, <2>1 DEF InputAlternates
  <1>4. OneReportPerHold' /\ TimersHaveButtons' /\ TimersCount'
    BY <1>1 DEF OneReportPerHold, TimersHaveButtons, TimersCount
  <1>5. Reports' /\ DownIsSeen'
    BY <1>1 DEF Reports, KindMatchesDuration, NoNumberOnlyAfterRebind, DownIsSeen
  <1>6. SeenIsDown'
    <2> SUFFICES ASSUME NEW d \in view PROVE \E r \in stuck' : r.out = d
      BY <1>1 DEF SeenIsDown
    <2>1. CASE \E r \in stuck : r.out = d
      BY <1>1, <2>1
    <2>2. CASE \E i \in heard : d = Dest(cfg, i, FALSE)
      <3>1. PICK i \in heard : d = Dest(cfg, i, FALSE)
        BY <2>2
      <3> DEFINE r == [btn |-> i, out |-> Dest(cfg, i, FALSE)]
      <3>2. r \in stuck' /\ r.out = d
        BY <1>1, <3>1
      <3> QED  BY <3>2
    <2> QED  BY <2>1, <2>2 DEF SeenIsDown
  <1> QED  BY <1>2, <1>3, <1>4, <1>5, <1>6
-----------------------------------------------------------------------------
(* What a button event and the timers change. *)
Bookkeeping ==
    /\ timer \in [Button -> Timer] /\ view \subseteq Outputs /\ owed \in [Button -> Int]
    /\ age \in [Button -> 0..MaxTimeout+1] /\ due \in [Button -> 0..MaxTimeout]
    /\ last \subseteq [btn : Button, hold : BOOLEAN, out : Outputs,
                        age : 0..MaxTimeout+1, due : 0..MaxTimeout]

Books == /\ Bookkeeping /\ TimersHaveButtons /\ TimersCount
         /\ OneReportPerHold /\ Reports /\ SeenIsDown /\ DownIsSeen

LEMMA OthersReach ==
    ASSUME cfg \in Configs, NEW i \in Button, NEW j \in Button, i # j, NEW h \in BOOLEAN
    PROVE  ~ Own(j, Dest(cfg, i, h))
  BY DEF Own

(* The report of a press that ends, by its timer or by the release.        *)
LEMMA ReportProperties ==
    ASSUME IInv, NEW i \in Button, timer[i] # Off, NEW h \in BOOLEAN, h <=> timer[i] = 0
    PROVE  /\ Report(i, h) \in [btn : Button, hold : BOOLEAN, out : Outputs,
                                age : 0..MaxTimeout+1, due : 0..MaxTimeout]
           /\ Report(i, h).hold <=> Report(i, h).age >= Report(i, h).due
           /\ Report(i, h).out.kind = "button" /\ Report(i, h).out.num = None
                  => IsStuck(Report(i, h).btn)
  <1> USE DEF IInv
  <1>1. cfg \in Configs /\ Dest(cfg, i, h) \in Outputs
    BY DestType DEF TypeOK
  <1>2. /\ Report(i, h).btn = i /\ Report(i, h).hold = h /\ Report(i, h).out = Dest(cfg, i, h)
        /\ Report(i, h).age = age[i] /\ Report(i, h).due = due[i]
    BY DEF Report
  <1>3. h <=> age[i] >= due[i]
    BY TimerValues DEF TimersCount
  <1>4. ASSUME Dest(cfg, i, h).kind = "button", Dest(cfg, i, h).num = None
        PROVE  IsStuck(i)
    <2>1. (IF h THEN cfg.hold[i] ELSE cfg.map[i]) = None
      BY <1>4 DEF Dest, Action
    <2>2. cfg.map[i] # None
      BY <1>1, ButtonsAssumption
    <2>3. h /\ cfg.hold[i] = None
      BY <2>1, <2>2
    <2> QED  BY <2>3 DEF TimersHaveButtons
  <1>5. Report(i, h) \in [btn : Button, hold : BOOLEAN, out : Outputs,
                          age : 0..MaxTimeout+1, due : 0..MaxTimeout]
    BY <1>1, TimerValues DEF Report
  <1> QED  BY <1>2, <1>3, <1>4, <1>5

LEMMA ReportsAfter ==
    ASSUME IInv, stuck' = stuck, NEW I \in SUBSET Button, NEW h \in BOOLEAN,
           \A i \in I : timer[i] # Off /\ (h <=> timer[i] = 0),
           last' = {Report(i, h) : i \in I}
    PROVE  /\ Reports'
           /\ last' \subseteq [btn : Button, hold : BOOLEAN, out : Outputs,
                               age : 0..MaxTimeout+1, due : 0..MaxTimeout]
  <1>1. ASSUME NEW r \in last'
        PROVE  /\ r \in [btn : Button, hold : BOOLEAN, out : Outputs,
                         age : 0..MaxTimeout+1, due : 0..MaxTimeout]
               /\ r.hold <=> r.age >= r.due
               /\ r.out.kind = "button" /\ r.out.num = None => IsStuck(r.btn)
    <2>1. PICK i \in I : r = Report(i, h)
      OBVIOUS
    <2>2. /\ Report(i, h) \in [btn : Button, hold : BOOLEAN, out : Outputs,
                                age : 0..MaxTimeout+1, due : 0..MaxTimeout]
          /\ Report(i, h).hold <=> Report(i, h).age >= Report(i, h).due
          /\ Report(i, h).out.kind = "button" /\ Report(i, h).out.num = None
                  => IsStuck(Report(i, h).btn)
      BY ReportProperties
    <2> QED  BY <2>1, <2>2
  <1>2. Reports'
    <2>1. \A r \in last' : r.hold <=> r.age >= r.due
      BY <1>1
    <2>2. \A r \in last' : r.out.kind = "button" /\ r.out.num = None
                               => \E s \in stuck' : s.btn = r.btn
      BY <1>1 DEF IsStuck
    <2>3. KindMatchesDuration'
      BY Zenon, <2>1 DEF KindMatchesDuration
    <2>4. NoNumberOnlyAfterRebind'
      BY Zenon, <2>2 DEF NoNumberOnlyAfterRebind
    <2> QED  BY <2>3, <2>4 DEF Reports
  <1> QED  BY <1>1, <1>2

(* A button without a hold mapping is passed on as it is.                  *)
LEMMA DirectStep ==
    ASSUME IInv, NEW i \in Button, NEW val \in {0, 1}, Direct(i, val),
           heard' = IF val = 1 THEN heard \cup {i} ELSE heard \ {i}, UNCHANGED <<cfg, stuck>>
    PROVE  Books'
  <1> USE DEF IInv
  <1> DEFINE d == Dest(cfg, i, FALSE)
  <1>1. /\ cfg.hold[i] = None /\ view' = Emit(view, d, val) /\ last' = {}
        /\ UNCHANGED <<timer, owed, age, due>>
    BY DEF Direct
  <1>2. cfg \in Configs /\ d \in Outputs
    BY DestType DEF TypeOK
  <1>3. view' = IF val = 1 THEN view \cup ({d} \ {Action}) ELSE view \ {d}
    BY <1>1 DEF Emit
  <1>4. \A j : IsStuck(j)' <=> IsStuck(j)
    BY DEF IsStuck
  <1>5. \A j \in Button \ {i} : j \in heard' <=> j \in heard
    OBVIOUS
  <1>6. Bookkeeping'
    BY <1>1, <1>2, <1>3 DEF Bookkeeping, TypeOK
  <1>7. TimersHaveButtons'
    BY <1>1, <1>4, <1>5 DEF TimersHaveButtons
  <1>8. TimersCount' /\ OneReportPerHold' /\ Reports'
    BY <1>1 DEF TimersCount, OneReportPerHold, Reports, KindMatchesDuration,
                NoNumberOnlyAfterRebind
  <1>9. SeenIsDown'
    <2> SUFFICES ASSUME NEW e \in view'
                 PROVE  \/ \E r \in stuck : r.out = e
                        \/ \E j \in heard' : e = Dest(cfg, j, FALSE) /\ cfg.hold[j] = None
      BY DEF SeenIsDown
    <2> HIDE DEF d
    <2>1. CASE val = 1
      BY <1>1, <1>3, <2>1 DEF SeenIsDown, d
    <2>2. CASE val # 1
      <3>1. e \in view /\ e # d /\ heard' = heard \ {i}
        BY <1>3, <2>2
      <3> QED  BY <3>1 DEF SeenIsDown, d
    <2> QED  BY <2>1, <2>2
  <1>10. DownIsSeen'
    <2> SUFFICES ASSUME NEW j \in heard'
                 PROVE  \/ Dest(cfg, j, FALSE) \in view' \cup {Action} \/ cfg.hold[j] # None
                        \/ ~ Own(j, Dest(cfg, j, FALSE)) \/ IsStuck(j)
      BY <1>4 DEF DownIsSeen
    <2>1. j \in Button
      BY DEF TypeOK
    <2>2. CASE j = i
      BY <1>3, <2>2
    <2>3. CASE j # i
      <3>1. ~ Own(j, d)
        BY <1>2, <2>1, <2>3, OthersReach
      <3>2. j \in heard
        BY <2>3
      <3> HIDE DEF d
      <3> QED  BY <1>3, <3>1, <3>2 DEF DownIsSeen
    <2> QED  BY <2>2, <2>3
  <1> QED  BY <1>6, <1>7, <1>8, <1>9, <1>10 DEF Books

(* A button with one starts its timer; it was not down before.             *)
LEMMA ArmStep ==
    ASSUME IInv, NEW i \in Button, i \notin heard, ArmTimer(i), heard' = heard \cup {i},
           UNCHANGED <<cfg, stuck>>
    PROVE  Books'
  <1> USE DEF IInv
  <1>1. /\ cfg.hold[i] # None
        /\ timer' = [timer EXCEPT ![i] = cfg.timeout] /\ owed' = [owed EXCEPT ![i] = @ + 1]
        /\ age' = [age EXCEPT ![i] = 0] /\ due' = [due EXCEPT ![i] = cfg.timeout]
        /\ last' = {} /\ view' = view
    BY DEF ArmTimer
  <1>2. cfg \in Configs /\ cfg.timeout \in 0..MaxTimeout /\ cfg.timeout # Off
    BY Timeout, OffIsNoTime DEF TypeOK
  <1>3. \A j : IsStuck(j)' <=> IsStuck(j)
    BY DEF IsStuck
  <1>4. Bookkeeping'
    BY <1>1, <1>2, Timeout DEF Bookkeeping, TypeOK, Timer
  <1>5. /\ timer'[i] = cfg.timeout /\ owed'[i] = owed[i] + 1 /\ age'[i] = 0 /\ due'[i] = cfg.timeout
        /\ \A j \in Button \ {i} : /\ timer'[j] = timer[j] /\ owed'[j] = owed[j]
                                   /\ age'[j] = age[j] /\ due'[j] = due[j]
    BY <1>1 DEF TypeOK
  <1>6. TimersHaveButtons'
    BY <1>1, <1>3, <1>5 DEF TimersHaveButtons
  <1>7. TimersCount'
    BY <1>2, <1>5 DEF TimersCount
  <1>8. OneReportPerHold'
    <2> SUFFICES ASSUME NEW j \in Button
                 PROVE  /\ owed'[j] >= 0 /\ (timer'[j] # Off => owed'[j] > 0)
                        /\ owed'[j] = (IF timer'[j] = Off THEN 0 ELSE 1) \/ IsStuck(j)
      BY DEF OneReportPerHold, IsStuck
    <2>1. /\ owed[j] >= 0 /\ (timer[j] # Off => owed[j] > 0) /\ owed[j] \in Int
          /\ owed[j] = (IF timer[j] = Off THEN 0 ELSE 1) \/ IsStuck(j)
      BY TimerValues DEF OneReportPerHold, IsStuck
    <2>2. CASE j = i
      <3>1. timer[i] # Off => IsStuck(i)
        BY DEF TimersHaveButtons
      <3> QED  BY <1>2, <1>5, <2>1, <2>2, <3>1
    <2>3. CASE j # i
      BY <1>5, <2>1, <2>3
    <2> QED  BY <2>2, <2>3
  <1>9. Reports' /\ SeenIsDown' /\ DownIsSeen'
    BY <1>1, <1>3 DEF Reports, KindMatchesDuration, NoNumberOnlyAfterRebind, SeenIsDown, DownIsSeen
  <1> QED  BY <1>4, <1>6, <1>7, <1>8, <1>9 DEF Books

(* The timers of I have been answered, by their release or on their time.  *)
LEMMA AnsweredStep ==
    ASSUME IInv, NEW I \in SUBSET Button, NEW h \in BOOLEAN,
           \A i \in I : timer[i] # Off /\ (h <=> timer[i] = 0),
           timer' = [i \in Button |-> IF i \in I THEN Off ELSE timer[i]],
           owed' = [i \in Button |-> IF i \in I THEN owed[i] - 1 ELSE owed[i]],
           last' = {Report(i, h) : i \in I},
           view' = view \ {Dest(cfg, i, h) : i \in I},
           UNCHANGED <<cfg, stuck, age, due>>,
           heard' \subseteq heard,
           \A i \in heard \ heard' : cfg.hold[i] # None /\ (timer[i] # Off => i \in I)
    PROVE  Books'
  <1> USE DEF IInv
  <1>1. cfg \in Configs
    BY DEF TypeOK
  <1>2. \A j : IsStuck(j)' <=> IsStuck(j)
    BY DEF IsStuck
  <1>3. ASSUME NEW j \in Button
        PROVE  /\ j \in I => timer'[j] = Off /\ owed'[j] = owed[j] - 1
               /\ j \notin I => timer'[j] = timer[j] /\ owed'[j] = owed[j]
    OBVIOUS
  <1>4. Bookkeeping'
    <2>1. timer' \in [Button -> Timer]
      BY DEF TypeOK, Timer
    <2>2. owed' \in [Button -> Int]
      BY DEF TypeOK
    <2>3. last' \subseteq [btn : Button, hold : BOOLEAN, out : Outputs,
                           age : 0..MaxTimeout+1, due : 0..MaxTimeout]
      BY ReportsAfter
    <2> QED  BY <2>1, <2>2, <2>3 DEF Bookkeeping, TypeOK
  <1>5. TimersHaveButtons'
    BY <1>2, <1>3 DEF TimersHaveButtons
  <1>6. TimersCount'
    BY <1>3 DEF TimersCount
  <1>7. OneReportPerHold'
    <2> SUFFICES ASSUME NEW j \in Button
                 PROVE  /\ owed'[j] >= 0 /\ (timer'[j] # Off => owed'[j] > 0)
                        /\ owed'[j] = (IF timer'[j] = Off THEN 0 ELSE 1) \/ IsStuck(j)
      BY DEF OneReportPerHold, IsStuck
    <2>1. /\ owed[j] >= 0 /\ (timer[j] # Off => owed[j] > 0) /\ owed[j] \in Int
          /\ owed[j] = (IF timer[j] = Off THEN 0 ELSE 1) \/ IsStuck(j)
      BY TimerValues DEF OneReportPerHold, IsStuck
    <2>2. CASE j \in I
      BY <1>3, <2>1, <2>2
    <2>3. CASE j \notin I
      BY <1>3, <2>1, <2>3
    <2> QED  BY <2>2, <2>3
  <1>8. Reports'
    BY ReportsAfter
  <1>9. SeenIsDown'
    <2> SUFFICES ASSUME NEW e \in view
                 PROVE  \/ \E r \in stuck : r.out = e
                        \/ \E j \in heard' : e = Dest(cfg, j, FALSE) /\ cfg.hold[j] = None
      BY DEF SeenIsDown
    <2> QED  BY DEF SeenIsDown
  <1>10. DownIsSeen'
    <2> SUFFICES ASSUME NEW j \in heard', ~ IsStuck(j), cfg.hold[j] = None,
                        Dest(cfg, j, FALSE) # Action
                 PROVE  \/ Dest(cfg, j, FALSE) \in view' \/ ~ Own(j, Dest(cfg, j, FALSE))
      BY <1>2 DEF DownIsSeen
    <2>1. j \in Button /\ j \in heard
      BY DEF TypeOK
    <2>2. j \notin I
      BY <2>1 DEF TimersHaveButtons
    <2>3. CASE Dest(cfg, j, FALSE) \in {Dest(cfg, i, h) : i \in I}
      <3>1. PICK i \in I : Dest(cfg, j, FALSE) = Dest(cfg, i, h)
        BY <2>3
      <3>2. ~ Own(j, Dest(cfg, i, h))
        BY <1>1, <2>1, <2>2, OthersReach
      <3> QED  BY <3>1, <3>2
    <2>4. CASE Dest(cfg, j, FALSE) \notin {Dest(cfg, i, h) : i \in I}
      BY <2>1, <2>4 DEF DownIsSeen
    <2> QED  BY <2>3, <2>4
  <1> QED  BY <1>4, <1>5, <1>6, <1>7, <1>8, <1>9, <1>10 DEF Books

LEMMA ReleaseStep ==
    ASSUME IInv, NEW i \in Button, ReleaseBeforeTimer(i), heard' = heard \ {i},
           UNCHANGED <<cfg, stuck>>
    PROVE  Books'
  <1> USE DEF IInv
  <1>0. cfg.hold[i] # None /\ age' = age /\ due' = due
    BY DEF ReleaseBeforeTimer
  <1>1. CASE timer[i] # Off
    <2> DEFINE h == timer[i] = 0
    <2>1. h \in BOOLEAN /\ \A j \in {i} : timer[j] # Off /\ (h <=> timer[j] = 0)
      BY <1>1
    <2>2. /\ view' = Emit(Emit(view, Dest(cfg, i, h), 1), Dest(cfg, i, h), 0)
          /\ last' = {Report(i, h)}
          /\ owed' = [owed EXCEPT ![i] = @ - 1] /\ timer' = [timer EXCEPT ![i] = Off]
      BY <1>1 DEF ReleaseBeforeTimer
    <2> HIDE DEF h
    <2>3. view' = view \ {Dest(cfg, j, h) : j \in {i}}
      BY <2>2 DEF Emit
    <2>4. last' = {Report(j, h) : j \in {i}}
      BY <2>2
    <2>5. timer' = [j \in Button |-> IF j \in {i} THEN Off ELSE timer[j]]
      BY <2>2 DEF TypeOK
    <2>6. owed' = [j \in Button |-> IF j \in {i} THEN owed[j] - 1 ELSE owed[j]]
      BY <2>2 DEF TypeOK
    <2>7. {i} \in SUBSET Button /\ heard' \subseteq heard
          /\ \A j \in heard \ heard' : cfg.hold[j] # None /\ (timer[j] # Off => j \in {i})
      BY <1>0
    <2> QED  BY <1>0, <2>1, <2>3, <2>4, <2>5, <2>6, <2>7, AnsweredStep
  <1>2. CASE timer[i] = Off
    <2>1. /\ UNCHANGED <<timer, owed, view>> /\ last' = {}
      BY <1>2 DEF ReleaseBeforeTimer
    <2>3. view' = view \ {Dest(cfg, j, TRUE) : j \in {}} /\ last' = {Report(j, TRUE) : j \in {}}
      BY <2>1
    <2>4. timer' = [j \in Button |-> IF j \in {} THEN Off ELSE timer[j]]
      BY <2>1 DEF TypeOK
    <2>5. owed' = [j \in Button |-> IF j \in {} THEN owed[j] - 1 ELSE owed[j]]
      BY <2>1 DEF TypeOK
    <2>6. {} \in SUBSET Button /\ heard' \subseteq heard
          /\ \A j \in heard \ heard' : cfg.hold[j] # None /\ (timer[j] # Off => j \in {})
      BY <1>0, <1>2
    <2> QED  BY <1>0, <2>3, <2>4, <2>5, <2>6, AnsweredStep
  <1> QED  BY <1>1, <1>2

LEMMA ReadInputStep ==
    ASSUME IInv, ReadInput
    PROVE  IInv'
  <1> USE DEF IInv
  <1> DEFINE inp == Head(kq)
  <1>1. /\ pc = "events" /\ kq # <<>> /\ kq' = Tail(kq)
        /\ UNCHANGED <<tv, pressed, cfg, newcfg, stuck, changes>>
        /\ \/ /\ inp = Msc /\ pc' = "timeouts" /\ last' = {}
              /\ UNCHANGED <<timer, view, heard, owed, age, due>>
           \/ /\ inp # Msc /\ pc' = pc
              /\ \/ Direct(inp.btn, inp.val)
                 \/ inp.val = 1 /\ ArmTimer(inp.btn)
                 \/ inp.val = 0 /\ ReleaseBeforeTimer(inp.btn)
              /\ heard' = IF inp.val = 1 THEN heard \cup {inp.btn} ELSE heard \ {inp.btn}
    BY DEF ReadInput
  <1>2. /\ inp \in Input /\ kq' \in Seq(Input) /\ Len(kq') <= MaxQueue
        /\ \E now \in SUBSET Button : Follows(heard, inp, now) /\ (heard' = now => InputAlternates')
    <2>1. Len(kq) \in Nat /\ Len(kq) <= MaxQueue /\ MaxQueue \in Nat
      BY ButtonsAssumption DEF TypeOK
    <2>2. /\ Head(kq) \in Input /\ Tail(kq) \in Seq(Input) /\ Len(Tail(kq)) = Len(kq) - 1
          /\ \E now \in SUBSET Button :
                 /\ Follows(heard, Head(kq), now)
                 /\ kq' = Tail(kq) /\ pressed' = pressed /\ heard' = now => InputAlternates'
      BY <1>1, ReadOne
    <2> QED  BY <1>1, <2>1, <2>2
  <1> HIDE DEF inp
  <1>3. CASE inp = Msc
    <2>1. InputAlternates' /\ UNCHANGED <<timer, view, heard, owed, age, due>> /\ last' = {}
          /\ pc' = "timeouts"
      BY <1>1, <1>2, <1>3 DEF Follows
    <2>2. TypeOK'
      BY <1>1, <1>2, <2>1 DEF TypeOK
    <2> QED  BY <1>1, <2>1, <2>2, QuietStep
  <1>4. CASE inp # Msc
    <2> DEFINE i == inp.btn
               v == inp.val
    <2>1. i \in Button /\ v \in {0, 1}
      BY <1>2, <1>4 DEF Input
    <2> HIDE DEF i, v
    <2>2. heard' = IF v = 1 THEN heard \cup {i} ELSE heard \ {i}
      BY <1>1, <1>4 DEF i, v
    <2>3. InputAlternates' /\ (v = 1 => i \notin heard)
      BY <1>2, <1>4, <2>1, <2>2 DEF Follows, i, v
    <2>4. Books'
      <3>1. CASE Direct(i, v)
        BY <1>1, <2>1, <2>2, <3>1, DirectStep
      <3>2. CASE v = 1 /\ ArmTimer(i)
        BY <1>1, <2>1, <2>2, <2>3, <3>2, ArmStep
      <3>3. CASE v = 0 /\ ReleaseBeforeTimer(i)
        BY <1>1, <2>1, <2>2, <3>3, ReleaseStep
      <3> QED  BY <1>1, <1>4, <3>1, <3>2, <3>3 DEF i, v
    <2>5. TypeOK'
      <3>1. heard' \subseteq Button /\ pc' = pc
        BY <1>1, <1>4, <2>1, <2>2 DEF TypeOK
      <3> QED  BY <1>1, <1>2, <2>4, <3>1 DEF TypeOK, Books, Bookkeeping
    <2> QED  BY <2>3, <2>4, <2>5 DEF Books
  <1> QED  BY <1>3, <1>4

LEMMA TimeoutsStep ==
    ASSUME IInv, emit_button_timeouts
    PROVE  IInv'
  <1> USE DEF IInv
  <1> DEFINE expired == {i \in Button : timer[i] = 0}
  <1>1. /\ pc' = "select"
        /\ view' = view \ {Dest(cfg, i, TRUE) : i \in expired}
        /\ last' = {Report(i, TRUE) : i \in expired}
        /\ owed' = [i \in Button |-> IF i \in expired THEN owed[i] - 1 ELSE owed[i]]
        /\ timer' = [i \in Button |-> IF i \in expired THEN Off ELSE timer[i]]
        /\ UNCHANGED <<tv, kq, pressed, cfg, newcfg, heard, age, due, stuck, changes>>
    BY DEF emit_button_timeouts
  <1>2. expired \in SUBSET Button /\ \A i \in expired : timer[i] # Off /\ timer[i] = 0
    BY OffIsNoTime
  <1> HIDE DEF expired
  <1>3. heard' \subseteq heard
        /\ \A i \in heard \ heard' : cfg.hold[i] # None /\ (timer[i] # Off => i \in expired)
    BY <1>1
  <1>4. Books'
    BY <1>1, <1>2, <1>3, AnsweredStep
  <1>5. TypeOK'
    BY <1>1, <1>4 DEF TypeOK, Books, Bookkeeping
  <1>6. InputAlternates'
    BY <1>1 DEF InputAlternates
  <1> QED  BY <1>4, <1>5, <1>6 DEF Books

LEMMA NextIInv == IInv /\ [Next]_vars => IInv'
  <1> SUFFICES ASSUME IInv, [Next]_vars PROVE IInv'
    OBVIOUS
  <1>1. ASSUME NEW i \in Button, Press(i) \/ Release(i) PROVE IInv'
    BY <1>1, InputStep
  <1>2. CASE OtherInput
    <2>1. PICK i : i \in Button
      BY ButtonsAssumption
    <2> QED  BY <1>2, <2>1, InputStep
  <1>3. CASE Tick
    BY <1>3, TickStep
  <1>4. CASE TakeConfig
    BY <1>4, TakeConfigStep
  <1>5. CASE ReadInput
    BY <1>5, ReadInputStep
  <1>6. CASE emit_button_timeouts
    BY <1>6, TimeoutsStep
  <1>7. CASE Unplug
    BY <1>7, UnplugStep
  <1>8. CASE EnterSelect \/ LeaveSelect \/ EndOfInput
    <2> USE DEF EnterSelect, LeaveSelect, EndOfInput
    <2>1. /\ pc' \in {"blocked", "config", "timeouts"} /\ last' = {}
          /\ UNCHANGED <<kq, pressed, cfg, newcfg, timer, view, heard, owed, age, due, stuck, changes>>
      BY <1>8
    <2>2. tv' \in Timer
      BY <1>8, TimeoutType DEF IInv, TypeOK, Timer
    <2>3. TypeOK'
      BY <2>1, <2>2 DEF IInv, TypeOK
    <2>4. InputAlternates'
      BY <2>1 DEF IInv, InputAlternates
    <2> QED  BY <2>1, <2>3, <2>4, QuietStep
  <1>9. ASSUME NEW c \in Configs, Reconfigure(c) PROVE IInv'
    <2>1. /\ changes < MaxChanges /\ newcfg' = c /\ changes' = changes + 1 /\ last' = {}
          /\ UNCHANGED <<pc, tv, kq, pressed, cfg, timer, view, heard, owed, age, due, stuck>>
      BY <1>9 DEF Reconfigure
    <2>2. TypeOK'
      BY <2>1, ButtonsAssumption DEF IInv, TypeOK
    <2>3. InputAlternates'
      BY <2>1 DEF IInv, InputAlternates
    <2> QED  BY <2>1, <2>2, <2>3, QuietStep
  <1>10. CASE UNCHANGED vars
    <2>1. TypeOK' /\ InputAlternates'
      BY <1>10 DEF vars, history, IInv, TypeOK, InputAlternates
    <2> QED  BY <1>10, <2>1, QuietStep DEF vars, history
  <1> QED  BY <1>1, <1>2, <1>3, <1>4, <1>5, <1>6, <1>7, <1>8, <1>9, <1>10 DEF Next, Daemon, User
-----------------------------------------------------------------------------
(* Input, timers, reports and views fit together: the inductive invariant. *)
THEOREM Invariance == Spec => []IInv
  BY InitIInv, NextIInv, PTL DEF Spec

(* A held button is reported once, as what it was, under a number that     *)
(* exists, however its release, its timer, the clock and changes of the    *)
(* configuration interleave (event.c:263, event.c:415).                    *)
THEOREM HoldsAreReported == Spec => []HoldsReported
  <1>1. IInv => HoldsReported
    BY DEF IInv, HoldsReported, Reports
  <1> QED  BY <1>1, Invariance, PTL

(* What clients and the keyboard emulation take for pressed is what is     *)
(* down, but for what was rebound or unplugged while down (event.c:152).   *)
THEOREM ViewsAreRight == Spec => []ViewIsWhatIsDown
  <1>1. IInv => ViewIsWhatIsDown
    BY ViewHalves DEF IInv
  <1> QED  BY <1>1, Invariance, PTL
=============================================================================
