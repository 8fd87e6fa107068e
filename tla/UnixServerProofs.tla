--------------------------- MODULE UnixServerProofs ---------------------------
(***************************************************************************)
(* What is proved of UnixServer, for any number of clients and devices and *)
(* any set of requests.                                                    *)
(***************************************************************************)
EXTENDS UnixServer, SequenceTheorems, TLAPS

Distinct(s) == \A i, j \in DOMAIN s : s[i] = s[j] => i = j

(* A connection is listed once, or waits once to be accepted.              *)
ListedOnce ==
    /\ Distinct(client_list) /\ Distinct(backlog)
    /\ Listed \cap Range_(backlog) = {}

(* What select reported of a client stands until it is served, unless it   *)
(* was reported of a device that had the descriptor before.                *)
Ready(c) == sock[c] # <<>> \/ eof[c]

ReportStands ==
    /\ pc \in {"reload", "uevents"} =>
           rset \subseteq Listed /\ (\A c \in rset : Ready(c)) /\ (lready => backlog # <<>>)
    /\ pc = "loop" /\ ~ (stale /\ lready) => \A c \in rset \ served : Ready(c)

(* An iterator at the place k of the list, or behind its end.              *)
IsAt(p, k) == p = IF k <= Len(client_list) THEN client_list[k] ELSE None

(* The pass goes down the list if no request moved the iterator.           *)
PassIsOnCourse ==
    pc = "loop" /\ ~ restarted =>
        /\ client_iter = citer
        /\ \E k \in 1..Len(client_list) + 1 :
               IsAt(citer, k) /\ \A i \in k..Len(client_list) : client_list[i] \notin served

(* Who is still to be served comes next or behind the global iterator: a   *)
(* request moves that to the head only.                                    *)
NobodyIsPassed ==
    pc = "loop" =>
        \/ citer = client_iter /\ ~ Live(citer)
        \/ /\ Live(citer)
           /\ \E k \in 1..Len(client_list) + 1 :
                 /\ IsAt(client_iter, k)
                 /\ \A c \in rset \ served :
                        /\ citer # None
                        /\ c = citer \/ \E j \in k + 1..Len(client_list) : client_list[j] = c

IInv == /\ TypeOK /\ LedsFollowClients /\ ListedOnce /\ ReportStands
        /\ PassIsOnCourse /\ NobodyIsPassed
-----------------------------------------------------------------------------
(* The list of clients. *)

LEMMA NoneIsNoClient == None \notin Client
  BY UnixServerAssumption

LEMMA PlaceProperties ==
    ASSUME client_list \in Seq(Client), NEW c \in Listed
    PROVE  Place(c) \in 1..Len(client_list) /\ client_list[Place(c)] = c /\ c \in Client
  <1>1. PICK i \in DOMAIN client_list : client_list[i] = c
    BY DEF Listed, Range_
  <1> QED  BY <1>1 DEF Place

(* The client behind a listed one. *)
LEMMA NextProperties ==
    ASSUME client_list \in Seq(Client), Distinct(client_list),
           NEW k \in 1..Len(client_list) + 1, IsAt(client_iter, k)
    PROVE  /\ k <= Len(client_list) => IsAt(next_client, k + 1) /\ k + 1 \in 1..Len(client_list) + 1
           /\ k = Len(client_list) + 1 => next_client = None /\ client_iter = None
           /\ next_client \in Client \cup {None} /\ Live(next_client)
  <1>1. CASE k = Len(client_list) + 1
    <2>1. client_iter = None
      BY <1>1 DEF IsAt
    <2> QED  BY <1>1, <2>1 DEF next_client, Live
  <1>2. CASE k <= Len(client_list)
    <2>1. k \in 1..Len(client_list) /\ client_iter = client_list[k] /\ client_iter \in Listed
      BY <1>2 DEF IsAt, Listed, Range_
    <2>2. Place(client_iter) = k /\ client_iter # None
      BY <2>1, PlaceProperties, NoneIsNoClient DEF Distinct
    <2>3. next_client = IF k = Len(client_list) THEN None ELSE client_list[k + 1]
      BY <2>2 DEF next_client, Next_
    <2>4. k # Len(client_list) => k + 1 \in DOMAIN client_list
      BY <2>1
    <2> QED  BY <2>1, <2>3, <2>4 DEF IsAt, Live, Listed, Range_
  <1> QED  BY <1>1, <1>2

(* Taking an element out of a sequence. *)
LEMMA TakeOut ==
    ASSUME NEW S, NEW s \in Seq(S), NEW m \in 1..Len(s)
    PROVE  LET t == SubSeq(s, 1, m - 1) \o SubSeq(s, m + 1, Len(s))
           IN  /\ t \in Seq(S) /\ Len(t) = Len(s) - 1
               /\ \A j \in 1..Len(s) - 1 : t[j] = IF j < m THEN s[j] ELSE s[j + 1]
  <1> DEFINE f == SubSeq(s, 1, m - 1)
             g == SubSeq(s, m + 1, Len(s))
  <1>1. f \in Seq(S) /\ Len(f) = m - 1 /\ \A j \in 1..m-1 : f[j] = s[j]
    OBVIOUS
  <1>2. g \in Seq(S) /\ Len(g) = Len(s) - m /\ \A j \in 1..Len(s)-m : g[j] = s[j + m]
    OBVIOUS
  <1> HIDE DEF f, g
  <1>3. f \o g \in Seq(S) /\ Len(f \o g) = Len(s) - 1
    <2>1. f \o g \in Seq(S) /\ Len(f \o g) = Len(f) + Len(g)
      BY <1>1, <1>2, ConcatProperties
    <2> QED  BY <2>1, <1>1, <1>2
  <1>4. ASSUME NEW j \in 1..Len(s)-1
        PROVE  (f \o g)[j] = IF j < m THEN s[j] ELSE s[j + 1]
    <2>1. CASE j < m
      BY <1>1, <1>2, <2>1
    <2>2. CASE ~ (j < m)
      <3>1. (f \o g)[j] = g[j - (m - 1)]
        BY <1>1, <1>2, <2>2
      <3>2. g[j - (m - 1)] = s[j - (m - 1) + m]
        BY <1>2, <2>2
      <3> QED  BY <3>1, <3>2, <2>2
    <2> QED  BY <2>1, <2>2
  <1> QED  BY <1>3, <1>4 DEF f, g

(* The list without one client: the others in the same order.              *)
LEMMA UnlinkedProperties ==
    ASSUME client_list \in Seq(Client), Distinct(client_list), NEW c \in Listed
    PROVE  /\ Unlinked(c) \in Seq(Client) /\ Distinct(Unlinked(c))
           /\ Range_(Unlinked(c)) = Listed \ {c}
           /\ Len(Unlinked(c)) = Len(client_list) - 1
           /\ \A j \in 1..Len(client_list) - 1 :
                  Unlinked(c)[j] = IF j < Place(c) THEN client_list[j] ELSE client_list[j + 1]
  <1> DEFINE t == Unlinked(c)
             m == Place(c)
             n == Len(client_list)
  <1>1. m \in 1..n /\ client_list[m] = c /\ n \in Nat
    BY PlaceProperties
  <1>2. /\ t \in Seq(Client) /\ Len(t) = n - 1
        /\ \A j \in 1..n - 1 : t[j] = IF j < m THEN client_list[j] ELSE client_list[j + 1]
    BY <1>1, TakeOut DEF Unlinked
  <1> HIDE DEF t, m
  <1>3. \A j \in 1..n - 1 : t[j] = client_list[IF j < m THEN j ELSE j + 1]
    BY <1>2
  <1>4. \A j \in 1..n - 1 : (IF j < m THEN j ELSE j + 1) \in 1..n \ {m}
    BY <1>1
  <1>5. DOMAIN t = 1..n - 1 /\ DOMAIN client_list = 1..n
    BY <1>2
  <1>6. Distinct(t)
    <2> SUFFICES ASSUME NEW i \in 1..n - 1, NEW j \in 1..n - 1, t[i] = t[j]
                 PROVE  i = j
      BY <1>5 DEF Distinct
    <2>1. (IF i < m THEN i ELSE i + 1) = (IF j < m THEN j ELSE j + 1)
      BY <1>3, <1>4, <1>5 DEF Distinct
    <2> QED  BY <1>1, <2>1
  <1>7. Range_(t) = Listed \ {c}
    <2>1. Range_(t) \subseteq Listed \ {c}
      <3> SUFFICES ASSUME NEW j \in 1..n - 1 PROVE t[j] \in Listed \ {c}
        BY <1>5 DEF Range_
      <3> DEFINE i == IF j < m THEN j ELSE j + 1
      <3>1. i \in 1..n /\ i # m /\ t[j] = client_list[i]
        BY <1>1, <1>3
      <3> HIDE DEF i
      <3> QED  BY <1>1, <1>5, <3>1 DEF Listed, Range_, Distinct
    <2>2. ASSUME NEW x \in Listed \ {c} PROVE x \in Range_(t)
      <3>1. PICK i \in 1..n : client_list[i] = x
        BY <1>5 DEF Range_, Listed
      <3>2. i # m
        BY <1>1, <3>1
      <3> DEFINE j == IF i < m THEN i ELSE i - 1
      <3>3. j \in 1..n - 1 /\ (IF j < m THEN j ELSE j + 1) = i
        BY <1>1, <3>2
      <3>4. t[j] = x
        BY <1>3, <3>1, <3>3
      <3> QED  BY <1>5, <3>3, <3>4 DEF Range_
    <2> QED  BY <2>1, <2>2
  <1> QED  BY <1>2, <1>6, <1>7 DEF t, m

(* The list with a new client at its head. *)
LEMMA PrependProperties ==
    ASSUME client_list \in Seq(Client), Distinct(client_list), NEW c \in Client \ Listed
    PROVE  /\ <<c>> \o client_list \in Seq(Client) /\ Distinct(<<c>> \o client_list)
           /\ Range_(<<c>> \o client_list) = Listed \cup {c}
           /\ <<c>> \o client_list # <<>> /\ Head(<<c>> \o client_list) = c
  <1> DEFINE l == <<c>> \o client_list
  <1>1. /\ l \in Seq(Client) /\ Len(l) = Len(client_list) + 1
        /\ l[1] = c /\ \A i \in 1..Len(client_list) : l[i + 1] = client_list[i]
    OBVIOUS
  <1> HIDE DEF l
  <1>2. \A i \in 2..Len(l) : i - 1 \in 1..Len(client_list) /\ l[i] = client_list[i - 1]
    <2> TAKE i \in 2..Len(l)
    <2>1. i - 1 \in 1..Len(client_list) /\ (i - 1) + 1 = i
      BY <1>1
    <2> QED  BY <1>1, <2>1
  <1>3. Distinct(l)
    <2> SUFFICES ASSUME NEW i \in 1..Len(l), NEW j \in 1..Len(l), l[i] = l[j] PROVE i = j
      BY <1>1 DEF Distinct
    <2>1. \A k \in 2..Len(l) : l[k] # c
      BY <1>2 DEF Listed, Range_
    <2>2. CASE i = 1 \/ j = 1
      BY <1>1, <2>1, <2>2
    <2>3. CASE i # 1 /\ j # 1
      <3>1. client_list[i - 1] = client_list[j - 1]
        BY <1>1, <1>2, <2>3
      <3> QED  BY <1>1, <1>2, <2>3, <3>1 DEF Distinct
    <2> QED  BY <2>2, <2>3
  <1>4. 1 \in 1..Len(l) /\ DOMAIN l = 1..Len(l)
    BY <1>1
  <1>5. Range_(l) \subseteq Listed \cup {c}
    <2> SUFFICES ASSUME NEW i \in 1..Len(l) PROVE l[i] \in Listed \cup {c}
      BY <1>4 DEF Range_
    <2>1. i = 1 \/ i \in 2..Len(l)
      BY <1>1
    <2> QED  BY <1>1, <1>2, <2>1 DEF Listed, Range_
  <1>6. ASSUME NEW x \in Listed PROVE x \in Range_(l)
    <2>1. PICK i \in 1..Len(client_list) : client_list[i] = x
      BY DEF Listed, Range_
    <2>2. i + 1 \in DOMAIN l /\ l[i + 1] = x
      BY <1>1, <2>1
    <2> QED  BY <2>2 DEF Range_
  <1>7. c \in Range_(l)
    BY <1>1, <1>4 DEF Range_
  <1>8. l # <<>> /\ Head(l) = c
    BY <1>1
  <1> QED  BY <1>1, <1>3, <1>5, <1>6, <1>7, <1>8 DEF l
-----------------------------------------------------------------------------
(* The LEDs, as LedsFollowClients has them. *)
Shine ==
    /\ lit \in [Device -> BOOLEAN]
    /\ \A d \in Device : lit[d] <=> d \in opened /\ Wanted(led, client_list)

LEMMA ShineIff ==
    ASSUME lit \in [Device -> BOOLEAN]
    PROVE  Shine <=> \A d \in Device : lit[d] = (d \in opened /\ Wanted(led, client_list))
  BY DEF Shine, Wanted

LEMMA SetLeds ==
    ASSUME lit \in [Device -> BOOLEAN], NEW state \in BOOLEAN, set_devices_led(state)
    PROVE  /\ lit' \in [Device -> BOOLEAN]
           /\ \A d \in Device : lit'[d] <=> IF d \in opened THEN state ELSE lit[d]
  <1>1. lit' = [d \in Device |-> IF d \in opened THEN state ELSE lit[d]]
    BY DEF set_devices_led
  <1> QED  BY <1>1

(* The first client lights the LEDs, the last one puts them out.           *)
LEMMA AddLeds ==
    ASSUME client_list \in Seq(Client), Shine, NEW c \in Client, add_client(c),
           UNCHANGED <<led, opened>>
    PROVE  Shine'
  <1>1. client_list' = <<c>> \o client_list /\ client_list' # <<>>
    BY DEF add_client
  <1>2. CASE client_list = <<>> /\ led = "auto"
    <2>1. set_devices_led(TRUE)
      BY <1>2 DEF add_client
    <2>2. /\ lit' \in [Device -> BOOLEAN]
          /\ \A d \in Device : lit'[d] <=> d \in opened \/ lit[d]
      BY <2>1, SetLeds DEF Shine
    <2> QED  BY <1>1, <1>2, <2>2 DEF Shine, Wanted
  <1>3. CASE ~ (client_list = <<>> /\ led = "auto")
    <2>1. lit' = lit
      BY <1>3 DEF add_client
    <2> QED  BY <1>1, <1>3, <2>1 DEF Shine, Wanted
  <1> QED  BY <1>2, <1>3

LEMMA RemoveLeds ==
    ASSUME client_list \in Seq(Client), client_list # <<>>, Shine, NEW c, remove_client(c),
           UNCHANGED <<led, opened>>
    PROVE  Shine'
  <1>1. CASE client_list' = <<>> /\ led = "auto"
    <2>1. set_devices_led(FALSE)
      BY <1>1 DEF remove_client
    <2>2. /\ lit' \in [Device -> BOOLEAN]
          /\ \A d \in Device : lit'[d] <=> d \notin opened /\ lit[d]
      BY <2>1, SetLeds DEF Shine
    <2> QED  BY <1>1, <2>2 DEF Shine, Wanted
  <1>2. CASE ~ (client_list' = <<>> /\ led = "auto")
    <2>1. lit' = lit
      BY <1>2 DEF remove_client
    <2> QED  BY <1>2, <2>1 DEF Shine, Wanted
  <1> QED  BY <1>1, <1>2

(* A change of the configuration, by a request or read from the file.      *)
LEMMA CfgChanged ==
    ASSUME TypeOK, Shine, NEW mode \in LedModes, NEW path \in Serial \cup {None},
           NEW outcome \in Outcomes, cfg_changed(mode, path, outcome),
           client_list' = client_list
    PROVE  /\ Shine' /\ led' \in LedModes /\ serial' \in Serial \cup {None}
           /\ opened' \subseteq Device \cup Serial
  <1>1. led' = mode /\ serial' = path
    BY DEF cfg_changed
  <1>2. /\ opened' = IF path = serial THEN opened
                     ELSE (opened \ {serial}) \cup (IF outcome = "opened" THEN {path} ELSE {})
        /\ outcome = "no device" \/ path # None
    BY DEF cfg_changed
  <1>3. opened' \subseteq Device \cup Serial
    BY <1>2 DEF TypeOK
  <1>4. \A d \in Device : d # path /\ d # serial
    BY UnixServerAssumption DEF TypeOK
  <1>5. \A d \in Device : d \in opened' <=> d \in opened
    BY <1>2, <1>4
  <1>6. CASE mode = led
    <2>1. lit' = lit
      BY <1>6 DEF cfg_changed
    <2> QED  BY <1>1, <1>3, <1>5, <1>6, <2>1 DEF Shine
  <1>7. CASE mode # led
    <2>1. set_devices_led(Wanted(mode, client_list))
      BY <1>7 DEF cfg_changed
    <2>2. Wanted(mode, client_list) \in BOOLEAN
      BY DEF Wanted
    <2>3. /\ lit' \in [Device -> BOOLEAN]
          /\ \A d \in Device :
                lit'[d] <=> IF d \in opened THEN Wanted(mode, client_list) ELSE lit[d]
      BY <2>1, <2>2, SetLeds DEF Shine
    <2> QED  BY <1>1, <1>3, <1>5, <2>3 DEF Shine
  <1> QED  BY <1>6, <1>7
-----------------------------------------------------------------------------
LEMMA ListedClients == client_list \in Seq(Client) => Listed \subseteq Client
  BY DEF Listed, Range_

LEMMA FirstClient ==
    ASSUME client_list \in Seq(Client)
    PROVE  first_client \in Client \cup {None} /\ Live(first_client) /\ IsAt(first_client, 1)
  <1>1. CASE client_list = <<>>
    BY <1>1 DEF first_client, Live, IsAt
  <1>2. CASE client_list # <<>>
    <2>1. 1 \in DOMAIN client_list /\ Head(client_list) = client_list[1]
      BY <1>2
    <2>2. client_list[1] \in Client /\ client_list[1] \in Listed
      BY <2>1 DEF Listed, Range_
    <2> QED  BY <1>2, <2>1, <2>2 DEF first_client, Live, IsAt
  <1> QED  BY <1>1, <1>2

LEMMA ShineInv ==
    ASSUME TypeOK, LedsFollowClients, pc # "undefined"
    PROVE  Shine
  BY DEF TypeOK, LedsFollowClients, Shine

LEMMA InitIInv == Init => IInv
  <1> SUFFICES ASSUME Init PROVE IInv
    OBVIOUS
  <1> USE DEF Init
  <1>1. Listed = {} /\ Range_(backlog) = {}
    BY DEF Listed, Range_
  <1>2. TypeOK
    <2>1. /\ eof \in [Client -> BOOLEAN] /\ lready \in BOOLEAN /\ stale \in BOOLEAN
          /\ lit \in [Device -> BOOLEAN] /\ restarted \in BOOLEAN
      BY Zenon
    <2>2. sent \in 0..MaxMessages
      BY UnixServerAssumption
    <2>3. /\ backlog \in Seq(Client) /\ client_list \in Seq(Client)
          /\ sock \in [Client -> Seq(Messages)]
      OBVIOUS
    <2>4. proto \in [Client -> {0, 1}]
      OBVIOUS
    <2> QED  BY <2>1, <2>2, <2>3, <2>4 DEF TypeOK
  <1>3. ListedOnce
    BY <1>1 DEF ListedOnce, Distinct
  <1>4. LedsFollowClients
    BY DEF LedsFollowClients
  <1>5. ReportStands /\ PassIsOnCourse /\ NobodyIsPassed
    BY DEF ReportStands, PassIsOnCourse, NobodyIsPassed
  <1> QED  BY <1>2, <1>3, <1>4, <1>5 DEF IInv

(* Clients send, and connections come and end, at any time.                *)
LEMMA OutsideStep ==
    ASSUME IInv, UNCHANGED <<pc, list, ready, proto, lights, hist>>,
           backlog' \in Seq(Client), sock' \in [Client -> Seq(Messages)],
           eof' \in [Client -> BOOLEAN], sent' \in 0..MaxMessages,
           backlog # <<>> => backlog' # <<>>, Distinct(backlog'), Listed \cap Range_(backlog') = {},
           \A c \in Client : Ready(c) => Ready(c)'
    PROVE  IInv'
  <1> USE DEF IInv
  <1>1. /\ pc' = pc /\ client_list' = client_list /\ client_iter' = client_iter
        /\ citer' = citer /\ rset' = rset /\ lready' = lready /\ stale' = stale
        /\ proto' = proto /\ led' = led /\ serial' = serial /\ opened' = opened /\ lit' = lit
        /\ served' = served /\ restarted' = restarted /\ lost' = lost
        /\ Listed' = Listed
    BY DEF list, ready, lights, hist, Listed, Range_
  <1>2. TypeOK'
    BY <1>1 DEF TypeOK
  <1>3. LedsFollowClients'
    BY <1>1 DEF LedsFollowClients, Wanted
  <1>4. ListedOnce'
    BY <1>1 DEF ListedOnce, Distinct
  <1>5. ReportStands'
    BY <1>1 DEF ReportStands, TypeOK
  <1>6. PassIsOnCourse' /\ NobodyIsPassed'
    BY <1>1 DEF PassIsOnCourse, NobodyIsPassed, IsAt, Live
  <1> QED  BY <1>2, <1>3, <1>4, <1>5, <1>6

LEMMA ConnectStep ==
    ASSUME IInv, NEW c \in Client, Connect(c)
    PROVE  IInv'
  <1> USE DEF IInv
  <1>1. /\ c \notin Listed /\ c \notin Range_(backlog) /\ backlog' = Append(backlog, c)
        /\ UNCHANGED <<pc, list, ready, proto, lights, hist, sock, eof, sent>>
    BY DEF Connect, Connected
  <1>2. /\ backlog' \in Seq(Client) /\ Len(backlog') = Len(backlog) + 1
        /\ \A i \in 1..Len(backlog) : backlog'[i] = backlog[i]
        /\ backlog'[Len(backlog) + 1] = c /\ backlog' # <<>>
    <2>1. backlog' \in Seq(Client) /\ Len(backlog') = Len(backlog) + 1 /\ Len(backlog) \in Nat
      BY <1>1 DEF TypeOK
    <2>2. backlog' # <<>>
      BY <2>1
    <2> QED  BY <1>1, <2>1, <2>2 DEF TypeOK
  <1>3. Distinct(backlog')
    <2>1. \A i \in 1..Len(backlog) : backlog[i] # c
      BY <1>1 DEF Range_, TypeOK
    <2>2. DOMAIN backlog' = 1..Len(backlog) + 1 /\ DOMAIN backlog = 1..Len(backlog)
      BY <1>2 DEF TypeOK
    <2> QED  BY <1>2, <2>1, <2>2 DEF Distinct, ListedOnce
  <1>4. Range_(backlog') \subseteq Range_(backlog) \cup {c}
    <2> SUFFICES ASSUME NEW i \in DOMAIN backlog' PROVE backlog'[i] \in Range_(backlog) \cup {c}
      BY DEF Range_
    <2>1. i \in 1..Len(backlog) \/ i = Len(backlog) + 1
      BY <1>2 DEF TypeOK
    <2>2. DOMAIN backlog = 1..Len(backlog)
      BY DEF TypeOK
    <2> QED  BY <1>2, <2>1, <2>2 DEF Range_
  <1>5. Listed \cap Range_(backlog') = {}
    BY <1>1, <1>4 DEF ListedOnce
  <1>6. \A d \in Client : Ready(d) => Ready(d)'
    BY <1>1 DEF Ready
  <1> QED  BY <1>1, <1>2, <1>3, <1>5, <1>6, OutsideStep DEF TypeOK

LEMMA SendStep ==
    ASSUME IInv, NEW c \in Client, NEW m \in {ChangeProto, Sens} \cup Requests, Send(c, m)
    PROVE  IInv'
  <1> USE DEF IInv
  <1>1. m \in Messages
    BY UnixServerAssumption DEF Messages
  <1>2. /\ sock' = [sock EXCEPT ![c] = Append(@, m)]
        /\ sent < MaxMessages /\ sent' \in {sent, sent + 1}
        /\ UNCHANGED <<pc, backlog, eof, list, ready, proto, lights, hist>>
    BY DEF Send
  <1>3. Append(sock[c], m) \in Seq(Messages) /\ Append(sock[c], m) # <<>>
    <2>1. sock[c] \in Seq(Messages)
      BY DEF TypeOK
    <2> QED  BY <1>1, <2>1, AppendProperties
  <1>4. sock' \in [Client -> Seq(Messages)]
    BY <1>2, <1>3 DEF TypeOK
  <1>5. sent' \in 0..MaxMessages
    BY <1>2, UnixServerAssumption DEF TypeOK
  <1>6. \A d \in Client : Ready(d) => Ready(d)'
    BY <1>2, <1>3 DEF Ready, TypeOK
  <1> QED  BY <1>2, <1>4, <1>5, <1>6, OutsideStep DEF TypeOK, ListedOnce

LEMMA CloseStep ==
    ASSUME IInv, NEW c \in Client, Close(c)
    PROVE  IInv'
  <1> USE DEF IInv
  <1>1. /\ eof' = [eof EXCEPT ![c] = TRUE]
        /\ UNCHANGED <<pc, backlog, sock, sent, list, ready, proto, lights, hist>>
    BY DEF Close
  <1>2. eof' \in [Client -> BOOLEAN]
    BY <1>1 DEF TypeOK
  <1>3. \A d \in Client : Ready(d) => Ready(d)'
    BY <1>1 DEF Ready, TypeOK
  <1> QED  BY <1>1, <1>2, <1>3, OutsideStep DEF TypeOK, ListedOnce

(* The pass ends, or the turn of the main loop does.                       *)
LEMMA PassEnds ==
    ASSUME IInv, pc' \in {"select", "devices", "undefined"},
           UNCHANGED <<env, list, ready, proto, lights, hist>>,
           pc' # "undefined" => pc # "undefined"
    PROVE  IInv'
  <1> USE DEF IInv
  <1>1. /\ client_list' = client_list /\ client_iter' = client_iter
        /\ citer' = citer /\ rset' = rset /\ lready' = lready /\ stale' = stale
        /\ proto' = proto /\ led' = led /\ serial' = serial /\ opened' = opened /\ lit' = lit
        /\ served' = served /\ restarted' = restarted /\ lost' = lost
        /\ Listed' = Listed /\ backlog' = backlog /\ sock' = sock /\ eof' = eof /\ sent' = sent
    BY DEF env, list, ready, lights, hist, Listed, Range_
  <1>2. TypeOK'
    BY <1>1 DEF TypeOK
  <1>3. LedsFollowClients'
    BY <1>1 DEF LedsFollowClients, Wanted
  <1>4. ListedOnce'
    BY <1>1 DEF ListedOnce, Distinct
  <1>5. ReportStands' /\ PassIsOnCourse' /\ NobodyIsPassed'
    BY DEF ReportStands, PassIsOnCourse, NobodyIsPassed
  <1> QED  BY <1>2, <1>3, <1>4, <1>5

(* A device is plugged or unplugged. *)
LEMMA DeviceStep ==
    ASSUME IInv, NEW d \in Device, OpenDevice(d) \/ LoseDevice(d)
    PROVE  IInv'
  <1> USE DEF IInv
  <1>1. /\ pc = "devices" /\ pc' = pc /\ client_list' = client_list /\ citer' = citer
        /\ client_iter' = first_client /\ led' = led /\ serial' = serial /\ Listed' = Listed
        /\ UNCHANGED <<env, ready, proto, hist>>
    BY DEF OpenDevice, LoseDevice, Listed, Range_
  <1>2. /\ lit' \in [Device -> BOOLEAN] /\ opened' \subseteq Device \cup Serial
        /\ \A e \in Device : lit'[e] = (e \in opened' /\ Wanted(led, client_list))
    <2>1. Shine
      BY <1>1, ShineInv
    <2>2. Wanted(led, client_list) \in BOOLEAN
      BY DEF Wanted
    <2>3. CASE OpenDevice(d)
      <3>1. lit' = [lit EXCEPT ![d] = Wanted(led, client_list)] /\ opened' = opened \cup {d}
        BY <2>3 DEF OpenDevice
      <3> QED  BY <2>1, <2>2, <3>1 DEF Shine, TypeOK
    <2>4. CASE LoseDevice(d)
      <3>1. lit' = [lit EXCEPT ![d] = FALSE] /\ opened' = opened \ {d}
        BY <2>4 DEF LoseDevice
      <3> QED  BY <2>1, <2>2, <3>1 DEF Shine, TypeOK
    <2> QED  BY <2>3, <2>4
  <1>3. TypeOK'
    BY <1>1, <1>2, FirstClient DEF TypeOK, env, ready, hist
  <1>4. LedsFollowClients'
    BY <1>1, <1>2 DEF LedsFollowClients, Wanted
  <1>5. ListedOnce'
    BY <1>1 DEF ListedOnce, Distinct, env
  <1>6. ReportStands' /\ PassIsOnCourse' /\ NobodyIsPassed'
    BY <1>1 DEF ReportStands, PassIsOnCourse, NobodyIsPassed
  <1> QED  BY <1>3, <1>4, <1>5, <1>6

LEMMA SelectStep ==
    ASSUME IInv, Select
    PROVE  IInv'
  <1> USE DEF IInv
  <1>1. /\ pc = "select" /\ pc' \in {"uevents", "reload"}
        /\ rset' = {c \in Listed : sock[c] # <<>> \/ eof[c]} /\ lready' = (backlog # <<>>)
        /\ stale' \in BOOLEAN
        /\ UNCHANGED <<backlog, sock, eof, list, proto, lights, hist>>
    BY DEF Select, Wake
  <1>2. sent' \in 0..MaxMessages
    <2>1. \/ sent' = sent
          \/ sent < MaxMessages /\ sent' = sent + 1
      BY DEF Select, Wake
    <2> QED  BY <2>1, UnixServerAssumption DEF TypeOK
  <1>3. TypeOK'
    <2>1. rset' \subseteq Client
      BY <1>1, ListedClients DEF TypeOK
    <2>2. lready' \in BOOLEAN
      BY <1>1
    <2> QED  BY <1>1, <1>2, <2>1, <2>2 DEF TypeOK, list, lights, hist
  <1>4. LedsFollowClients'
    BY <1>1 DEF LedsFollowClients, Wanted, list, lights
  <1>5. ListedOnce'
    BY <1>1 DEF ListedOnce, Distinct, Listed, list
  <1>6. ReportStands'
    BY <1>1 DEF ReportStands, Ready, Listed, list
  <1>7. PassIsOnCourse' /\ NobodyIsPassed'
    BY <1>1 DEF PassIsOnCourse, NobodyIsPassed
  <1> QED  BY <1>3, <1>4, <1>5, <1>6, <1>7

LEMMA ReloadStep ==
    ASSUME IInv, NEW mode \in LedModes, NEW path \in Serial \cup {None},
           NEW outcome \in Outcomes, Reload(mode, path, outcome)
    PROVE  IInv'
  <1> USE DEF IInv
  <1>1. /\ pc = "reload" /\ pc' = "uevents" /\ cfg_changed(mode, path, outcome)
        /\ stale' = (stale /\ path # serial /\ outcome # "opened")
        /\ UNCHANGED <<env, list, rset, lready, proto, hist>>
    BY DEF Reload
  <1>2. /\ Shine' /\ led' \in LedModes /\ serial' \in Serial \cup {None}
        /\ opened' \subseteq Device \cup Serial
    BY <1>1, ShineInv, CfgChanged DEF list
  <1>3. TypeOK'
    <2>1. stale' \in BOOLEAN
      BY <1>1
    <2> QED  BY <1>1, <1>2, <2>1 DEF TypeOK, Shine, env, list, hist
  <1>4. LedsFollowClients'
    BY <1>2 DEF LedsFollowClients, Shine, Wanted
  <1>5. ListedOnce'
    BY <1>1 DEF ListedOnce, Distinct, Listed, list, env
  <1>6. ReportStands'
    BY <1>1 DEF ReportStands, Ready, Listed, list, env
  <1>7. PassIsOnCourse' /\ NobodyIsPassed'
    BY <1>1 DEF PassIsOnCourse, NobodyIsPassed
  <1> QED  BY <1>3, <1>4, <1>5, <1>6, <1>7

LEMMA HeadProperties ==
    ASSUME NEW l \in Seq(Client), l # <<>>
    PROVE  /\ 1 \in 1..Len(l) /\ l[1] = Head(l) /\ Head(l) \in Client /\ Head(l) \in Range_(l)
           /\ Tail(l) \in Seq(Client) /\ Len(Tail(l)) = Len(l) - 1
           /\ \A i \in 1..Len(l) - 1 : Tail(l)[i] = l[i + 1]
  BY HeadTailProperties DEF Range_

(* A connection that is accepted waits no longer. *)
LEMMA TailProperties ==
    ASSUME NEW l \in Seq(Client), l # <<>>, Distinct(l)
    PROVE  Distinct(Tail(l)) /\ Range_(Tail(l)) \subseteq Range_(l) \ {Head(l)}
  <1>1. /\ 1 \in 1..Len(l) /\ l[1] = Head(l)
        /\ Tail(l) \in Seq(Client) /\ Len(Tail(l)) = Len(l) - 1
        /\ \A i \in 1..Len(l) - 1 : Tail(l)[i] = l[i + 1]
    BY HeadProperties
  <1>2. DOMAIN l = 1..Len(l) /\ DOMAIN Tail(l) = 1..Len(l) - 1
    BY <1>1
  <1>3. \A i \in 1..Len(l) - 1 : i + 1 \in 1..Len(l) /\ i + 1 # 1
    OBVIOUS
  <1>4. Distinct(Tail(l))
    <2> SUFFICES ASSUME NEW i \in 1..Len(l) - 1, NEW j \in 1..Len(l) - 1, l[i + 1] = l[j + 1]
                 PROVE  i = j
      BY <1>1, <1>2 DEF Distinct
    <2>1. i + 1 = j + 1
      BY <1>2, <1>3 DEF Distinct
    <2> QED  BY <2>1
  <1>5. \A i \in 1..Len(l) - 1 : Tail(l)[i] \in Range_(l) \ {Head(l)}
    BY <1>1, <1>2, <1>3 DEF Distinct, Range_
  <1> QED  BY <1>2, <1>4, <1>5 DEF Range_

(* A pass begins at the head. *)
LEMMA StartPassStep ==
    ASSUME IInv, StartPass
    PROVE  IInv'
  <1> USE DEF IInv
  <1>1. /\ pc = "uevents" /\ pc' = "loop" /\ served' = {} /\ restarted' = FALSE
        /\ client_iter' = (IF client_list' = <<>> THEN None ELSE Head(client_list'))
        /\ citer' = client_iter'
        /\ sock' = sock /\ eof' = eof /\ sent' = sent /\ lready' = lready /\ stale' = stale
        /\ proto' = proto /\ led' = led /\ serial' = serial /\ opened' = opened /\ lost' = lost
    BY DEF StartPass
  <1>2. Shine
    BY <1>1, ShineInv
  <1>3. /\ client_list' \in Seq(Client) /\ backlog' \in Seq(Client) /\ ListedOnce'
        /\ rset' \subseteq Listed' /\ Shine' /\ (~ (stale /\ lready) => rset' = rset)
    <2>1. CASE lready
      <3> DEFINE c == Head(backlog)
      <3>1. /\ add_client(c) /\ backlog' = Tail(backlog)
            /\ rset' \in IF stale THEN {rset, rset \cup {c}} ELSE {rset}
        BY <2>1 DEF StartPass
      <3>2. backlog # <<>>
        BY <1>1, <2>1 DEF ReportStands
      <3>3. /\ c \in Client /\ c \in Range_(backlog) /\ backlog' \in Seq(Client)
            /\ Distinct(backlog') /\ Range_(backlog') \subseteq Range_(backlog) \ {c}
        BY <3>1, <3>2, HeadProperties, TailProperties DEF TypeOK, ListedOnce
      <3>4. client_list' = <<c>> \o client_list
        BY <3>1 DEF add_client
      <3>5. c \in Client \ Listed
        BY <3>3 DEF ListedOnce
      <3>6. /\ client_list' \in Seq(Client) /\ Distinct(client_list')
            /\ Listed' = Listed \cup {c}
        BY <3>4, <3>5, PrependProperties DEF TypeOK, ListedOnce, Listed
      <3>7. ListedOnce'
        BY <3>3, <3>6 DEF ListedOnce
      <3>8. Shine'
        BY <1>1, <1>2, <3>1, <3>3, AddLeds DEF TypeOK
      <3>9. rset' \subseteq Listed'
        BY <1>1, <3>1, <3>6 DEF ReportStands
      <3> QED  BY <2>1, <3>1, <3>3, <3>6, <3>7, <3>8, <3>9
    <2>2. CASE ~ lready
      <3>1. client_list' = client_list /\ lit' = lit /\ backlog' = backlog /\ rset' = rset
        BY <2>2 DEF StartPass
      <3>2. Listed' = Listed
        BY <3>1 DEF Listed, Range_
      <3> QED  BY <1>1, <1>2, <3>1, <3>2 DEF TypeOK, ListedOnce, Distinct, Shine, Wanted, ReportStands
    <2> QED  BY <2>1, <2>2
  <1>4. /\ client_iter' \in Client \cup {None}
        /\ client_list' # <<>> => /\ 1 \in 1..Len(client_list') /\ client_iter' = client_list'[1]
                                  /\ client_iter' \in Listed'
    BY <1>1, <1>3, HeadProperties DEF Listed
  <1>5. TypeOK'
    <2>1. rset' \subseteq Client
      BY <1>3 DEF Listed, Range_
    <2> QED  BY <1>1, <1>3, <1>4, <2>1 DEF TypeOK, Shine
  <1>6. LedsFollowClients'
    BY <1>3 DEF LedsFollowClients, Shine, Wanted
  <1>7. ReportStands'
    BY <1>1, <1>3 DEF ReportStands, Ready
  <1>8. Len(client_list') \in Nat /\ 1 \in 1..Len(client_list') + 1 /\ IsAt(citer, 1)' /\ IsAt(client_iter, 1)'
    <2>1. Len(client_list') \in Nat /\ (client_list' = <<>> <=> Len(client_list') = 0)
      BY <1>3
    <2> QED  BY <1>1, <1>4, <2>1 DEF IsAt
  <1>9. PassIsOnCourse'
    BY <1>1, <1>8 DEF PassIsOnCourse
  <1>10. NobodyIsPassed'
    <2>1. Live(citer)'
      BY <1>1, <1>4 DEF Live
    <2>2. ASSUME NEW c \in rset'
          PROVE  /\ citer' # None
                 /\ c = citer' \/ \E j \in 2..Len(client_list') : client_list'[j] = c
      <3>1. PICK j \in 1..Len(client_list') : client_list'[j] = c
        BY <1>3 DEF Listed, Range_
      <3>2. client_list' # <<>>
        BY <3>1
      <3>3. citer' \in Client /\ citer' = client_list'[1]
        BY <1>1, <1>3, <1>4, <3>2
      <3> QED  BY <3>1, <3>3, NoneIsNoClient
    <2> QED  BY <1>1, <1>8, <2>1, <2>2 DEF NobodyIsPassed
  <1> QED  BY <1>3, <1>5, <1>6, <1>7, <1>9, <1>10

(* One turn of the loop asks for the next client before it serves this one. *)
LEMMA NextTurn ==
    ASSUME IInv, pc = "loop", Live(citer), Live(client_iter)
    PROVE  /\ next_client \in Client \cup {None} /\ Live(next_client)
           /\ \E k \in 1..Len(client_list) + 1 :
                 /\ IsAt(next_client, k)
                 /\ \A c \in (rset \ served) \ {citer} :
                        /\ next_client # None
                        /\ c = next_client \/ \E j \in k + 1..Len(client_list) : client_list[j] = c
           /\ citer # None /\ ~ restarted =>
                  \E k \in 1..Len(client_list) + 1 :
                      /\ IsAt(next_client, k)
                      /\ \A i \in k..Len(client_list) : client_list[i] \notin served \cup {citer}
  <1> USE DEF IInv
  <1> DEFINE n == Len(client_list)
  <1>0. /\ client_list \in Seq(Client) /\ Distinct(client_list) /\ n \in Nat
        /\ DOMAIN client_list = 1..n
    BY DEF TypeOK, ListedOnce
  <1>1. PICK k \in 1..n + 1 :
           /\ IsAt(client_iter, k)
           /\ \A c \in rset \ served :
                  /\ citer # None
                  /\ c = citer \/ \E j \in k + 1..n : client_list[j] = c
    BY DEF NobodyIsPassed
  <1>2. next_client \in Client \cup {None} /\ Live(next_client)
    BY <1>0, <1>1, NextProperties
  <1>3. \E l \in 1..n + 1 :
           /\ IsAt(next_client, l)
           /\ \A c \in (rset \ served) \ {citer} :
                  /\ next_client # None
                  /\ c = next_client \/ \E j \in l + 1..n : client_list[j] = c
    <2>1. CASE k <= n
      <3>1. IsAt(next_client, k + 1) /\ k + 1 \in 1..n + 1
        BY <1>0, <1>1, <2>1, NextProperties
      <3>2. ASSUME NEW c \in (rset \ served) \ {citer}
            PROVE  /\ next_client # None
                   /\ c = next_client \/ \E j \in k + 1 + 1..n : client_list[j] = c
        <4>1. PICK j \in k + 1..n : client_list[j] = c
          BY <1>1, <3>2
        <4>2. k + 1 <= n /\ j \in 1..n /\ k + 1 \in 1..n
          BY <1>0, <4>1
        <4>3. next_client = client_list[k + 1] /\ client_list[k + 1] \in Client
          BY <1>0, <3>1, <4>2 DEF IsAt
        <4>4. j = k + 1 \/ j \in k + 1 + 1..n
          BY <1>0, <4>1
        <4> QED  BY <4>1, <4>3, <4>4, NoneIsNoClient
      <3> QED  BY <3>1, <3>2
    <2>2. CASE k = n + 1
      <3>1. \A c \in (rset \ served) \ {citer} : FALSE
        BY <1>0, <1>1, <2>2
      <3>2. next_client = None
        BY <1>0, <1>1, <2>2, NextProperties
      <3>3. IsAt(next_client, n + 1) /\ n + 1 \in 1..n + 1
        BY <1>0, <3>2 DEF IsAt
      <3> QED  BY <3>1, <3>3
    <2> QED  BY <1>0, <1>1, <2>1, <2>2
  <1>4. ASSUME citer # None, ~ restarted
        PROVE  \E l \in 1..n + 1 :
                   /\ IsAt(next_client, l)
                   /\ \A i \in l..n : client_list[i] \notin served \cup {citer}
    <2>1. PICK l \in 1..n + 1 :
             IsAt(citer, l) /\ \A i \in l..n : client_list[i] \notin served
      BY <1>4 DEF PassIsOnCourse
    <2>2. citer = client_iter
      BY <1>4 DEF PassIsOnCourse
    <2>3. l \in 1..n /\ citer = client_list[l]
      BY <1>0, <1>4, <2>1 DEF IsAt
    <2>4. IsAt(next_client, l + 1) /\ l + 1 \in 1..n + 1
      BY <1>0, <2>1, <2>2, <2>3, NextProperties
    <2>5. \A i \in l + 1..n : i \in l..n /\ i \in 1..n /\ i # l
      BY <2>3
    <2>6. \A i \in l + 1..n : client_list[i] # citer
      BY <1>0, <2>3, <2>5 DEF Distinct
    <2> QED  BY <2>1, <2>4, <2>5, <2>6
  <1> QED  BY <1>2, <1>3, <1>4

LEMMA SkipStep ==
    ASSUME IInv, Skip
    PROVE  IInv'
  <1> USE DEF IInv
  <1>1. /\ pc = "loop" /\ pc' = pc /\ citer # None /\ Live(citer) /\ Live(client_iter)
        /\ citer \notin rset /\ client_iter' = next_client /\ citer' = next_client
        /\ client_list' = client_list
        /\ UNCHANGED <<env, ready, proto, lights, hist>>
    BY DEF Skip
  <1>2. /\ rset' = rset /\ served' = served /\ restarted' = restarted /\ Listed' = Listed
        /\ backlog' = backlog /\ sock' = sock /\ eof' = eof /\ stale' = stale /\ lready' = lready
        /\ lost' = lost
    BY <1>1 DEF ready, hist, env, Listed, Range_
  <1>3. TypeOK'
    BY <1>1, NextTurn DEF TypeOK, env, ready, lights, hist
  <1>4. LedsFollowClients'
    BY <1>1 DEF LedsFollowClients, Wanted, lights
  <1>5. ListedOnce' /\ ReportStands'
    BY <1>1, <1>2 DEF ListedOnce, Distinct, ReportStands, Ready
  <1>6. PassIsOnCourse'
    BY <1>1, <1>2, NextTurn DEF PassIsOnCourse, IsAt
  <1>7. NobodyIsPassed'
    <2>1. Live(citer)'
      BY <1>1, <1>2, NextTurn DEF Live
    <2>2. rset' \ served' = (rset \ served) \ {citer}
      BY <1>1, <1>2
    <2> QED  BY <1>1, <2>1, <2>2, NextTurn DEF NobodyIsPassed, IsAt
  <1> QED  BY <1>3, <1>4, <1>5, <1>6, <1>7

(* A client that is served, and whose request may move the iterator.       *)
LEMMA ServeStep ==
    ASSUME IInv, NEW outcome \in Outcomes, Serve(outcome)
    PROVE  IInv'
  <1> USE DEF IInv
  <1> DEFINE m == Head(sock[citer])
             rewinds == proto[citer] = 1 /\ Rewinds(LedAfter(m), SerialAfter(m), outcome)
  <1>1. /\ pc = "loop" /\ pc' = pc /\ citer \in rset /\ Live(citer) /\ Live(client_iter)
        /\ sock[citer] # <<>> /\ sock' = [sock EXCEPT ![citer] = Tail(@)]
        /\ citer' = next_client
        /\ client_iter' = IF rewinds THEN first_client ELSE next_client
        /\ restarted' = (restarted \/ rewinds) /\ served' = served \cup {citer}
        /\ proto' = IF m = ChangeProto THEN [proto EXCEPT ![citer] = NewProto(m.version)] ELSE proto
        /\ IF proto[citer] = 1 THEN handle_request(m, outcome) ELSE UNCHANGED lights
        /\ UNCHANGED <<backlog, eof, sent, client_list, ready, lost>>
    BY DEF Serve
  <1>2. /\ citer \in Client /\ citer # None /\ sock[citer] \in Seq(Messages)
        /\ client_list \in Seq(Client)
    BY <1>1, NoneIsNoClient DEF TypeOK
  <1>3. m \in Messages /\ Tail(sock[citer]) \in Seq(Messages)
    <2> HIDE DEF IInv
    <2> QED  BY <1>1, <1>2, HeadTailProperties
  <1>4. /\ rset' = rset /\ Listed' = Listed /\ backlog' = backlog /\ client_list' = client_list
        /\ stale' = stale /\ lready' = lready /\ eof' = eof
    BY <1>1 DEF ready, Listed, Range_
  <1>5. LedAfter(m) \in LedModes /\ SerialAfter(m) \in Serial \cup {None}
    BY <1>3 DEF LedAfter, SerialAfter, Messages, AllRequests, TypeOK, Plain, Sens, ChangeProto
  <1>6. /\ Shine' /\ led' \in LedModes /\ serial' \in Serial \cup {None}
        /\ opened' \subseteq Device \cup Serial
    <2>1. Shine
      BY <1>1, ShineInv
    <2>2. CASE proto[citer] = 1
      <3>1. cfg_changed(LedAfter(m), SerialAfter(m), outcome)
        BY <1>1, <2>2 DEF handle_request
      <3> HIDE DEF m
      <3> QED  BY <1>4, <1>5, <2>1, <3>1, CfgChanged
    <2>3. CASE proto[citer] # 1
      BY <1>1, <1>4, <2>1, <2>3 DEF lights, Shine, Wanted, TypeOK
    <2> QED  BY <2>2, <2>3
  <1>7. proto' \in [Client -> {0, 1}]
    BY <1>1 DEF TypeOK, NewProto, ChangeProto
  <1>8. first_client \in Client \cup {None} /\ IsAt(first_client, 1)
    BY <1>2, FirstClient
  <1> HIDE DEF m, rewinds
  <1>9. TypeOK'
    <2>1. sock' \in [Client -> Seq(Messages)]
      BY <1>1, <1>3 DEF TypeOK
    <2>2. restarted' \in BOOLEAN
      BY <1>1, Zenon DEF TypeOK, rewinds
    <2>3. citer' \in Client \cup {None} /\ client_iter' \in Client \cup {None}
      BY <1>1, <1>8, NextTurn
    <2>4. served' \subseteq Client
      BY <1>1, <1>2 DEF TypeOK
    <2> QED  BY <1>1, <1>4, <1>6, <1>7, <2>1, <2>2, <2>3, <2>4 DEF TypeOK, Shine
  <1>10. LedsFollowClients'
    BY <1>6 DEF LedsFollowClients, Shine, Wanted
  <1>11. ListedOnce'
    BY <1>4 DEF ListedOnce, Distinct
  <1>12. ReportStands'
    <2>1. \A c \in Client : c # citer => sock'[c] = sock[c]
      BY <1>1 DEF TypeOK
    <2> QED  BY <1>1, <1>4, <2>1 DEF ReportStands, Ready, TypeOK
  <1>13. PassIsOnCourse'
    <2> SUFFICES ASSUME ~ restarted' PROVE /\ client_iter' = citer'
                     /\ \E k \in 1..Len(client_list) + 1 :
                            /\ IsAt(next_client, k)
                            /\ \A i \in k..Len(client_list) : client_list[i] \notin served \cup {citer}
      BY <1>1, <1>4 DEF PassIsOnCourse, IsAt
    <2>1. ~ restarted /\ ~ rewinds
      BY <1>1, Zenon
    <2>2. client_iter' = citer'
      BY <1>1, <2>1
    <2> QED  BY <1>1, <1>2, <2>1, <2>2, NextTurn
  <1>14. NobodyIsPassed'
    <2>1. Live(citer)'
      BY <1>1, <1>4, NextTurn DEF Live
    <2>2. rset' \ served' = (rset \ served) \ {citer}
      BY <1>1, <1>4
    <2>3. PICK k \in 1..Len(client_list) + 1 :
             /\ IsAt(next_client, k)
             /\ \A c \in (rset \ served) \ {citer} :
                    /\ next_client # None
                    /\ c = next_client \/ \E j \in k + 1..Len(client_list) : client_list[j] = c
      BY <1>1, NextTurn
    <2>4. CASE ~ rewinds
      <3>1. client_iter' = next_client
        BY <1>1, <2>4
      <3> QED  BY <1>1, <1>4, <2>1, <2>2, <2>3, <3>1 DEF NobodyIsPassed, IsAt
    <2>5. CASE rewinds
      <3>1. client_iter' = first_client
        BY <1>1, <2>5
      <3>2. \A j \in k + 1..Len(client_list) : j \in 2..Len(client_list)
        BY <2>3
      <3>3. 1 \in 1..Len(client_list) + 1 /\ IsAt(client_iter, 1)'
        BY <1>2, <1>4, <1>8, <3>1 DEF IsAt
      <3>4. \A c \in rset' \ served' :
               /\ citer' # None
               /\ c = citer' \/ \E j \in 1 + 1..Len(client_list') : client_list'[j] = c
        BY <1>1, <1>4, <2>2, <2>3, <3>2
      <3> QED  BY <1>4, <2>1, <3>3, <3>4 DEF NobodyIsPassed
    <2> QED  BY <2>4, <2>5
  <1> QED  BY <1>9, <1>10, <1>11, <1>12, <1>13, <1>14

(* A client goes: the iterators are behind it already, or, if a request    *)
(* moved them, one of them may be at it.                                   *)
LEMMA DisconnectStep ==
    ASSUME IInv, Disconnect
    PROVE  IInv'
  <1> USE DEF IInv
  <1> DEFINE n == Len(client_list)
             m == Place(citer)
             t == Unlinked(citer)
  <1>1. /\ pc = "loop" /\ pc' = pc /\ citer \in rset /\ Live(citer) /\ Live(client_iter)
        /\ citer' = next_client /\ client_iter' = next_client
        /\ remove_client(citer)
        /\ served' = served \cup {citer} /\ eof' = [eof EXCEPT ![citer] = FALSE]
        /\ proto' = [proto EXCEPT ![citer] = 0]
        /\ lost' = IF eof[citer] THEN lost ELSE lost \cup {citer}
        /\ UNCHANGED <<backlog, sock, sent, ready, led, serial, opened, restarted>>
    BY DEF Disconnect
  <1>2. citer \in Client /\ citer \in Listed /\ client_list \in Seq(Client) /\ Distinct(client_list)
    BY <1>1, NoneIsNoClient DEF TypeOK, Live, ListedOnce
  <1>3. /\ m \in 1..n /\ client_list[m] = citer /\ n \in Nat /\ DOMAIN client_list = 1..n
        /\ client_list # <<>>
    BY <1>2, PlaceProperties
  <1>4. /\ client_list' = t /\ t \in Seq(Client) /\ Distinct(t) /\ Range_(t) = Listed \ {citer}
        /\ Len(t) = n - 1 /\ DOMAIN t = 1..n - 1
        /\ \A j \in 1..n - 1 : t[j] = IF j < m THEN client_list[j] ELSE client_list[j + 1]
    BY <1>1, <1>2, UnlinkedProperties DEF remove_client
  <1>5. /\ rset' = rset /\ backlog' = backlog /\ sock' = sock /\ stale' = stale
        /\ lready' = lready /\ Listed' = Listed \ {citer}
    BY <1>1, <1>4 DEF ready, Listed
  <1>6. Shine'
    <2>1. Shine
      BY <1>1, ShineInv
    <2> QED  BY <1>1, <1>2, <1>3, <2>1, RemoveLeds
  <1> HIDE DEF m, t
  <1>7. TypeOK'
    <2>1. eof' \in [Client -> BOOLEAN] /\ proto' \in [Client -> {0, 1}]
      BY <1>1 DEF TypeOK
    <2>2. citer' \in Client \cup {None} /\ client_iter' \in Client \cup {None}
      BY <1>1, NextTurn
    <2>3. served' \subseteq Client /\ lost' \subseteq Client
      BY <1>1, <1>2 DEF TypeOK
    <2> QED  BY <1>1, <1>4, <1>5, <1>6, <2>1, <2>2, <2>3 DEF TypeOK, Shine
  <1>8. LedsFollowClients'
    BY <1>6 DEF LedsFollowClients, Shine, Wanted
  <1>9. ListedOnce'
    BY <1>4, <1>5 DEF ListedOnce, Distinct
  <1>10. ReportStands'
    <2>1. \A c \in Client : c # citer => eof'[c] = eof[c]
      BY <1>1 DEF TypeOK
    <2> QED  BY <1>1, <1>5, <2>1 DEF ReportStands, Ready, TypeOK
  (* The place l of the old list is this one of the new list. *)
  <1> DEFINE Moved(l) == IF l < m THEN l ELSE l - 1
  <1>11. ASSUME NEW l \in 1..n, l # m
         PROVE  Moved(l) \in 1..n - 1 /\ t[Moved(l)] = client_list[l]
    <2>1. Moved(l) \in 1..n - 1
      BY <1>3, <1>11
    <2>2. CASE l < m
      BY <1>3, <1>4, <2>1, <2>2
    <2>3. CASE ~ (l < m)
      <3>1. ~ (l - 1 < m) /\ l - 1 + 1 = l
        BY <1>3, <1>11, <2>3
      <3> QED  BY <1>4, <2>1, <2>3, <3>1
    <2> QED  BY <2>1, <2>2, <2>3
  <1>12. ASSUME NEW l \in 1..n + 1, l # m, IsAt(next_client, l), NEW p, p = Moved(l)
         PROVE  p \in 1..Len(client_list') + 1 /\ IsAt(citer, p)' /\ IsAt(client_iter, p)'
    <2>1. CASE l = n + 1
      <3>1. next_client = None
        <4>1. ~ (l <= n)
          BY <1>3, <2>1
        <4> QED  BY <1>12, <4>1 DEF IsAt
      <3>2. ~ (l < m)
        BY <1>3, <2>1
      <3>3. p = n
        BY <1>3, <1>12, <2>1, <3>2
      <3>4. p \in 1..n - 1 + 1 /\ ~ (p <= n - 1)
        BY <1>3, <3>3
      <3> QED  BY <1>1, <1>4, <3>1, <3>4 DEF IsAt
    <2>2. CASE l # n + 1
      <3>1. l \in 1..n /\ next_client = client_list[l]
        BY <1>3, <1>12, <2>2 DEF IsAt
      <3>2. p \in 1..n - 1 /\ t[p] = client_list[l]
        BY <1>11, <1>12, <3>1
      <3>3. p \in 1..n - 1 + 1 /\ p <= n - 1
        BY <1>3, <3>2
      <3> HIDE DEF Moved
      <3> QED  BY <1>1, <1>4, <3>1, <3>2, <3>3 DEF IsAt
    <2> QED  BY <2>1, <2>2
  <1>13. PassIsOnCourse'
    <2> SUFFICES ASSUME ~ restarted
                 PROVE  \E p \in 1..Len(client_list') + 1 :
                           /\ IsAt(citer, p)'
                           /\ \A i \in p..Len(client_list') : client_list'[i] \notin served'
      BY <1>1 DEF PassIsOnCourse
    <2>1. PICK l \in 1..n + 1 :
             /\ IsAt(next_client, l)
             /\ \A i \in l..n : client_list[i] \notin served \cup {citer}
      BY <1>1, <1>2, NoneIsNoClient, NextTurn
    <2>2. l > m
      BY <1>3, <2>1
    <2>3. Moved(l) = l - 1
      BY <1>3, <2>1, <2>2
    <2>4. ASSUME NEW i \in l - 1..n - 1 PROVE t[i] \notin served'
      <3>1. i \in 1..n - 1 /\ ~ (i < m) /\ i + 1 \in l..n
        BY <1>3, <2>2
      <3> QED  BY <1>1, <1>4, <2>1, <3>1
    <2>5. l - 1 \in 1..Len(client_list') + 1 /\ IsAt(citer, l - 1)'
      <3>1. l # m /\ l - 1 = Moved(l)
        BY <1>3, <2>2, <2>3
      <3> HIDE DEF Moved
      <3> QED  BY <1>12, <2>1, <3>1
    <2> QED  BY <1>4, <2>4, <2>5
  <1>14. NobodyIsPassed'
    <2>1. CASE next_client = citer
      <3>1. ~ Live(citer)'
        BY <1>1, <1>2, <1>5, <2>1, NoneIsNoClient DEF Live
      <3> QED  BY <1>1, <3>1 DEF NobodyIsPassed
    <2>2. CASE next_client # citer
      <3>1. Live(citer)'
        BY <1>1, <1>5, <2>2, NextTurn DEF Live
      <3>2. PICK l \in 1..n + 1 :
               /\ IsAt(next_client, l)
               /\ \A c \in (rset \ served) \ {citer} :
                      /\ next_client # None
                      /\ c = next_client \/ \E j \in l + 1..n : client_list[j] = c
        BY <1>1, NextTurn
      <3>3. l # m
        BY <1>3, <2>2, <3>2 DEF IsAt
      <3>4. PICK p \in 1..Len(client_list') + 1 : p = Moved(l) /\ IsAt(client_iter, p)'
        BY <1>12, <3>2, <3>3
      <3>5. ASSUME NEW c \in rset' \ served'
            PROVE  /\ citer' # None
                   /\ \/ c = citer'
                      \/ \E j \in p + 1..Len(client_list') : client_list'[j] = c
        <4>1. c \in (rset \ served) \ {citer}
          BY <1>1, <1>5, <3>5
        <4>2. next_client # None
          BY <3>2, <4>1
        <4>3. CASE c = next_client
          BY <1>1, <4>2, <4>3
        <4>4. CASE \E j \in l + 1..n : client_list[j] = c
          <5>1. PICK j \in l + 1..n : client_list[j] = c
            BY <4>4
          <5>2. j \in 1..n /\ j # m
            BY <1>3, <4>1, <5>1
          <5>3. Moved(j) \in p + 1..n - 1
            BY <1>3, <3>2, <3>3, <3>4, <5>1, <5>2
          <5>4. t[Moved(j)] = c
            BY <1>11, <5>1, <5>2
          <5> HIDE DEF Moved
          <5> QED  BY <1>1, <1>4, <4>2, <5>3, <5>4
        <4> QED  BY <3>2, <4>1, <4>3, <4>4
      <3> HIDE DEF Moved
      <3> QED  BY <3>1, <3>4, <3>5 DEF NobodyIsPassed
    <2> QED  BY <2>1, <2>2
  <1> QED  BY <1>7, <1>8, <1>9, <1>10, <1>13, <1>14

LEMMA NextIInv == IInv /\ [Next]_vars => IInv'
  <1> SUFFICES ASSUME IInv, [Next]_vars PROVE IInv'
    OBVIOUS
  <1>1. CASE Select
    BY <1>1, SelectStep
  <1>2. CASE StartPass
    BY <1>2, StartPassStep
  <1>3. CASE Skip
    BY <1>3, SkipStep
  <1>4. ASSUME NEW o \in Outcomes, Serve(o) PROVE IInv'
    BY <1>4, ServeStep
  <1>5. ASSUME NEW mode \in LedModes, NEW path \in Serial \cup {None}, NEW o \in Outcomes,
               Reload(mode, path, o)
        PROVE  IInv'
    BY <1>5, ReloadStep
  <1>6. CASE Disconnect
    BY <1>6, DisconnectStep
  <1>7. CASE UseFreed \/ EndPass \/ EndDevices
    BY <1>7, PassEnds DEF UseFreed, EndPass, EndDevices
  <1>8. ASSUME NEW c \in Client, Connect(c) \/ Close(c) PROVE IInv'
    BY <1>8, ConnectStep, CloseStep
  <1>9. ASSUME NEW c \in Client, NEW m \in {ChangeProto, Sens} \cup Requests, Send(c, m) PROVE IInv'
    BY <1>9, SendStep
  <1>10. ASSUME NEW d \in Device, OpenDevice(d) \/ LoseDevice(d) PROVE IInv'
    BY <1>10, DeviceStep
  <1>11. CASE UNCHANGED vars
    <2>1. /\ UNCHANGED <<pc, list, ready, proto, lights, hist>>
          /\ backlog' = backlog /\ sock' = sock /\ eof' = eof /\ sent' = sent
      BY <1>11 DEF vars, env
    <2>2. /\ backlog' \in Seq(Client) /\ sock' \in [Client -> Seq(Messages)]
          /\ eof' \in [Client -> BOOLEAN] /\ sent' \in 0..MaxMessages
          /\ backlog # <<>> => backlog' # <<>>
      BY <2>1 DEF IInv, TypeOK
    <2>3. Distinct(backlog') /\ Listed \cap Range_(backlog') = {}
      BY <2>1 DEF IInv, ListedOnce
    <2>4. \A c \in Client : Ready(c) => Ready(c)'
      BY <2>1 DEF Ready
    <2> QED  BY <2>1, <2>2, <2>3, <2>4, OutsideStep
  <1> QED  BY <1>1, <1>2, <1>3, <1>4, <1>5, <1>6, <1>7, <1>8, <1>9, <1>10, <1>11
            DEF Next, Daemon, Others, Undefined
-----------------------------------------------------------------------------
(* The LEDs, the list, what select reported and where the iterators are:   *)
(* the inductive invariant of the loop of handle_uevents.                  *)
THEOREM Invariance == Spec => []IInv
  BY InitIInv, NextIInv, PTL DEF Spec

(* The LED of every open device is on exactly if cfg.led says so for the   *)
(* clients there are (client.c:47, client.c:81, spnavd.c:487).             *)
THEOREM LedsAlwaysRight == Spec => []LedsAreRight
  <1>1. IInv => LedsAreRight
    BY DEF IInv, LedsAreRight
  <1> QED  BY <1>1, Invariance, PTL

LEMMA CauseStep == IInv /\ [Next]_vars =>
    [lost' # lost \/ (pc # "undefined" /\ pc' = "undefined") => restarted \/ (stale /\ lready)]_vars
  <1> SUFFICES ASSUME IInv, Next, ~ restarted, ~ (stale /\ lready)
               PROVE  lost' = lost /\ (pc' = "undefined" => pc = "undefined")
    BY DEF vars
  <1> USE DEF IInv
  <1>1. CASE Disconnect
    <2>1. pc = "loop" /\ citer \in rset /\ Live(citer) /\ sock[citer] = <<>> /\ pc' = pc
      BY <1>1 DEF Disconnect
    <2>2. citer \in Listed /\ client_list \in Seq(Client)
      BY <2>1, NoneIsNoClient DEF Live, TypeOK
    <2>3. PICK k \in 1..Len(client_list) + 1 :
             IsAt(citer, k) /\ \A i \in k..Len(client_list) : client_list[i] \notin served
      BY <2>1 DEF PassIsOnCourse
    <2>4. citer # None
      BY <2>1, NoneIsNoClient DEF TypeOK
    <2>5. k \in 1..Len(client_list) /\ k \in k..Len(client_list) /\ citer = client_list[k]
      BY <2>2, <2>3, <2>4 DEF IsAt
    <2>6. citer \in rset \ served
      BY <2>1, <2>3, <2>5
    <2>7. eof[citer]
      BY <2>1, <2>6 DEF ReportStands, Ready
    <2> QED  BY <1>1, <2>1, <2>7 DEF Disconnect
  <1>2. CASE UseFreed
    <2>1. pc = "loop" /\ ~ (Live(citer) /\ Live(client_iter))
      BY <1>2 DEF UseFreed
    <2>2. client_iter = citer /\ \E k \in 1..Len(client_list) + 1 : IsAt(citer, k)
      BY <2>1 DEF PassIsOnCourse
    <2>3. Live(citer)
      BY <2>2 DEF IsAt, Live, Listed, Range_, TypeOK
    <2> QED  BY <2>1, <2>2, <2>3
  <1>3. CASE Select \/ StartPass \/ Skip \/ EndPass \/ EndDevices \/ Undefined
    BY <1>3 DEF Select, Wake, StartPass, Skip, EndPass, EndDevices, Undefined, vars, hist
  <1>4. ASSUME NEW o \in Outcomes, Serve(o) PROVE lost' = lost /\ pc' = pc
    BY <1>4 DEF Serve
  <1>5. ASSUME NEW mode \in LedModes, NEW path \in Serial \cup {None}, NEW o \in Outcomes,
               Reload(mode, path, o)
        PROVE  lost' = lost /\ pc' = "uevents"
    BY <1>5 DEF Reload, hist
  <1>6. CASE Others
    BY <1>6 DEF Others, Connect, Close, Send, OpenDevice, LoseDevice, hist
  <1> QED  BY <1>1, <1>2, <1>3, <1>4, <1>5, <1>6 DEF Next, Daemon

(* A client whose peer is there is disconnected, or a freed client used,   *)
(* only after a request moved the iterator in the pass, or if the new      *)
(* client has the descriptor of a device just closed (proto_unix.c:208).   *)
THEOREM HarmIsExplained == Spec => HarmHasCause
  BY Invariance, CauseStep, PTL DEF Spec, HarmHasCause

LEMMA AllServedStep == IInv /\ [Next]_vars =>
    [pc = "loop" /\ pc' = "devices" => rset \subseteq served]_vars
  <1> SUFFICES ASSUME IInv, Next, pc = "loop", pc' = "devices" PROVE rset \subseteq served
    BY DEF vars
  <1>1. EndPass
    BY DEF Next, Daemon, Others, Undefined, Select, StartPass, Skip, Serve, Reload, Disconnect,
           UseFreed, EndDevices, Connect, Close, Send, OpenDevice, LoseDevice
  <1>2. citer = None /\ Live(citer)
    BY <1>1 DEF EndPass, Live
  <1> QED  BY <1>2 DEF IInv, NobodyIsPassed

LEMMA ServedOnceStep == IInv /\ [Next]_vars =>
    [\A c \in Client : sock'[c] # sock[c] /\ Len(sock'[c]) < Len(sock[c])
         => c \notin served \/ restarted]_vars
  <1> SUFFICES ASSUME IInv, Next, NEW c \in Client, sock'[c] # sock[c],
                      Len(sock'[c]) < Len(sock[c]), ~ restarted
               PROVE  c \notin served
    BY DEF vars
  <1>1. ASSUME NEW o \in Outcomes, Serve(o) PROVE c \notin served
    <2>1. /\ pc = "loop" /\ citer \in rset /\ Live(citer)
          /\ sock' = [sock EXCEPT ![citer] = Tail(@)]
      BY <1>1 DEF Serve
    <2>2. c = citer /\ citer # None
      BY <2>1, NoneIsNoClient DEF IInv, TypeOK
    <2>3. PICK k \in 1..Len(client_list) + 1 :
             IsAt(citer, k) /\ \A i \in k..Len(client_list) : client_list[i] \notin served
      BY <2>1 DEF IInv, PassIsOnCourse
    <2>4. k \in k..Len(client_list) /\ citer = client_list[k]
      BY <2>2, <2>3 DEF IsAt, IInv, TypeOK
    <2> QED  BY <2>2, <2>3, <2>4
  <1>2. ASSUME NEW d \in Client, NEW m \in {ChangeProto, Sens} \cup Requests, Send(d, m)
        PROVE  FALSE
    <2>1. sock' = [sock EXCEPT ![d] = Append(@, m)] /\ sock[d] \in Seq(Messages) /\ m \in Messages
      BY <1>2, UnixServerAssumption DEF Send, IInv, TypeOK, Messages
    <2>2. Len(Append(sock[d], m)) = Len(sock[d]) + 1 /\ Len(sock[d]) \in Nat
      BY <2>1, AppendProperties
    <2>3. c = d /\ sock'[c] = Append(sock[d], m)
      BY <2>1 DEF IInv, TypeOK
    <2> QED  BY <2>2, <2>3
  <1>3. CASE \/ Select \/ StartPass \/ Skip \/ Disconnect \/ UseFreed \/ EndPass \/ EndDevices
             \/ Undefined
    BY <1>3 DEF Select, StartPass, Skip, Disconnect, UseFreed, EndPass, EndDevices, Undefined,
                vars, env
  <1>4. ASSUME NEW mode \in LedModes, NEW path \in Serial \cup {None}, NEW o \in Outcomes,
               Reload(mode, path, o)
        PROVE  FALSE
    BY <1>4 DEF Reload, env
  <1>5. ASSUME NEW d \in Client, Connect(d) \/ Close(d) PROVE FALSE
    BY <1>5 DEF Connect, Close
  <1>6. ASSUME NEW d \in Device, OpenDevice(d) \/ LoseDevice(d) PROVE FALSE
    BY <1>6 DEF OpenDevice, LoseDevice, env
  <1> QED  BY <1>1, <1>2, <1>3, <1>4, <1>5, <1>6 DEF Next, Daemon, Others

(* A pass serves every client select reported, none twice unless a request *)
(* moved the shared iterator (proto_unix.c:182).                           *)
THEOREM PassesAreFair == Spec => PassIsFair
  <1>1. Spec => EveryReadyClientServed
    BY Invariance, AllServedStep, PTL DEF Spec, EveryReadyClientServed
  <1>2. Spec => ServedOncePerPass
    BY Invariance, ServedOnceStep, PTL DEF Spec, ServedOncePerPass
  <1> QED  BY <1>1, <1>2, PTL DEF PassIsFair
=============================================================================
