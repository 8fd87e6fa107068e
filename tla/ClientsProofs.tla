----------------------------- MODULE ClientsProofs ----------------------------
(***************************************************************************)
(* What is proved of the daemon's two kinds of clients: of X11Clients, for *)
(* any number of clients and any amount of traffic with the X server, and  *)
(* of UnixProto, for any connections, requests, strings and sizes.         *)
(***************************************************************************)
EXTENDS X11Clients, UnixProto, SequenceTheorems, FiniteSetTheorems, TLAPS

Message == [type : {"app"}, win : Window] \cup [type : {"bad"}, win : X11Client]

(* What the variables hold that TypeOK does not mention. *)
MoreTypes ==
    /\ wire \in Seq(Message)
    /\ due \subseteq Client /\ got \in [Client -> Nat]

(* The server's answers are read while there is a connection only. *)
ReadsConnected == pc \in {"events", "flush", "xcall"} => dpy # "none"

(* The walk holds on to a freed client for the reasons of HarmHasCause. *)
CursorIsListed ==
    InWalk => citer \in Listed \cup {None} \/ upset \cap {"next", "lost", "signal"} # {}

(* How far a walk has come that nothing has disturbed. *)
Reached(k) ==
    /\ citer = IF k <= Len(client_list) THEN client_list[k] ELSE None
    /\ \A i \in 1..Len(client_list) : got[client_list[i]] = IF i < k /\ newest THEN 1 ELSE 0

WalkIsOnCourse ==
    InWalk /\ upset = {} =>
        /\ due = Listed /\ client_iter = citer
        /\ \E k \in 1..Len(client_list) + 1 : Reached(k)

IInv == /\ TypeOK /\ MoreTypes /\ NoClientsOfNoServer /\ ReadsConnected
        /\ CursorIsListed /\ WalkIsOnCourse /\ HarmHasCause
-----------------------------------------------------------------------------
(* How many of a set of places come up to one of them. *)
LEMMA Counting ==
    ASSUME NEW n \in Nat, NEW kept \in SUBSET (1..n)
    PROVE  /\ IsFiniteSet(kept) /\ Cardinality(kept) \in Nat
           /\ \A k \in kept : Cardinality(kept \cap 1..k) \in 1..Cardinality(kept)
           /\ \A k, l \in kept :
                  k < l => Cardinality(kept \cap 1..k) < Cardinality(kept \cap 1..l)
  <1>1. IsFiniteSet(kept) /\ Cardinality(kept) \in Nat
    <2>1. IsFiniteSet(1..n)
      BY FS_Interval
    <2> QED  BY <2>1, FS_Subset, FS_CardinalityType
  <1>2. ASSUME NEW k \in kept
        PROVE  /\ IsFiniteSet(kept \cap 1..k)
               /\ Cardinality(kept \cap 1..k) \in 1..Cardinality(kept)
    <2>1. (kept \cap 1..k) \in SUBSET kept /\ k \in kept \cap 1..k
      OBVIOUS
    <2>2. IsFiniteSet(kept \cap 1..k) /\ Cardinality(kept \cap 1..k) <= Cardinality(kept)
      BY <1>1, <2>1, FS_Subset
    <2>3. Cardinality(kept \cap 1..k) \in Nat /\ Cardinality(kept \cap 1..k) # 0
      BY <2>1, <2>2, FS_CardinalityType, FS_EmptySet
    <2> QED  BY <1>1, <2>2, <2>3
  <1>3. ASSUME NEW k \in kept, NEW l \in kept, k < l
        PROVE  Cardinality(kept \cap 1..k) < Cardinality(kept \cap 1..l)
    <2>1. k \in 1..n /\ l \in 1..n
      OBVIOUS
    <2>2. /\ (kept \cap 1..k) \in SUBSET (kept \cap 1..l)
          /\ l \in kept \cap 1..l /\ l \notin kept \cap 1..k
      BY <1>3, <2>1
    <2>3. /\ Cardinality(kept \cap 1..k) <= Cardinality(kept \cap 1..l)
          /\ Cardinality(kept \cap 1..k) # Cardinality(kept \cap 1..l)
      BY <1>2, <2>2, FS_Subset
    <2> QED  BY <1>1, <1>2, <2>3
  <1> QED  BY <1>1, <1>2, <1>3

(* Each number up to the size of a set of places is the count of one. *)
LEMMA CountingReaches ==
    ASSUME NEW n \in Nat, NEW kept \in SUBSET (1..n), NEW i \in 1..Cardinality(kept)
    PROVE  \E k \in kept : Cardinality(kept \cap 1..k) = i
  <1> DEFINE f == [k \in kept |-> Cardinality(kept \cap 1..k)]
             T == 1..Cardinality(kept)
  <1>1. f \in [kept -> T]
    BY Counting
  <1>2. \A k, l \in kept : f[k] = f[l] => k = l
    <2> SUFFICES ASSUME NEW k \in kept, NEW l \in kept, f[k] = f[l] PROVE k = l
      OBVIOUS
    <2>1. Cardinality(kept \cap 1..k) = Cardinality(kept \cap 1..l)
      OBVIOUS
    <2>2. Cardinality(kept \cap 1..k) \in 1..Cardinality(kept) /\ Cardinality(kept) \in Nat
      BY Counting
    <2> HIDE DEF f
    <2>3. /\ k < l => Cardinality(kept \cap 1..k) < Cardinality(kept \cap 1..l)
          /\ l < k => Cardinality(kept \cap 1..l) < Cardinality(kept \cap 1..k)
      BY Counting
    <2>4. ~ (k < l) /\ ~ (l < k)
      BY <2>1, <2>2, <2>3
    <2> QED  BY <2>4
  <1>3. f \in Injection(kept, T)
    BY <1>1, <1>2 DEF Injection, IsInjective
  <1>4. IsFiniteSet(T) /\ Cardinality(T) = Cardinality(kept)
    <2>1. Cardinality(kept) \in Nat
      BY Counting
    <2> QED  BY <2>1, FS_Interval
  <1>5. f \in Surjection(kept, T)
    <2> HIDE DEF f, T
    <2> QED  BY <1>3, <1>4, FS_Injection
  <1>6. PICK k \in kept : f[k] = i
    BY <1>5 DEF Surjection
  <1> QED  BY <1>6

(* What is left of the list: the other clients, each once.                 *)
LEMMA WithoutProperties ==
    ASSUME client_list \in Seq(Client), IsInjective(client_list), NEW gone
    PROVE  /\ Without(gone) \in Seq(Client) /\ IsInjective(Without(gone))
           /\ ToSet(Without(gone)) = Listed \ gone
  <1> DEFINE kept     == {k \in DOMAIN client_list : client_list[k] \notin gone}
             Place(i) == CHOOSE k \in kept : Cardinality(kept \cap 1..k) = i
             N        == Cardinality(kept)
  <1>1. kept \in SUBSET (1..Len(client_list)) /\ Len(client_list) \in Nat
    OBVIOUS
  <1>2. N \in Nat
    BY <1>1, Counting
  <1>3. \A i \in 1..N : Place(i) \in kept /\ Cardinality(kept \cap 1..Place(i)) = i
    <2> HIDE DEF kept
    <2> TAKE i \in 1..N
    <2>1. \E k \in kept : Cardinality(kept \cap 1..k) = i
      BY <1>1, CountingReaches
    <2> QED  BY <2>1
  <1>4. \A k \in kept : \E i \in 1..N : Place(i) = k
    <2> HIDE DEF kept
    <2> TAKE k \in kept
    <2> DEFINE i == Cardinality(kept \cap 1..k)
    <2>1. i \in 1..N
      BY <1>1, Counting
    <2>2. Place(i) \in kept /\ Cardinality(kept \cap 1..Place(i)) = i
      BY <1>3, <2>1
    <2>3. Place(i) \in 1..Len(client_list) /\ k \in 1..Len(client_list)
      BY <1>1, <2>2
    <2>4. ~ (Place(i) < k) /\ ~ (k < Place(i))
      <3> DEFINE j == Place(i)
      <3>1. j \in kept /\ Cardinality(kept \cap 1..j) = Cardinality(kept \cap 1..k)
        BY <2>2
      <3>2. Cardinality(kept \cap 1..k) \in Nat
        BY <1>1, <2>1, Counting
      <3> HIDE DEF j
      <3>3. /\ j < k => Cardinality(kept \cap 1..j) < Cardinality(kept \cap 1..k)
            /\ k < j => Cardinality(kept \cap 1..k) < Cardinality(kept \cap 1..j)
        BY <1>1, <3>1, Counting
      <3>4. ~ (j < k) /\ ~ (k < j)
        BY <3>1, <3>2, <3>3
      <3> QED  BY <3>4 DEF j
    <2> QED  BY <2>1, <2>3, <2>4
  <1>5. Without(gone) = [i \in 1..N |-> client_list[Place(i)]]
    BY DEF Without
  <1> HIDE DEF Place, N
  <1>6. \A i \in 1..N : /\ Place(i) \in DOMAIN client_list
                        /\ client_list[Place(i)] \in Client \ gone
    <2> TAKE i \in 1..N
    <2>1. Place(i) \in kept
      BY <1>3
    <2> QED  BY <2>1
  <1>7. Without(gone) \in Seq(Client)
    BY <1>2, <1>5, <1>6
  <1>8. IsInjective(Without(gone))
    <2> SUFFICES ASSUME NEW i \in 1..N, NEW j \in 1..N,
                        client_list[Place(i)] = client_list[Place(j)]
                 PROVE  i = j
      BY <1>5 DEF IsInjective
    <2>1. Place(i) = Place(j)
      BY <1>6 DEF IsInjective
    <2> QED  BY <1>3, <2>1
  <1>9. ToSet(Without(gone)) = Listed \ gone
    <2>1. ToSet(Without(gone)) = {client_list[Place(i)] : i \in 1..N}
      BY <1>5 DEF ToSet
    <2>2. \A c \in Listed \ gone : \E k \in kept : client_list[k] = c
      BY DEF Listed, ToSet
    <2>3. {client_list[Place(i)] : i \in 1..N} \subseteq Listed \ gone
      BY <1>6 DEF Listed, ToSet
    <2> HIDE DEF kept
    <2> QED  BY <1>4, <2>1, <2>2, <2>3
  <1> QED  BY <1>7, <1>8, <1>9

(* A client that is added: the list stays one without repetitions.         *)
LEMMA PrependProperties ==
    ASSUME client_list \in Seq(Client), IsInjective(client_list), NEW c \in Client \ Listed
    PROVE  /\ <<c>> \o client_list \in Seq(Client) /\ IsInjective(<<c>> \o client_list)
           /\ ToSet(<<c>> \o client_list) = Listed \cup {c}
  <1> DEFINE l == <<c>> \o client_list
  <1>1. /\ l \in Seq(Client) /\ Len(l) = Len(client_list) + 1
        /\ l[1] = c /\ \A i \in 1..Len(client_list) : l[i + 1] = client_list[i]
    OBVIOUS
  <1> HIDE DEF l
  <1>2. \A i \in 2..Len(l) : i - 1 \in 1..Len(client_list) /\ l[i] = client_list[i - 1]
    <2> TAKE i \in 2..Len(l)
    <2>1. i - 1 \in 1..Len(client_list) /\ (i - 1) + 1 = i
      BY <1>1
    <2> QED  BY <1>1, <2>1
  <1>3. IsInjective(l)
    <2> SUFFICES ASSUME NEW i \in 1..Len(l), NEW j \in 1..Len(l), l[i] = l[j] PROVE i = j
      BY <1>1 DEF IsInjective
    <2>1. \A k \in 2..Len(l) : l[k] # c
      BY <1>2 DEF Listed, ToSet
    <2>2. CASE i = 1 \/ j = 1
      BY <1>1, <2>1, <2>2
    <2>3. CASE i # 1 /\ j # 1
      <3>1. i \in 2..Len(l) /\ j \in 2..Len(l)
        BY <1>1, <2>3
      <3>2. l[i] = client_list[i - 1] /\ l[j] = client_list[j - 1]
        BY <1>2, <3>1
      <3>3. i - 1 \in 1..Len(client_list) /\ j - 1 \in 1..Len(client_list)
        BY <1>2, <3>1
      <3>4. DOMAIN client_list = 1..Len(client_list)
        OBVIOUS
      <3>5. i - 1 = j - 1
        BY <3>2, <3>3, <3>4 DEF IsInjective
      <3> QED  BY <3>1, <3>5
    <2> QED  BY <2>2, <2>3
  <1>4. ToSet(l) = Listed \cup {c}
    <2>1. ToSet(l) \subseteq Listed \cup {c}
      <3> SUFFICES ASSUME NEW i \in 1..Len(l) PROVE l[i] \in Listed \cup {c}
        BY <1>1 DEF ToSet
      <3>1. i = 1 \/ i \in 2..Len(l)
        BY <1>1
      <3>2. CASE i \in 2..Len(l)
        <4>1. l[i] = client_list[i - 1] /\ i - 1 \in 1..Len(client_list)
          BY <1>2, <3>2
        <4>2. DOMAIN client_list = 1..Len(client_list)
          OBVIOUS
        <4> QED  BY <4>1, <4>2 DEF Listed, ToSet
      <3> QED  BY <1>1, <3>1, <3>2
    <2>2. Listed \cup {c} \subseteq ToSet(l)
      <3>1. \A i \in 1..Len(client_list) : i + 1 \in 1..Len(l)
        BY <1>1
      <3>2. 1 \in 1..Len(l) /\ DOMAIN l = 1..Len(l)
        BY <1>1
      <3>3. ASSUME NEW x \in Listed PROVE x \in ToSet(l)
        <4>1. PICK i \in 1..Len(client_list) : client_list[i] = x
          BY DEF Listed, ToSet
        <4>2. i + 1 \in DOMAIN l /\ l[i + 1] = x
          BY <1>1, <3>1, <3>2, <4>1
        <4> QED  BY <4>2 DEF ToSet
      <3> QED  BY <1>1, <3>2, <3>3 DEF ToSet
    <2> QED  BY <2>1, <2>2
  <1> QED  BY <1>1, <1>3, <1>4 DEF l

(* The client behind a listed one. *)
LEMMA AfterProperties ==
    ASSUME client_list \in Seq(Client), IsInjective(client_list),
           NEW k \in 1..Len(client_list)
    PROVE  /\ After(client_list, client_list[k])
                  = IF k = Len(client_list) THEN None ELSE client_list[k + 1]
           /\ After(client_list, client_list[k]) \in Listed \cup {None}
           /\ None \notin Client => After(client_list, client_list[k]) # client_list[k]
  <1> DEFINE c == client_list[k]
             m == CHOOSE i \in DOMAIN client_list : client_list[i] = c
  <1>1. m \in DOMAIN client_list /\ client_list[m] = c
    OBVIOUS
  <1>2. m = k
    BY <1>1 DEF IsInjective
  <1>3. After(client_list, c) = IF k = Len(client_list) THEN None ELSE client_list[k + 1]
    <2>1. After(client_list, c) = IF m = Len(client_list) THEN None ELSE client_list[m + 1]
      BY Zenon DEF After
    <2> HIDE DEF m
    <2> QED  BY <1>2, <2>1
  <1>4. k # Len(client_list) => k + 1 \in DOMAIN client_list
    OBVIOUS
  <1>5. k # Len(client_list) => client_list[k + 1] \in Listed /\ client_list[k + 1] # c
    BY <1>4 DEF Listed, ToSet, IsInjective
  <1> QED  BY <1>3, <1>5

LEMMA AfterListed ==
    ASSUME client_list \in Seq(Client), IsInjective(client_list), None \notin Client,
           NEW c \in Listed
    PROVE  After(client_list, c) \in (Listed \ {c}) \cup {None}
  <1>1. PICK k \in 1..Len(client_list) : client_list[k] = c
    BY DEF Listed, ToSet
  <1> QED  BY <1>1, AfterProperties

LEMMA NoneIsNoClient == None \notin Client
  BY X11ClientsAssumption DEF Client, X11Client

LEMMA ListedClients == client_list \in Seq(Client) => Listed \subseteq Client
  BY DEF Listed, ToSet
-----------------------------------------------------------------------------
LEMMA InitIInv == Init => IInv
  <1> SUFFICES ASSUME Init PROVE IInv
    OBVIOUS
  <1> USE DEF Init
  <1>1. Listed = {} /\ ~ InWalk
    BY DEF Listed, ToSet, InWalk
  <1>2. up \in BOOLEAN
    BY Zenon
  <1>3. TypeOK
    BY <1>2 DEF TypeOK, IsInjective
  <1>4. MoreTypes /\ ReadsConnected /\ HarmHasCause
    BY DEF MoreTypes, ReadsConnected, HarmHasCause
  <1>5. CursorIsListed /\ WalkIsOnCourse /\ NoClientsOfNoServer
    BY <1>1 DEF CursorIsListed, WalkIsOnCourse, NoClientsOfNoServer
  <1> QED  BY <1>3, <1>4, <1>5 DEF IInv

(* Types of what X says and is told. *)
XTypes ==
    /\ windows \subseteq Window /\ up \in BOOLEAN /\ dpy \in {"none", "open", "lost"}
    /\ requests \in Seq(X11Client) /\ xqueue \in Seq(Window)
    /\ wire \in Seq(Message)

(* A step of X, or of its other programs, that leaves the daemon alone.    *)
LEMMA OutsideStep ==
    ASSUME IInv, XTypes', UNCHANGED <<pc, list, hist>>,
           dpy' = "none" => dpy = "none"
    PROVE  IInv'
  <1> USE DEF IInv
  <1>1. /\ pc' = pc /\ client_list' = client_list /\ client_iter' = client_iter
        /\ citer' = citer /\ newest' = newest /\ due' = due /\ got' = got /\ upset' = upset
    BY DEF list, hist
  <1>2. Listed' = Listed /\ InWalk' = InWalk /\ (\A k : Reached(k)' <=> Reached(k))
    BY <1>1 DEF Listed, InWalk, Reached
  <1>3. TypeOK' /\ MoreTypes'
    BY <1>1, <1>2 DEF TypeOK, MoreTypes, XTypes
  <1>4. NoClientsOfNoServer' /\ ReadsConnected'
    BY <1>1, <1>2 DEF NoClientsOfNoServer, ReadsConnected
  <1>5. CursorIsListed' /\ WalkIsOnCourse' /\ HarmHasCause'
    BY <1>1, <1>2 DEF CursorIsListed, WalkIsOnCourse, HarmHasCause
  <1> QED  BY <1>3, <1>4, <1>5

(* The end of the connection: SIGUSR2, or xioerr.                          *)
LEMMA CloseStep ==
    ASSUME IInv, NEW why \in {"lost", "signal"}, close_x11(why),
           UNCHANGED <<windows, up, citer, newest, due, got>>, requests' \in Seq(X11Client),
           pc' \in {"select", "devices", "walk"}, pc' = "walk" => InWalk
    PROVE  IInv'
  <1> USE DEF IInv
  <1>1. /\ dpy' = "none" /\ xqueue' = <<>> /\ wire' = <<>> /\ client_list' = Without(X11Client)
        /\ client_iter' = None /\ upset' = IF InWalk THEN upset \cup {why} ELSE upset
    BY DEF close_x11, RemoveX11Clients, Upset
  <1>2. /\ client_list' \in Seq(Client) /\ IsInjective(client_list')
        /\ Listed' = Listed \ X11Client
    BY <1>1, WithoutProperties DEF TypeOK, Listed
  <1>3. TypeOK'
    BY <1>1, <1>2 DEF TypeOK
  <1>4. MoreTypes'
    BY <1>1 DEF MoreTypes
  <1>5. NoClientsOfNoServer' /\ ReadsConnected'
    BY <1>2 DEF NoClientsOfNoServer, ReadsConnected
  <1>6. InWalk' => why \in upset'
    BY <1>1 DEF InWalk
  <1>7. CursorIsListed' /\ WalkIsOnCourse' /\ HarmHasCause'
    BY <1>6 DEF CursorIsListed, WalkIsOnCourse, HarmHasCause
  <1> QED  BY <1>3, <1>4, <1>5, <1>7

(* The loop goes on somewhere else, and nothing is walked.                 *)
LEMMA LoopStep ==
    ASSUME IInv, UNCHANGED <<windows, up, wire, xlib, list>>, requests' \in Seq(X11Client),
           newest' \in BOOLEAN, due' \subseteq Client, got' \in [Client -> Nat],
           pc' \in {"select", "events", "devices", "xcall"},
           pc' \in {"events", "xcall"} => dpy # "none"
    PROVE  IInv'
  <1> USE DEF IInv
  <1>1. /\ client_list' = client_list /\ client_iter' = client_iter /\ citer' = citer
        /\ windows' = windows /\ up' = up /\ wire' = wire
        /\ dpy' = dpy /\ xqueue' = xqueue /\ Listed' = Listed
    BY DEF xlib, list, Listed
  <1>2. TypeOK' /\ MoreTypes'
    BY <1>1 DEF TypeOK, MoreTypes
  <1>3. NoClientsOfNoServer' /\ ReadsConnected'
    BY <1>1 DEF NoClientsOfNoServer, ReadsConnected
  <1>4. CursorIsListed' /\ WalkIsOnCourse' /\ HarmHasCause'
    BY DEF CursorIsListed, WalkIsOnCourse, HarmHasCause, InWalk
  <1> QED  BY <1>2, <1>3, <1>4

(* One answer is read: an error takes a client off the list.               *)
LEMMA ReadStep ==
    ASSUME IInv, Read
    PROVE  IInv'
  <1> USE DEF IInv
  <1> DEFINE m == Head(wire)
  <1>1. /\ pc \in {"events", "flush", "xcall"} /\ wire # <<>> /\ wire' = Tail(wire)
        /\ windows' = windows /\ up' = up /\ requests' = requests /\ dpy' = dpy
        /\ pc' = pc /\ citer' = citer /\ newest' = newest /\ due' = due /\ got' = got
    BY DEF Read
  <1>2. m \in Message /\ wire' \in Seq(Message)
    <2>1. wire \in Seq(Message)
      BY DEF MoreTypes
    <2> QED  BY <1>1, <2>1, HeadTailProperties
  <1>3. MoreTypes' /\ ReadsConnected' /\ HarmHasCause'
    BY <1>1, <1>2 DEF MoreTypes, ReadsConnected, HarmHasCause
  <1>4. CASE m.type = "bad"
    <2>1. remove_client_window(m.win) /\ xqueue' = xqueue
      BY <1>4 DEF Read
    <2>2. /\ client_list' \in Seq(Client) /\ IsInjective(client_list')
          /\ Listed' = Listed \ {m.win}
      BY <2>1, WithoutProperties DEF TypeOK, Listed, remove_client_window
    <2>3. client_iter' \in Listed' \cup {None}
      BY <2>1, <2>2, AfterListed, NoneIsNoClient DEF TypeOK, remove_client_window
    <2>4. TypeOK'
      BY <1>1, <2>1, <2>2, <2>3 DEF TypeOK
    <2>5. NoClientsOfNoServer'
      BY <1>1, <2>2 DEF NoClientsOfNoServer
    <2>6. InWalk => "error" \in upset' /\ upset \subseteq upset'
                    /\ (m.win = citer => "next" \in upset')
      BY <2>1 DEF remove_client_window, Upset
    <2>7. InWalk' <=> InWalk
      BY <1>1 DEF InWalk
    <2>8. CursorIsListed' /\ WalkIsOnCourse'
      BY <1>1, <2>2, <2>6, <2>7 DEF CursorIsListed, WalkIsOnCourse
    <2> QED  BY <1>3, <2>4, <2>5, <2>8
  <1>5. CASE m.type = "app"
    <2>1. /\ client_list' = client_list /\ client_iter' = client_iter /\ upset' = upset
          /\ xqueue' = Append(xqueue, m.win)
      BY <1>5 DEF Read
    <2>2. Listed' = Listed /\ (InWalk' <=> InWalk) /\ (\A k : Reached(k)' <=> Reached(k))
      BY <1>1, <2>1 DEF Listed, InWalk, Reached
    <2>3. xqueue' \in Seq(Window)
      <3>1. m.win \in Window
        BY <1>2, <1>5 DEF Message
      <3> QED  BY <2>1, <3>1 DEF TypeOK
    <2>4. TypeOK' /\ NoClientsOfNoServer'
      BY <1>1, <2>1, <2>2, <2>3 DEF TypeOK, NoClientsOfNoServer
    <2>5. CursorIsListed' /\ WalkIsOnCourse'
      BY <1>1, <2>1, <2>2 DEF CursorIsListed, WalkIsOnCourse
    <2> QED  BY <1>3, <2>4, <2>5
  <1>6. m.type \in {"app", "bad"}
    BY <1>2 DEF Message
  <1> QED  BY <1>4, <1>5, <1>6

(* A client that introduces itself, or a UNIX client that comes: outside   *)
(* of the walk the list may change.                                        *)
LEMMA ListStep ==
    ASSUME IInv, UNCHANGED <<xserver, dpy, citer, newest, due, got, upset>>,
           pc \in {"select", "events"}, pc' = pc,
           xqueue' \in Seq(Window),
           client_list' \in Seq(Client), IsInjective(client_list'),
           client_iter' \in Listed' \cup {None},
           dpy = "none" => Listed' \cap X11Client = {}
    PROVE  IInv'
  <1> USE DEF IInv
  <1>1. windows' = windows /\ up' = up /\ requests' = requests /\ wire' = wire
    BY DEF xserver
  <1>2. TypeOK' /\ MoreTypes'
    BY <1>1 DEF TypeOK, MoreTypes
  <1>3. NoClientsOfNoServer' /\ ReadsConnected'
    BY DEF NoClientsOfNoServer, ReadsConnected
  <1>4. CursorIsListed' /\ WalkIsOnCourse' /\ HarmHasCause'
    BY DEF CursorIsListed, WalkIsOnCourse, HarmHasCause, InWalk
  <1> QED  BY <1>2, <1>3, <1>4

LEMMA XEventStep ==
    ASSUME IInv, XEvent
    PROVE  IInv'
  <1> USE DEF IInv
  <1> DEFINE w == Understood[Head(xqueue)]
  <1>1. /\ pc = "events" /\ pc' = pc /\ xqueue # <<>> /\ xqueue' = Tail(xqueue)
        /\ set_client_window(w)
        /\ UNCHANGED <<xserver, dpy, citer, newest, due, got, upset>>
    BY DEF XEvent, hist
  <1>2. w \in X11Client /\ xqueue' \in Seq(Window) /\ w \in Client
    <2>1. Head(xqueue) \in Window /\ xqueue' \in Seq(Window)
      BY <1>1, HeadTailProperties DEF TypeOK
    <2> QED  BY <2>1, X11ClientsAssumption DEF X11Client, Client
  <1>3. dpy # "none"
    BY <1>1 DEF ReadsConnected
  <1>4. CASE w \in Listed
    <2>1. client_list' = client_list /\ client_iter' = w /\ Listed' = Listed
      BY <1>1, <1>4 DEF set_client_window, Listed
    <2> QED  BY <1>1, <1>2, <1>3, <1>4, <2>1, ListStep DEF TypeOK
  <1>5. CASE w \notin Listed
    <2>1. client_list' = <<w>> \o client_list /\ client_iter' = None
      BY <1>1, <1>5 DEF set_client_window
    <2>2. client_list' \in Seq(Client) /\ IsInjective(client_list')
      BY <1>2, <1>5, <2>1, PrependProperties DEF TypeOK
    <2> QED  BY <1>1, <1>2, <1>3, <2>1, <2>2, ListStep
  <1> QED  BY <1>4, <1>5

LEMMA UnixClientStep ==
    ASSUME IInv, NEW s \in Socket, UnixClient(s)
    PROVE  IInv'
  <1> USE DEF IInv
  <1>1. /\ pc = "select" /\ pc' = pc /\ client_iter' = None /\ xqueue' = xqueue
        /\ UNCHANGED <<xserver, dpy, citer, newest, due, got, upset>>
    BY DEF UnixClient, xlib, hist
  <1>2. s \in Client /\ s \notin X11Client
    BY X11ClientsAssumption DEF X11Client, Client
  <1>3. CASE s \notin Listed /\ client_list' = <<s>> \o client_list
    <2>1. /\ client_list' \in Seq(Client) /\ IsInjective(client_list')
          /\ Listed' = Listed \cup {s}
      BY <1>2, <1>3, PrependProperties DEF TypeOK, Listed
    <2>2. dpy = "none" => Listed' \cap X11Client = {}
      BY <1>2, <2>1 DEF NoClientsOfNoServer
    <2> QED  BY <1>1, <2>1, <2>2, ListStep DEF TypeOK
  <1>4. CASE s \in Listed /\ client_list' = Without({s})
    <2>1. /\ client_list' \in Seq(Client) /\ IsInjective(client_list')
          /\ Listed' = Listed \ {s}
      BY <1>4, WithoutProperties DEF TypeOK, Listed
    <2>2. dpy = "none" => Listed' \cap X11Client = {}
      BY <2>1 DEF NoClientsOfNoServer
    <2> QED  BY <1>1, <2>1, <2>2, ListStep DEF TypeOK
  <1> QED  BY <1>3, <1>4 DEF UnixClient

LEMMA NoMoreXEventsStep ==
    ASSUME IInv, NoMoreXEvents
    PROVE  IInv'
  <1> USE DEF IInv
  <1>1. /\ pc' = "devices" /\ UNCHANGED <<windows, up, requests, citer, newest, due, got>>
    BY DEF NoMoreXEvents
  <1>2. CASE UNCHANGED <<xlib, wire, client_list, client_iter, upset>>
    BY <1>1, <1>2, LoopStep DEF list, TypeOK, MoreTypes
  <1>3. CASE xioerr
    <2>1. requests' \in Seq(X11Client)
      BY <1>1 DEF TypeOK
    <2> QED  BY <1>1, <1>3, <2>1, CloseStep DEF xioerr
  <1> QED  BY <1>2, <1>3 DEF NoMoreXEvents

LEMMA DispatchStep ==
    ASSUME IInv, Dispatch
    PROVE  IInv'
  <1> USE DEF IInv
  <1>1. /\ pc' = "walk" /\ citer' = first_client /\ client_iter' = first_client
        /\ newest' \in BOOLEAN /\ due' = Listed /\ got' = [c \in Client |-> 0] /\ upset' = {}
        /\ windows' = windows /\ up' = up /\ requests' = requests /\ wire' = wire
        /\ dpy' = dpy /\ xqueue' = xqueue /\ client_list' = client_list /\ Listed' = Listed
    BY DEF Dispatch, xserver, xlib, Listed
  <1>2. /\ client_list # <<>> => 1 \in 1..Len(client_list)
        /\ first_client = IF 1 <= Len(client_list) THEN client_list[1] ELSE None
    BY DEF first_client, TypeOK
  <1>3. first_client \in Listed \cup {None}
    BY <1>2 DEF Listed, ToSet, TypeOK
  <1>4. TypeOK' /\ MoreTypes'
    BY <1>1, <1>3, ListedClients DEF TypeOK, MoreTypes
  <1>5. NoClientsOfNoServer' /\ ReadsConnected' /\ HarmHasCause'
    BY <1>1 DEF NoClientsOfNoServer, ReadsConnected, HarmHasCause
  <1>6. CursorIsListed'
    BY <1>1, <1>3 DEF CursorIsListed
  <1>7. Reached(1)'
    <2>1. \A i \in 1..Len(client_list) : client_list[i] \in Client /\ ~ (i < 1)
      BY DEF TypeOK
    <2> QED  BY <1>1, <1>2, <2>1 DEF Reached
  <1>8. WalkIsOnCourse'
    <2>1. 1 \in 1..Len(client_list') + 1
      BY <1>1 DEF TypeOK
    <2> QED  BY <1>1, <1>7, <2>1 DEF WalkIsOnCourse
  <1> QED  BY <1>4, <1>5, <1>6, <1>8

(* One turn of the walk. *)
LEMMA SendStep ==
    ASSUME IInv, Send
    PROVE  IInv'
  <1> USE DEF IInv
  <1>1. /\ pc = "walk" /\ citer \in Listed /\ citer' = next_client /\ client_iter' = next_client
        /\ got' = [got EXCEPT ![citer] = IF newest THEN @ + 1 ELSE @]
        /\ windows' = windows /\ up' = up /\ wire' = wire /\ dpy' = dpy /\ xqueue' = xqueue
        /\ client_list' = client_list /\ newest' = newest /\ due' = due /\ upset' = upset
        /\ pc' \in {"walk", "flush"} /\ (pc' = "flush" => dpy # "none")
    <2>1. /\ newest => got' = [got EXCEPT ![citer] = @ + 1]
          /\ ~ newest => got' = got
      BY DEF Send
    <2>2. got' = [got EXCEPT ![citer] = IF newest THEN @ + 1 ELSE @]
      BY <2>1 DEF MoreTypes
    <2> QED  BY <2>2 DEF Send, xlib
  <1>2. requests' \in Seq(X11Client)
    <2>1. \/ requests' = requests
          \/ citer \in X11Client /\ requests' = Append(requests, citer)
      BY DEF Send
    <2>2. requests \in Seq(X11Client)
      BY DEF TypeOK
    <2> QED  BY <2>1, <2>2, AppendProperties
  <1>3. Listed' = Listed /\ Listed \subseteq Client /\ InWalk /\ InWalk'
    BY <1>1, ListedClients DEF Listed, InWalk, TypeOK
  <1>4. next_client \in Listed \cup {None}
    BY AfterListed, NoneIsNoClient DEF next_client, TypeOK
  <1>5. got' \in [Client -> Nat]
    BY <1>1, <1>3 DEF MoreTypes
  <1>6. TypeOK' /\ MoreTypes'
    BY <1>1, <1>2, <1>3, <1>4, <1>5 DEF TypeOK, MoreTypes
  <1>7. NoClientsOfNoServer' /\ ReadsConnected' /\ HarmHasCause' /\ CursorIsListed'
    BY <1>1, <1>3, <1>4
       DEF NoClientsOfNoServer, ReadsConnected, HarmHasCause, CursorIsListed
  <1>8. WalkIsOnCourse'
    <2> SUFFICES ASSUME upset = {}
                 PROVE  \E k \in 1..Len(client_list) + 1 : Reached(k)'
      BY <1>1, <1>3 DEF WalkIsOnCourse
    <2>1. PICK k \in 1..Len(client_list) + 1 : Reached(k)
      BY <1>3 DEF WalkIsOnCourse
    <2>2. client_iter = citer /\ citer # None
      BY <1>1, <1>3, NoneIsNoClient DEF WalkIsOnCourse
    <2>3. k \in 1..Len(client_list) /\ citer = client_list[k]
      BY <2>1, <2>2 DEF Reached, TypeOK
    <2>4. next_client = IF k = Len(client_list) THEN None ELSE client_list[k + 1]
      BY <2>2, <2>3, AfterProperties DEF next_client, TypeOK
    <2>5. \A i \in 1..Len(client_list) :
             /\ client_list[i] \in Client
             /\ client_list[i] = citer <=> i = k
      BY <2>3 DEF TypeOK, IsInjective
    <2>6. \A i \in 1..Len(client_list) : got'[client_list[i]] = IF i < k + 1 /\ newest THEN 1 ELSE 0
      BY <1>1, <2>1, <2>3, <2>5 DEF Reached, MoreTypes, TypeOK
    <2>7. Reached(k + 1)'
      BY <1>1, <2>3, <2>4, <2>6 DEF Reached, TypeOK
    <2>8. k + 1 \in 1..Len(client_list) + 1
      BY <2>3 DEF TypeOK
    <2> QED  BY <2>7, <2>8
  <1> QED  BY <1>6, <1>7, <1>8

LEMMA FlushedStep ==
    ASSUME IInv, Flushed
    PROVE  IInv'
  <1> USE DEF IInv
  <1>1. /\ pc = "flush" /\ pc' = "walk" /\ InWalk /\ InWalk'
        /\ UNCHANGED <<windows, up, requests, citer, newest, due, got>>
    BY DEF Flushed, InWalk
  <1>2. CASE UNCHANGED <<xlib, wire, client_list, client_iter, upset, stranded>>
    <2>1. /\ client_list' = client_list /\ client_iter' = client_iter /\ upset' = upset
          /\ dpy' = dpy /\ xqueue' = xqueue /\ wire' = wire
      BY <1>2 DEF xlib
    <2>2. Listed' = Listed /\ (\A k : Reached(k)' <=> Reached(k))
      BY <1>1, <2>1 DEF Listed, Reached
    <2>3. TypeOK' /\ MoreTypes'
      BY <1>1, <2>1, <2>2 DEF TypeOK, MoreTypes
    <2>4. NoClientsOfNoServer' /\ ReadsConnected' /\ HarmHasCause'
      BY <1>1, <2>1, <2>2 DEF NoClientsOfNoServer, ReadsConnected, HarmHasCause
    <2>5. CursorIsListed' /\ WalkIsOnCourse'
      BY <1>1, <2>1, <2>2 DEF CursorIsListed, WalkIsOnCourse
    <2> QED  BY <2>3, <2>4, <2>5
  <1>3. CASE xioerr
    <2>1. requests' \in Seq(X11Client)
      BY <1>1 DEF TypeOK
    <2> QED  BY <1>1, <1>3, <2>1, CloseStep DEF xioerr
  <1> QED  BY <1>2, <1>3 DEF Flushed

(* The daemon uses a client that has been freed, jumps into a frame that   *)
(* has ended, or goes on with a display that was closed under it.          *)
LEMMA UndefinedStep ==
    ASSUME IInv, pc' = "undefined", UNCHANGED <<xserver, xlib, list, newest, due, got>>,
           upset' \cap {"next", "lost", "signal", "jump"} # {}
    PROVE  IInv'
  <1> USE DEF IInv
  <1>1. /\ client_list' = client_list /\ client_iter' = client_iter /\ citer' = citer
        /\ windows' = windows /\ up' = up /\ requests' = requests /\ wire' = wire
        /\ dpy' = dpy /\ xqueue' = xqueue /\ Listed' = Listed
    BY DEF xserver, xlib, list, Listed
  <1>2. TypeOK' /\ MoreTypes'
    BY <1>1 DEF TypeOK, MoreTypes
  <1>3. NoClientsOfNoServer' /\ ReadsConnected' /\ HarmHasCause'
    BY <1>1 DEF NoClientsOfNoServer, ReadsConnected, HarmHasCause
  <1>4. CursorIsListed' /\ WalkIsOnCourse'
    BY DEF CursorIsListed, WalkIsOnCourse, InWalk
  <1> QED  BY <1>2, <1>3, <1>4

LEMMA UseFreedStep ==
    ASSUME IInv, UseFreed
    PROVE  IInv'
  <1>1. InWalk /\ citer \notin Listed \cup {None} /\ upset' = upset
    BY DEF UseFreed, InWalk, hist
  <1>2. upset' \cap {"next", "lost", "signal", "jump"} # {}
    BY <1>1 DEF IInv, CursorIsListed
  <1> QED  BY <1>2, UndefinedStep DEF UseFreed, hist

LEMMA XCallStep ==
    ASSUME IInv, OtherXCall \/ XCallEnds
    PROVE  IInv'
  <1> USE DEF IInv
  <1>0. newest \in BOOLEAN /\ due \subseteq Client /\ got \in [Client -> Nat]
    BY DEF TypeOK, MoreTypes
  <1>1. CASE OtherXCall
    <2>1. requests' \in Seq(X11Client)
      <3>1. requests' = requests \/ \E w \in windows : requests' = Append(requests, w)
        BY <1>1 DEF OtherXCall
      <3>2. windows \subseteq X11Client
        BY DEF TypeOK, X11Client
      <3> QED  BY <3>1, <3>2 DEF TypeOK
    <2>2. /\ UNCHANGED <<windows, up, wire, xlib, list>> /\ pc' = "xcall" /\ dpy # "none"
          /\ newest' = newest /\ due' = due /\ got' = got
      BY <1>1 DEF OtherXCall, hist
    <2> QED  BY <1>0, <2>1, <2>2, LoopStep
  <1>2. CASE XCallEnds /\ pc' = "select"
    <2>1. /\ UNCHANGED <<windows, up, wire, xlib, list>> /\ requests' = requests
          /\ newest' = newest /\ due' = due /\ got' = got
      BY <1>2 DEF XCallEnds, xserver
    <2>2. requests \in Seq(X11Client)
      BY DEF TypeOK
    <2> QED  BY <1>0, <1>2, <2>1, <2>2, LoopStep
  <1>3. CASE XCallEnds /\ pc' = "undefined" /\ upset' = {"jump"}
    BY <1>3, UndefinedStep DEF XCallEnds
  <1> QED  BY <1>1, <1>2, <1>3 DEF XCallEnds

(* The X server and its clients. *)
LEMMA XServerStep ==
    ASSUME IInv,
           \/ \E w \in Window : Introduce(w) \/ Destroy(w)
           \/ Execute \/ ServerEnds \/ ServerStarts
    PROVE  IInv'
  <1> USE DEF IInv
  <1>0. XTypes
    BY DEF XTypes, TypeOK, MoreTypes
  <1>1. ASSUME NEW w \in Window, Introduce(w) PROVE IInv'
    <2>1. App(w) \in Message
      BY DEF App, Message
    <2>2. XTypes'
      BY <1>0, <1>1, <2>1 DEF XTypes, Introduce, xlib
    <2> QED  BY <1>1, <2>2, OutsideStep DEF Introduce, xlib
  <1>2. ASSUME NEW w \in Window, Destroy(w) PROVE IInv'
    <2>1. XTypes'
      BY <1>0, <1>2 DEF XTypes, Destroy, xlib
    <2> QED  BY <1>2, <2>1, OutsideStep DEF Destroy, xlib
  <1>3. CASE Execute
    <2>1. Head(requests) \in X11Client /\ Tail(requests) \in Seq(X11Client)
      BY <1>0, <1>3, HeadTailProperties DEF Execute, XTypes
    <2>2. Bad(Head(requests)) \in Message
      BY <2>1 DEF Bad, Message
    <2>3. /\ wire' = wire \/ wire' = Append(wire, Bad(Head(requests)))
          /\ requests' = Tail(requests)
          /\ UNCHANGED <<windows, up, dpy, xqueue>>
      BY <1>3 DEF Execute, xlib
    <2>4. wire' \in Seq(Message)
      BY <1>0, <2>2, <2>3, AppendProperties DEF XTypes
    <2>5. XTypes'
      BY <1>0, <2>1, <2>3, <2>4 DEF XTypes
    <2> QED  BY <1>3, <2>5, OutsideStep DEF Execute, xlib
  <1>4. CASE ServerEnds
    <2>1. XTypes'
      <3>1. /\ windows' = {} /\ up' = FALSE /\ requests' = <<>> /\ wire' = wire
            /\ xqueue' = xqueue /\ dpy' \in {dpy, "lost"}
        BY <1>4 DEF ServerEnds
      <3>2. windows' \subseteq Window /\ requests' \in Seq(X11Client)
        BY <3>1
      <3>3. up' \in BOOLEAN
        BY <3>1, Zenon
      <3> QED  BY <1>0, <3>1, <3>2, <3>3 DEF XTypes
    <2> QED  BY <1>4, <2>1, OutsideStep DEF ServerEnds
  <1>5. CASE ServerStarts
    <2>1. XTypes'
      BY <1>0, <1>5 DEF XTypes, ServerStarts, xlib
    <2> QED  BY <1>5, <2>1, OutsideStep DEF ServerStarts, xlib
  <1> QED  BY <1>1, <1>2, <1>3, <1>4, <1>5

LEMMA OpenStep ==
    ASSUME IInv, init_x11
    PROVE  IInv'
  <1> USE DEF IInv
  <1>1. /\ dpy' = "open" /\ pc' = pc /\ up' = up /\ requests' = requests /\ wire' = wire
        /\ client_list' = client_list /\ client_iter' = client_iter /\ citer' = citer
        /\ newest' = newest /\ due' = due /\ got' = got /\ upset' = upset
    BY DEF init_x11, list
  <1>2. windows' \subseteq Window /\ xqueue' \in Seq(Window)
    <2>1. CASE UNCHANGED <<windows, xqueue, stranded>>
      BY <2>1 DEF TypeOK
    <2>2. ASSUME NEW w \in Window, windows' = windows \cup {w}, xqueue' = Append(xqueue, w)
          PROVE  windows' \subseteq Window /\ xqueue' \in Seq(Window)
      BY <2>2 DEF TypeOK
    <2> QED  BY <2>1, <2>2 DEF init_x11
  <1>3. Listed' = Listed /\ InWalk' = InWalk /\ (\A k : Reached(k)' <=> Reached(k))
    BY <1>1 DEF Listed, InWalk, Reached
  <1>4. TypeOK' /\ MoreTypes'
    BY <1>1, <1>2, <1>3 DEF TypeOK, MoreTypes
  <1>5. NoClientsOfNoServer' /\ ReadsConnected' /\ HarmHasCause'
    BY <1>1 DEF NoClientsOfNoServer, ReadsConnected, HarmHasCause
  <1>6. CursorIsListed' /\ WalkIsOnCourse'
    BY <1>1, <1>3 DEF CursorIsListed, WalkIsOnCourse
  <1> QED  BY <1>4, <1>5, <1>6

LEMMA SigUsr2Step ==
    ASSUME IInv, SigUsr2
    PROVE  IInv'
  <1>1. CASE close_x11("signal") /\ pc \in {"select", "devices", "walk"}
    <2>1. /\ UNCHANGED <<windows, up, citer, newest, due, got>>
          /\ pc' = pc /\ requests' = <<>>
      BY <1>1 DEF SigUsr2
    <2>2. /\ pc' \in {"select", "devices", "walk"} /\ requests' \in Seq(X11Client)
          /\ pc' = "walk" => InWalk
      BY <1>1, <2>1 DEF InWalk
    <2> QED  BY <1>1, <2>1, <2>2, CloseStep
  <1>2. CASE pc \in {"events", "flush", "xcall"}
    <2>1. /\ pc' = "undefined" /\ upset' = {"signal"}
          /\ UNCHANGED <<xserver, xlib, list, newest, due, got>>
      BY <1>2 DEF SigUsr2, xserver, list
    <2> QED  BY <2>1, UndefinedStep
  <1> QED  BY <1>1, <1>2 DEF SigUsr2

LEMMA NextIInv == IInv /\ [Next]_vars => IInv'
  <1> SUFFICES ASSUME IInv, [Next]_vars PROVE IInv'
    OBVIOUS
  <1>1. CASE Wake \/ OtherWake \/ TurnEnds \/ WalkEnds
    <2>1. /\ UNCHANGED <<windows, up, wire, xlib, list>> /\ requests' = requests
          /\ pc' \in {"select", "events", "devices"}
          /\ pc' = "events" => dpy # "none"
      BY <1>1 DEF Wake, OtherWake, TurnEnds, WalkEnds, Readable, xserver
    <2>2. requests \in Seq(X11Client)
      BY DEF IInv, TypeOK
    <2>3. newest' \in BOOLEAN /\ due' \subseteq Client /\ got' \in [Client -> Nat]
      <3>1. CASE UNCHANGED hist
        BY <3>1 DEF hist, IInv, TypeOK, MoreTypes
      <3>2. CASE WalkEnds
        BY <3>2 DEF WalkEnds
      <3> QED  BY <1>1, <3>1, <3>2 DEF Wake, OtherWake, TurnEnds
    <2> QED  BY <2>1, <2>2, <2>3, LoopStep
  <1>2. CASE UNCHANGED vars
    <2>1. XTypes'
      BY <1>2 DEF IInv, TypeOK, MoreTypes, XTypes, vars, xserver, xlib
    <2> QED  BY <1>2, <2>1, OutsideStep DEF vars, xlib
  <1>3. ASSUME NEW s \in Socket, UnixClient(s) PROVE IInv'
    BY <1>3, UnixClientStep
  <1> QED  BY <1>1, <1>2, <1>3, ReadStep, XEventStep, NoMoreXEventsStep, SendStep,
              FlushedStep, UseFreedStep, XCallStep, DispatchStep, XServerStep, OpenStep,
              SigUsr2Step
           DEF Next, Daemon, World
-----------------------------------------------------------------------------
(* The invariant holds in every state of the specification. *)
THEOREM Invariance == Spec => []IInv
  BY InitIInv, NextIInv, PTL DEF Spec

(* No client is listed twice (add_xclient), and no X11 client without a    *)
(* connection to X: close_x11 leaves none to the next server.              *)
THEOREM ListIsSound == Spec => []ListedClientsExist
  <1>1. IInv => ListedClientsExist
    BY DEF IInv, ListedClientsExist
  <1> QED  BY <1>1, Invariance, PTL

(* dispatch_event sends each listed client the event once, or none if the  *)
(* device is not the newest, unless the list changed under its walk.       *)
THEOREM WalkIsComplete == Spec => []EventsReachAll
  <1>1. IInv => EventsReachAll
    <2> SUFFICES ASSUME IInv, pc = "walk", citer = None, upset = {}, NEW c \in due
                 PROVE  got[c] = IF newest THEN 1 ELSE 0
      BY DEF EventsReachAll
    <2> USE DEF IInv
    <2>1. PICK k \in 1..Len(client_list) + 1 : Reached(k)
      BY DEF WalkIsOnCourse, InWalk
    <2>2. PICK i \in 1..Len(client_list) : client_list[i] = c
      BY DEF WalkIsOnCourse, InWalk, Listed, ToSet
    <2>3. ~ (k <= Len(client_list))
      <3>1. k <= Len(client_list) => client_list[k] \in Client
        BY DEF TypeOK
      <3> QED  BY <2>1, <3>1, NoneIsNoClient DEF Reached
    <2>4. i < k
      BY <2>3 DEF TypeOK
    <2> QED  BY <2>1, <2>2, <2>4 DEF Reached
  <1> QED  BY <1>1, Invariance, PTL

(* The walk, or a jump out of Xlib, does harm for the named reasons only.  *)
THEOREM HarmIsExplained == Spec => []HarmHasCause
  <1>1. IInv => HarmHasCause
    BY DEF IInv
  <1> QED  BY <1>1, Invariance, PTL
-----------------------------------------------------------------------------
(***************************************************************************)
(* UnixProto.  All that a client has written, or still has to write, of    *)
(* what was not handled is one sequence of units: what the daemon has in   *)
(* its buffer, what is in the socket and what the client holds.  The       *)
(* invariant says of that sequence that it is whole messages, numbered on  *)
(* from the last one handled (Framed); that they are of the protocol the   *)
(* daemon reads them with (Spoken); and that each chunk of a string comes  *)
(* when the buffer holds what precedes it (Strung).                        *)
(***************************************************************************)
StringNames == {"NAME", "SERDEV", "SOCKET"}

(* A message of protocol 0, and the one that leaves it. *)
OldOp(m) == m.op \in {"SENS", "CHANGE_PROTO"}
Switches(m) == m.op = "CHANGE_PROTO" /\ m.v > 0
Size(m) == IF OldOp(m) THEN 1 ELSE ReqUnits

(* What a client may send. *)
OldMessages == [op : {"SENS"}, v : {2, NaN}]
               \cup [op : {"CHANGE_PROTO"}, v : {0, MAX_PROTO_VER + 1}]
Parts(c) == {r \in [op : {"STR"}, of : StringNames, str : Seq(Token), at : Nat] :
                r.str \in Strings[c][r.of] /\ (r.at = 0 \/ r.at < Len(r.str))}
Messages(c) == OldMessages \cup Requests[c] \cup Parts(c)
Unit(c) == [n : Nat, k : Nat, msg : Messages(c)]

(* Everything of a client that was not handled, in its order. *)
Stream(c) == reqbuf[c] \o unread[c] \o todo[c]

(* Outcome unit i come the left ones its message lacks, then the next message. *)
Rests(q, i, left) ==
    /\ left >= 0 /\ i + left <= Len(q)
    /\ \A d \in 0..left : /\ q[i + d].n = q[i].n /\ q[i + d].k = q[i].k + d
                          /\ q[i + d].msg = q[i].msg
    /\ i + left < Len(q) => q[i + left + 1].n = q[i].n + 1 /\ q[i + left + 1].k = 1

(* Messages first + 1 to last, each in all its units. *)
Framed(q, first, last) ==
    /\ \A i \in 1..Len(q) : Rests(q, i, Size(q[i].msg) - q[i].k)
    /\ \A i \in 1..Len(q) : q[i].n <= last
    /\ IF q = <<>> THEN first = last
       ELSE q[1].n = first + 1 /\ q[1].k = 1 /\ q[Len(q)].n = last

(* p is q with a message more, or without its first one. *)
Longer(p, q, n, m) ==
    /\ Len(p) = Len(q) + Size(m)
    /\ \A i \in 1..Len(q) : p[i] = q[i]
    /\ \A i \in Len(q) + 1..Len(p) : p[i].n = n /\ p[i].k = i - Len(q) /\ p[i].msg = m

Shorter(p, q) ==
    /\ Size(q[1].msg) <= Len(q) /\ Len(p) = Len(q) - Size(q[1].msg)
    /\ \A i \in 1..Len(p) : p[i] = q[i + Size(q[1].msg)]

(***************************************************************************)
(* The protocol changes where both sides change it: p is the protocol of   *)
(* the daemon, s what the client has asked for.                            *)
(***************************************************************************)
Spoken(q, p, s) ==
    /\ p = 1 => \A i \in 1..Len(q) : ~ OldOp(q[i].msg)
    /\ p = 0 /\ q # <<>> => OldOp(q[1].msg)
    /\ \A i, j \in 1..Len(q) :
        i < j /\ OldOp(q[j].msg) => OldOp(q[i].msg) /\ ~ Switches(q[i].msg)
    /\ \A i, j \in 1..Len(q) :
        j = i + 1 /\ OldOp(q[i].msg) /\ ~ Switches(q[i].msg) => OldOp(q[j].msg)
    /\ s = 0 => p = 0 /\ \A i \in 1..Len(q) : OldOp(q[i].msg) /\ ~ Switches(q[i].msg)
    /\ s > 0 /\ p = 0 => \E i \in 1..Len(q) : Switches(q[i].msg)

(* The chunk before r, and a chunk that has one. *)
Former(r) == Chunk(r.of, r.str, r.at - ChunkSize)
Later(m) == m.op = "STR" /\ m.at > 0

(* The buffer b holds what came before the chunk r. *)
Receiving(b, r) ==
    b = [buf |-> SubSeq(r.str, 1, r.at), size |-> Len(r.str) + 1, expect |-> Left(r)]

(* Each chunk but the first of a string follows the one before it; next is *)
(* the chunk the client goes on with.                                      *)
Strung(c, q, b, next) ==
    /\ \A i, j \in 1..Len(q) : j = i + 1 /\ q[j].k = 1 /\ Later(q[j].msg)
         => q[j].msg.at >= ChunkSize /\ q[i].msg = Former(q[j].msg)
    /\ q # <<>> /\ Later(q[1].msg) => Receiving(b, q[1].msg)
    /\ next # Nothing =>
         /\ next \in Parts(c) /\ Later(next)
         /\ IF q = <<>> THEN Receiving(b, next)
            ELSE next.at >= ChunkSize /\ q[Len(q)].msg = Former(next)
-----------------------------------------------------------------------------
LEMMA ProtoBounds ==
    /\ ReqUnits \in Nat \ {0} /\ ChunkSize \in Nat \ {0} /\ OutRoom \in Nat /\ MaxSent \in Nat
    /\ PathMax \in Nat /\ NaN \notin Int /\ \A m : Size(m) \in Nat \ {0}
  BY UnixProtoAssumption DEF Size

LEMMA SeqBasics ==
    ASSUME NEW S, NEW q \in Seq(S)
    PROVE  /\ Len(q) \in Nat /\ (q = <<>> <=> Len(q) = 0)
           /\ \A i \in 1..Len(q) : q[i] \in S
  <1>1. q = <<>> => Len(q) = 0
    BY EmptySeq
  <1> QED  BY <1>1, LenProperties, EmptySeq

LEMMA UnitFields ==
    ASSUME NEW c, NEW u \in Unit(c)
    PROVE  u.n \in Nat /\ u.k \in Nat /\ u.msg \in Messages(c) /\ Size(u.msg) \in Nat
  <1>1. u.n \in Nat /\ u.k \in Nat /\ u.msg \in Messages(c)
    BY DEF Unit
  <1> QED  BY <1>1, ProtoBounds DEF Size

LEMMA Lengthened ==
    ASSUME NEW c, NEW q \in Seq(Unit(c)), NEW n \in Nat, NEW m \in Messages(c)
    PROVE  /\ q \o Units(n, m, Size(m)) \in Seq(Unit(c))
           /\ Longer(q \o Units(n, m, Size(m)), q, n, m)
  <1> DEFINE s == Size(m)
             N == Len(q)
             u == Units(n, m, s)
             p == q \o u
  <1>1. s \in Nat \ {0} /\ N \in Nat
    BY ProtoBounds, LenProperties
  <1>2. /\ u \in Seq(Unit(c)) /\ Len(u) = s
        /\ \A k \in 1..s : u[k] = [n |-> n, k |-> k, msg |-> m]
    <2> HIDE DEF s
    <2> QED  BY <1>1 DEF Units, Unit
  <1> HIDE DEF s, u
  <1>3. /\ p \in Seq(Unit(c)) /\ Len(p) = Len(q) + Len(u)
        /\ \A i \in 1..Len(q) + Len(u) : p[i] = IF i <= Len(q) THEN q[i] ELSE u[i - Len(q)]
    BY <1>2, ConcatProperties
  <1> HIDE DEF N, p
  <1>4. N = Len(q)
    BY DEF N
  <1>5. /\ p \in Seq(Unit(c)) /\ Len(p) = N + s
        /\ \A i \in 1..N : p[i] = q[i]
        /\ \A i \in N + 1..N + s : p[i] = u[i - N]
    BY <1>1, <1>2, <1>3, <1>4
  <1>6. ASSUME NEW i \in N + 1..N + s
        PROVE  p[i].n = n /\ p[i].k = i - N /\ p[i].msg = m
    <2>1. i - N \in 1..s
      BY <1>1
    <2>2. p[i] = [n |-> n, k |-> i - N, msg |-> m]
      BY <1>2, <1>5, <2>1
    <2> QED  BY <2>2
  <1>7. Longer(p, q, n, m)
    BY <1>4, <1>5, <1>6 DEF Longer, s
  <1> QED  BY <1>5, <1>7 DEF p, u, s

LEMMA FramedAppend ==
    ASSUME NEW c, NEW q \in Seq(Unit(c)), NEW p \in Seq(Unit(c)), NEW first \in Nat, NEW last \in Nat,
           Framed(q, first, last), NEW m \in Messages(c), Longer(p, q, last + 1, m)
    PROVE  Framed(p, first, last + 1)
  <1> DEFINE s == Size(m)
             N == Len(q)
  <1>1. s \in Nat \ {0} /\ N \in Nat
    BY ProtoBounds, LenProperties
  <1>2. /\ p \in Seq(Unit(c)) /\ Len(p) = N + s
        /\ \A i \in 1..N : p[i] = q[i]
        /\ \A i \in N + 1..N + s : p[i].n = last + 1 /\ p[i].k = i - N /\ p[i].msg = m
    BY DEF Longer
  <1>4. \A i \in 1..N : q[i].k \in Nat /\ q[i].n \in Nat /\ Size(q[i].msg) \in Nat
    BY SeqBasics, UnitFields
  <1>5. /\ \A i \in 1..N : Rests(q, i, Size(q[i].msg) - q[i].k)
        /\ \A i \in 1..N : q[i].n <= last
        /\ q = <<>> => first = last
        /\ q # <<>> => q[1].n = first + 1 /\ q[1].k = 1 /\ q[N].n = last
    BY DEF Framed
  <1>6. q = <<>> <=> N = 0
    BY SeqBasics
  <1> HIDE DEF s, N
  <1>a. \A i \in 1..N : p[i] = q[i]
    BY <1>2
  <1>b. ASSUME NEW i \in N + 1..N + s
        PROVE  p[i].n = last + 1 /\ p[i].k = i - N /\ p[i].msg = m
    BY <1>2
  <1>7. ASSUME NEW i \in 1..N PROVE Rests(p, i, Size(p[i].msg) - p[i].k)
    <2> DEFINE left == Size(p[i].msg) - p[i].k
    <2>1. p[i] = q[i] /\ left = Size(q[i].msg) - q[i].k /\ left \in Int
      <3>1. p[i] = q[i]
        BY <1>a
      <3> QED  BY <1>4, <3>1
    <2>2. Rests(q, i, left)
      BY <1>5, <2>1
    <2> HIDE DEF left
    <2>3. /\ left >= 0 /\ i + left <= N
          /\ \A d \in 0..left : q[i + d].n = q[i].n /\ q[i + d].k = q[i].k + d /\ q[i + d].msg = q[i].msg
          /\ i + left < N => q[i + left + 1].n = q[i].n + 1 /\ q[i + left + 1].k = 1
      BY <2>2 DEF Rests, N
    <2>0. i \in Nat /\ i >= 1 /\ i <= N /\ left \in Nat /\ N \in Nat /\ s \in Nat /\ s >= 1
      BY <1>1, <2>1, <2>3
    <2>4. ASSUME NEW d \in 0..left PROVE i + d \in 1..N /\ p[i + d] = q[i + d]
      <3>1. i + d \in 1..N
        BY <2>0, <2>3
      <3> QED  BY <1>a, <3>1
    <2>5. \A d \in 0..left : p[i + d].n = p[i].n /\ p[i + d].k = p[i].k + d /\ p[i + d].msg = p[i].msg
      BY <2>1, <2>3, <2>4
    <2>6. p[i + left + 1].n = p[i].n + 1 /\ p[i + left + 1].k = 1
      <3>1. CASE i + left < N
        <4>1. i + left + 1 \in 1..N
          BY <1>1, <2>1, <2>3, <3>1
        <4>2. p[i + left + 1] = q[i + left + 1]
          BY <1>a, <4>1
        <4> QED  BY <2>1, <2>3, <3>1, <4>2
      <3>2. CASE i + left = N
        <4>1. q # <<>> /\ left \in 0..left
          BY <1>1, <1>6, <2>1, <2>3
        <4>2. q[i + left].n = q[i].n
          BY <2>3, <4>1
        <4>3. q[i].n = last
          BY <1>5, <3>2, <4>1, <4>2
        <4>4. N + 1 \in N + 1..N + s /\ i + left + 1 = N + 1 /\ (N + 1) - N = 1
          BY <2>0, <3>2
        <4>5. p[N + 1].n = last + 1 /\ p[N + 1].k = (N + 1) - N
          BY <1>b, <4>4
        <4> QED  BY <2>1, <4>3, <4>4, <4>5
      <3>3. i + left < N \/ i + left = N
        BY <2>0, <2>3
      <3> QED  BY <3>1, <3>2, <3>3
    <2>7. left >= 0 /\ i + left <= Len(p)
      BY <1>1, <1>2, <2>1, <2>3
    <2>8. Rests(p, i, left)
      BY <2>5, <2>6, <2>7 DEF Rests
    <2> QED  BY <2>8 DEF left
  <1>8. ASSUME NEW i \in N + 1..N + s PROVE Rests(p, i, Size(p[i].msg) - p[i].k)
    <2> DEFINE left == Size(p[i].msg) - p[i].k
    <2>1. p[i].k = i - N /\ p[i].n = last + 1 /\ p[i].msg = m /\ Size(p[i].msg) = s
      BY <1>b DEF s
    <2>2. left \in Nat /\ i + left = N + s
      BY <1>1, <2>1
    <2> HIDE DEF left
    <2>3. ASSUME NEW d \in 0..left
          PROVE  p[i + d].n = p[i].n /\ p[i + d].k = p[i].k + d /\ p[i + d].msg = p[i].msg
      <3>1. i + d \in N + 1..N + s /\ (i + d) - N = (i - N) + d
        BY <1>1, <2>2
      <3>2. p[i + d].n = last + 1 /\ p[i + d].k = (i + d) - N /\ p[i + d].msg = m
        BY <1>b, <3>1
      <3> QED  BY <2>1, <3>1, <3>2
    <2>4. left >= 0 /\ i + left <= Len(p) /\ ~ (i + left < Len(p))
      BY <1>1, <1>2, <2>2
    <2>5. Rests(p, i, left)
      BY <2>3, <2>4 DEF Rests
    <2> QED  BY <2>5 DEF left
  <1>9. p # <<>> /\ p[Len(p)].n = last + 1 /\ p[1].n = first + 1 /\ p[1].k = 1
    <2>1. p # <<>> /\ p[Len(p)].n = last + 1
      <3>1. Len(p) = N + s /\ Len(p) # 0 /\ N + s \in N + 1..N + s
        BY <1>1, <1>2
      <3> QED  BY <1>2, <1>b, <3>1, SeqBasics
    <2>2. CASE N = 0
      <3>1. 1 \in N + 1..N + s /\ first = last
        BY <1>1, <1>5, <1>6, <2>2
      <3> QED  BY <1>b, <2>1, <2>2, <3>1
    <2>3. CASE N # 0
      <3>1. 1 \in 1..N /\ p[1] = q[1]
        BY <1>1, <1>a, <2>3
      <3> QED  BY <1>5, <1>6, <2>1, <2>3, <3>1
    <2> QED  BY <2>1, <2>2, <2>3
  <1>10. \A i \in 1..Len(p) : i \in 1..N \/ i \in N + 1..N + s
    BY <1>1, <1>2
  <1>11. \A i \in 1..Len(p) : Rests(p, i, Size(p[i].msg) - p[i].k)
    BY <1>7, <1>8, <1>10
  <1>12. ASSUME NEW i \in 1..Len(p) PROVE p[i].n <= last + 1
    <2>1. CASE i \in 1..N
      BY <1>a, <1>4, <1>5, <2>1
    <2>2. CASE i \in N + 1..N + s
      BY <1>b, <2>2
    <2> QED  BY <1>10, <2>1, <2>2
  <1> QED  BY <1>9, <1>11, <1>12 DEF Framed

(* The first message is there from its first unit to its last. *)
LEMMA FramedFirst ==
    ASSUME NEW c, NEW q \in Seq(Unit(c)), NEW first \in Nat, NEW last \in Nat,
           Framed(q, first, last), q # <<>>
    PROVE  /\ first + 1 <= last /\ Size(q[1].msg) <= Len(q)
           /\ \A k \in 1..Size(q[1].msg) : q[k] = [n |-> first + 1, k |-> k, msg |-> q[1].msg]
           /\ Size(q[1].msg) < Len(q) => q[Size(q[1].msg) + 1].k = 1
           /\ \A p \in Seq(Unit(c)) : Shorter(p, q) => Framed(p, first + 1, last)
  <1> DEFINE s == Size(q[1].msg)
             N == Len(q)
  <1>1. s \in Nat \ {0} /\ N \in Nat \ {0} /\ 1 \in 1..N
    BY ProtoBounds, EmptySeq
  <1>4. \A i \in 1..N : q[i] \in Unit(c) /\ q[i].k \in Nat /\ q[i].n \in Nat /\ Size(q[i].msg) \in Nat
    BY SeqBasics, UnitFields
  <1>5. /\ \A i \in 1..N : Rests(q, i, Size(q[i].msg) - q[i].k)
        /\ \A i \in 1..N : q[i].n <= last
        /\ q[1].n = first + 1 /\ q[1].k = 1 /\ q[N].n = last
    BY DEF Framed
  <1>6. s <= N
    <2>1. Size(q[1].msg) - q[1].k = s - 1
      BY <1>1, <1>5
    <2>2. Rests(q, 1, s - 1)
      BY <1>1, <1>5, <2>1
    <2> QED  BY <1>1, <2>2 DEF Rests
  <1>9. /\ s < N => q[s + 1].n = q[1].n + 1 /\ q[s + 1].k = 1
        /\ \A d \in 0..(s - 1) : q[1 + d].n = q[1].n /\ q[1 + d].k = 1 + d /\ q[1 + d].msg = q[1].msg
    <2>1. Size(q[1].msg) - q[1].k = s - 1 /\ s - 1 \in Nat /\ 1 + (s - 1) = s
      BY <1>1, <1>5
    <2>2. Rests(q, 1, s - 1)
      BY <1>1, <1>5, <2>1
    <2> QED  BY <1>1, <1>5, <2>1, <2>2 DEF Rests
  <1> HIDE DEF s, N
  <1>10. ASSUME NEW k \in 1..s PROVE q[k] = [n |-> first + 1, k |-> k, msg |-> q[1].msg]
    <2>1. k \in 1..N /\ k - 1 \in 0..(s - 1) /\ 1 + (k - 1) = k
      BY <1>1, <1>6
    <2>2. q[k].n = first + 1 /\ q[k].k = k /\ q[k].msg = q[1].msg
      BY <1>5, <1>9, <2>1
    <2> QED  BY <1>4, <2>1, <2>2 DEF Unit
  <1>11. ASSUME NEW p \in Seq(Unit(c)), Shorter(p, q)
         PROVE  Framed(p, first + 1, last)
    <2>1. Len(p) = N - s /\ (\A i \in 1..Len(p) : p[i] = q[i + s]) /\ N - s \in Nat
      BY <1>1, <1>6, <1>11 DEF Shorter, s, N
    <2>2. p = <<>> <=> N = s
      <3>1. p = <<>> <=> Len(p) = 0
        BY SeqBasics
      <3> QED  BY <1>1, <1>6, <2>1, <3>1
    <2>3. ASSUME NEW i \in 1..Len(p) PROVE Rests(p, i, Size(p[i].msg) - p[i].k)
      <3> DEFINE left == Size(p[i].msg) - p[i].k
                 j == i + s
      <3>1. j \in 1..N /\ p[i] = q[j]
        BY <1>1, <1>6, <2>1
      <3>2. left \in Int /\ left = Size(q[j].msg) - q[j].k
        BY <1>4, <3>1
      <3>3. Rests(q, j, left)
        BY <1>5, <3>1, <3>2
      <3>4. j \in Int /\ j = i + s /\ i \in Int
        BY <1>1, <2>1
      <3> HIDE DEF left, j
      <3>5. /\ left >= 0 /\ j + left <= N
            /\ \A d \in 0..left : q[j + d].n = q[j].n /\ q[j + d].k = q[j].k + d /\ q[j + d].msg = q[j].msg
            /\ j + left < N => q[j + left + 1].n = q[j].n + 1 /\ q[j + left + 1].k = 1
        BY <3>3 DEF Rests, N
      <3>6. ASSUME NEW d \in Nat, i + d <= Len(p) PROVE p[i + d] = q[j + d]
        <4>1. i + d \in 1..Len(p) /\ (i + d) + s = j + d
          BY <1>1, <2>1, <3>4, <3>6
        <4> QED  BY <2>1, <4>1
      <3>7. left \in Nat /\ i + left <= Len(p) /\ \A d \in 0..left : d \in Nat /\ i + d <= Len(p)
        BY <1>1, <2>1, <3>2, <3>4, <3>5
      <3>8. \A d \in 0..left : p[i + d].n = p[i].n /\ p[i + d].k = p[i].k + d /\ p[i + d].msg = p[i].msg
        BY <3>1, <3>5, <3>6, <3>7
      <3>9. ASSUME i + left < Len(p)
            PROVE  p[i + left + 1].n = p[i].n + 1 /\ p[i + left + 1].k = 1
        <4>1. /\ left + 1 \in Nat /\ i + (left + 1) <= Len(p) /\ j + left < N
              /\ i + (left + 1) = i + left + 1 /\ j + (left + 1) = j + left + 1
          BY <1>1, <2>1, <3>4, <3>7, <3>9
        <4>2. p[i + left + 1] = q[j + left + 1]
          BY <3>6, <4>1
        <4> QED  BY <3>1, <3>5, <4>1, <4>2
      <3>10. Rests(p, i, left)
        BY <3>7, <3>8, <3>9 DEF Rests
      <3> QED  BY <3>10 DEF left
    <2>4. ASSUME NEW i \in 1..Len(p) PROVE p[i].n <= last
      <3>1. i + s \in 1..N /\ p[i] = q[i + s]
        BY <1>1, <1>6, <2>1
      <3> QED  BY <1>5, <3>1
    <2>5. CASE p = <<>>
      <3>1. N = s /\ s - 1 \in 0..(s - 1) /\ 1 + (s - 1) = N
        BY <1>1, <2>2, <2>5
      <3>2. first + 1 = last
        BY <1>5, <1>9, <3>1
      <3>3. Len(p) = 0
        BY <2>5
      <3> QED  BY <2>5, <3>2, <3>3 DEF Framed
    <2>6. CASE p # <<>>
      <3>1. s < N /\ Len(p) \in 1..Len(p) /\ 1 \in 1..Len(p)
        BY <1>1, <1>6, <2>1, <2>2, <2>6
      <3>2. p[1] = q[s + 1] /\ p[Len(p)] = q[N]
        BY <1>1, <2>1, <3>1
      <3>3. p[1].n = (first + 1) + 1 /\ p[1].k = 1 /\ p[Len(p)].n = last
        BY <1>5, <1>9, <3>1, <3>2
      <3> QED  BY <2>3, <2>4, <2>6, <3>3 DEF Framed
    <2> QED  BY <2>5, <2>6
  <1>12. first + 1 <= last
    BY <1>1, <1>5
  <1> QED  BY <1>6, <1>9, <1>10, <1>11, <1>12 DEF s, N

LEMMA Kinds ==
    ASSUME NEW c \in Conn, NEW m \in Messages(c)
    PROVE  /\ OldOp(m) => m.v \in {0, 2, NaN, MAX_PROTO_VER + 1} /\ Size(m) = 1
           /\ m.op = "SENS" => m.v \in {2, NaN}
           /\ m.op = "CHANGE_PROTO" => m.v \in {0, MAX_PROTO_VER + 1}
           /\ m.op = "STR" => m \in Parts(c)
           /\ ~ OldOp(m) => Size(m) = ReqUnits /\ m \in Requests[c] \cup Parts(c)
  <1>1. CASE m \in OldMessages
    BY <1>1 DEF OldMessages, OldOp, Size
  <1>2. CASE m \in Parts(c)
    BY <1>2 DEF Parts, OldOp, Size
  <1>3. CASE m \in Requests[c]
    <2>1. m.op \notin {"SENS", "CHANGE_PROTO", "STR"}
      BY <1>3, UnixProtoAssumption DEF Sendable
    <2> QED  BY <1>3, <2>1 DEF OldOp, Size
  <1> QED  BY <1>1, <1>2, <1>3 DEF Messages

(* A message more: an old one while both speak protocol 0, or another. *)
LEMMA SpokenOldMore ==
    ASSUME NEW c \in Conn, NEW q \in Seq(Unit(c)), NEW p \in Seq(Unit(c)), NEW n, NEW m \in Messages(c),
           Longer(p, q, n, m), OldOp(m), NEW pr, Spoken(q, pr, 0), NEW s \in Nat,
           s > 0 <=> Switches(m)
    PROVE  Spoken(p, pr, s)
  <1> DEFINE N == Len(q)
  <1>1. N \in Nat /\ Size(m) = 1 /\ (p = <<>> <=> Len(p) = 0) /\ (q = <<>> <=> N = 0)
    BY SeqBasics, Kinds
  <1>2. /\ Len(p) = N + 1 /\ \A i \in 1..N : p[i] = q[i]
        /\ \A i \in N + 1..N + 1 : p[i].msg = m
    BY <1>1 DEF Longer
  <1>3. pr = 0 /\ \A i \in 1..N : OldOp(q[i].msg) /\ ~ Switches(q[i].msg)
    BY DEF Spoken
  <1> HIDE DEF N
  <1>4. p[N + 1].msg = m
    BY <1>1, <1>2
  <1>5. \A i \in 1..Len(p) : OldOp(p[i].msg) /\ (i # N + 1 => ~ Switches(p[i].msg))
    <2> TAKE i \in 1..Len(p)
    <2>1. i \in 1..N \/ i = N + 1
      BY <1>1, <1>2
    <2> QED  BY <1>2, <1>3, <1>4, <2>1
  <1>6. N + 1 \in 1..Len(p) /\ 1 \in 1..Len(p)
    BY <1>1, <1>2
  <1>7. /\ \A i, j \in 1..Len(p) : i < j => ~ Switches(p[i].msg)
        /\ s = 0 => \A i \in 1..Len(p) : ~ Switches(p[i].msg)
        /\ s > 0 => \E i \in 1..Len(p) : Switches(p[i].msg)
    <2>1. \A i, j \in 1..Len(p) : i < j => i # N + 1
      BY <1>1, <1>2
    <2>2. s = 0 => ~ Switches(m)
      OBVIOUS
    <2> QED  BY <1>4, <1>5, <1>6, <2>1, <2>2
  <1> QED  BY <1>3, <1>5, <1>6, <1>7 DEF Spoken

LEMMA SpokenNewMore ==
    ASSUME NEW c \in Conn, NEW q \in Seq(Unit(c)), NEW p \in Seq(Unit(c)), NEW n, NEW m \in Messages(c),
           Longer(p, q, n, m), ~ OldOp(m), NEW pr \in {0, 1}, NEW s \in Nat, s > 0, Spoken(q, pr, s)
    PROVE  Spoken(p, pr, s)
  <1> DEFINE N == Len(q)
  <1>1. /\ N \in Nat /\ Size(m) \in Nat /\ (p = <<>> <=> Len(p) = 0) /\ (q = <<>> <=> N = 0)
        /\ Len(p) = N + Size(m)
    BY SeqBasics, ProtoBounds DEF Longer
  <1>2. /\ \A i \in 1..N : p[i] = q[i]
        /\ \A i \in N + 1..Len(p) : p[i].msg = m
    BY DEF Longer
  <1>3. /\ pr = 1 => \A i \in 1..N : ~ OldOp(q[i].msg)
        /\ pr = 0 /\ q # <<>> => OldOp(q[1].msg)
        /\ \A i, j \in 1..N :
             i < j /\ OldOp(q[j].msg) => OldOp(q[i].msg) /\ ~ Switches(q[i].msg)
        /\ \A i, j \in 1..N :
             j = i + 1 /\ OldOp(q[i].msg) /\ ~ Switches(q[i].msg) => OldOp(q[j].msg)
        /\ pr = 0 => \E i \in 1..N : Switches(q[i].msg)
    BY DEF Spoken
  <1> HIDE DEF N
  <1>4. \A i \in 1..Len(p) : (i \in 1..N /\ p[i] = q[i]) \/ (i > N /\ ~ OldOp(p[i].msg))
    <2> TAKE i \in 1..Len(p)
    <2>1. i \in 1..N \/ (i > N /\ i \in N + 1..Len(p))
      BY <1>1
    <2> QED  BY <1>2, <2>1
  <1>5. pr = 1 => \A i \in 1..Len(p) : ~ OldOp(p[i].msg)
    BY <1>3, <1>4
  <1>6. pr = 0 => q # <<>> /\ OldOp(p[1].msg) /\ \E i \in 1..Len(p) : Switches(p[i].msg)
    <2> SUFFICES ASSUME pr = 0 PROVE q # <<>> /\ OldOp(p[1].msg) /\ \E i \in 1..Len(p) : Switches(p[i].msg)
      OBVIOUS
    <2>1. PICK i \in 1..N : Switches(q[i].msg)
      BY <1>3
    <2>2. 1 \in 1..N /\ q # <<>> /\ i \in 1..Len(p) /\ p[i] = q[i] /\ p[1] = q[1]
      BY <1>1, <1>2, <2>1
    <2> QED  BY <1>3, <2>1, <2>2
  <1>7. ASSUME NEW i \in 1..Len(p), NEW j \in 1..Len(p), i < j, OldOp(p[j].msg)
        PROVE  OldOp(p[i].msg) /\ ~ Switches(p[i].msg)
    <2>1. j \in 1..N /\ p[j] = q[j]
      BY <1>4, <1>7
    <2>2. i \in 1..N /\ p[i] = q[i]
      BY <1>1, <1>2, <1>7, <2>1
    <2> QED  BY <1>3, <1>7, <2>1, <2>2
  <1>8. ASSUME NEW i \in 1..Len(p), NEW j \in 1..Len(p), j = i + 1,
               OldOp(p[i].msg), ~ Switches(p[i].msg)
        PROVE  OldOp(p[j].msg)
    <2>1. i \in 1..N /\ p[i] = q[i]
      BY <1>4, <1>8
    <2>2. CASE j \in 1..N
      BY <1>2, <1>3, <1>8, <2>1, <2>2
    <2>3. CASE j \notin 1..N
      <3>1. i = N
        BY <1>1, <1>8, <2>1, <2>3
      <3>2. pr = 0
        BY <1>3, <1>8, <2>1
      <3>3. PICK k \in 1..N : Switches(q[k].msg)
        BY <1>3, <3>2
      <3>4. k = i \/ k < i
        BY <1>1, <3>1, <3>3
      <3> QED  BY <1>3, <1>8, <2>1, <3>3, <3>4
    <2> QED  BY <2>2, <2>3
  <1>9. s # 0
    OBVIOUS
  <1> QED  BY <1>5, <1>6, <1>7, <1>8, <1>9 DEF Spoken

(* The first message leaves, and with it perhaps protocol 0. *)
LEMMA SpokenFirst ==
    ASSUME NEW c \in Conn, NEW q \in Seq(Unit(c)), NEW p \in Seq(Unit(c)), q # <<>>, Shorter(p, q),
           NEW pr \in {0, 1}, NEW s \in Nat, Spoken(q, pr, s), NEW new \in {0, 1},
           new = 1 <=> pr = 1 \/ Switches(q[1].msg)
    PROVE  Spoken(p, new, s)
  <1> DEFINE N == Len(q)
             z == Size(q[1].msg)
  <1>1. /\ N \in Nat \ {0} /\ z \in Nat \ {0} /\ (p = <<>> <=> Len(p) = 0)
        /\ z <= N /\ Len(p) = N - z /\ \A i \in 1..Len(p) : p[i] = q[i + z]
    BY SeqBasics, ProtoBounds DEF Shorter
  <1>2. 1 \in 1..N /\ q[1].msg \in Messages(c)
    BY <1>1, SeqBasics, UnitFields
  <1>3. OldOp(q[1].msg) => z = 1
    BY <1>2, Kinds
  <1>4. /\ pr = 1 => \A i \in 1..N : ~ OldOp(q[i].msg)
        /\ pr = 0 => OldOp(q[1].msg)
        /\ \A i, j \in 1..N :
             i < j /\ OldOp(q[j].msg) => OldOp(q[i].msg) /\ ~ Switches(q[i].msg)
        /\ \A i, j \in 1..N :
             j = i + 1 /\ OldOp(q[i].msg) /\ ~ Switches(q[i].msg) => OldOp(q[j].msg)
        /\ s = 0 => pr = 0 /\ \A i \in 1..N : OldOp(q[i].msg) /\ ~ Switches(q[i].msg)
        /\ s > 0 /\ pr = 0 => \E i \in 1..N : Switches(q[i].msg)
    BY DEF Spoken
  <1> HIDE DEF N, z
  <1>5. \A i \in 1..Len(p) : i + z \in 1..N /\ i + z > 1 /\ p[i] = q[i + z]
    BY <1>1
  <1>6. new = 1 => \A i \in 1..Len(p) : ~ OldOp(p[i].msg)
    <2> SUFFICES ASSUME new = 1, NEW i \in 1..Len(p) PROVE ~ OldOp(p[i].msg)
      OBVIOUS
    <2>1. CASE pr = 1
      BY <1>4, <1>5, <2>1
    <2>2. CASE Switches(q[1].msg)
      <3>1. i + z \in 1..N /\ 1 < i + z /\ p[i] = q[i + z]
        BY <1>1, <1>5
      <3> QED  BY <1>2, <1>4, <2>2, <3>1
    <2> QED  BY <2>1, <2>2
  <1>7. new = 0 /\ p # <<>> => OldOp(p[1].msg)
    <2> SUFFICES ASSUME new = 0, p # <<>> PROVE OldOp(p[1].msg)
      OBVIOUS
    <2>1. OldOp(q[1].msg) /\ ~ Switches(q[1].msg) /\ z = 1
      BY <1>3, <1>4
    <2>2. 1 \in 1..Len(p) /\ 2 \in 1..N /\ p[1] = q[2]
      BY <1>1, <2>1
    <2> QED  BY <1>2, <1>4, <2>1, <2>2
  <1>8. ASSUME NEW i \in 1..Len(p), NEW j \in 1..Len(p), i < j, OldOp(p[j].msg)
        PROVE  OldOp(p[i].msg) /\ ~ Switches(p[i].msg)
    <2>1. i + z < j + z
      BY <1>1, <1>8
    <2> QED  BY <1>4, <1>5, <1>8, <2>1
  <1>9. ASSUME NEW i \in 1..Len(p), NEW j \in 1..Len(p), j = i + 1,
               OldOp(p[i].msg), ~ Switches(p[i].msg)
        PROVE  OldOp(p[j].msg)
    <2>1. j + z = (i + z) + 1
      BY <1>1, <1>9
    <2> QED  BY <1>4, <1>5, <1>9, <2>1
  <1>10. s = 0 => new = 0 /\ \A i \in 1..Len(p) : OldOp(p[i].msg) /\ ~ Switches(p[i].msg)
    BY <1>2, <1>4, <1>5
  <1>11. s > 0 /\ new = 0 => \E i \in 1..Len(p) : Switches(p[i].msg)
    <2> SUFFICES ASSUME s > 0, new = 0 PROVE \E i \in 1..Len(p) : Switches(p[i].msg)
      OBVIOUS
    <2>1. pr = 0 /\ ~ Switches(q[1].msg) /\ z = 1
      BY <1>3, <1>4
    <2>2. PICK i \in 1..N : Switches(q[i].msg)
      BY <1>4, <2>1
    <2>3. i # 1
      BY <2>1, <2>2
    <2>4. i - 1 \in 1..Len(p) /\ (i - 1) + z = i
      BY <1>1, <2>1, <2>2, <2>3
    <2>5. Switches(p[i - 1].msg)
      BY <1>5, <2>2, <2>4
    <2> QED  BY <2>4, <2>5
  <1> QED  BY <1>6, <1>7, <1>8, <1>9, <1>10, <1>11 DEF Spoken

LEMMA PartFields ==
    ASSUME NEW c \in Conn, NEW r \in Parts(c)
    PROVE  /\ r = Chunk(r.of, r.str, r.at) /\ r.op = "STR" /\ r.of \in StringNames
           /\ r.str \in Seq(Token) /\ r.str \in Strings[c][r.of] /\ Len(r.str) \in Nat
           /\ r.at \in Nat /\ r.at <= Len(r.str) /\ (r.at > 0 => r.at < Len(r.str))
           /\ Left(r) \in Nat /\ ~ OldOp(r) /\ r \in Messages(c)
  <1>1. /\ r = [op |-> "STR", of |-> r.of, str |-> r.str, at |-> r.at]
        /\ r.op = "STR" /\ r.of \in StringNames /\ r.str \in Seq(Token) /\ r.at \in Nat
        /\ r.str \in Strings[c][r.of] /\ (r.at = 0 \/ r.at < Len(r.str))
    BY DEF Parts
  <1>2. Len(r.str) \in Nat
    BY <1>1, LenProperties
  <1> QED  BY <1>1, <1>2 DEF Chunk, Left, OldOp, Messages

(* The chunk that follows r is there while more of the string is left. *)
LEMMA Following ==
    ASSUME NEW c \in Conn, NEW r \in Parts(c), Left(r) > ChunkSize
    PROVE  /\ RestOf(r) \in Parts(c) /\ Later(RestOf(r)) /\ RestOf(r).at >= ChunkSize
           /\ RestOf(r) = Chunk(r.of, r.str, r.at + ChunkSize) /\ r = Former(RestOf(r))
  <1>1. /\ r = [op |-> "STR", of |-> r.of, str |-> r.str, at |-> r.at]
        /\ r.of \in StringNames /\ r.str \in Seq(Token) /\ r.str \in Strings[c][r.of]
        /\ r.at \in Nat /\ Len(r.str) \in Nat /\ Left(r) = Len(r.str) - r.at
    BY PartFields DEF Chunk, Left
  <1>2. ChunkSize \in Nat \ {0}
    BY ProtoBounds
  <1>3. RestOf(r) = [r EXCEPT !.at = r.at + ChunkSize]
    BY <1>1, <1>2 DEF RestOf
  <1>4. RestOf(r) = [op |-> "STR", of |-> r.of, str |-> r.str, at |-> r.at + ChunkSize]
    BY <1>1, <1>3
  <1> DEFINE a == r.at + ChunkSize
  <1>5. a \in Nat /\ a > 0 /\ a >= ChunkSize /\ a < Len(r.str) /\ a - ChunkSize = r.at
    BY <1>1, <1>2
  <1> HIDE DEF a
  <1>6. /\ RestOf(r).op = "STR" /\ RestOf(r).of = r.of /\ RestOf(r).str = r.str /\ RestOf(r).at = a
    BY <1>4 DEF a
  <1>7. RestOf(r) \in Parts(c)
    BY <1>1, <1>4, <1>5 DEF Parts, a
  <1>8. Former(RestOf(r)) = Chunk(r.of, r.str, r.at)
    BY <1>5, <1>6 DEF Former
  <1> QED  BY <1>1, <1>4, <1>5, <1>6, <1>7, <1>8 DEF Later, Chunk, a

LEMMA Followed ==
    ASSUME NEW c \in Conn, NEW r \in Parts(c), NEW m \in Parts(c),
           Later(r), r.at >= ChunkSize, m = Former(r)
    PROVE  Left(m) > ChunkSize /\ r = RestOf(m)
  <1>1. /\ r = Chunk(r.of, r.str, r.at) /\ r.at \in Nat /\ Len(r.str) \in Nat
        /\ (r.at > 0 => r.at < Len(r.str))
    BY PartFields
  <1>2. ChunkSize \in Nat \ {0}
    BY ProtoBounds
  <1>3. m.of = r.of /\ m.str = r.str /\ m.at = r.at - ChunkSize
    BY DEF Former, Chunk
  <1>4. Left(m) > ChunkSize /\ m.at + ChunkSize = r.at
    BY <1>1, <1>2, <1>3 DEF Left
  <1>5. RestOf(m) = Chunk(m.of, m.str, m.at + ChunkSize)
    BY <1>4, Following
  <1> QED  BY <1>1, <1>3, <1>4, <1>5

LEMMA StrungAppend ==
    ASSUME NEW c \in Conn, NEW q \in Seq(Unit(c)), NEW p \in Seq(Unit(c)), NEW n, NEW m \in Messages(c),
           Longer(p, q, n, m), NEW b, NEW next, Strung(c, q, b, next), Later(m) => m = next /\ next # Nothing,
           NEW new, new # Nothing => m \in Parts(c) /\ Left(m) > ChunkSize /\ new = RestOf(m)
    PROVE  Strung(c, p, b, new)
  <1> DEFINE N == Len(q)
  <1>1. /\ N \in Nat /\ Size(m) \in Nat \ {0} /\ (p = <<>> <=> Len(p) = 0) /\ (q = <<>> <=> N = 0)
        /\ Len(p) = N + Size(m)
    BY SeqBasics, ProtoBounds DEF Longer
  <1>2. /\ \A i \in 1..N : p[i] = q[i]
        /\ \A i \in N + 1..Len(p) : p[i].k = i - N /\ p[i].msg = m
    BY DEF Longer
  <1>3. /\ \A i, j \in 1..N : j = i + 1 /\ q[j].k = 1 /\ Later(q[j].msg)
              => q[j].msg.at >= ChunkSize /\ q[i].msg = Former(q[j].msg)
        /\ q # <<>> /\ Later(q[1].msg) => Receiving(b, q[1].msg)
        /\ next # Nothing =>
             /\ next \in Parts(c) /\ Later(next)
             /\ q = <<>> => Receiving(b, next)
             /\ q # <<>> => next.at >= ChunkSize /\ q[N].msg = Former(next)
    BY DEF Strung
  <1> HIDE DEF N
  <1>4. ASSUME NEW i \in 1..Len(p), NEW j \in 1..Len(p), j = i + 1, p[j].k = 1, Later(p[j].msg)
        PROVE  p[j].msg.at >= ChunkSize /\ p[i].msg = Former(p[j].msg)
    <2>1. CASE j <= N
      <3>1. i \in 1..N /\ j \in 1..N /\ p[i] = q[i] /\ p[j] = q[j]
        BY <1>1, <1>2, <1>4, <2>1
      <3> QED  BY <1>3, <1>4, <3>1
    <2>2. CASE j > N
      <3>1. j \in N + 1..Len(p)
        BY <1>1, <2>2
      <3>2. p[j].k = j - N /\ p[j].msg = m
        BY <1>2, <3>1
      <3>3. j = N + 1 /\ i = N /\ N \in 1..N /\ q # <<>>
        BY <1>1, <1>4, <3>1, <3>2
      <3>4. p[i] = q[N]
        BY <1>2, <3>3
      <3> QED  BY <1>3, <1>4, <3>2, <3>3, <3>4
    <2> QED  BY <1>1, <2>1, <2>2
  <1>5. p # <<>> /\ Len(p) \in N + 1..Len(p) /\ p[Len(p)].msg = m
    BY <1>1, <1>2
  <1>6. ASSUME Later(p[1].msg) PROVE Receiving(b, p[1].msg)
    <2>1. CASE q = <<>>
      <3>1. 1 \in N + 1..Len(p)
        BY <1>1, <2>1
      <3> QED  BY <1>2, <1>3, <1>6, <2>1, <3>1
    <2>2. CASE q # <<>>
      <3>1. 1 \in 1..N
        BY <1>1, <2>2
      <3> QED  BY <1>2, <1>3, <1>6, <2>2, <3>1
    <2> QED  BY <2>1, <2>2
  <1>7. ASSUME new # Nothing
        PROVE  new \in Parts(c) /\ Later(new) /\ new.at >= ChunkSize /\ m = Former(new)
    BY <1>7, Following
  <1> QED  BY <1>4, <1>5, <1>6, <1>7 DEF Strung

(* The first message is handled; b holds what came before, new what comes after. *)
LEMMA StrungFirst ==
    ASSUME NEW c \in Conn, NEW q \in Seq(Unit(c)), NEW p \in Seq(Unit(c)), NEW first \in Nat, NEW last \in Nat,
           Framed(q, first, last), q # <<>>, Shorter(p, q),
           NEW b, NEW next, Strung(c, q, b, next), NEW new,
           \A r \in Parts(c) : Later(r) /\ r.at >= ChunkSize /\ q[1].msg = Former(r) => Receiving(new, r)
    PROVE  Strung(c, p, new, next)
  <1> DEFINE N == Len(q)
             z == Size(q[1].msg)
  <1>1. /\ N \in Nat \ {0} /\ z \in Nat \ {0} /\ (p = <<>> <=> Len(p) = 0)
        /\ z <= N /\ Len(p) = N - z /\ \A i \in 1..Len(p) : p[i] = q[i + z]
    BY SeqBasics, ProtoBounds DEF Shorter
  <1>2. /\ \A k \in 1..z : q[k] = [n |-> first + 1, k |-> k, msg |-> q[1].msg]
        /\ z < N => q[z + 1].k = 1
    BY FramedFirst
  <1>3. /\ \A i, j \in 1..N : j = i + 1 /\ q[j].k = 1 /\ Later(q[j].msg)
              => q[j].msg.at >= ChunkSize /\ q[i].msg = Former(q[j].msg)
        /\ next # Nothing =>
             /\ next \in Parts(c) /\ Later(next)
             /\ next.at >= ChunkSize /\ q[N].msg = Former(next)
    BY DEF Strung
  <1>4. \A i \in 1..N : q[i].msg \in Messages(c)
    BY SeqBasics, UnitFields
  <1> HIDE DEF N, z
  <1>5. q[z].msg = q[1].msg
    <2>1. z \in 1..z
      BY <1>1
    <2>2. q[z] = [n |-> first + 1, k |-> z, msg |-> q[1].msg]
      BY <1>2, <2>1
    <2> QED  BY <2>2
  <1>6. ASSUME NEW i \in 1..Len(p), NEW j \in 1..Len(p), j = i + 1, p[j].k = 1, Later(p[j].msg)
        PROVE  p[j].msg.at >= ChunkSize /\ p[i].msg = Former(p[j].msg)
    <2>1. i + z \in 1..N /\ j + z \in 1..N /\ j + z = (i + z) + 1
      BY <1>1, <1>6
    <2>2. p[i] = q[i + z] /\ p[j] = q[j + z]
      BY <1>1
    <2> QED  BY <1>3, <1>6, <2>1, <2>2
  <1>7. ASSUME p # <<>>, Later(p[1].msg) PROVE Receiving(new, p[1].msg)
    <2>1. 1 \in 1..Len(p) /\ z \in 1..N /\ z + 1 \in 1..N /\ z < N /\ p[1] = q[z + 1]
      BY <1>1, <1>7
    <2>2. q[z + 1].msg.at >= ChunkSize /\ q[z].msg = Former(q[z + 1].msg)
      BY <1>2, <1>3, <1>7, <2>1
    <2>3. q[z + 1].msg \in Parts(c)
      BY <1>4, <1>7, <2>1, Kinds DEF Later
    <2> QED  BY <1>5, <1>7, <2>1, <2>2, <2>3
  <1>8. ASSUME next # Nothing
        PROVE  /\ next \in Parts(c) /\ Later(next)
               /\ IF p = <<>> THEN Receiving(new, next)
                  ELSE next.at >= ChunkSize /\ p[Len(p)].msg = Former(next)
    <2>1. next \in Parts(c) /\ Later(next) /\ next.at >= ChunkSize /\ q[N].msg = Former(next)
      BY <1>3, <1>8
    <2>2. CASE p = <<>>
      <3>1. z = N
        BY <1>1, <2>2
      <3> QED  BY <1>5, <2>1, <2>2, <3>1
    <2>3. CASE p # <<>>
      <3>1. Len(p) \in 1..Len(p) /\ Len(p) + z = N
        BY <1>1, <2>3
      <3>2. p[Len(p)] = q[N]
        BY <1>1, <3>1
      <3> QED  BY <2>1, <2>3, <3>2
    <2> QED  BY <2>2, <2>3
  <1> QED  BY <1>6, <1>7, <1>8 DEF Strung

LEMMA StartProperties ==
    ASSUME NEW S, NEW q \in Seq(S), NEW n \in Nat
    PROVE  /\ Start(q, n) \in Seq(S) /\ Len(Start(q, n)) \in 0..n /\ Len(Start(q, n)) <= Len(q)
           /\ (n <= Len(q) => Len(Start(q, n)) = n) /\ (n > Len(q) => Start(q, n) = q)
           /\ \A i \in 1..Len(Start(q, n)) : Start(q, n)[i] = q[i]
           /\ SubSeq(q, Len(Start(q, n)) + 1, Len(q)) \in Seq(S)
           /\ Start(q, n) \o SubSeq(q, Len(Start(q, n)) + 1, Len(q)) = q
  <1> DEFINE z == IF n < Len(q) THEN n ELSE Len(q)
  <1>1. z \in Nat /\ z <= n /\ z <= Len(q) /\ Len(q) \in Nat /\ (n <= Len(q) => z = n) /\ (n > Len(q) => z = Len(q))
    BY LenProperties
  <1>2. Start(q, n) = SubSeq(q, 1, z)
    BY DEF Start
  <1> HIDE DEF z
  <1>3. \A i \in 1..Len(q) : q[i] \in S
    BY ElementOfSeq
  <1>4. \A i \in 1..z : q[i] \in S
    BY <1>1, <1>3
  <1>5. /\ SubSeq(q, 1, z) \in Seq(S) /\ Len(SubSeq(q, 1, z)) = z
        /\ \A i \in 1..z : SubSeq(q, 1, z)[i] = q[i]
    <2>1. /\ SubSeq(q, 1, z) \in Seq(S) /\ Len(SubSeq(q, 1, z)) = IF 1 <= z THEN z - 1 + 1 ELSE 0
          /\ \A i \in 1..(z - 1 + 1) : SubSeq(q, 1, z)[i] = q[1 + i - 1]
      BY <1>1, <1>4, SubSeqProperties
    <2>2. z - 1 + 1 = z /\ \A i \in 1..z : 1 + i - 1 = i
      BY <1>1
    <2>3. Len(SubSeq(q, 1, z)) = z
      BY <1>1, <2>1, <2>2
    <2> QED  BY <2>1, <2>2, <2>3
  <1>6. SubSeq(q, z + 1, Len(q)) \in Seq(S)
    <2>1. \A i \in z + 1..Len(q) : q[i] \in S
      BY <1>1, <1>3
    <2> QED  BY <1>1, <2>1, SubSeqProperties
  <1>7. SubSeq(q, 1, z) \o SubSeq(q, z + 1, Len(q)) = q
    <2>1. 1 \in 1..Len(q) + 1 /\ z \in (1 - 1)..Len(q) /\ Len(q) \in z..Len(q)
      BY <1>1
    <2>2. SubSeq(q, 1, z) \o SubSeq(q, z + 1, Len(q)) = SubSeq(q, 1, Len(q))
      BY <2>1, ConcatAdjacentSubSeq
    <2> QED  BY <2>2, SubSeqFull
  <1>8. n > Len(q) => SubSeq(q, 1, z) = q
    BY <1>1, SubSeqFull
  <1>9. Len(Start(q, n)) = z
    BY <1>2, <1>5
  <1>10. /\ Len(Start(q, n)) \in 0..n /\ Len(Start(q, n)) <= Len(q)
         /\ (n <= Len(q) => Len(Start(q, n)) = n) /\ (n > Len(q) => Start(q, n) = q)
         /\ Start(q, n) \in Seq(S) /\ \A i \in 1..Len(Start(q, n)) : Start(q, n)[i] = q[i]
    BY <1>1, <1>2, <1>5, <1>8, <1>9
  <1>11. /\ SubSeq(q, Len(Start(q, n)) + 1, Len(q)) \in Seq(S)
         /\ Start(q, n) \o SubSeq(q, Len(Start(q, n)) + 1, Len(q)) = q
    BY <1>2, <1>6, <1>7, <1>9
  <1> QED  BY <1>10, <1>11

(* Writing and reading move units along: the stream is the same. *)
LEMMA MovedOn ==
    ASSUME NEW S, NEW q \in Seq(S), NEW t \in Seq(S), t # <<>>
    PROVE  Append(q, Head(t)) \in Seq(S) /\ Tail(t) \in Seq(S) /\ Append(q, Head(t)) \o Tail(t) = q \o t
  <1> DEFINE a == Append(q, Head(t))
             N == Len(q)
             M == Len(t)
             l == a \o Tail(t)
             r == q \o t
  <1>1. N \in Nat /\ M \in Nat \ {0} /\ Head(t) = t[1] /\ t[1] \in S
    <2>1. M \in Nat \ {0}
      BY EmptySeq
    <2>2. 1 \in 1..M
      BY <2>1
    <2> QED  BY <2>1, <2>2, LenProperties, ElementOfSeq
  <1>2. /\ Tail(t) \in Seq(S) /\ Len(Tail(t)) = M - 1
        /\ \A i \in 1..Len(Tail(t)) : Tail(t)[i] = t[i + 1]
    BY HeadTailProperties
  <1>3. /\ a \in Seq(S) /\ Len(a) = N + 1 /\ a[N + 1] = t[1]
        /\ \A i \in 1..N : a[i] = q[i]
    BY <1>1, AppendProperties
  <1> HIDE DEF a
  <1>4. /\ r \in Seq(S) /\ Len(r) = N + M
        /\ \A i \in 1..Len(q) + Len(t) : r[i] = IF i <= Len(q) THEN q[i] ELSE t[i - Len(q)]
    BY ConcatProperties
  <1>5. /\ l \in Seq(S) /\ Len(l) = Len(a) + Len(Tail(t))
        /\ \A i \in 1..Len(a) + Len(Tail(t)) : l[i] = IF i <= Len(a) THEN a[i] ELSE Tail(t)[i - Len(a)]
    BY <1>2, <1>3, ConcatProperties
  <1> HIDE DEF l, r
  <1>6. Len(l) = Len(r) /\ Len(l) = N + M
    BY <1>1, <1>2, <1>3, <1>4, <1>5
  <1>7. ASSUME NEW i \in 1..Len(l) PROVE l[i] = r[i]
    <2>0. i \in 1..N + M
      BY <1>6
    <2>1. CASE i <= N
      <3>1. i \in 1..N
        BY <1>1, <2>0, <2>1
      <3>2. l[i] = a[i] /\ r[i] = q[i]
        BY <1>1, <1>2, <1>3, <1>4, <1>5, <2>0, <2>1
      <3> QED  BY <1>3, <3>1, <3>2
    <2>2. CASE i = N + 1
      <3>1. l[i] = a[i] /\ r[i] = t[1]
        BY <1>1, <1>2, <1>3, <1>4, <1>5, <2>0, <2>2
      <3> QED  BY <1>3, <2>2, <3>1
    <2>3. CASE i > N + 1
      <3>1. i - (N + 1) \in 1..Len(Tail(t)) /\ (i - (N + 1)) + 1 = i - N
        BY <1>1, <1>2, <2>0, <2>3
      <3>2. l[i] = Tail(t)[i - (N + 1)] /\ r[i] = t[i - N]
        BY <1>1, <1>2, <1>3, <1>4, <1>5, <2>0, <2>3
      <3> QED  BY <1>2, <3>1, <3>2
    <2> QED  BY <1>1, <2>0, <2>1, <2>2, <2>3
  <1>8. l = r
    BY <1>4, <1>5, <1>6, <1>7, SeqEqual
  <1> QED  BY <1>2, <1>3, <1>8 DEF l, r, a

Associates(S) == \A x, y, z \in Seq(S) : (x \o y) \o z = x \o (y \o z)

LEMMA Associate ==
    ASSUME NEW S
    PROVE  Associates(S)
  <1> SUFFICES \A x, y, z \in Seq(S) : (x \o y) \o z = x \o (y \o z)
    BY DEF Associates
  <1> TAKE x, y, z \in Seq(S)
  <1> QED  BY ConcatAssociative

MovedIn(c, b, d, u, t, w) ==
    /\ b \o d \in Seq(Unit(c)) /\ u \o t \in Seq(Unit(c)) /\ Len(b \o d) = Len(b) + Len(d)
    /\ ((b \o d) \o u) \o t = (b \o w) \o t /\ (b \o d) \o (u \o t) = (b \o w) \o t
    /\ (<<>> \o u) \o t = u \o t

(* What is read, d, moves from the socket to the buffer b. *)
LEMMA ReadOn ==
    ASSUME NEW c, NEW b \in Seq(Unit(c)), NEW d \in Seq(Unit(c)), NEW u \in Seq(Unit(c)),
           NEW t \in Seq(Unit(c)), NEW w, d \o u = w
    PROVE  MovedIn(c, b, d, u, t, w)
  <1> DEFINE S == Unit(c)
  <1>1. b \in Seq(S) /\ d \in Seq(S) /\ u \in Seq(S) /\ t \in Seq(S)
    OBVIOUS
  <1> HIDE DEF S
  <1>2. b \o d \in Seq(S) /\ u \o t \in Seq(S) /\ Len(b \o d) = Len(b) + Len(d) /\ <<>> \o u = u
    BY <1>1, ConcatProperties, ConcatEmptySeq
  <1>3. Associates(S)
    BY Associate
  <1>4. (b \o d) \o u = b \o w
    BY <1>1, <1>3, Zenon DEF Associates
  <1> DEFINE e == b \o d
  <1>5. e \in Seq(S)
    BY <1>2
  <1> HIDE DEF e
  <1>6. e \o (u \o t) = (e \o u) \o t
    BY <1>1, <1>3, <1>5, Zenon DEF Associates
  <1> QED  BY <1>2, <1>4, <1>6, Zenon DEF S, e, MovedIn

SameWhenMoved(S) ==
    \A b, w, t \in Seq(S) :
        t # <<>> => (b \o Append(w, Head(t))) \o Tail(t) = (b \o w) \o t

LEMMA WrittenOn ==
    ASSUME NEW c
    PROVE  SameWhenMoved(Unit(c))
  <1> DEFINE S == Unit(c)
  <1> HIDE DEF S
  <1> SUFFICES \A b, w, t \in Seq(S) :
               t # <<>> => (b \o Append(w, Head(t))) \o Tail(t) = (b \o w) \o t
    BY Zenon DEF S, SameWhenMoved
  <1>1. Associates(S)
    BY Associate
  <1>2. \A w, t \in Seq(S) :
            t # <<>> => /\ Append(w, Head(t)) \in Seq(S) /\ Tail(t) \in Seq(S)
                        /\ Append(w, Head(t)) \o Tail(t) = w \o t
    BY MovedOn
  <1> TAKE b, w, t \in Seq(S)
  <1> HAVE t # <<>>
  <1>3. /\ Append(w, Head(t)) \in Seq(S) /\ Tail(t) \in Seq(S)
        /\ Append(w, Head(t)) \o Tail(t) = w \o t
    BY <1>2
  <1>4. (b \o Append(w, Head(t))) \o Tail(t) = b \o (Append(w, Head(t)) \o Tail(t))
    BY <1>1, <1>3, Zenon DEF Associates
  <1>5. (b \o w) \o t = b \o (w \o t)
    BY <1>1, Zenon DEF Associates
  <1> QED  BY <1>3, <1>4, <1>5, Zenon

(* What is left when a sequence is cut where its first message ends. *)
LEMMA Shortened ==
    ASSUME NEW c, NEW b \in Seq(Unit(c)), NEW q \in Seq(Unit(c)), NEW t \in Seq(Unit(c)),
           q = b \o t, q # <<>>, Len(b) = Size(q[1].msg)
    PROVE  Shorter(t, q)
  <1> DEFINE z == Len(b)
  <1>1. /\ b \o t \in Seq(Unit(c)) /\ Len(b \o t) = Len(b) + Len(t)
        /\ \A i \in 1..Len(b) + Len(t) : (b \o t)[i] = IF i <= Len(b) THEN b[i] ELSE t[i - Len(b)]
    BY ConcatProperties
  <1>2. z \in Nat /\ Len(t) \in Nat /\ Size(q[1].msg) = z
    BY LenProperties
  <1> HIDE DEF z
  <1>3. /\ Len(q) = z + Len(t)
        /\ \A i \in 1..z + Len(t) : q[i] = IF i <= z THEN b[i] ELSE t[i - z]
    BY <1>1 DEF z
  <1>4. ASSUME NEW i \in 1..Len(t) PROVE t[i] = q[i + z]
    <2>1. i + z \in 1..z + Len(t) /\ ~ (i + z <= z) /\ (i + z) - z = i
      BY <1>2
    <2> QED  BY <1>3, <2>1
  <1> QED  BY <1>2, <1>3, <1>4 DEF Shorter

(* A whole request is in the buffer. *)
LEMMA WholeRequest ==
    ASSUME NEW c \in Conn, NEW b \in Seq(Unit(c)), NEW q \in Seq(Unit(c)), NEW t \in Seq(Unit(c)),
           q = b \o t, NEW first \in Nat, NEW last \in Nat, Framed(q, first, last),
           Len(b) = ReqUnits, ~ OldOp(q[1].msg)
    PROVE  /\ q # <<>> /\ Shorter(t, q)
           /\ Number(b) = first + 1 /\ Meaning(b) = q[1].msg
  <1>1. ReqUnits \in Nat \ {0} /\ Len(t) \in Nat
    BY ProtoBounds, LenProperties
  <1>2. /\ Len(q) = Len(b) + Len(t)
        /\ \A i \in 1..Len(b) + Len(t) : q[i] = IF i <= Len(b) THEN b[i] ELSE t[i - Len(b)]
    BY ConcatProperties
  <1>3. q # <<>>
    BY <1>1, <1>2, SeqBasics
  <1>4. Size(q[1].msg) = ReqUnits
    BY DEF Size
  <1>5. \A k \in 1..ReqUnits : q[k] = [n |-> first + 1, k |-> k, msg |-> q[1].msg]
    BY <1>3, <1>4, FramedFirst
  <1>6. \A k \in 1..ReqUnits : b[k] = [n |-> first + 1, k |-> k, msg |-> q[1].msg]
    <2> TAKE k \in 1..ReqUnits
    <2>1. k \in 1..Len(b) + Len(t) /\ k <= Len(b)
      BY <1>1
    <2>2. b[k] = q[k]
      BY <1>2, <2>1
    <2> QED  BY <1>5, <2>2
  <1> DEFINE u == Units(first + 1, q[1].msg, ReqUnits)
  <1>7. b = [k \in 1..ReqUnits |-> b[k]] /\ DOMAIN b = 1..ReqUnits
    BY LenProperties
  <1>8. b = u
    BY <1>6, <1>7 DEF Units
  <1>9. 1 \in 1..ReqUnits
    BY <1>1
  <1>10. b[1].n = first + 1 /\ b[1].msg = q[1].msg
    BY <1>6, <1>9
  <1>11. IsMessage(b)
    BY <1>7, <1>8, <1>9, <1>10 DEF IsMessage
  <1> QED  BY <1>3, <1>4, <1>10, <1>11, Shortened DEF Number, Meaning

LEMMA Cut ==
    ASSUME NEW S, NEW q \in Seq(S), NEW i \in 0..Len(q), NEW n \in Nat
    PROVE  LET d == Start(SubSeq(q, i + 1, Len(q)), n)
           IN  /\ SubSeq(q, 1, i) \o d = SubSeq(q, 1, i + Len(d))
               /\ Len(d) = IF n < Len(q) - i THEN n ELSE Len(q) - i
  <1> DEFINE t == SubSeq(q, i + 1, Len(q))
             z == IF n < Len(q) - i THEN n ELSE Len(q) - i
  <1>1. Len(q) \in Nat /\ i \in Nat /\ i <= Len(q)
    BY LenProperties
  <1>2. \A j \in 1..Len(q) : q[j] \in S
    BY ElementOfSeq
  <1>3. t \in Seq(S) /\ Len(t) = Len(q) - i
    <2>1. \A j \in i + 1..Len(q) : q[j] \in S
      BY <1>1, <1>2
    <2>2. /\ i + 1 \in Int /\ Len(q) \in Int
          /\ t \in Seq(S) /\ Len(t) = IF i + 1 <= Len(q) THEN Len(q) - (i + 1) + 1 ELSE 0
      BY <1>1, <2>1, SubSeqProperties
    <2> HIDE DEF t
    <2> QED  BY <1>1, <2>2
  <1>4. z \in 0..(Len(q) - i) /\ z \in Nat
    BY <1>1
  <1>5. Start(t, n) = SubSeq(t, 1, z)
    BY <1>3 DEF Start
  <1>6. SubSeq(t, 1, z) = SubSeq(q, i + 1, i + z)
    <2>1. CASE z = 0
      <3>1. SubSeq(t, 1, 0) = <<>> /\ SubSeq(q, i + 1, i) = <<>>
        BY <1>1, SubSeqEmpty
      <3>2. i + 0 = i
        BY <1>1
      <3> QED  BY <2>1, <3>1, <3>2
    <2>2. CASE z # 0
      <3>1. /\ i + 1 \in 1..Len(q) /\ Len(q) \in 1..Len(q)
            /\ 1 \in 1..(Len(q) - (i + 1) + 1) /\ z \in 1..(Len(q) - (i + 1) + 1)
        BY <1>1, <1>4, <2>2
      <3> HIDE DEF z
      <3>2. SubSeq(SubSeq(q, i + 1, Len(q)), 1, z) = SubSeq(q, (i + 1) + 1 - 1, (i + 1) + z - 1)
        BY <3>1, SubSeqOfSubSeq
      <3>3. (i + 1) + 1 - 1 = i + 1 /\ (i + 1) + z - 1 = i + z
        BY <1>1, <1>4
      <3> QED  BY <3>2, <3>3
    <2> QED  BY <2>1, <2>2
  <1>7. SubSeq(q, 1, i) \o SubSeq(q, i + 1, i + z) = SubSeq(q, 1, i + z)
    <2>1. 1 \in 1..Len(q) + 1 /\ i \in (1 - 1)..Len(q) /\ i + z \in i..Len(q)
      BY <1>1, <1>4
    <2> HIDE DEF z
    <2> QED  BY <2>1, ConcatAdjacentSubSeq
  <1>8. Len(Start(t, n)) = z
    <2>1. /\ Len(Start(t, n)) \in 0..n /\ Len(Start(t, n)) <= Len(t)
          /\ (n <= Len(t) => Len(Start(t, n)) = n) /\ (n > Len(t) => Start(t, n) = t)
      <3> HIDE DEF t
      <3> QED  BY <1>3, StartProperties
    <2> QED  BY <1>1, <1>3, <2>1
  <1> QED  BY <1>5, <1>6, <1>7, <1>8

LEMMA ChunkReceived ==
    ASSUME NEW c \in Conn, NEW r \in Parts(c), NEW b, Later(r) => Receiving(b, r)
    PROVE  /\ Left(r) > ChunkSize => ~ Complete(b, r) /\ Receiving(spnav_recv_str(b, r), RestOf(r))
           /\ Left(r) <= ChunkSize => Complete(b, r) /\ spnav_recv_str(b, r).buf = r.str
  <1> DEFINE L == Len(r.str)
             pre == SubSeq(r.str, 1, r.at)
             o == [buf |-> pre, size |-> L + 1, expect |-> Left(r)]
             d == Data(r)
             new == [buf |-> pre \o d, size |-> L + 1, expect |-> Left(r) - Len(d)]
  <1>1. /\ r.op = "STR" /\ r.str \in Seq(Token) /\ r.of \in StringNames /\ r.str \in Strings[c][r.of]
        /\ L \in Nat /\ r.at \in 0..L /\ Left(r) = L - r.at /\ Left(r) \in Nat
        /\ ChunkSize \in Nat \ {0}
    BY PartFields, ProtoBounds DEF Left
  <1>2. Opened(b, r) = o
    <2>1. CASE Later(r)
      <3>1. b = o
        BY <2>1 DEF Receiving
      <3>2. ~ First(r)
        BY <2>1 DEF First, Later
      <3> QED  BY <3>1, <3>2 DEF Opened
    <2>2. CASE ~ Later(r)
      <3>1. r.at = 0
        BY <1>1, <2>2 DEF Later
      <3>2. pre = <<>> /\ Left(r) = L
        BY <1>1, <3>1, SubSeqEmpty
      <3> QED  BY <3>1, <3>2 DEF Opened, First
    <2> QED  BY <2>1, <2>2
  <1>3. Len(pre) = r.at /\ pre # Nothing
    <2>1. DOMAIN Strings[c] = StringNames
      BY UnixProtoAssumption DEF StringNames
    <2>2. pre # Nothing
      BY <1>1, <2>1, UnixProtoAssumption
    <2>3. \A j \in 1..r.at : r.str[j] \in Token
      <3>1. \A j \in 1..L : r.str[j] \in Token
        BY <1>1, ElementOfSeq
      <3> QED  BY <1>1, <3>1
    <2>4. Len(pre) = IF 1 <= r.at THEN r.at - 1 + 1 ELSE 0
      BY <1>1, <2>3, SubSeqProperties
    <2> QED  BY <1>1, <2>2, <2>4
  <1>4. /\ pre \o d = SubSeq(r.str, 1, r.at + Len(d))
        /\ Len(d) = IF ChunkSize < L - r.at THEN ChunkSize ELSE L - r.at
    BY <1>1, Cut DEF Data
  <1> HIDE DEF L, pre, d
  <1>5. Fits(Opened(b, r), r)
    <2>1. o.buf = pre /\ o.size = L + 1 /\ o.expect = Left(r)
      OBVIOUS
    <2> HIDE DEF o
    <2>2. /\ o.size # 0 /\ Len(o.buf) < o.size /\ o.expect <= o.size
      BY <1>1, <1>3, <2>1
    <2> QED  BY <1>2, <1>3, <2>1, <2>2 DEF Fits
  <1>6. spnav_recv_str(b, r) = new
    <2>1. spnav_recv_str(b, r) = [buf |-> o.buf \o Data(r), size |-> o.size,
                                 expect |-> o.expect - Len(Data(r))]
      BY <1>2, <1>5 DEF spnav_recv_str
    <2> QED  BY <2>1 DEF d
  <1>7. new.buf = pre \o d /\ new.expect = Left(r) - Len(d)
    OBVIOUS
  <1>8. ASSUME Left(r) > ChunkSize
        PROVE  ~ Complete(b, r) /\ Receiving(spnav_recv_str(b, r), RestOf(r))
    <2>1. Len(d) = ChunkSize /\ Left(r) - Len(d) # 0 /\ L - (r.at + ChunkSize) = Left(r) - Len(d)
      BY <1>1, <1>4, <1>8
    <2>2. RestOf(r) = Chunk(r.of, r.str, r.at + ChunkSize)
      BY <1>8, Following
    <2>3. RestOf(r).str = r.str /\ RestOf(r).at = r.at + ChunkSize
      BY <2>2 DEF Chunk
    <2>4. Receiving(new, RestOf(r))
      BY <1>4, <2>1, <2>3 DEF Receiving, Left, L
    <2>5. ~ Complete(b, r)
      BY <1>6, <1>7, <2>1 DEF Complete
    <2> QED  BY <1>6, <2>4, <2>5
  <1>9. ASSUME Left(r) <= ChunkSize
        PROVE  Complete(b, r) /\ spnav_recv_str(b, r).buf = r.str
    <2>1. Len(d) = Left(r) /\ Left(r) - Len(d) = 0 /\ r.at + Len(d) = L
      BY <1>1, <1>4, <1>9
    <2>2. pre \o d = r.str
      BY <1>1, <1>4, <2>1, SubSeqFull DEF L
    <2>3. Complete(b, r)
      BY <1>5, <1>6, <1>7, <2>1 DEF Complete
    <2> QED  BY <1>6, <1>7, <2>2, <2>3
  <1> QED  BY <1>8, <1>9
-----------------------------------------------------------------------------
(* The configuration. *)
WholeFor(of) == {<<>>} \cup {PathOf(str) : str \in UNION {Strings[c][of] : c \in Conn}}

SoundCfg(f) ==
    /\ DOMAIN f = Cells /\ \A cell \in Cells : f[cell] \in Allowed(cell)
    /\ \A of \in {"SERDEV", "SOCKET"} : f[<<of, 0>>] \in WholeFor(of)

ConfigInv == SoundCfg(cfg) /\ SoundCfg(disk) /\ used = InUse(cfg)

LEMMA CellIn ==
    ASSUME NEW of \in Settings \cup {"SERDEV", "SOCKET"}, NEW i,
           of \in {"DEADZONE", "AXISMAP"} => i \in Axis,
           of \in {"BNMAP", "BNACTION", "KBMAP"} => i \in Button
    PROVE  <<of, IF Indexed(of) THEN i ELSE 0>> \in Cells
  <1>1. CASE of \in {"DEADZONE", "AXISMAP"}
    BY <1>1 DEF Cells, Indexed
  <1>2. CASE of \in {"BNMAP", "BNACTION", "KBMAP"}
    BY <1>2 DEF Cells, Indexed
  <1>3. CASE of \notin {"DEADZONE", "AXISMAP", "BNMAP", "BNACTION", "KBMAP"}
    BY <1>3 DEF Cells, Indexed, Settings
  <1> QED  BY <1>1, <1>2, <1>3

LEMMA DefaultIsSound == SoundCfg(Default)
  <1>1. DOMAIN Default = Cells
    BY DEF Default
  <1>2. ASSUME NEW cell \in Cells PROVE Default[cell] \in Allowed(cell)
    <2>1. /\ cell[1] \in Settings \cup {"SERDEV", "SOCKET"}
          /\ cell[1] = "BNMAP" => cell[2] \in Button
      BY DEF Cells, Settings
    <2>2. CASE cell[1] \in {"AXISMAP", "BNMAP", "BNACTION", "KBMAP", "DEADZONE"}
      BY <2>1, <2>2 DEF Default, Allowed, Action
    <2>3. CASE cell[1] \in {"SERDEV", "SOCKET"}
      <3>1. Default[cell] = <<>>
        BY <2>3 DEF Default
      <3>2. Allowed(cell) = Paths
        BY <2>3 DEF Allowed
      <3>3. <<>> \in Paths
        BY EmptySeq, ProtoBounds DEF Paths
      <3> QED  BY <3>1, <3>2, <3>3
    <2>4. CASE cell[1] = "SENS_AXIS"
      <3>1. Default[cell] = <<1, 1>> /\ Allowed(cell) = Int2
        BY <2>4 DEF Default, Allowed
      <3>2. <<1, 1>> \in [1..2 -> Int]
        OBVIOUS
      <3> QED  BY <3>1, <3>2 DEF Int2
    <2>5. CASE cell[1] = "INVERT"
      <3>1. Default[cell] = <<0, 0>> /\ Allowed(cell) = [1..2 -> {0, 1}]
        BY <2>5 DEF Default, Allowed
      <3>2. <<0, 0>> \in [1..2 -> {0, 1}]
        OBVIOUS
      <3> QED  BY <3>1, <3>2
    <2>6. CASE cell[1] \in {"SENS", "LED", "GRAB", "REPEAT", "SWAPYZ"}
      BY <2>6 DEF Default, Allowed
    <2> QED  BY <2>1, <2>2, <2>3, <2>4, <2>5, <2>6 DEF Settings
  <1>3. \A of \in {"SERDEV", "SOCKET"} : Default[<<of, 0>>] \in WholeFor(of)
    <2> TAKE of \in {"SERDEV", "SOCKET"}
    <2>1. <<of, 0>> \in Cells
      BY DEF Cells
    <2>2. Default[<<of, 0>>] = <<>>
      BY <2>1 DEF Default
    <2> QED  BY <2>2 DEF WholeFor
  <1> QED  BY <1>1, <1>2, <1>3 DEF SoundCfg

LEMMA SetSound ==
    ASSUME NEW f, SoundCfg(f), NEW of \in Settings \cup {"SERDEV", "SOCKET"}, NEW i,
           <<of, i>> \in Cells, NEW v, v \in Allowed(<<of, i>>),
           of \in {"SERDEV", "SOCKET"} => v \in WholeFor(of)
    PROVE  SoundCfg([f EXCEPT ![<<of, i>>] = v])
  <1> DEFINE cell == <<of, i>>
             g == [f EXCEPT ![cell] = v]
  <1>1. DOMAIN f = Cells /\ \A x \in Cells : f[x] \in Allowed(x)
    BY DEF SoundCfg
  <1>2. \A x \in {"SERDEV", "SOCKET"} : f[<<x, 0>>] \in WholeFor(x) /\ <<x, 0>> \in Cells
    BY DEF SoundCfg, Cells
  <1>3. cell \in Cells /\ v \in Allowed(cell) /\ cell[1] = of
    OBVIOUS
  <1>4. \A x \in {"SERDEV", "SOCKET"} : <<x, 0>> = cell => x = of
    OBVIOUS
  <1> HIDE DEF cell
  <1>5. DOMAIN g = Cells /\ \A x \in Cells : g[x] = IF x = cell THEN v ELSE f[x]
    BY <1>1
  <1> HIDE DEF g
  <1>6. \A x \in Cells : g[x] \in Allowed(x)
    BY <1>1, <1>3, <1>5
  <1>7. \A x \in {"SERDEV", "SOCKET"} : g[<<x, 0>>] \in WholeFor(x)
    BY <1>2, <1>4, <1>5
  <1>8. SoundCfg(g)
    BY <1>5, <1>6, <1>7 DEF SoundCfg
  <1> QED  BY <1>8 DEF g, cell

(* What a valid setting stores is a value its cell may have. *)
LEMMA StoredAllowed ==
    ASSUME NEW r, Sendable(r), r.op = "SCFG", Valid(r)
    PROVE  /\ r.of \in Settings /\ Cell(r) \in Cells
           /\ Stored(r) \in Allowed(Cell(r))
           /\ Cell(r) = <<r.of, IF Indexed(r.of) THEN r.i ELSE 0>>
  <1>1. /\ r.of \in Settings
        /\ r.of = "SENS" => r.v \in Int \cup {NaN}
        /\ r.of = "SENS_AXIS" => r.v \in [1..2 -> Int \cup {NaN}]
        /\ r.of = "INVERT" => r.v \in [1..2 -> Int]
        /\ r.of \notin {"SENS", "SENS_AXIS", "INVERT"} => r.v \in Int
    BY DEF Sendable
  <1>2. Cell(r) = <<r.of, IF Indexed(r.of) THEN r.i ELSE 0>>
    BY DEF Cell
  <1>3. Cell(r) \in Cells
    BY <1>1, <1>2, CellIn DEF Valid, IndexValid, AxisValid, ButtonValid
  <1>4. Cell(r)[1] = r.of
    BY <1>2
  <1> DEFINE cell == Cell(r)
  <1> HIDE DEF cell
  <1>a. cell[1] = r.of
    BY <1>4 DEF cell
  <1>b. r.of \notin {"SWAPYZ", "GRAB", "INVERT", "KBMAP"} => Stored(r) = r.v
    BY DEF Stored
  <1>5. ASSUME r.of = "SENS" PROVE Stored(r) \in Allowed(cell)
    <2>1. Allowed(cell) = Int
      BY <1>a, <1>5 DEF Allowed
    <2>2. r.v \in Int
      BY <1>1, <1>5 DEF Valid
    <2> QED  BY <1>b, <1>5, <2>1, <2>2
  <1>6. ASSUME r.of = "SENS_AXIS" PROVE Stored(r) \in Allowed(cell)
    <2>1. Allowed(cell) = Int2
      BY <1>a, <1>6 DEF Allowed
    <2>2. \A k \in 1..2 : r.v[k] \in Int \cup {NaN} /\ r.v[k] # NaN
      BY <1>1, <1>6 DEF Valid, Range
    <2>3. r.v \in Int2
      BY <1>1, <1>6, <2>2 DEF Int2
    <2> QED  BY <1>b, <1>6, <2>1, <2>3
  <1>7. ASSUME r.of = "INVERT" PROVE Stored(r) \in Allowed(cell)
    <2>1. Allowed(cell) = [1..2 -> {0, 1}]
      BY <1>a, <1>7 DEF Allowed
    <2>2. Stored(r) = [k \in DOMAIN r.v |-> Flag(r.v[k])]
      BY <1>7 DEF Stored
    <2>3. DOMAIN r.v = 1..2
      BY <1>1, <1>7
    <2>4. \A k \in 1..2 : Flag(r.v[k]) \in {0, 1}
      BY DEF Flag
    <2>5. Stored(r) \in [1..2 -> {0, 1}]
      BY <2>2, <2>3, <2>4
    <2> QED  BY <2>1, <2>5
  <1>8. ASSUME r.of \in {"SWAPYZ", "GRAB"} PROVE Stored(r) \in Allowed(cell)
    <2>1. Allowed(cell) = {0, 1}
      BY <1>a, <1>8 DEF Allowed
    <2>2. Stored(r) = Flag(r.v)
      BY <1>8 DEF Stored
    <2> QED  BY <2>1, <2>2 DEF Flag
  <1>9. ASSUME r.of = "KBMAP" PROVE Stored(r) \in Allowed(cell)
    <2>1. Allowed(cell) = Keys \cup {0}
      BY <1>a, <1>9 DEF Allowed
    <2>2. r.v \in Int /\ (r.v > 0 => r.v \in Keys)
      BY <1>1, <1>9 DEF Valid
    <2>3. Stored(r) = IF r.v < 0 THEN 0 ELSE r.v
      BY <1>9 DEF Stored
    <2> QED  BY <2>1, <2>2, <2>3
  <1>10. ASSUME r.of \in {"AXISMAP", "BNMAP", "BNACTION", "LED"} PROVE Stored(r) \in Allowed(cell)
    <2>1. /\ r.of = "AXISMAP" => -1..5 \subseteq Allowed(cell) /\ r.v \in -1..5
          /\ r.of = "BNMAP" => Allowed(cell) = Button /\ r.v \in Button
          /\ r.of = "BNACTION" => Allowed(cell) = Action /\ r.v \in Action
          /\ r.of = "LED" => Allowed(cell) = 0..2 /\ r.v \in 0..2
      BY <1>a DEF Allowed, Valid, ButtonValid
    <2> QED  BY <1>b, <1>10, <2>1
  <1>11. ASSUME r.of \in {"REPEAT", "DEADZONE"} PROVE Stored(r) \in Allowed(cell)
    <2>1. Allowed(cell) = Int
      BY <1>a, <1>11 DEF Allowed
    <2> QED  BY <1>1, <1>b, <1>11, <2>1
  <1>12. Stored(r) \in Allowed(Cell(r))
    BY <1>1, <1>5, <1>6, <1>7, <1>8, <1>9, <1>10, <1>11 DEF Settings, cell
  <1> QED  BY <1>1, <1>2, <1>3, <1>12

LEMMA UseKept ==
    ASSUME NEW f, NEW g, DOMAIN f = Cells, NEW cell, NEW v, g = [f EXCEPT ![cell] = v],
           cell # <<"LED", 0>>, cell # <<"SERDEV", 0>>
    PROVE  InUse(g) = InUse(f)
  <1>1. <<"LED", 0>> \in Cells /\ <<"SERDEV", 0>> \in Cells
    BY DEF Cells
  <1>2. \A x \in Cells : x # cell => g[x] = f[x]
    OBVIOUS
  <1> QED  BY <1>1, <1>2 DEF InUse

-----------------------------------------------------------------------------
(* What a request leaves behind. *)
Personals ==
    /\ DOMAIN sens = Conn /\ DOMAIN evmask = Conn /\ DOMAIN name = Conn /\ DOMAIN strbuf = Conn
    /\ \A c \in Conn : /\ sens[c] \in Int /\ evmask[c] \subseteq EventTypes
                       /\ name[c] \in {Nothing} \cup Strings[c]["NAME"]

Outs == DOMAIN out = Conn
        /\ \A c \in Conn : out[c] \in Seq({0, -1}) /\ Len(out[c]) <= OutRoom

(* What comes back is no failure. *)
NoFailure(c) == Len(out'[c]) > Len(out[c]) => Last(out'[c]) # -1

OthersKept(c) == \A d \in Conn : d # c => out'[d] = out[d] /\ strbuf'[d] = strbuf[d]

(* The buffer is ready for the chunk that follows r. *)
Goes(c, r) ==
    \A f \in Parts(c) : Later(f) /\ f.at >= ChunkSize /\ r = Former(f) => Receiving(strbuf'[c], f)

LEMMA PutOuts ==
    ASSUME Outs, NEW c \in Conn, NEW packets \in Seq({0, -1}), Put(c, packets)
    PROVE  /\ Outs' /\ \A d \in Conn : d # c => out'[d] = out[d]
           /\ (\A i \in 1..Len(packets) : packets[i] # -1) => NoFailure(c)
  <1> DEFINE q == out[c]
             b == q \o packets
             new == Start(b, OutRoom)
  <1>1. q \in Seq({0, -1}) /\ Len(q) \in Nat /\ Len(q) <= OutRoom /\ OutRoom \in Nat /\ Len(packets) \in Nat
    BY LenProperties, ProtoBounds DEF Outs
  <1>2. /\ b \in Seq({0, -1}) /\ Len(b) = Len(q) + Len(packets)
        /\ \A i \in 1..Len(q) + Len(packets) : b[i] = IF i <= Len(q) THEN q[i] ELSE packets[i - Len(q)]
    <2> HIDE DEF q
    <2> QED  BY <1>1, ConcatProperties
  <1>3. out' = [out EXCEPT ![c] = new]
    BY DEF Put, Written
  <1> HIDE DEF b
  <1>4. /\ new \in Seq({0, -1}) /\ Len(new) \in 0..OutRoom
        /\ Len(new) <= Len(b) /\ \A i \in 1..Len(new) : new[i] = b[i]
    <2> DEFINE S == {0, -1}
    <2>1. b \in Seq(S)
      BY <1>2
    <2> HIDE DEF S
    <2>2. /\ new \in Seq(S) /\ Len(new) \in 0..OutRoom
          /\ Len(new) <= Len(b) /\ \A i \in 1..Len(new) : new[i] = b[i]
      BY <1>1, <2>1, StartProperties
    <2> QED  BY <2>2 DEF S
  <1> HIDE DEF new
  <1>5. out'[c] = new /\ DOMAIN out' = Conn /\ \A d \in Conn : d # c => out'[d] = out[d]
    BY <1>3 DEF Outs
  <1>6. Outs'
    <2>1. \A d \in Conn : out'[d] \in Seq({0, -1}) /\ Len(out'[d]) <= OutRoom
      <3> TAKE d \in Conn
      <3>1. CASE d = c
        BY <1>1, <1>4, <1>5, <3>1
      <3>2. CASE d # c
        BY <1>5, <3>2 DEF Outs
      <3> QED  BY <3>1, <3>2
    <2> QED  BY <1>5, <2>1 DEF Outs
  <1>7. ASSUME \A i \in 1..Len(packets) : packets[i] # -1, Len(new) > Len(q)
        PROVE  Last(new) # -1
    <2> DEFINE i == Len(new)
    <2>1. i \in 1..Len(new) /\ i \in 1..Len(q) + Len(packets) /\ ~ (i <= Len(q)) /\ i - Len(q) \in 1..Len(packets)
      BY <1>1, <1>2, <1>4, <1>7
    <2>2. Last(new) = new[i]
      BY DEF Last
    <2> HIDE DEF i
    <2>3. new[i] = packets[i - Len(q)]
      BY <1>2, <1>4, <2>1
    <2> QED  BY <1>7, <2>1, <2>2, <2>3
  <1> QED  BY <1>5, <1>6, <1>7 DEF NoFailure

LEMMA Answered ==
    ASSUME Outs, NEW c \in Conn, NEW status \in {0, -1}, sendresp(c, status)
    PROVE  Outs' /\ (\A d \in Conn : d # c => out'[d] = out[d]) /\ (status = 0 => NoFailure(c))
  <1> DEFINE packets == <<status>>
  <1>1. packets \in Seq({0, -1}) /\ Len(packets) = 1 /\ packets[1] = status
    OBVIOUS
  <1>2. Put(c, packets)
    BY DEF sendresp
  <1> HIDE DEF packets
  <1>3. status = 0 => \A i \in 1..Len(packets) : packets[i] # -1
    BY <1>1
  <1> QED  BY <1>1, <1>2, <1>3, PutOuts

LEMMA StringAnswered ==
    ASSUME Outs, NEW c \in Conn, NEW S, NEW str \in Seq(S), spnav_send_str(c, str)
    PROVE  Outs' /\ (\A d \in Conn : d # c => out'[d] = out[d]) /\ NoFailure(c)
  <1> DEFINE n == Packets(str)
             packets == [k \in 1..n |-> 0]
  <1>1. n \in Nat
    BY LenProperties, ProtoBounds DEF Packets
  <1>2. Put(c, packets)
    BY DEF spnav_send_str
  <1> HIDE DEF n
  <1>3. packets \in Seq({0, -1}) /\ Len(packets) = n /\ \A i \in 1..n : packets[i] = 0
    BY <1>1
  <1> HIDE DEF packets
  <1>4. \A i \in 1..Len(packets) : packets[i] # -1
    BY <1>3
  <1> QED  BY <1>2, <1>3, <1>4, PutOuts

Outcome(c, r) ==
    /\ ConfigInv' /\ Outs' /\ Personals' /\ OthersKept(c) /\ Goes(c, r)
    /\ NoFailure(c) \/ UNCHANGED <<config, perClient>>

LEMMA NoChunk ==
    ASSUME NEW c, NEW r, r.op # "STR" PROVE Goes(c, r)
  <1>1. \A f : Former(f).op = "STR"
    BY DEF Former, Chunk
  <1> QED  BY <1>1 DEF Goes

LEMMA PersonalsKept ==
    ASSUME Personals, UNCHANGED perClient
    PROVE  Personals' /\ UNCHANGED strbuf
  BY DEF Personals, perClient

LEMMA ConfigKept ==
    ASSUME ConfigInv, UNCHANGED config
    PROVE  ConfigInv'
  BY DEF ConfigInv, config

(* The answer to a request that changes nothing of its client. *)
LEMMA Plainly ==
    ASSUME Personals, NEW c \in Conn, NEW r, r.op # "STR", UNCHANGED perClient,
           Outs', \A d \in Conn : d # c => out'[d] = out[d], ConfigInv',
           NoFailure(c) \/ UNCHANGED config
    PROVE  Outcome(c, r)
  <1>1. Personals' /\ UNCHANGED strbuf
    BY PersonalsKept
  <1>2. OthersKept(c)
    BY <1>1 DEF OthersKept
  <1>3. Goes(c, r)
    BY NoChunk
  <1>4. NoFailure(c) \/ UNCHANGED <<config, perClient>>
    OBVIOUS
  <1> QED  BY <1>1, <1>2, <1>3, <1>4 DEF Outcome

LEMMA HandleScfg ==
    ASSUME ConfigInv, Outs, Personals, NEW c \in Conn, NEW r, Sendable(r), Scfg(c, r)
    PROVE  Outcome(c, r)
  <1>1. r.op = "SCFG" /\ r.op # "STR"
    BY DEF Scfg
  <1>2. CASE ScfgRefused(c, r)
    <2>1. UNCHANGED perClient /\ UNCHANGED config /\ sendresp(c, -1)
      BY <1>2 DEF ScfgRefused
    <2>2. Outs' /\ \A d \in Conn : d # c => out'[d] = out[d]
      BY <2>1, Answered
    <2> QED  BY <1>1, <2>1, <2>2, ConfigKept, Plainly
  <1>3. CASE ScfgDone(c, r)
    <2>1. /\ Valid(r) /\ cfg' = [cfg EXCEPT ![Cell(r)] = Stored(r)] /\ UNCHANGED disk
          /\ (IF r.of = "LED" THEN cfg_changed ELSE UNCHANGED used)
          /\ UNCHANGED perClient /\ sendresp(c, 0)
      BY <1>3 DEF ScfgDone
    <2>2. Outs' /\ (\A d \in Conn : d # c => out'[d] = out[d]) /\ NoFailure(c)
      BY <2>1, Answered
    <2> DEFINE i == IF Indexed(r.of) THEN r.i ELSE 0
    <2>3. r.of \in Settings /\ <<r.of, i>> \in Cells /\ Stored(r) \in Allowed(<<r.of, i>>) /\ Cell(r) = <<r.of, i>>
      BY <1>1, <2>1, StoredAllowed
    <2>4. r.of \notin {"SERDEV", "SOCKET"}
      BY <2>3 DEF Settings
    <2> HIDE DEF i
    <2>5. SoundCfg(cfg')
      BY <2>1, <2>3, <2>4, SetSound DEF ConfigInv
    <2>6. used' = InUse(cfg')
      <3>1. CASE r.of = "LED"
        BY <2>1, <3>1 DEF cfg_changed
      <3>2. CASE r.of # "LED"
        <4>1. InUse(cfg') = InUse(cfg)
          <5>1. Cell(r) # <<"LED", 0>> /\ Cell(r) # <<"SERDEV", 0>>
            BY <2>3, <2>4, <3>2
          <5>2. DOMAIN cfg = Cells
            BY DEF ConfigInv, SoundCfg
          <5> QED  BY <2>1, <5>1, <5>2, UseKept
        <4> QED  BY <2>1, <3>2, <4>1 DEF ConfigInv
      <3> QED  BY <3>1, <3>2
    <2>7. ConfigInv'
      BY <2>1, <2>5, <2>6 DEF ConfigInv
    <2> QED  BY <1>1, <2>1, <2>2, <2>7, Plainly
  <1> QED  BY <1>2, <1>3 DEF Scfg

LEMMA HandleGcfg ==
    ASSUME ConfigInv, Outs, Personals, NEW c \in Conn, NEW r, Gcfg(c, r)
    PROVE  Outcome(c, r)
  <1>1. r.op # "STR" /\ UNCHANGED perClient /\ UNCHANGED config
    BY DEF Gcfg
  <1>2. Outs' /\ \A d \in Conn : d # c => out'[d] = out[d]
    <2>1. CASE r.of \in {"SERDEV", "SOCKET"}
      <3>1. spnav_send_str(c, cfg[Cell(r)])
        BY <2>1 DEF Gcfg
      <3>2. Cell(r) \in Cells /\ Cell(r)[1] = r.of
        BY <2>1 DEF Cell, Indexed, Cells
      <3>3. Allowed(Cell(r)) = Paths
        BY <2>1, <3>2 DEF Allowed
      <3>4. cfg[Cell(r)] \in Seq(Token)
        BY <3>2, <3>3 DEF ConfigInv, SoundCfg, Paths
      <3> QED  BY <3>1, <3>4, StringAnswered
    <2>2. CASE r.of \notin {"SERDEV", "SOCKET"}
      <3>1. sendresp(c, 0) \/ sendresp(c, -1)
        BY <2>2 DEF Gcfg
      <3> QED  BY <3>1, Answered
    <2> QED  BY <2>1, <2>2
  <1> QED  BY <1>1, <1>2, ConfigKept, Plainly

LEMMA HandleSetting ==
    ASSUME ConfigInv, Outs, Personals, NEW c \in Conn, NEW r, Sendable(r), ClientSetting(c, r)
    PROVE  Outcome(c, r)
  <1>1. /\ r.op \in {"SET_SENS", "SET_EVMASK", "GET"}
        /\ sens' = IF r.op = "SET_SENS" /\ r.v # NaN THEN [sens EXCEPT ![c] = r.v] ELSE sens
        /\ evmask' = IF r.op = "SET_EVMASK" THEN [evmask EXCEPT ![c] = r.v] ELSE evmask
        /\ sendresp(c, IF r.op = "SET_SENS" /\ r.v = NaN THEN -1 ELSE 0)
        /\ UNCHANGED <<name, strbuf>> /\ UNCHANGED config
    BY DEF ClientSetting
  <1> DEFINE refused == r.op = "SET_SENS" /\ r.v = NaN
  <1>2. /\ Outs' /\ (\A d \in Conn : d # c => out'[d] = out[d])
        /\ NoFailure(c) \/ refused
    <2>1. CASE refused
      <3>1. sendresp(c, -1)
        BY <1>1, <2>1
      <3> QED  BY <2>1, <3>1, Answered
    <2>2. CASE ~ refused
      <3>1. sendresp(c, 0)
        BY <1>1, <2>2
      <3> QED  BY <3>1, Answered
    <2> QED  BY <2>1, <2>2
  <1>3. refused => UNCHANGED <<config, perClient>>
    BY <1>1 DEF perClient
  <1>4. Personals'
    <2>1. r.op = "SET_SENS" /\ r.v # NaN => r.v \in Int
      BY DEF Sendable
    <2>2. r.op = "SET_EVMASK" => r.v \subseteq EventTypes
      BY DEF Sendable
    <2>3. DOMAIN sens' = Conn /\ \A d \in Conn : sens'[d] \in Int
      BY <1>1, <2>1 DEF Personals
    <2>4. DOMAIN evmask' = Conn /\ \A d \in Conn : evmask'[d] \subseteq EventTypes
      BY <1>1, <2>2 DEF Personals
    <2> QED  BY <1>1, <2>3, <2>4 DEF Personals
  <1>5. OthersKept(c)
    BY <1>1, <1>2 DEF OthersKept
  <1>6. Goes(c, r)
    BY <1>1, NoChunk
  <1>7. ConfigInv'
    BY <1>1, ConfigKept
  <1>8. NoFailure(c) \/ UNCHANGED <<config, perClient>>
    BY <1>2, <1>3
  <1> QED  BY <1>2, <1>4, <1>5, <1>6, <1>7, <1>8 DEF Outcome

LEMMA HandleDevice ==
    ASSUME ConfigInv, Outs, Personals, NEW c \in Conn, NEW r, DeviceQuery(c, r)
    PROVE  Outcome(c, r)
  <1>1. r.op # "STR" /\ UNCHANGED perClient /\ UNCHANGED config
    BY DEF DeviceQuery
  <1>2. \/ spnav_send_str(c, <<>>) \/ spnav_send_str(c, <<"dev">>)
        \/ sendresp(c, 0) \/ sendresp(c, -1)
    BY DEF DeviceQuery
  <1>3. Outs' /\ \A d \in Conn : d # c => out'[d] = out[d]
    <2>1. <<>> \in Seq({"dev"}) /\ <<"dev">> \in Seq({"dev"})
      OBVIOUS
    <2> QED  BY <1>2, <2>1, Answered, StringAnswered
  <1> QED  BY <1>1, <1>3, ConfigKept, Plainly

LEMMA HandleFile ==
    ASSUME ConfigInv, Outs, Personals, NEW c \in Conn, NEW r,
           CfgSave(c, r) \/ CfgRestore(c, r) \/ CfgReset(c, r) \/ InvalidRequest(c, r)
    PROVE  Outcome(c, r)
  <1>1. r.op # "STR" /\ UNCHANGED perClient
    BY DEF CfgSave, CfgRestore, CfgReset, InvalidRequest
  <1>2. \/ sendresp(c, 0)
        \/ sendresp(c, -1) /\ UNCHANGED config
    BY DEF CfgSave, CfgRestore, CfgReset, InvalidRequest, config
  <1>3. Outs' /\ (\A d \in Conn : d # c => out'[d] = out[d]) /\ (NoFailure(c) \/ UNCHANGED config)
    BY <1>2, Answered
  <1>4. ConfigInv'
    <2>1. CASE CfgSave(c, r)
      BY <2>1 DEF CfgSave, ConfigInv
    <2>2. CASE CfgRestore(c, r)
      BY <2>2, DefaultIsSound DEF CfgRestore, ConfigInv, cfg_changed
    <2>3. CASE CfgReset(c, r)
      BY <2>3, DefaultIsSound DEF CfgReset, ConfigInv, cfg_changed
    <2>4. CASE InvalidRequest(c, r)
      BY <2>4, ConfigKept DEF InvalidRequest
    <2> QED  BY <2>1, <2>2, <2>3, <2>4
  <1> QED  BY <1>1, <1>3, <1>4, Plainly

LEMMA HandleChunk ==
    ASSUME ConfigInv, Outs, Personals, NEW c \in Conn, NEW r \in Parts(c),
           Later(r) => Receiving(strbuf[c], r), StringChunk(c, r)
    PROVE  Outcome(c, r)
  <1> DEFINE b == spnav_recv_str(strbuf[c], r)
             done == Complete(strbuf[c], r)
             new == IF done /\ r.of = "NAME" THEN [b EXCEPT !.buf = Nothing] ELSE b
  <1>1. /\ r.op = "STR" /\ r.of \in StringNames /\ r.str \in Seq(Token) /\ r.str \in Strings[c][r.of]
        /\ Left(r) \in Nat /\ ChunkSize \in Nat
    BY PartFields, ProtoBounds
  <1>2. /\ Left(r) > ChunkSize => ~ done /\ Receiving(b, RestOf(r))
        /\ Left(r) <= ChunkSize => done /\ b.buf = r.str
    BY ChunkReceived
  <1>3. done <=> Left(r) <= ChunkSize
    BY <1>1, <1>2
  <1>4. /\ strbuf' = [strbuf EXCEPT ![c] = new]
        /\ name' = IF done /\ r.of = "NAME" THEN [name EXCEPT ![c] = b.buf] ELSE name
        /\ IF done /\ r.of # "NAME" THEN cfg' = [cfg EXCEPT ![Cell(r)] = PathOf(b.buf)] /\ used' = InUse(cfg')
           ELSE UNCHANGED <<cfg, used>>
        /\ UNCHANGED <<sens, evmask, disk, out>>
    BY DEF StringChunk, cfg_changed
  <1> HIDE DEF b, done
  <1>5. Goes(c, r)
    <2> SUFFICES ASSUME NEW f \in Parts(c), Later(f), f.at >= ChunkSize, r = Former(f)
                 PROVE  Receiving(strbuf'[c], f)
      BY DEF Goes
    <2>1. Left(r) > ChunkSize /\ f = RestOf(r)
      BY Followed
    <2>2. ~ done /\ Receiving(b, f)
      BY <1>2, <2>1
    <2>3. strbuf'[c] = b
      BY <1>4, <2>2 DEF Personals
    <2> QED  BY <2>2, <2>3
  <1> HIDE DEF new
  <1>6. Personals'
    <2>1. done => b.buf = r.str
      BY <1>1, <1>2, <1>3
    <2>2. DOMAIN name' = Conn /\ \A d \in Conn : name'[d] \in {Nothing} \cup Strings[d]["NAME"]
      BY <1>1, <1>4, <2>1 DEF Personals
    <2>3. DOMAIN strbuf' = Conn
      BY <1>4 DEF Personals
    <2> QED  BY <1>4, <2>2, <2>3 DEF Personals
  <1>7. OthersKept(c)
    BY <1>4 DEF OthersKept, Personals
  <1>8. ConfigInv'
    <2>1. CASE done /\ r.of # "NAME"
      <3>1. r.of \in {"SERDEV", "SOCKET"} /\ b.buf = r.str
        BY <1>1, <1>2, <1>3, <2>1 DEF StringNames
      <3>2. Cell(r) = <<r.of, 0>> /\ <<r.of, 0>> \in Cells
        BY <3>1 DEF Cell, Indexed, Cells
      <3>3. PathOf(r.str) \in Allowed(<<r.of, 0>>)
        <4>1. Allowed(<<r.of, 0>>) = Paths
          BY <3>1 DEF Allowed
        <4>2. Start(r.str, PathMax) \in Seq(Token) /\ Len(Start(r.str, PathMax)) \in 0..PathMax
          BY <1>1, ProtoBounds, StartProperties
        <4> QED  BY <4>1, <4>2, ProtoBounds DEF Paths, PathOf
      <3>4. PathOf(r.str) \in WholeFor(r.of)
        BY <1>1 DEF WholeFor
      <3>5. cfg' = [cfg EXCEPT ![<<r.of, 0>>] = PathOf(r.str)]
        BY <1>4, <2>1, <3>1, <3>2
      <3>6. SoundCfg(cfg')
        BY <1>1, <3>1, <3>2, <3>3, <3>4, <3>5, SetSound DEF ConfigInv
      <3> QED  BY <1>4, <2>1, <3>6 DEF ConfigInv
    <2>2. CASE ~ (done /\ r.of # "NAME")
      BY <1>4, <2>2 DEF ConfigInv
    <2> QED  BY <2>1, <2>2
  <1>9. Outs' /\ NoFailure(c)
    <2>1. Outs'
      BY <1>4 DEF Outs
    <2>2. Len(out[c]) \in Nat
      BY LenProperties DEF Outs
    <2> QED  BY <1>4, <2>1, <2>2 DEF NoFailure
  <1> QED  BY <1>5, <1>6, <1>7, <1>8, <1>9 DEF Outcome

LEMMA Handled ==
    ASSUME ConfigInv, Outs, Personals, NEW c \in Conn, NEW r \in Requests[c] \cup Parts(c),
           Later(r) => Receiving(strbuf[c], r), handle_request(c, r)
    PROVE  Outcome(c, r)
  <1>1. CASE r \in Requests[c]
    <2>1. Sendable(r) /\ r.op # "STR"
      BY <1>1, UnixProtoAssumption DEF Sendable
    <2>2. ~ StringChunk(c, r)
      BY <2>1 DEF StringChunk
    <2> QED  BY <2>1, <2>2, HandleScfg, HandleGcfg, HandleSetting, HandleDevice, HandleFile DEF handle_request
  <1>2. CASE r \in Parts(c)
    <2>1. r.op = "STR"
      BY <1>2, PartFields
    <2>2. StringChunk(c, r)
      BY <2>1 DEF handle_request, Scfg, Gcfg, ClientSetting, DeviceQuery, CfgSave, CfgRestore,
                  CfgReset, InvalidRequest
    <2> QED  BY <1>2, <2>2, HandleChunk
  <1> QED  BY <1>1, <1>2
-----------------------------------------------------------------------------
(* The invariant. *)
Domains ==
    /\ DOMAIN sent = Conn /\ DOMAIN speaks = Conn /\ DOMAIN rest = Conn /\ DOMAIN todo = Conn
    /\ DOMAIN unread = Conn /\ DOMAIN proto = Conn /\ DOMAIN reqbuf = Conn /\ DOMAIN handled = Conn

ConnInv(c) ==
    /\ reqbuf[c] \in Seq(Unit(c)) /\ unread[c] \in Seq(Unit(c)) /\ todo[c] \in Seq(Unit(c))
    /\ Len(reqbuf[c]) < ReqUnits
    /\ sent[c] \in 0..MaxSent /\ handled[c] \in Nat /\ handled[c] <= sent[c]
    /\ proto[c] \in {0, 1} /\ speaks[c] \in Nat
    /\ proto[c] = 0 => reqbuf[c] = <<>>
    /\ speaks[c] = 0 => rest[c] = Nothing
    /\ Framed(Stream(c), handled[c], sent[c])
    /\ Spoken(Stream(c), proto[c], speaks[c])
    /\ Strung(c, Stream(c), strbuf[c], rest[c])

ProtoInv == Domains /\ Personals /\ Outs /\ ConfigInv /\ \A c \in Conn : ConnInv(c)

(* What a step may do besides: one message more is handled, or none, and *)
(* what is answered with a failure has changed nothing.                  *)
OneByOne == \A c \in Conn : handled'[c] \in {handled[c], handled[c] + 1}
Honest == \A c \in Conn : NoFailure(c) \/ UNCHANGED <<config, perClient>>

Same(d) ==
    /\ sent'[d] = sent[d] /\ speaks'[d] = speaks[d] /\ rest'[d] = rest[d] /\ todo'[d] = todo[d]
    /\ unread'[d] = unread[d] /\ proto'[d] = proto[d] /\ reqbuf'[d] = reqbuf[d]
    /\ handled'[d] = handled[d] /\ strbuf'[d] = strbuf[d]

LEMMA SameKept ==
    ASSUME NEW d, ConnInv(d), Same(d)
    PROVE  ConnInv(d)'
  <1>1. Stream(d)' = Stream(d)
    BY DEF Stream, Same
  <1> QED  BY <1>1 DEF ConnInv, Same

LEMMA OutSame ==
    ASSUME Outs, NEW d \in Conn, out'[d] = out[d]
    PROVE  NoFailure(d)
  <1>1. Len(out[d]) \in Nat
    BY LenProperties DEF Outs
  <1> QED  BY <1>1 DEF NoFailure

LEMMA StreamTypes ==
    ASSUME NEW c, ConnInv(c)
    PROVE  /\ Stream(c) \in Seq(Unit(c)) /\ reqbuf[c] \o unread[c] \in Seq(Unit(c))
           /\ todo[c] = <<>> => Stream(c) = reqbuf[c] \o unread[c]
  <1> DEFINE b == reqbuf[c]
             w == unread[c]
             t == todo[c]
             S == Unit(c)
  <1>1. b \in Seq(S) /\ w \in Seq(S) /\ t \in Seq(S)
    BY DEF ConnInv
  <1> HIDE DEF b, w, t, S
  <1>2. b \o w \in Seq(S)
    BY <1>1, ConcatProperties
  <1> DEFINE e == b \o w
  <1>3. e \in Seq(S)
    BY <1>2
  <1>4. Stream(c) = e \o t
    BY DEF Stream, b, w, t
  <1> HIDE DEF e
  <1>5. e \o t \in Seq(S) /\ e \o <<>> = e
    BY <1>1, <1>3, ConcatProperties, ConcatEmptySeq
  <1> QED  BY <1>3, <1>4, <1>5 DEF b, w, t, S, e

(* A client begins to write a message. *)
LEMMA Begun ==
    ASSUME ProtoInv, NEW c \in Conn, NEW m \in Messages(c), Begin(c, m, Size(m)),
           DOMAIN speaks' = Conn, DOMAIN rest' = Conn,
           \A d \in Conn : d # c => speaks'[d] = speaks[d] /\ rest'[d] = rest[d],
           speaks'[c] \in Nat, speaks'[c] = 0 => rest'[c] = Nothing,
           \/ OldOp(m) /\ speaks[c] = 0 /\ (speaks'[c] > 0 <=> Switches(m))
           \/ ~ OldOp(m) /\ speaks[c] > 0 /\ speaks'[c] = speaks[c],
           Later(m) => m = rest[c] /\ rest[c] # Nothing,
           rest'[c] # Nothing => m \in Parts(c) /\ Left(m) > ChunkSize /\ rest'[c] = RestOf(m)
    PROVE  ProtoInv' /\ OneByOne /\ Honest
  <1> DEFINE q == Stream(c)
             u == Units(sent[c] + 1, m, Size(m))
             p == q \o u
  <1>1. /\ todo[c] = <<>> /\ sent[c] < MaxSent
        /\ sent' = [sent EXCEPT ![c] = sent[c] + 1] /\ todo' = [todo EXCEPT ![c] = u]
        /\ UNCHANGED <<unread, proto, reqbuf, handled>> /\ UNCHANGED perClient
        /\ UNCHANGED out /\ UNCHANGED config
    BY DEF Begin, framing
  <1>2. ConnInv(c) /\ Domains /\ Personals /\ Outs /\ ConfigInv
    BY DEF ProtoInv
  <1>3. sent[c] \in Nat /\ handled[c] \in Nat /\ sent[c] + 1 \in 0..MaxSent /\ handled[c] <= sent[c] + 1 /\ proto[c] \in {0, 1}
    BY <1>1, <1>2, ProtoBounds DEF ConnInv
  <1>4. q \in Seq(Unit(c)) /\ q = reqbuf[c] \o unread[c]
    BY <1>1, <1>2, StreamTypes
  <1>5. p \in Seq(Unit(c)) /\ Longer(p, q, sent[c] + 1, m)
    <2> HIDE DEF q
    <2>1. sent[c] + 1 \in Nat
      BY <1>3
    <2> QED  BY <1>4, <2>1, Lengthened
  <1>6. u \in Seq(Unit(c))
    <2>1. Size(m) \in Nat /\ sent[c] + 1 \in Nat
      BY <1>3, ProtoBounds
    <2> DEFINE n == sent[c] + 1
               s == Size(m)
    <2>2. n \in Nat /\ s \in Nat
      BY <2>1
    <2> HIDE DEF n, s
    <2>3. Units(n, m, s) \in Seq(Unit(c))
      BY <2>2 DEF Units, Unit
    <2> QED  BY <2>3 DEF n, s
  <1>7. /\ todo'[c] = u /\ sent'[c] = sent[c] + 1
        /\ DOMAIN todo' = Conn /\ DOMAIN sent' = Conn
        /\ \A d \in Conn : d # c => todo'[d] = todo[d] /\ sent'[d] = sent[d]
    BY <1>1, <1>2 DEF Domains
  <1> HIDE DEF u, p, q
  <1>8. Stream(c)' = p
    BY <1>1, <1>4, <1>7 DEF Stream, p
  <1>9. Framed(p, handled[c], sent[c] + 1)
    <2>1. Framed(q, handled[c], sent[c])
      BY <1>2 DEF ConnInv, q
    <2> QED  BY <1>3, <1>4, <1>5, <2>1, FramedAppend
  <1> DEFINE next == sent[c] + 1
  <1>a. Longer(p, q, next, m)
    BY <1>5
  <1> HIDE DEF next
  <1>10. Spoken(p, proto[c], speaks'[c])
    <2>1. Spoken(q, proto[c], speaks[c]) /\ speaks[c] \in Nat
      BY <1>2 DEF ConnInv, q
    <2>2. CASE OldOp(m) /\ speaks[c] = 0 /\ (speaks'[c] > 0 <=> Switches(m))
      BY <1>4, <1>5, <1>a, <2>1, <2>2, SpokenOldMore
    <2>3. CASE ~ OldOp(m) /\ speaks[c] > 0 /\ speaks'[c] = speaks[c]
      <3>1. ~ OldOp(m) /\ speaks[c] > 0 /\ proto[c] \in {0, 1} /\ p \in Seq(Unit(c)) /\ q \in Seq(Unit(c))
        BY <1>3, <1>4, <1>5, <2>3
      <3>2. Spoken(p, proto[c], speaks[c])
        BY <1>a, <2>1, <3>1, SpokenNewMore
      <3> QED  BY <2>3, <3>2
    <2> QED  BY <2>2, <2>3
  <1>11. Strung(c, p, strbuf[c], rest'[c])
    <2>1. Strung(c, q, strbuf[c], rest[c])
      BY <1>2 DEF ConnInv, q
    <2> QED  BY <1>4, <1>5, <1>a, <2>1, StrungAppend
  <1>12. ConnInv(c)'
    <2>1. UNCHANGED <<unread, proto, reqbuf, handled, strbuf>>
      BY <1>1 DEF perClient
    <2> QED  BY <1>2, <1>3, <1>6, <1>7, <1>8, <1>9, <1>10, <1>11, <2>1 DEF ConnInv
  <1>13. ASSUME NEW d \in Conn, d # c PROVE ConnInv(d)'
    <2>1. Same(d)
      BY <1>1, <1>7, <1>13 DEF Same, perClient
    <2> QED  BY <2>1, SameKept DEF ProtoInv
  <1>14. Domains' /\ Personals' /\ Outs' /\ ConfigInv'
    BY <1>1, <1>2, <1>7, PersonalsKept, ConfigKept DEF Domains, Outs
  <1>15. OneByOne
    BY <1>1 DEF OneByOne
  <1>16. Honest
    BY <1>1 DEF Honest
  <1> QED  BY <1>12, <1>13, <1>14, <1>15, <1>16 DEF ProtoInv

LEMMA SendV0Step ==
    ASSUME ProtoInv, NEW c \in Conn, SendV0(c)
    PROVE  ProtoInv' /\ OneByOne /\ Honest
  <1>1. ConnInv(c) /\ Domains
    BY DEF ProtoInv
  <1>2. speaks[c] = 0 /\ UNCHANGED rest /\ rest[c] = Nothing
    BY <1>1 DEF SendV0, ConnInv
  <1>3. ASSUME NEW v \in {2, NaN}, Begin(c, [op |-> "SENS", v |-> v], 1), UNCHANGED speaks
        PROVE  ProtoInv' /\ OneByOne /\ Honest
    <2> DEFINE m == [op |-> "SENS", v |-> v]
    <2>1. m \in Messages(c) /\ OldOp(m) /\ ~ Switches(m) /\ ~ Later(m)
      BY DEF Messages, OldMessages, OldOp, Switches, Later
    <2>2. Size(m) = 1
      BY <2>1 DEF Size
    <2>3. Begin(c, m, Size(m))
      BY <1>3, <2>2
    <2> HIDE DEF m
    <2>4. speaks'[c] = 0 /\ rest'[c] = Nothing /\ DOMAIN speaks' = Conn /\ DOMAIN rest' = Conn
      BY <1>1, <1>2, <1>3 DEF Domains
    <2>5. \A d \in Conn : d # c => speaks'[d] = speaks[d] /\ rest'[d] = rest[d]
      BY <1>2, <1>3
    <2>6. OldOp(m) /\ speaks[c] = 0 /\ (speaks'[c] > 0 <=> Switches(m))
      BY <1>2, <2>1, <2>4
    <2> QED  BY <2>1, <2>3, <2>4, <2>5, <2>6, Begun
  <1>4. ASSUME NEW v \in {0, MAX_PROTO_VER + 1}, Begin(c, [op |-> "CHANGE_PROTO", v |-> v], 1),
               speaks' = [speaks EXCEPT ![c] = v]
        PROVE  ProtoInv' /\ OneByOne /\ Honest
    <2> DEFINE m == [op |-> "CHANGE_PROTO", v |-> v]
    <2>1. m \in Messages(c) /\ OldOp(m) /\ ~ Later(m)
      BY DEF Messages, OldMessages, OldOp, Later
    <2>2. Switches(m) <=> v > 0
      BY DEF Switches
    <2>3. Size(m) = 1
      BY <2>1 DEF Size
    <2>4. Begin(c, m, Size(m))
      BY <1>4, <2>3
    <2> HIDE DEF m
    <2>5. speaks'[c] = v /\ rest'[c] = Nothing /\ DOMAIN speaks' = Conn /\ DOMAIN rest' = Conn /\ v \in Nat
      BY <1>1, <1>2, <1>4 DEF Domains, MAX_PROTO_VER
    <2>6. \A d \in Conn : d # c => speaks'[d] = speaks[d] /\ rest'[d] = rest[d]
      BY <1>1, <1>2, <1>4 DEF Domains
    <2>7. OldOp(m) /\ speaks[c] = 0 /\ (speaks'[c] > 0 <=> Switches(m))
      BY <1>2, <2>1, <2>2, <2>5
    <2> QED  BY <2>1, <2>4, <2>5, <2>6, <2>7, Begun
  <1> QED  BY <1>3, <1>4 DEF SendV0

LEMMA SendRequestStep ==
    ASSUME ProtoInv, NEW c \in Conn, SendRequest(c)
    PROVE  ProtoInv' /\ OneByOne /\ Honest
  <1>1. ConnInv(c) /\ Domains /\ speaks[c] \in Nat
    BY DEF ProtoInv, ConnInv
  <1>2. PICK m \in Requests[c] : Begin(c, m, ReqUnits)
    BY DEF SendRequest
  <1>3. speaks[c] > 0 /\ rest' = [rest EXCEPT ![c] = Nothing] /\ UNCHANGED speaks
    BY DEF SendRequest
  <1>4. m.op \notin {"SENS", "CHANGE_PROTO", "STR"}
    BY UnixProtoAssumption DEF Sendable
  <1>5. m \in Messages(c) /\ ~ OldOp(m) /\ ~ Later(m) /\ Size(m) = ReqUnits
    BY <1>4 DEF Messages, OldOp, Later, Size
  <1>6. rest'[c] = Nothing /\ DOMAIN rest' = Conn /\ \A d \in Conn : d # c => rest'[d] = rest[d]
    BY <1>1, <1>3 DEF Domains
  <1>7. /\ speaks'[c] = speaks[c] /\ speaks'[c] \in Nat /\ DOMAIN speaks' = Conn
        /\ \A d \in Conn : d # c => speaks'[d] = speaks[d]
    BY <1>1, <1>3 DEF Domains
  <1>8. Begin(c, m, Size(m))
    BY <1>2, <1>5
  <1> QED  BY <1>3, <1>5, <1>6, <1>7, <1>8, Begun

LEMMA SendChunkStep ==
    ASSUME ProtoInv, NEW c \in Conn, NEW m \in Parts(c), SendChunk(c, m), speaks[c] > 0,
           Later(m) => m = rest[c] /\ rest[c] # Nothing
    PROVE  ProtoInv' /\ OneByOne /\ Honest
  <1>1. ConnInv(c) /\ Domains /\ speaks[c] \in Nat
    BY DEF ProtoInv, ConnInv
  <1>2. Begin(c, m, ReqUnits) /\ rest' = [rest EXCEPT ![c] = RestOf(m)] /\ UNCHANGED speaks
    BY DEF SendChunk
  <1>3. m \in Messages(c) /\ ~ OldOp(m) /\ Size(m) = ReqUnits /\ Left(m) \in Nat
    BY PartFields DEF Size
  <1>4. rest'[c] = RestOf(m) /\ DOMAIN rest' = Conn /\ \A d \in Conn : d # c => rest'[d] = rest[d]
    BY <1>1, <1>2 DEF Domains
  <1>5. rest'[c] # Nothing => Left(m) > ChunkSize
    BY <1>3, <1>4, ProtoBounds DEF RestOf
  <1>6. /\ speaks'[c] = speaks[c] /\ speaks'[c] \in Nat /\ DOMAIN speaks' = Conn
        /\ \A d \in Conn : d # c => speaks'[d] = speaks[d]
    BY <1>1, <1>2 DEF Domains
  <1>7. Begin(c, m, Size(m))
    BY <1>2, <1>3
  <1>8. speaks'[c] # 0
    BY <1>1, <1>6
  <1> QED  BY <1>3, <1>4, <1>5, <1>6, <1>7, <1>8, Begun

LEMMA StringSteps ==
    ASSUME ProtoInv, NEW c \in Conn,
           \/ ContinueString(c)
           \/ \E of \in DOMAIN Strings[c] : \E str \in Strings[c][of] : BeginString(c, of, str)
    PROVE  ProtoInv' /\ OneByOne /\ Honest
  <1>1. ConnInv(c) /\ speaks[c] \in Nat
    BY DEF ProtoInv, ConnInv
  <1>2. CASE ContinueString(c)
    <2>1. rest[c] # Nothing /\ SendChunk(c, rest[c])
      BY <1>2 DEF ContinueString
    <2>2. rest[c] \in Parts(c)
      BY <1>1, <2>1 DEF ConnInv, Strung
    <2>3. speaks[c] > 0
      BY <1>1, <2>1 DEF ConnInv
    <2> QED  BY <2>1, <2>2, <2>3, SendChunkStep
  <1>3. ASSUME NEW of \in DOMAIN Strings[c], NEW str \in Strings[c][of], BeginString(c, of, str)
        PROVE  ProtoInv' /\ OneByOne /\ Honest
    <2> DEFINE m == Chunk(of, str, 0)
    <2>1. of \in StringNames /\ str \in Seq(Token)
      BY UnixProtoAssumption DEF StringNames
    <2>2. m \in Parts(c) /\ ~ Later(m)
      BY <2>1 DEF Chunk, Parts, Later
    <2>3. SendChunk(c, m) /\ speaks[c] > 0
      BY <1>3 DEF BeginString
    <2> HIDE DEF m
    <2> QED  BY <2>2, <2>3, SendChunkStep
  <1> QED  BY <1>2, <1>3

LEMMA WriteStep ==
    ASSUME ProtoInv, NEW c \in Conn, Write(c)
    PROVE  ProtoInv' /\ OneByOne /\ Honest
  <1>1. ConnInv(c) /\ Domains /\ Personals /\ Outs /\ ConfigInv
    BY DEF ProtoInv
  <1>2. /\ todo[c] # <<>>
        /\ unread' = [unread EXCEPT ![c] = Append(unread[c], Head(todo[c]))]
        /\ todo' = [todo EXCEPT ![c] = Tail(todo[c])]
        /\ UNCHANGED <<sent, speaks, rest, proto, reqbuf, handled>>
        /\ UNCHANGED perClient /\ UNCHANGED out /\ UNCHANGED config
    BY DEF Write
  <1>3. /\ reqbuf[c] \in Seq(Unit(c)) /\ unread[c] \in Seq(Unit(c)) /\ todo[c] \in Seq(Unit(c))
    BY <1>1 DEF ConnInv
  <1>4. Append(unread[c], Head(todo[c])) \in Seq(Unit(c)) /\ Tail(todo[c]) \in Seq(Unit(c))
    BY <1>2, <1>3, MovedOn
  <1>5. /\ unread'[c] = Append(unread[c], Head(todo[c])) /\ todo'[c] = Tail(todo[c])
        /\ DOMAIN unread' = Conn /\ DOMAIN todo' = Conn
        /\ \A d \in Conn : d # c => unread'[d] = unread[d] /\ todo'[d] = todo[d]
    BY <1>1, <1>2 DEF Domains
  <1>6. (reqbuf[c] \o Append(unread[c], Head(todo[c]))) \o Tail(todo[c])
          = (reqbuf[c] \o unread[c]) \o todo[c]
    <2>1. todo[c] # <<>>
      BY <1>2
    <2>2. SameWhenMoved(Unit(c))
      BY WrittenOn, Zenon
    <2> QED  BY <1>3, <2>1, <2>2, Zenon DEF SameWhenMoved
  <1>7. Stream(c)' = Stream(c)
    BY <1>2, <1>5, <1>6 DEF Stream
  <1>8. ConnInv(c)'
    BY <1>1, <1>2, <1>4, <1>5, <1>7 DEF ConnInv, perClient
  <1>9. ASSUME NEW d \in Conn, d # c PROVE ConnInv(d)'
    <2>1. Same(d)
      BY <1>2, <1>5, <1>9 DEF Same, perClient
    <2> QED  BY <2>1, SameKept DEF ProtoInv
  <1>10. Domains' /\ Personals' /\ Outs' /\ ConfigInv'
    BY <1>1, <1>2, <1>5, PersonalsKept, ConfigKept DEF Domains, Outs
  <1>11. OneByOne /\ Honest
    BY <1>2 DEF OneByOne, Honest
  <1> QED  BY <1>8, <1>9, <1>10, <1>11 DEF ProtoInv

LEMMA OutSteps ==
    ASSUME ProtoInv, NEW c \in Conn, Take(c) \/ send_uevent(c, "DEV")
    PROVE  ProtoInv' /\ OneByOne /\ Honest
  <1>1. ConnInv(c) /\ Domains /\ Personals /\ Outs /\ ConfigInv
    BY DEF ProtoInv
  <1>2. UNCHANGED stream /\ UNCHANGED framing /\ UNCHANGED perClient /\ UNCHANGED config
    BY DEF Take, send_uevent
  <1>3. ASSUME NEW d \in Conn PROVE ConnInv(d)'
    <2>1. Same(d)
      BY <1>2 DEF Same, perClient, stream, framing
    <2> QED  BY <2>1, SameKept DEF ProtoInv
  <1>4. Outs'
    <2>1. CASE Take(c)
      <3>1. out[c] # <<>> /\ out' = [out EXCEPT ![c] = Tail(out[c])]
        BY <2>1 DEF Take
      <3>2. out[c] \in Seq({0, -1}) /\ Len(out[c]) \in Nat /\ Len(out[c]) <= OutRoom /\ OutRoom \in Nat
        BY <1>1, LenProperties, ProtoBounds DEF Outs
      <3>3. Tail(out[c]) \in Seq({0, -1}) /\ Len(Tail(out[c])) <= OutRoom
        BY <3>1, <3>2, HeadTailProperties
      <3> QED  BY <1>1, <3>1, <3>3 DEF Outs
    <2>2. CASE send_uevent(c, "DEV")
      <3>1. sendresp(c, 0)
        BY <2>2 DEF send_uevent, sendresp
      <3> QED  BY <1>1, <3>1, Answered
    <2> QED  BY <2>1, <2>2
  <1>5. Domains' /\ Personals' /\ ConfigInv'
    BY <1>1, <1>2, PersonalsKept, ConfigKept DEF Domains, stream, framing
  <1>6. OneByOne /\ Honest
    BY <1>2 DEF OneByOne, Honest, framing
  <1> QED  BY <1>3, <1>4, <1>5, <1>6 DEF ProtoInv

OneTaken(S, w, t) ==
    /\ w \o t \in Seq(S) /\ Tail(w) \o t \in Seq(S) /\ Tail(w) \in Seq(S)
    /\ w \o t # <<>> /\ (w \o t)[1] = Head(w) /\ Head(w) \in S
    /\ Len(Tail(w) \o t) = Len(w \o t) - 1
    /\ \A i \in 1..Len(Tail(w) \o t) : (Tail(w) \o t)[i] = (w \o t)[i + 1]

LEMMA FirstTaken ==
    ASSUME NEW S, NEW w \in Seq(S), NEW t \in Seq(S), w # <<>>
    PROVE  OneTaken(S, w, t)
  <1> DEFINE e == Tail(w)
             q == w \o t
             p == e \o t
  <1>1. Len(w) \in Nat /\ Len(t) \in Nat /\ Len(w) # 0
    BY EmptySeq, LenProperties
  <1>2. e \in Seq(S) /\ Head(w) \in S /\ Head(w) = w[1] /\ Len(e) = Len(w) - 1 /\ \A i \in 1..Len(e) : e[i] = w[i + 1]
    BY HeadTailProperties, <1>1
  <1> HIDE DEF e
  <1>3. /\ q \in Seq(S) /\ Len(q) = Len(w) + Len(t)
        /\ \A i \in 1..Len(w) + Len(t) : q[i] = IF i <= Len(w) THEN w[i] ELSE t[i - Len(w)]
    BY ConcatProperties
  <1>4. /\ p \in Seq(S) /\ Len(p) = Len(e) + Len(t)
        /\ \A i \in 1..Len(e) + Len(t) : p[i] = IF i <= Len(e) THEN e[i] ELSE t[i - Len(e)]
    BY <1>2, ConcatProperties
  <1> HIDE DEF q, p
  <1>5. q # <<>> /\ q[1] = Head(w)
    BY <1>1, <1>2, <1>3
  <1>6. Len(p) = Len(q) - 1
    BY <1>1, <1>2, <1>3, <1>4
  <1>7. ASSUME NEW i \in 1..Len(p) PROVE p[i] = q[i + 1]
    <2>1. i \in 1..Len(e) + Len(t) /\ i + 1 \in 1..Len(w) + Len(t)
      BY <1>1, <1>2, <1>4, <1>7
    <2>2. CASE i <= Len(e)
      BY <1>1, <1>2, <1>3, <1>4, <2>1, <2>2
    <2>3. CASE ~ (i <= Len(e))
      <3>1. ~ (i + 1 <= Len(w)) /\ i + 1 - Len(w) = i - Len(e)
        BY <1>1, <1>2, <2>1, <2>3
      <3>2. p[i] = t[i - Len(e)]
        BY <1>4, <2>1, <2>3
      <3>3. q[i + 1] = t[i + 1 - Len(w)]
        BY <1>3, <2>1, <3>1
      <3> QED  BY <3>1, <3>2, <3>3
    <2> QED  BY <2>2, <2>3
  <1> QED  BY <1>2, <1>3, <1>4, <1>5, <1>6, <1>7 DEF e, q, p, OneTaken

(***************************************************************************)
(* The first message is handled: pr is the protocol after it, new the      *)
(* string buffer.                                                          *)
(***************************************************************************)
LEMMA FirstHandled ==
    ASSUME NEW c \in Conn, ConnInv(c), NEW q \in Seq(Unit(c)), q = Stream(c), q # <<>>,
           NEW p \in Seq(Unit(c)), Shorter(p, q),
           NEW pr \in {0, 1}, pr = 1 <=> proto[c] = 1 \/ Switches(q[1].msg), NEW new,
           \A r \in Parts(c) : Later(r) /\ r.at >= ChunkSize /\ q[1].msg = Former(r) => Receiving(new, r)
    PROVE  /\ handled[c] + 1 \in Nat /\ handled[c] + 1 <= sent[c]
           /\ Framed(p, handled[c] + 1, sent[c]) /\ Spoken(p, pr, speaks[c])
           /\ Strung(c, p, new, rest[c])
  <1>1. handled[c] \in Nat /\ sent[c] \in Nat /\ proto[c] \in {0, 1} /\ speaks[c] \in Nat
    BY ProtoBounds DEF ConnInv
  <1>2. Framed(q, handled[c], sent[c]) /\ Spoken(q, proto[c], speaks[c]) /\ Strung(c, q, strbuf[c], rest[c])
    BY DEF ConnInv
  <1>3. handled[c] + 1 <= sent[c] /\ Framed(p, handled[c] + 1, sent[c])
    BY <1>1, <1>2, FramedFirst
  <1>4. Spoken(p, pr, speaks[c])
    BY <1>1, <1>2, SpokenFirst
  <1>5. Strung(c, p, new, rest[c])
    BY <1>1, <1>2, StrungFirst
  <1> QED  BY <1>1, <1>3, <1>4, <1>5

(* A message of protocol 0 is one unit. *)
LEMMA ReadV0Step ==
    ASSUME ProtoInv, NEW c \in Conn, ReadV0(c)
    PROVE  ProtoInv' /\ OneByOne /\ Honest
  <1> DEFINE w == unread[c]
             t == todo[c]
             q == Stream(c)
             u == Head(unread[c])
             p == Tail(unread[c]) \o todo[c]
             new == IF u.msg.v > MAX_PROTO_VER THEN MAX_PROTO_VER ELSE u.msg.v
  <1>1. ConnInv(c) /\ Domains /\ Personals /\ Outs /\ ConfigInv
    BY DEF ProtoInv
  <1>2. /\ proto[c] = 0 /\ w # <<>>
        /\ unread' = [unread EXCEPT ![c] = Tail(w)]
        /\ handled' = [handled EXCEPT ![c] = u.n]
        /\ IF u.msg.op = "CHANGE_PROTO"
           THEN /\ proto' = [proto EXCEPT ![c] = new] /\ Put(c, <<0>>)
                /\ evmask' = IF new = 0 THEN evmask
                             ELSE [evmask EXCEPT ![c] = {"MOTION", "BUTTON", "DEV"}]
                /\ UNCHANGED sens
           ELSE /\ sens' = IF u.msg.v = NaN THEN sens ELSE [sens EXCEPT ![c] = u.msg.v]
                /\ UNCHANGED <<proto, out, evmask>>
        /\ UNCHANGED <<sent, speaks, rest, todo>> /\ UNCHANGED <<reqbuf, name, strbuf>> /\ UNCHANGED config
    BY DEF ReadV0, stream
  <1>3. /\ w \in Seq(Unit(c)) /\ t \in Seq(Unit(c)) /\ reqbuf[c] = <<>>
        /\ handled[c] \in Nat /\ sent[c] \in Nat
    BY <1>1, <1>2, ProtoBounds DEF ConnInv
  <1>4. q = w \o t
    <2> DEFINE S == Unit(c)
    <2>1. w \in Seq(S)
      BY <1>3
    <2>2. q = (<<>> \o w) \o t
      BY <1>3 DEF Stream
    <2> HIDE DEF S, q, w, t
    <2>3. <<>> \o w = w
      BY <2>1, ConcatEmptySeq
    <2> QED  BY <2>2, <2>3
  <1> HIDE DEF q, w, t, p, new
  <1>5. /\ q \in Seq(Unit(c)) /\ p \in Seq(Unit(c)) /\ Tail(w) \in Seq(Unit(c))
        /\ q # <<>> /\ q[1] = u /\ u \in Unit(c)
        /\ Len(p) = Len(q) - 1 /\ \A i \in 1..Len(p) : p[i] = q[i + 1]
    <2> DEFINE S == Unit(c)
    <2>1. w \in Seq(S) /\ t \in Seq(S) /\ w # <<>>
      BY <1>2, <1>3
    <2> HIDE DEF S
    <2>2. OneTaken(S, w, t)
      BY <2>1, FirstTaken
    <2>3. p = Tail(w) \o t /\ u = Head(w)
      BY DEF p, w, t
    <2> QED  BY <1>4, <2>2, <2>3, Zenon DEF S, OneTaken
  <1>6. OldOp(u.msg) /\ u.msg \in Messages(c)
    BY <1>1, <1>2, <1>5, UnitFields DEF ConnInv, Spoken, q
  <1>7. /\ Size(u.msg) = 1 /\ u.msg.op \in {"SENS", "CHANGE_PROTO"}
        /\ u.msg.op = "SENS" => u.msg.v \in {2, NaN}
        /\ u.msg.op = "CHANGE_PROTO" => u.msg.v \in {0, 2}
    BY <1>6, Kinds DEF OldOp, MAX_PROTO_VER
  <1>8. Shorter(p, q)
    <2>1. Len(q) \in Nat /\ Len(q) # 0
      BY <1>5, EmptySeq, LenProperties
    <2> QED  BY <1>5, <1>7, <2>1 DEF Shorter
  <1>9. u.n = handled[c] + 1
    BY <1>1, <1>5 DEF ConnInv, Framed, q
  <1>10. /\ proto'[c] \in {0, 1} /\ DOMAIN proto' = Conn
         /\ proto'[c] = 1 <=> proto[c] = 1 \/ Switches(q[1].msg)
         /\ \A d \in Conn : d # c => proto'[d] = proto[d]
    BY <1>1, <1>2, <1>5, <1>7 DEF Domains, Switches, MAX_PROTO_VER, new
  <1>11. \A r \in Parts(c) : ~ (q[1].msg = Former(r))
    BY <1>5, <1>7 DEF Former, Chunk
  <1>12. /\ handled[c] + 1 \in Nat /\ handled[c] + 1 <= sent[c]
         /\ Framed(p, handled[c] + 1, sent[c]) /\ Spoken(p, proto'[c], speaks[c])
         /\ Strung(c, p, strbuf[c], rest[c])
    BY <1>1, <1>5, <1>8, <1>10, <1>11, FirstHandled DEF q
  <1>13. /\ unread'[c] = Tail(w) /\ handled'[c] = handled[c] + 1
         /\ DOMAIN unread' = Conn /\ DOMAIN handled' = Conn
         /\ \A d \in Conn : d # c => unread'[d] = unread[d] /\ handled'[d] = handled[d]
    BY <1>1, <1>2, <1>9 DEF Domains
  <1>14. Stream(c)' = p
    <2>1. Tail(w) = <<>> \o Tail(w)
      <3> DEFINE e == Tail(w)
                 S == Unit(c)
      <3>1. e \in Seq(S)
        BY <1>5
      <3> HIDE DEF e, S
      <3>2. e = <<>> \o e
        BY <3>1, ConcatEmptySeq
      <3> QED  BY <3>2 DEF e
    <2>2. Stream(c)' = (<<>> \o Tail(w)) \o t
      BY <1>2, <1>3, <1>13 DEF Stream, t
    <2> QED  BY <2>1, <2>2 DEF p, w, t
  <1>15. ConnInv(c)'
    <2>1. /\ sent'[c] = sent[c] /\ speaks'[c] = speaks[c] /\ rest'[c] = rest[c] /\ todo'[c] = todo[c]
          /\ reqbuf'[c] = reqbuf[c] /\ strbuf'[c] = strbuf[c]
      BY <1>2
    <2>2. sent[c] \in 0..MaxSent /\ speaks[c] \in Nat /\ (speaks[c] = 0 => rest[c] = Nothing)
          /\ todo[c] \in Seq(Unit(c)) /\ reqbuf[c] \in Seq(Unit(c)) /\ Len(reqbuf[c]) < ReqUnits
      BY <1>1 DEF ConnInv
    <2> QED  BY <1>3, <1>5, <1>10, <1>12, <1>13, <1>14, <2>1, <2>2 DEF ConnInv
  <1>16. ASSUME NEW d \in Conn, d # c PROVE ConnInv(d)'
    <2>1. Same(d)
      BY <1>2, <1>10, <1>13, <1>16 DEF Same
    <2> QED  BY <2>1, SameKept DEF ProtoInv
  <1>17. Personals'
    <2>1. DOMAIN sens' = Conn /\ \A d \in Conn : sens'[d] \in Int
      BY <1>1, <1>2, <1>7 DEF Personals
    <2>2. DOMAIN evmask' = Conn /\ \A d \in Conn : evmask'[d] \subseteq EventTypes
      BY <1>1, <1>2 DEF Personals, EventTypes
    <2> QED  BY <1>1, <1>2, <2>1, <2>2 DEF Personals
  <1>18. Outs' /\ \A d \in Conn : NoFailure(d)
    <2>1. CASE u.msg.op = "CHANGE_PROTO"
      <3>1. sendresp(c, 0)
        BY <1>2, <2>1 DEF sendresp
      <3>2. Outs' /\ (\A d \in Conn : d # c => out'[d] = out[d]) /\ NoFailure(c)
        BY <1>1, <3>1, Answered
      <3> QED  BY <1>1, <3>2, OutSame
    <2>2. CASE u.msg.op # "CHANGE_PROTO"
      BY <1>1, <1>2, <2>2, OutSame DEF Outs
    <2> QED  BY <2>1, <2>2
  <1>19. Domains' /\ ConfigInv'
    BY <1>1, <1>2, <1>10, <1>13, ConfigKept DEF Domains
  <1>20. OneByOne
    BY <1>13 DEF OneByOne
  <1>21. Honest
    BY <1>18 DEF Honest
  <1> QED  BY <1>15, <1>16, <1>17, <1>18, <1>19, <1>20, <1>21 DEF ProtoInv

(* Of a request of protocol 1, what it lacks is read. *)
LEMMA ReadV1Step ==
    ASSUME ProtoInv, NEW c \in Conn, ReadV1(c)
    PROVE  ProtoInv' /\ OneByOne /\ Honest
  <1> DEFINE n == Lacking(c)
             d == Start(unread[c], n)
             buf == reqbuf[c] \o d
             u == SubSeq(unread[c], Len(d) + 1, Len(unread[c]))
             q == Stream(c)
             p == u \o todo[c]
  <1>1. ConnInv(c) /\ Domains /\ Personals /\ Outs /\ ConfigInv
    BY DEF ProtoInv
  <1>2. /\ proto[c] = 1 /\ unread[c] # <<>>
        /\ unread' = [unread EXCEPT ![c] = u]
        /\ \/ /\ Len(buf) >= ReqUnits /\ reqbuf' = [reqbuf EXCEPT ![c] = <<>>]
              /\ handled' = [handled EXCEPT ![c] = Number(buf)]
              /\ handle_request(c, Meaning(buf))
           \/ /\ ~ (Len(buf) >= ReqUnits) /\ reqbuf' = [reqbuf EXCEPT ![c] = buf]
              /\ UNCHANGED handled /\ UNCHANGED perClient /\ UNCHANGED out /\ UNCHANGED config
        /\ UNCHANGED <<sent, speaks, rest, todo, proto>>
    BY DEF ReadV1, stream
  <1>3. /\ reqbuf[c] \in Seq(Unit(c)) /\ unread[c] \in Seq(Unit(c)) /\ todo[c] \in Seq(Unit(c))
        /\ Len(reqbuf[c]) \in Nat /\ Len(reqbuf[c]) < ReqUnits
        /\ handled[c] \in Nat /\ sent[c] \in Nat
    BY <1>1, ProtoBounds, LenProperties DEF ConnInv
  <1>4. n \in Nat /\ n = ReqUnits - Len(reqbuf[c])
    BY <1>3, ProtoBounds DEF Lacking
  <1> HIDE DEF n
  <1>5. /\ d \in Seq(Unit(c)) /\ Len(d) \in 0..n /\ u \in Seq(Unit(c)) /\ d \o u = unread[c]
    BY <1>3, <1>4, StartProperties
  <1> HIDE DEF d, u
  <1>6. /\ buf \in Seq(Unit(c)) /\ p \in Seq(Unit(c)) /\ Len(buf) = Len(reqbuf[c]) + Len(d)
        /\ (buf \o u) \o todo[c] = q /\ buf \o p = q /\ (<<>> \o u) \o todo[c] = p
    <2> DEFINE b == reqbuf[c]
               w == unread[c]
               t == todo[c]
    <2>1. /\ b \in Seq(Unit(c)) /\ t \in Seq(Unit(c)) /\ d \o u = w
          /\ buf = b \o d /\ p = u \o t /\ q = (b \o w) \o t
      BY <1>3, <1>5 DEF Stream
    <2> HIDE DEF b, w, t, buf, p, q
    <2>2. MovedIn(c, b, d, u, t, w)
      BY <1>5, <2>1, ReadOn
    <2> QED  BY <2>1, <2>2, Zenon DEF b, t, MovedIn
  <1>7. Len(buf) \in Nat /\ Len(buf) <= ReqUnits
    BY <1>3, <1>4, <1>5, <1>6, ProtoBounds
  <1> HIDE DEF buf, p, q
  <1>8. /\ unread'[c] = u /\ DOMAIN unread' = Conn /\ \A e \in Conn : e # c => unread'[e] = unread[e]
    BY <1>1, <1>2 DEF Domains
  <1>9. /\ sent'[c] = sent[c] /\ speaks'[c] = speaks[c] /\ rest'[c] = rest[c] /\ todo'[c] = todo[c]
        /\ proto'[c] = proto[c]
        /\ sent[c] \in 0..MaxSent /\ speaks[c] \in Nat /\ (speaks[c] = 0 => rest[c] = Nothing)
        /\ proto[c] = 1
    BY <1>1, <1>2 DEF ConnInv
  <1>10. CASE ~ (Len(buf) >= ReqUnits)
    <2>1. /\ reqbuf' = [reqbuf EXCEPT ![c] = buf]
          /\ UNCHANGED handled /\ UNCHANGED perClient /\ UNCHANGED out /\ UNCHANGED config
      BY <1>2, <1>10
    <2>2. /\ reqbuf'[c] = buf /\ DOMAIN reqbuf' = Conn
          /\ \A e \in Conn : e # c => reqbuf'[e] = reqbuf[e]
      BY <1>1, <2>1 DEF Domains
    <2>3. Stream(c)' = Stream(c)
      BY <1>6, <1>8, <1>9, <2>2 DEF Stream, q
    <2>4. Len(buf) < ReqUnits
      BY <1>7, <1>10, ProtoBounds
    <2>5. ConnInv(c)'
      <3>1. /\ Framed(Stream(c), handled[c], sent[c]) /\ Spoken(Stream(c), proto[c], speaks[c])
            /\ Strung(c, Stream(c), strbuf[c], rest[c]) /\ handled[c] <= sent[c]
        BY <1>1 DEF ConnInv
      <3>2. handled'[c] = handled[c] /\ strbuf'[c] = strbuf[c] /\ buf \in Seq(Unit(c))
        BY <1>6, <2>1 DEF perClient
      <3> QED  BY <1>3, <1>5, <1>8, <1>9, <2>2, <2>3, <2>4, <3>1, <3>2 DEF ConnInv
    <2>6. ASSUME NEW e \in Conn, e # c PROVE ConnInv(e)'
      <3>1. Same(e)
        BY <1>2, <1>8, <2>1, <2>2, <2>6 DEF Same, perClient
      <3> QED  BY <3>1, SameKept DEF ProtoInv
    <2>7. Domains' /\ Personals' /\ Outs' /\ ConfigInv'
      BY <1>1, <1>2, <1>8, <2>1, <2>2, PersonalsKept, ConfigKept DEF Domains, Outs
    <2>8. OneByOne /\ Honest
      BY <2>1 DEF OneByOne, Honest
    <2> QED  BY <2>5, <2>6, <2>7, <2>8 DEF ProtoInv
  <1>11. CASE Len(buf) >= ReqUnits
    <2> DEFINE m == Meaning(buf)
    <2>1. /\ reqbuf' = [reqbuf EXCEPT ![c] = <<>>]
          /\ handled' = [handled EXCEPT ![c] = Number(buf)] /\ handle_request(c, m)
      BY <1>2, <1>11
    <2>2. Len(buf) = ReqUnits
      BY <1>7, <1>11, ProtoBounds
    <2>3. q \in Seq(Unit(c)) /\ q # <<>>
      <3>1. q \in Seq(Unit(c))
        BY <1>1, StreamTypes DEF q
      <3> DEFINE S == Unit(c)
      <3>2. buf \in Seq(S) /\ p \in Seq(S)
        BY <1>6
      <3> HIDE DEF S
      <3>3. Len(p) \in Nat /\ Len(buf \o p) = Len(buf) + Len(p)
        BY <3>2, LenProperties, ConcatProperties
      <3>4. Len(q) # 0
        BY <1>6, <2>2, <3>3, ProtoBounds
      <3>5. Len(<<>>) = 0
        BY EmptySeq
      <3> QED  BY <3>1, <3>4, <3>5
    <2>4. q[1] \in Unit(c) /\ 1 \in 1..Len(q)
      <3>1. Len(q) \in Nat /\ Len(q) # 0
        BY <2>3, EmptySeq, LenProperties
      <3>2. 1 \in 1..Len(q)
        BY <3>1
      <3> QED  BY <2>3, <3>2, ElementOfSeq
    <2>5. ~ OldOp(q[1].msg) /\ q[1].msg \in Messages(c)
      BY <1>1, <1>2, <2>4, UnitFields DEF ConnInv, Spoken, q
    <2>6. /\ Shorter(p, q) /\ Number(buf) = handled[c] + 1 /\ m = q[1].msg
      <3>1. Framed(q, handled[c], sent[c])
        BY <1>1 DEF ConnInv, q
      <3> QED  BY <1>3, <1>6, <2>2, <2>3, <2>5, <3>1, WholeRequest
    <2>7. m \in Requests[c] \cup Parts(c)
      BY <2>5, <2>6, Kinds
    <2>8. Later(m) => Receiving(strbuf[c], m)
      BY <1>1, <2>3, <2>6 DEF ConnInv, Strung, q
    <2>9. Outcome(c, m)
      BY <1>1, <2>1, <2>7, <2>8, Handled
    <2> HIDE DEF m
    <2>10. /\ handled[c] + 1 \in Nat /\ handled[c] + 1 <= sent[c]
           /\ Framed(p, handled[c] + 1, sent[c]) /\ Spoken(p, proto[c], speaks[c])
           /\ Strung(c, p, strbuf'[c], rest[c])
      <3> DEFINE new == strbuf'[c]
      <3>1. \A r \in Parts(c) : Later(r) /\ r.at >= ChunkSize /\ q[1].msg = Former(r) => Receiving(new, r)
        BY <2>6, <2>9 DEF Outcome, Goes
      <3>2. proto[c] \in {0, 1} /\ (proto[c] = 1 <=> proto[c] = 1 \/ Switches(q[1].msg))
        BY <1>2
      <3>3. q = Stream(c)
        BY DEF q
      <3> HIDE DEF new
      <3>4. /\ handled[c] + 1 \in Nat /\ handled[c] + 1 <= sent[c]
            /\ Framed(p, handled[c] + 1, sent[c]) /\ Spoken(p, proto[c], speaks[c])
            /\ Strung(c, p, new, rest[c])
        BY <1>1, <1>6, <2>3, <2>6, <3>1, <3>2, <3>3, FirstHandled
      <3> QED  BY <3>4 DEF new
    <2>11. /\ reqbuf'[c] = <<>> /\ handled'[c] = handled[c] + 1
           /\ DOMAIN reqbuf' = Conn /\ DOMAIN handled' = Conn
           /\ \A e \in Conn : e # c => reqbuf'[e] = reqbuf[e] /\ handled'[e] = handled[e]
      BY <1>1, <2>1, <2>6 DEF Domains
    <2>12. Stream(c)' = p
      BY <1>6, <1>8, <1>9, <2>11 DEF Stream
    <2>13. <<>> \in Seq(Unit(c)) /\ Len(<<>>) = 0 /\ 0 < ReqUnits
      BY EmptySeq, ProtoBounds
    <2>14. ConnInv(c)'
      BY <1>3, <1>5, <1>8, <1>9, <2>10, <2>11, <2>12, <2>13 DEF ConnInv
    <2>15. ASSUME NEW e \in Conn, e # c PROVE ConnInv(e)'
      <3>1. Same(e)
        BY <1>2, <1>8, <2>9, <2>11, <2>15 DEF Same, Outcome, OthersKept
      <3> QED  BY <3>1, SameKept DEF ProtoInv
    <2>16. Domains' /\ Personals' /\ Outs' /\ ConfigInv'
      BY <1>1, <1>2, <1>8, <2>9, <2>11 DEF Domains, Outcome
    <2>17. OneByOne
      BY <2>11 DEF OneByOne
    <2>18. Honest
      <3>1. \A e \in Conn : e # c => NoFailure(e)
        BY <1>1, <2>9, OutSame DEF Outcome, OthersKept
      <3> QED  BY <2>9, <3>1 DEF Honest, Outcome
    <2> QED  BY <2>14, <2>15, <2>16, <2>17, <2>18 DEF ProtoInv
  <1> QED  BY <1>10, <1>11

(* Every step preserves the invariant. *)
LEMMA ProtoInitInv == ProtoInit => ProtoInv
  <1> SUFFICES ASSUME ProtoInit PROVE ProtoInv
    OBVIOUS
  <1>1. Domains
    BY DEF ProtoInit, Domains
  <1>2. Personals
    BY DEF ProtoInit, Personals, EventTypes
  <1>3. Outs
    BY EmptySeq, ProtoBounds DEF ProtoInit, Outs
  <1>4. ConfigInv
    BY DefaultIsSound DEF ProtoInit, ConfigInv
  <1>5. ASSUME NEW c \in Conn PROVE ConnInv(c)
    <2>1. /\ reqbuf[c] = <<>> /\ unread[c] = <<>> /\ todo[c] = <<>> /\ sent[c] = 0 /\ handled[c] = 0
          /\ proto[c] = 0 /\ speaks[c] = 0 /\ rest[c] = Nothing
      BY DEF ProtoInit
    <2>2. <<>> \in Seq(Unit(c)) /\ Len(<<>>) = 0 /\ 1..Len(<<>>) = {}
      BY EmptySeq
    <2>3. Stream(c) = <<>>
      BY <2>1 DEF Stream
    <2>4. Framed(<<>>, 0, 0)
      BY <2>2 DEF Framed
    <2>5. Spoken(<<>>, 0, 0)
      BY <2>2 DEF Spoken
    <2>6. Strung(c, <<>>, strbuf[c], Nothing)
      BY <2>2 DEF Strung
    <2> QED  BY <2>1, <2>2, <2>3, <2>4, <2>5, <2>6, ProtoBounds DEF ConnInv
  <1> QED  BY <1>1, <1>2, <1>3, <1>4, <1>5 DEF ProtoInv

LEMMA ProtoNextInv == ProtoInv /\ [ProtoNext]_protovars => ProtoInv' /\ OneByOne /\ Honest
  <1> SUFFICES ASSUME ProtoInv, [ProtoNext]_protovars PROVE ProtoInv' /\ OneByOne /\ Honest
    OBVIOUS
  <1>1. CASE UNCHANGED protovars
    <2>1. UNCHANGED stream /\ UNCHANGED framing /\ UNCHANGED perClient /\ UNCHANGED out /\ UNCHANGED config
      BY <1>1 DEF protovars
    <2>2. ASSUME NEW d \in Conn PROVE ConnInv(d)'
      <3>1. Same(d)
        BY <2>1 DEF Same, stream, framing, perClient
      <3> QED  BY <3>1, SameKept DEF ProtoInv
    <2>3. Domains' /\ Personals' /\ Outs' /\ ConfigInv'
      BY <2>1, PersonalsKept, ConfigKept DEF ProtoInv, Domains, Outs, stream, framing
    <2>4. OneByOne /\ Honest
      BY <2>1 DEF OneByOne, Honest, framing
    <2> QED  BY <2>2, <2>3, <2>4 DEF ProtoInv
  <1>2. CASE ProtoNext
    <2>1. PICK c \in Conn :
            \/ ReadV0(c) \/ ReadV1(c)
            \/ Take(c) \/ send_uevent(c, "DEV")
            \/ SendV0(c) \/ SendRequest(c) \/ Write(c)
            \/ \/ ContinueString(c)
               \/ \E of \in DOMAIN Strings[c] : \E str \in Strings[c][of] : BeginString(c, of, str)
      BY <1>2 DEF ProtoNext, handle_uevents
    <2> QED  BY <2>1, ReadV0Step, ReadV1Step, OutSteps, SendV0Step, SendRequestStep, WriteStep, StringSteps
  <1> QED  BY <1>1, <1>2

LEMMA ProtoInvariance == ProtoSpec => []ProtoInv
  BY ProtoInitInv, ProtoNextInv, PTL DEF ProtoSpec

LEMMA ProtoInvIsEnough == ProtoInv => ConfigIsSound
  <1> SUFFICES ASSUME ProtoInv PROVE ConfigIsSound
    OBVIOUS
  <1>1. ConfigApplied
    BY DEF ProtoInv, ConfigInv, ConfigApplied
  <1>2. WholeStrings
    BY DEF ProtoInv, ConfigInv, Personals, SoundCfg, WholeFor, WholeStrings
  <1>3. DOMAIN cfg = Cells /\ \A cell \in Cells : cfg[cell] \in Allowed(cell)
    BY DEF ProtoInv, ConfigInv, SoundCfg
  <1>4. ASSUME NEW c \in Conn
        PROVE  /\ sent[c] \in 0..MaxSent /\ handled[c] \in -1..MaxSent
               /\ proto[c] \in 0..MAX_PROTO_VER /\ sens[c] \in Int
               /\ Len(reqbuf[c]) < ReqUnits /\ Len(out[c]) <= OutRoom
               /\ evmask[c] \subseteq EventTypes
    BY ProtoBounds DEF ProtoInv, ConnInv, Personals, Outs, MAX_PROTO_VER
  <1> QED  BY <1>1, <1>2, <1>3, <1>4 DEF ConfigIsSound, ProtoTypeOK

(***************************************************************************)
(* Whatever requests arrive, in whatever pieces and whichever strings are  *)
(* given up half-way, the configuration has values the daemon can use,     *)
(* whole strings, and is the one that is in use.                           *)
(***************************************************************************)
THEOREM ConfigStaysSound == ProtoSpec => []ConfigIsSound
  BY ProtoInvariance, ProtoInvIsEnough, PTL

(***************************************************************************)
(* The messages of a client are handled one by one, in their order.        *)
(***************************************************************************)
THEOREM MessagesInOrder == ProtoSpec => HandledInOrder
  <1>1. ProtoInv /\ [ProtoNext]_protovars
        => [\A c \in Conn : handled'[c] \in {handled[c], handled[c] + 1}]_protovars
    BY ProtoNextInv DEF OneByOne
  <1> QED  BY <1>1, ProtoInvariance, PTL DEF ProtoSpec, HandledInOrder

(***************************************************************************)
(* A request that is answered with a failure has changed nothing.          *)
(***************************************************************************)
THEOREM RefusedIsHarmless == ProtoSpec => RefusedChangesNothing
  <1>1. ProtoInv /\ [ProtoNext]_protovars
        => [\A c \in Conn :
               Len(out'[c]) > Len(out[c]) /\ Last(out'[c]) = -1
               => UNCHANGED <<config, perClient>>]_protovars
    BY ProtoNextInv DEF Honest, NoFailure
  <1> QED  BY <1>1, ProtoInvariance, PTL DEF ProtoSpec, RefusedChangesNothing
=============================================================================
