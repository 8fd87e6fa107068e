------------------------------ MODULE UnixServer ------------------------------
(***************************************************************************)
(* The clients of the daemon: the client list with its one shared iterator *)
(* (client.c), the loop of handle_uevents over it (proto_unix.c), the      *)
(* requests that change the configuration under that loop                  *)
(* (handle_request, cfg_changed), the configuration read again after a     *)
(* SIGHUP (spnavd.c) and the LEDs that follow the clients (dev.c,          *)
(* dev_usb_linux.c).                                                       *)
(*                                                                         *)
(* A client is one accepted connection.  The loop is followed client by    *)
(* client, since first_client and next_client move a global iterator that  *)
(* everybody else in the daemon moves too.  One message stands for one     *)
(* read: 4 bytes of protocol 0 or a whole request of protocol 1.           *)
(***************************************************************************)
EXTENDS Integers, Sequences, FiniteSets

CONSTANTS Client, Device,   \* connections; USB devices
          None,             \* a null pointer, or an empty serial_dev
          Serial,           \* paths for the configured serial device
          Requests,         \* requests clients send, a subset of AllRequests
          MaxUnread,        \* bound: unread messages per client
          MaxMessages       \* bound: SIGHUPs and messages, protocol changes not counted

LedModes == {"off", "on", "auto"}
\* A request for a newer protocol than MAX_PROTO_VER, which is 1.
ChangeProto == [type |-> "proto", version |-> 2]
Sens        == [type |-> "sens"]
Plain       == [type |-> "plain"]    \* every request without side effects here
AllRequests == {Plain} \cup [type : {"led"}, led : LedModes]
                       \cup [type : {"serdev"}, path : Serial \cup {None}]
                       \cup [type : {"restore"}, led : LedModes, path : Serial \cup {None}]

ASSUME UnixServerAssumption ==
    /\ None \notin Client /\ None \notin Serial
    /\ Device \cap (Serial \cup {None}) = {}
    /\ Requests \subseteq AllRequests
    /\ MaxUnread \in Nat /\ MaxMessages \in Nat

VARIABLES
    pc,           \* "select", "reload", "uevents", "loop", "devices", or "undefined"
    backlog,      \* connections not yet accepted
    sock, eof,    \* unread messages of a connection; its peer has closed
    client_list,  \* newest first
    client_iter,  \* the global iterator of client.c
    citer,        \* the local of handle_uevents
    rset, lready, \* sockets and listening socket select reported
    stale,        \* rset holds the descriptor of a serial device closed since
    proto,        \* protocol of a client
    led, serial,  \* cfg.led, and the path of cfg.serial_dev
    opened,       \* devices the daemon has open, the serial path among them
    lit,          \* the LED of each device
    served,       \* history: clients read in this pass
    restarted,    \* history: a request moved the iterator in this pass
    lost,         \* history: clients disconnected though their peer is there
    sent          \* bound: messages and SIGHUPs sent so far

env    == <<backlog, sock, eof, sent>>
list   == <<client_list, client_iter, citer>>
ready  == <<rset, lready, stale>>
lights == <<led, serial, opened, lit>>
hist   == <<served, restarted, lost>>
vars == <<pc, env, list, ready, proto, lights, hist>>

Range_(s) == {s[k] : k \in DOMAIN s}
Listed == Range_(client_list)

first_client == IF client_list = <<>> THEN None ELSE Head(client_list)

Place(c) == CHOOSE i \in DOMAIN client_list : client_list[i] = c

(* c->next for a client of the list, and the list without c.               *)
Next_(c) == IF Place(c) = Len(client_list) THEN None ELSE client_list[Place(c) + 1]

Unlinked(c) ==
    SubSeq(client_list, 1, Place(c) - 1) \o SubSeq(client_list, Place(c) + 1, Len(client_list))

(* What the LED of an open device should show (dev_usb_linux.c:224,        *)
(* spnavd.c:497).                                                          *)
Wanted(mode, clients) == mode = "on" \/ (mode = "auto" /\ clients # <<>>)

set_devices_led(state) ==
    lit' = [d \in Device |-> IF d \in opened THEN state ELSE lit[d]]

Init ==
    /\ pc = "select"
    /\ backlog = <<>> /\ sent = 0
    /\ sock = [c \in Client |-> <<>>] /\ eof = [c \in Client |-> FALSE]
    /\ client_list = <<>> /\ client_iter = None /\ citer = None
    /\ rset = {} /\ lready = FALSE /\ stale = FALSE
    /\ proto = [c \in Client |-> 0]
    /\ led \in LedModes /\ serial = None /\ opened = {}
    /\ lit = [d \in Device |-> FALSE]
    /\ served = {} /\ restarted = FALSE /\ lost = {}

Connected(c) == c \in Listed \/ c \in Range_(backlog)
-----------------------------------------------------------------------------
(* Client programs. *)

Connect(c) ==
    /\ ~ Connected(c)
    /\ backlog' = Append(backlog, c)
    /\ UNCHANGED <<pc, sock, eof, sent, list, ready, proto, lights, hist>>

Send(c, m) ==
    /\ Connected(c) /\ ~ eof[c]
    /\ Len(sock[c]) < MaxUnread /\ sent < MaxMessages
    /\ m \in IF proto[c] = 0 THEN {ChangeProto, Sens} ELSE Requests
    /\ m # ChangeProto \/ sock[c] = <<>>
    /\ sock' = [sock EXCEPT ![c] = Append(@, m)]
    /\ sent' = IF m = ChangeProto THEN sent ELSE sent + 1
    /\ UNCHANGED <<pc, backlog, eof, list, ready, proto, lights, hist>>

Close(c) ==
    /\ Connected(c) /\ ~ eof[c]
    /\ eof' = [eof EXCEPT ![c] = TRUE]
    /\ UNCHANGED <<pc, backlog, sock, sent, list, ready, proto, lights, hist>>
-----------------------------------------------------------------------------
(* The main loop around handle_uevents. *)

(***************************************************************************)
(* Select returns for a socket or for the pipe written by the SIGHUP       *)
(* handler.  The serial device may be ready at the same time; what it has  *)
(* to say does not matter here, its descriptor does.                       *)
(***************************************************************************)
Wake ==
    \/ /\ rset' # {} \/ lready'
       /\ pc' = "uevents" /\ stale' = FALSE
       /\ UNCHANGED sent
    \/ /\ sent < MaxMessages /\ sent' = sent + 1
       /\ pc' = "reload"
       /\ stale' \in IF serial \in opened THEN BOOLEAN ELSE {FALSE}

(* Mutant of Select: the sockets of older clients are left out of the set. *)
SelectNewest ==
    /\ pc = "select"
    /\ rset' = {c \in Listed : c = first_client /\ (sock[c] # <<>> \/ eof[c])}
    /\ lready' = (backlog # <<>>)
    /\ Wake
    /\ UNCHANGED <<backlog, sock, eof, list, proto, lights, hist>>

Select ==
    /\ pc = "select"
    /\ rset' = {c \in Listed : sock[c] # <<>> \/ eof[c]}
    /\ lready' = (backlog # <<>>)
    /\ Wake
    /\ UNCHANGED <<backlog, sock, eof, list, proto, lights, hist>>

(* add_client: the LEDs go on for the first client, before it is listed. *)
add_client(c) ==
    /\ client_list' = <<c>> \o client_list
    /\ IF client_list = <<>> /\ led = "auto" THEN set_devices_led(TRUE) ELSE UNCHANGED lit

(***************************************************************************)
(* accept, then the loop starts at the head of the list.  The new socket   *)
(* may get the number of a descriptor closed after select reported it.     *)
(***************************************************************************)
StartPass ==
    /\ pc = "uevents"
    /\ IF lready
       THEN /\ add_client(Head(backlog)) /\ backlog' = Tail(backlog)
            /\ rset' \in IF stale THEN {rset, rset \cup {Head(backlog)}} ELSE {rset}
       ELSE UNCHANGED <<client_list, lit, backlog, rset>>
    /\ client_iter' = IF client_list' = <<>> THEN None ELSE Head(client_list')
    /\ citer' = client_iter'
    /\ served' = {} /\ restarted' = FALSE
    /\ pc' = "loop"
    /\ UNCHANGED <<sock, eof, sent, lready, stale, proto, led, serial, opened, lost>>

(* Mutant of remove_client: looks at the list before the client is off it. *)
RemoveClientLedsFirst(c) ==
    /\ client_list' = Unlinked(c)
    /\ IF client_list = <<>> /\ led = "auto" THEN set_devices_led(FALSE) ELSE UNCHANGED lit

(* remove_client: the LEDs go off after the last one. *)
remove_client(c) ==
    /\ client_list' = Unlinked(c)
    /\ IF client_list' = <<>> /\ led = "auto" THEN set_devices_led(FALSE) ELSE UNCHANGED lit

(***************************************************************************)
(* cfg_changed with new values of cfg.led and cfg.serial_dev.  If cfg.led  *)
(* changed, the LED of every open device is set, the serial one too, and   *)
(* first_client is called for it if the mode is "auto".  If serial_dev     *)
(* changed, the old device is removed; opening the new one fails early (no *)
(* such character device), or late (the device is added, then removed), or *)
(* succeeds.  Every addition and removal is broadcast, and broadcast_event *)
(* calls first_client.                                                     *)
(***************************************************************************)
Outcomes == {"no device", "failed", "opened"}

cfg_changed(mode, path, outcome) ==
    /\ led' = mode /\ serial' = path
    /\ IF mode = led THEN UNCHANGED lit ELSE set_devices_led(Wanted(mode, client_list))
    /\ opened' = IF path = serial THEN opened
                 ELSE (opened \ {serial}) \cup (IF outcome = "opened" THEN {path} ELSE {})
    /\ outcome = "no device" \/ path # None

(* Whether cfg_changed leaves the iterator of client.c at the head. *)
Rewinds(mode, path, outcome) ==
    \/ mode # led /\ mode = "auto" /\ opened # {}
    \/ path # serial /\ (serial \in opened \/ outcome # "no device")

(* REQ_SCFG_LED, REQ_SCFG_SERDEV, REQ_CFG_RESTORE and REQ_CFG_RESET. *)
LedAfter(m)    == IF m.type \in {"led", "restore"} THEN m.led ELSE led
SerialAfter(m) == IF m.type \in {"serdev", "restore"} THEN m.path ELSE serial

handle_request(m, outcome) == cfg_changed(LedAfter(m), SerialAfter(m), outcome)

(***************************************************************************)
(* SIGHUP: the configuration file is read before the sockets are looked    *)
(* at.  A serial device that is closed for good leaves its descriptor in   *)
(* rset.                                                                   *)
(***************************************************************************)
Reload(mode, path, outcome) ==
    /\ pc = "reload" /\ pc' = "uevents"
    /\ cfg_changed(mode, path, outcome)
    /\ stale' = (stale /\ path # serial /\ outcome # "opened")
    /\ UNCHANGED <<env, list, rset, lready, proto, hist>>

(***************************************************************************)
(* One turn of the loop: c is the saved iterator, the next one is asked    *)
(* for before c is served.  client_iter may by now be anywhere.            *)
(***************************************************************************)
next_client == IF client_iter = None THEN None ELSE Next_(client_iter)

Live(p) == p = None \/ p \in Listed

Skip ==
    /\ pc = "loop" /\ citer # None /\ Live(citer) /\ Live(client_iter)
    /\ citer \notin rset
    /\ client_iter' = next_client /\ citer' = client_iter'
    /\ UNCHANGED <<pc, env, client_list, ready, proto, lights, hist>>

(* A version the daemon does not have becomes the newest it has. *)
NewProto(version) == IF version > 1 THEN 1 ELSE version

Serve(outcome) ==
    /\ pc = "loop" /\ citer \in rset /\ Live(citer) /\ Live(client_iter)
    /\ sock[citer] # <<>>
    /\ LET c == citer
           m == Head(sock[c])
           rewinds == proto[c] = 1 /\ Rewinds(LedAfter(m), SerialAfter(m), outcome)
       IN  /\ sock' = [sock EXCEPT ![c] = Tail(@)]
           /\ citer' = next_client
           /\ client_iter' = IF rewinds THEN first_client ELSE next_client
           /\ restarted' = (restarted \/ rewinds)
           /\ served' = served \cup {c}
           /\ proto' = IF m = ChangeProto THEN [proto EXCEPT ![c] = NewProto(m.version)] ELSE proto
           /\ IF proto[c] = 1 THEN handle_request(m, outcome) ELSE UNCHANGED lights
    /\ UNCHANGED <<pc, backlog, eof, sent, client_list, ready, lost>>

(* Mutants of Disconnect: the pass ends with the first connection that is  *)
(* gone; the next client is asked for after this one has been freed.       *)
DisconnectReturns ==
    /\ pc = "loop" /\ citer \in rset /\ Live(citer) /\ Live(client_iter)
    /\ sock[citer] = <<>>
    /\ citer' = None /\ client_iter' = None
    /\ remove_client(citer)
    /\ lost' = IF eof[citer] THEN lost ELSE lost \cup {citer}
    /\ served' = served \cup {citer}
    /\ eof' = [eof EXCEPT ![citer] = FALSE]
    /\ proto' = [proto EXCEPT ![citer] = 0]
    /\ UNCHANGED <<pc, backlog, sock, sent, ready, led, serial, opened, restarted>>

DisconnectThenNext ==
    /\ pc = "loop" /\ citer \in rset /\ Live(citer) /\ Live(client_iter)
    /\ sock[citer] = <<>>
    /\ remove_client(citer)
    /\ lost' = IF eof[citer] THEN lost ELSE lost \cup {citer}
    /\ served' = served \cup {citer}
    /\ eof' = [eof EXCEPT ![citer] = FALSE]
    /\ proto' = [proto EXCEPT ![citer] = 0]
    /\ UNCHANGED <<pc, backlog, sock, sent, client_iter, citer, ready, led, serial, opened,
                   restarted>>

(* read returned 0, or -1 because there was nothing to read.  The name of   *)
(* the connection is free for a new one.                                   *)
Disconnect ==
    /\ pc = "loop" /\ citer \in rset /\ Live(citer) /\ Live(client_iter)
    /\ sock[citer] = <<>>
    /\ citer' = next_client /\ client_iter' = citer'
    /\ remove_client(citer)
    /\ lost' = IF eof[citer] THEN lost ELSE lost \cup {citer}
    /\ served' = served \cup {citer}
    /\ eof' = [eof EXCEPT ![citer] = FALSE]
    /\ proto' = [proto EXCEPT ![citer] = 0]
    /\ UNCHANGED <<pc, backlog, sock, sent, ready, led, serial, opened, restarted>>

(* The loop goes on with a client that has been freed. *)
UseFreed ==
    /\ pc = "loop" /\ ~ (Live(citer) /\ Live(client_iter))
    /\ pc' = "undefined"
    /\ UNCHANGED <<env, list, ready, proto, lights, hist>>

EndPass ==
    /\ pc = "loop" /\ citer = None
    /\ pc' = "devices"
    /\ UNCHANGED <<env, list, ready, proto, lights, hist>>

(* A hotplugged device is opened, or a read error removes one; both are    *)
(* broadcast, so the iterator is left at the head.                         *)
OpenDevice(d) ==
    /\ pc = "devices" /\ d \notin opened
    /\ opened' = opened \cup {d}
    /\ lit' = [lit EXCEPT ![d] = Wanted(led, client_list)]
    /\ client_iter' = first_client
    /\ UNCHANGED <<pc, env, client_list, citer, ready, proto, led, serial, hist>>

LoseDevice(d) ==
    /\ pc = "devices" /\ d \in opened
    /\ opened' = opened \ {d}
    /\ lit' = [lit EXCEPT ![d] = FALSE]
    /\ client_iter' = first_client
    /\ UNCHANGED <<pc, env, client_list, citer, ready, proto, led, serial, hist>>

EndDevices ==
    /\ pc = "devices" /\ pc' = "select"
    /\ UNCHANGED <<env, list, ready, proto, lights, hist>>

(* After undefined behaviour nothing more is said. *)
Undefined == pc = "undefined" /\ UNCHANGED vars

Daemon == \/ Select \/ StartPass \/ Skip \/ \E o \in Outcomes : Serve(o)
          \/ \E mode \in LedModes, path \in Serial \cup {None}, o \in Outcomes :
                 Reload(mode, path, o)
          \/ Disconnect \/ UseFreed \/ EndPass \/ EndDevices

Others == \/ \E c \in Client : Connect(c) \/ Close(c)
          \/ \E c \in Client, m \in {ChangeProto, Sens} \cup Requests : Send(c, m)
          \/ \E d \in Device : OpenDevice(d) \/ LoseDevice(d)

Next == Daemon \/ Others \/ Undefined

Spec == Init /\ [][Next]_vars

(* The daemon is one thread that never sleeps with a socket ready. *)
FairSpec == Spec /\ WF_vars(Daemon)
-----------------------------------------------------------------------------
Messages == {ChangeProto, Sens} \cup AllRequests

TypeOK ==
    /\ pc \in {"select", "reload", "uevents", "loop", "devices", "undefined"}
    /\ backlog \in Seq(Client) /\ client_list \in Seq(Client)
    /\ sock \in [Client -> Seq(Messages)] /\ eof \in [Client -> BOOLEAN]
    /\ client_iter \in Client \cup {None} /\ citer \in Client \cup {None}
    /\ rset \subseteq Client /\ lready \in BOOLEAN /\ stale \in BOOLEAN
    /\ proto \in [Client -> {0, 1}]
    /\ led \in LedModes /\ serial \in Serial \cup {None}
    /\ opened \subseteq Device \cup Serial
    /\ lit \in [Device -> BOOLEAN]
    /\ served \subseteq Client /\ lost \subseteq Client
    /\ restarted \in BOOLEAN
    /\ sent \in 0..MaxMessages

(***************************************************************************)
(* The LED of every open device is on exactly if cfg.led says so for the   *)
(* clients there are, however connecting, disconnecting, changing cfg.led  *)
(* and plugging devices interleave.                                        *)
(***************************************************************************)
LedsFollowClients ==
    pc # "undefined" =>
        \A d \in Device : lit[d] = (d \in opened /\ Wanted(led, client_list))

(***************************************************************************)
(* A pass over the clients serves every client select reported, and serves *)
(* none twice unless a request moved the shared iterator.                  *)
(***************************************************************************)
EveryReadyClientServed ==
    [][pc = "loop" /\ pc' = "devices" => rset \subseteq served]_vars

ServedOncePerPass ==
    [][\A c \in Client : sock'[c] # sock[c] /\ Len(sock'[c]) < Len(sock[c])
           => c \notin served \/ restarted]_vars

(***************************************************************************)
(* A client whose peer is still there is disconnected, or a freed client   *)
(* is used, only in a pass in which a request moved the shared iterator,   *)
(* or in which the new client has the descriptor of a device just closed.  *)
(***************************************************************************)
HarmHasCause ==
    [][lost' # lost \/ (pc # "undefined" /\ pc' = "undefined")
           => restarted \/ (stale /\ lready)]_vars

(***************************************************************************)
(* "something went wrong... disconnect client" (proto_unix.c:222): only a  *)
(* client whose connection has ended is disconnected.                      *)
(***************************************************************************)
OnlyEndedDisconnected == lost = {}

(***************************************************************************)
(* What a client sends is read, unless it is disconnected, and a client    *)
(* that is gone is taken off the list, whatever the others do.             *)
(***************************************************************************)
ClientsAreServed ==
    \A c \in Client :
        /\ sock[c] # <<>> ~> (sock[c] = <<>> \/ ~ Connected(c) \/ pc = "undefined")
        /\ eof[c] ~> (~ Connected(c) \/ pc = "undefined")

(* The LEDs are right in every state, and proto is a version there is.     *)
LedsAreRight == TypeOK /\ LedsFollowClients

(* A pass over the clients serves who is ready, and serves none twice.     *)
PassIsFair == EveryReadyClientServed /\ ServedOncePerPass
=============================================================================
