------------------------------ MODULE UnixProto ------------------------------
(***************************************************************************)
(* What one connection of the UNIX socket says to the daemon: framing in   *)
(* both protocols (handle_uevents), the requests (handle_request) and what *)
(* they change, strings that come in chunks (proto.c), and the answers and *)
(* events written back, which are lost when the socket is full.            *)
(*                                                                         *)
(* The stream is counted in units of four bytes: a message of protocol 0   *)
(* is one unit, which is assumed to be written at once; a request of       *)
(* protocol 1 is ReqUnits of them, and comes in any pieces.  Which clients *)
(* there are, and how they leave, is UnixServer's.                         *)
(***************************************************************************)
EXTENDS Integers, SequencesExt

CONSTANTS Conn,             \* connections, of a client each
          NaN,              \* a float that is not finite
          Nothing,          \* a null pointer
          Requests,         \* client -> requests it sends, strings not counted
          Token,            \* pieces of strings
          Strings,          \* client -> "NAME", "SERDEV" or "SOCKET" -> strings it sends
          ReqUnits,         \* sizeof(struct reqresp) / 4
          ChunkSize,        \* REQSTR_CHUNK_SIZE, in tokens of a string
          PathMax,          \* PATH_MAX - 1, in tokens of a string
          Axes, Buttons,    \* MAX_AXES, MAX_BUTTONS
          Keys,             \* keysyms that have a name
          OutRoom,          \* packets the socket holds for a client
          MaxSent           \* bound: messages of each client

MAX_PROTO_VER == 1
Axis == 0..(Axes - 1)
Button == 0..(Buttons - 1)
Action == 0..6              \* BNACT_*

Settings == {"SENS", "SENS_AXIS", "INVERT", "SWAPYZ", "LED", "GRAB", "REPEAT",
             "DEADZONE", "AXISMAP", "BNMAP", "BNACTION", "KBMAP"}
EventTypes == {"MOTION", "BUTTON", "DEV", "CFG", "RAWAXIS", "RAWBUTTON"}

(* Whatever is sent has the types of proto.h. *)
Sendable(r) ==
    /\ r.op \in {"SCFG", "GCFG", "SET_SENS", "SET_EVMASK", "GET", "DEV", "SAVE",
                 "RESTORE", "RESET", "INVALID"}
    /\ r.op = "SCFG" =>
        /\ r.of \in Settings
        /\ r.v \in CASE r.of = "SENS" -> Int \cup {NaN}
                     [] r.of = "SENS_AXIS" -> [1..2 -> Int \cup {NaN}]
                     [] r.of = "INVERT" -> [1..2 -> Int]
                     [] OTHER -> Int
    /\ r.op = "SET_SENS" => r.v \in Int \cup {NaN}
    /\ r.op = "SET_EVMASK" => r.v \subseteq EventTypes

ASSUME UnixProtoAssumption ==
    /\ ReqUnits \in Nat \ {0} /\ ChunkSize \in Nat \ {0} /\ OutRoom \in Nat
    /\ PathMax \in Nat
    /\ Axes \in Nat \ {0} /\ Buttons \in Nat \ {0} /\ Keys \subseteq Nat \ {0}
    /\ MaxSent \in Nat /\ NaN \notin Int
    /\ \A c \in Conn :
        /\ \A r \in Requests[c] : Sendable(r)
        /\ Strings[c] \in [{"NAME", "SERDEV", "SOCKET"} -> SUBSET Seq(Token)]
        /\ \A of \in DOMAIN Strings[c] : \A str \in Strings[c][of] :
               \A n \in 0..Len(str) : SubSeq(str, 1, n) # Nothing

(* The cells of struct cfg that requests change. *)
Cells == ({"SENS", "SENS_AXIS", "INVERT", "SWAPYZ", "LED", "GRAB", "REPEAT",
           "SERDEV", "SOCKET"} \X {0})
         \cup ({"DEADZONE", "AXISMAP"} \X Axis)
         \cup ({"BNMAP", "BNACTION", "KBMAP"} \X Button)

Default == [cell \in Cells |->
    CASE cell[1] \in {"AXISMAP", "BNMAP"} -> cell[2]
      [] cell[1] \in {"SERDEV", "SOCKET"} -> <<>>
      [] cell[1] = "SENS_AXIS" -> <<1, 1>>
      [] cell[1] = "INVERT" -> <<0, 0>>
      [] cell[1] = "DEADZONE" -> IF cell[2] < 6 THEN 2 ELSE 0
      [] cell[1] = "REPEAT" -> -1
      [] cell[1] \in {"SENS", "LED", "GRAB"} -> 1
      [] OTHER -> 0]

VARIABLES
    sent,     \* client -> messages it began to write
    speaks,   \* client -> the protocol it has asked for
    rest,     \* client -> the chunk that is next of a string it is sending
    todo,     \* client -> units it still has to write
    unread,     \* client -> units written and not read
    proto, reqbuf, sens, evmask, name, strbuf,   \* struct client
    handled,  \* history: client -> the last message handled, or -1
    out,      \* client -> packets written and not read
    cfg,      \* cell -> value
    used,     \* the LED mode and the serial path the daemon works with
    disk      \* what the configuration file holds

stream  == <<sent, speaks, rest, todo>>
framing == <<unread, proto, reqbuf, handled>>
perClient == <<sens, evmask, name, strbuf>>
config  == <<cfg, used, disk>>
protovars == <<stream, framing, perClient, out, config>>
-----------------------------------------------------------------------------
(* The first n elements of a sequence, or all if there are fewer. *)
Start(q, n) == SubSeq(q, 1, IF n < Len(q) THEN n ELSE Len(q))

(* Packets: what does not fit is lost; no result of a write is looked at. *)
Written(q, packets) == Start(q \o packets, OutRoom)

Put(c, packets) == out' = [out EXCEPT ![c] = Written(@, packets)]

(* Of a packet its status matters, 0 or -1.  Events are no failures. *)
sendresp(c, status) == Put(c, <<status>>)

(* As many packets as the string has chunks, but at least one. *)
Packets(str) == IF str = <<>> THEN 1 ELSE (Len(str) + ChunkSize - 1) \div ChunkSize
spnav_send_str(c, str) == Put(c, [k \in 1..Packets(str) |-> 0])

send_uevent(c, type) ==
    /\ type \in evmask[c]
    /\ Put(c, <<0>>)
    /\ UNCHANGED <<stream, framing, perClient, config>>
-----------------------------------------------------------------------------
(***************************************************************************)
(* Strings: a chunk is cut from the string str behind its first `at'       *)
(* tokens.  What the daemon sees of it is the data, how much of the string *)
(* is left, itself included, and whether it is the first.  (The length has *)
(* 16 bits: the strings are taken to be shorter than that.)                *)
(***************************************************************************)
First(r)  == r.at = 0
Left(r)   == Len(r.str) - r.at
Data(r)   == Start(SubSeq(r.str, r.at + 1, Len(r.str)), ChunkSize)

NoBuffer == [buf |-> Nothing, size |-> 0, expect |-> 0]

(* Mutant of Opened: what an unfinished string left is kept.               *)
OpenedDirty(b, r) ==
    IF First(r) THEN [buf |-> IF b.buf = Nothing \/ b.expect = 0 THEN <<>> ELSE b.buf,
                      size |-> Left(r) + 1, expect |-> Left(r)]
    ELSE b

(* The buffer when a chunk comes: the first one starts a new string. *)
Opened(b, r) ==
    IF First(r) THEN [buf |-> <<>>, size |-> Left(r) + 1, expect |-> Left(r)] ELSE b

Fits(b, r) == /\ b.buf # Nothing /\ b.size # 0
              /\ Len(b.buf) < b.size /\ b.expect <= b.size
              /\ Left(r) = b.expect

spnav_recv_str(b, r) ==
    LET o == Opened(b, r)
    IN  IF Fits(o, r)
        THEN [buf |-> o.buf \o Data(r), size |-> o.size, expect |-> o.expect - Len(Data(r))]
        ELSE o

Complete(b, r) == Fits(Opened(b, r), r) /\ spnav_recv_str(b, r).expect = 0
-----------------------------------------------------------------------------
(* What of the configuration the rest of the daemon works with. *)
InUse(c) == [led |-> c[<<"LED", 0>>], serial |-> c[<<"SERDEV", 0>>]]
cfg_changed == used' = InUse(cfg')

Indexed(of) == of \in {"DEADZONE", "AXISMAP", "BNMAP", "BNACTION", "KBMAP"}
Cell(r) == <<r.of, IF Indexed(r.of) THEN r.i ELSE 0>>

AxisValid(x) == x \in Axis

ButtonValid(x) == x \in Button

IndexValid(r) ==
    /\ r.of \in {"DEADZONE", "AXISMAP"} => AxisValid(r.i)
    /\ r.of \in {"BNMAP", "BNACTION", "KBMAP"} => ButtonValid(r.i)

Valid(r) ==
    /\ IndexValid(r)
    /\ r.of = "SENS" => r.v # NaN
    /\ r.of = "SENS_AXIS" => NaN \notin Range(r.v)
    /\ r.of = "AXISMAP" => r.v \in -1..5
    /\ r.of = "BNMAP" => ButtonValid(r.v)
    /\ r.of = "BNACTION" => r.v \in Action
    /\ r.of = "KBMAP" /\ r.v > 0 => r.v \in Keys
    /\ r.of = "LED" => r.v \in 0..2

Flag(x) == IF x = 0 THEN 0 ELSE 1
Stored(r) == CASE r.of \in {"SWAPYZ", "GRAB"} -> Flag(r.v)
               [] r.of = "INVERT" -> [k \in DOMAIN r.v |-> Flag(r.v[k])]
               [] r.of = "KBMAP" /\ r.v < 0 -> 0
               [] OTHER -> r.v

(* Mutant of ScfgRefused: it is stored before it is looked at.             *)
StoredAndRefused(c, r) ==
    /\ ~ Valid(r)
    /\ cfg' = [cfg EXCEPT ![Cell(r)] = Stored(r)]
    /\ sendresp(c, -1)
    /\ UNCHANGED <<perClient, used, disk>>

ScfgRefused(c, r) ==
    /\ ~ Valid(r)
    /\ sendresp(c, -1)
    /\ UNCHANGED <<perClient, config>>

ScfgDone(c, r) ==
    /\ Valid(r)
    /\ cfg' = [cfg EXCEPT ![Cell(r)] = Stored(r)]
    /\ IF r.of = "LED" THEN cfg_changed ELSE UNCHANGED used
    /\ sendresp(c, 0)
    /\ UNCHANGED <<perClient, disk>>

Scfg(c, r) == r.op = "SCFG" /\ (ScfgRefused(c, r) \/ ScfgDone(c, r))

Gcfg(c, r) ==
    /\ r.op = "GCFG"
    /\ IF r.of \in {"SERDEV", "SOCKET"} THEN spnav_send_str(c, cfg[Cell(r)])
       ELSE sendresp(c, IF IndexValid(r) THEN 0 ELSE -1)
    /\ UNCHANGED <<perClient, config>>

(* REQ_SET_SENS, REQ_SET_EVMASK and the requests that read them. *)
ClientSetting(c, r) ==
    /\ r.op \in {"SET_SENS", "SET_EVMASK", "GET"}
    /\ sens' = IF r.op = "SET_SENS" /\ r.v # NaN THEN [sens EXCEPT ![c] = r.v] ELSE sens
    /\ evmask' = IF r.op = "SET_EVMASK" THEN [evmask EXCEPT ![c] = r.v] ELSE evmask
    /\ sendresp(c, IF r.op = "SET_SENS" /\ r.v = NaN THEN -1 ELSE 0)
    /\ UNCHANGED <<name, strbuf, config>>

(* Name and path are strings; there may be no device to ask. *)
DeviceQuery(c, r) ==
    /\ r.op = "DEV"
    /\ \/ \E str \in {<<>>, <<"dev">>} : r.of \in {"NAME", "PATH"} /\ spnav_send_str(c, str)
       \/ r.of \notin {"NAME", "PATH"} /\ sendresp(c, 0)
       \/ sendresp(c, -1)
    /\ UNCHANGED <<perClient, config>>

(* A path of the configuration is as much of a string as its array holds. *)
PathOf(str) == Start(str, PathMax)

(***************************************************************************)
(* REQ_SET_NAME, REQ_SCFG_SERDEV and REQ_SCFG_SOCKET are never answered.   *)
(* The name takes the buffer over; a path is copied out of it.             *)
(***************************************************************************)
StringChunk(c, r) ==
    /\ r.op = "STR"
    /\ LET b == spnav_recv_str(strbuf[c], r)
           done == Complete(strbuf[c], r)
       IN  IF done /\ r.of = "NAME"
           THEN /\ name' = [name EXCEPT ![c] = b.buf]
                /\ strbuf' = [strbuf EXCEPT ![c] = [b EXCEPT !.buf = Nothing]]
                /\ UNCHANGED <<cfg, used>>
           ELSE /\ strbuf' = [strbuf EXCEPT ![c] = b]
                /\ IF done THEN cfg' = [cfg EXCEPT ![Cell(r)] = PathOf(b.buf)] /\ cfg_changed
                   ELSE UNCHANGED <<cfg, used>>
                /\ UNCHANGED name
    /\ UNCHANGED <<sens, evmask, disk, out>>

(* The file may not be writable, or not readable. *)
CfgSave(c, r) ==
    /\ r.op = "SAVE"
    /\ \/ disk' = cfg /\ sendresp(c, 0)
       \/ UNCHANGED disk /\ sendresp(c, -1)
    /\ UNCHANGED <<perClient, cfg, used>>

CfgRestore(c, r) ==
    /\ r.op = "RESTORE"
    /\ cfg' \in {disk, Default}
    /\ cfg_changed
    /\ sendresp(c, 0)
    /\ UNCHANGED <<perClient, disk>>

CfgReset(c, r) ==
    /\ r.op = "RESET"
    /\ cfg' = Default
    /\ cfg_changed
    /\ sendresp(c, 0)
    /\ UNCHANGED <<perClient, disk>>

InvalidRequest(c, r) ==
    /\ r.op = "INVALID"
    /\ sendresp(c, -1)
    /\ UNCHANGED <<perClient, config>>

handle_request(c, r) ==
    \/ Scfg(c, r) \/ Gcfg(c, r) \/ ClientSetting(c, r) \/ DeviceQuery(c, r)
    \/ StringChunk(c, r) \/ CfgSave(c, r) \/ CfgRestore(c, r) \/ CfgReset(c, r)
    \/ InvalidRequest(c, r)
-----------------------------------------------------------------------------
(* Units: unit k of message n, which is msg. *)
Units(n, msg, size) == [k \in 1..size |-> [n |-> n, k |-> k, msg |-> msg]]

(* handle_uevents, protocol 0: one message is read. *)
ReadV0(c) ==
    /\ proto[c] = 0 /\ unread[c] # <<>>
    /\ unread' = [unread EXCEPT ![c] = Tail(@)]
    /\ LET u == Head(unread[c])
           new == IF u.msg.v > MAX_PROTO_VER THEN MAX_PROTO_VER ELSE u.msg.v
       IN  /\ handled' = [handled EXCEPT ![c] = u.n]
           /\ IF u.msg.op = "CHANGE_PROTO"
              THEN /\ proto' = [proto EXCEPT ![c] = new]
                   /\ Put(c, <<0>>)
                   /\ evmask' = IF new = 0 THEN evmask
                                ELSE [evmask EXCEPT ![c] = {"MOTION", "BUTTON", "DEV"}]
                   /\ UNCHANGED sens
              ELSE /\ sens' = IF u.msg.v = NaN THEN sens ELSE [sens EXCEPT ![c] = u.msg.v]
                   /\ UNCHANGED <<proto, out, evmask>>
    /\ UNCHANGED <<stream, reqbuf, name, strbuf, config>>

(* Mutants of Lacking: a whole request is read each time; one byte less.   *)
LackingAll(c) == ReqUnits
LackingLess(c) == ReqUnits - 1 - Len(reqbuf[c])

(* Protocol 1: as much is read as the request in reqbuf still lacks.       *)
Lacking(c) == ReqUnits - Len(reqbuf[c])

(* What the bytes in reqbuf mean: the request they are, if it is one. *)
IsMessage(buf) == \E n \in {buf[k].n : k \in DOMAIN buf} : buf = Units(n, buf[1].msg, ReqUnits)
Number(buf) == IF IsMessage(buf) THEN buf[1].n ELSE -1
Meaning(buf) == IF IsMessage(buf) THEN buf[1].msg ELSE [op |-> "INVALID"]

ReadV1(c) ==
    /\ proto[c] = 1 /\ unread[c] # <<>>
    /\ LET read == Start(unread[c], Lacking(c))
           buf == reqbuf[c] \o read
       IN  /\ unread' = [unread EXCEPT ![c] = SubSeq(@, Len(read) + 1, Len(@))]
           /\ IF Len(buf) >= ReqUnits
              THEN /\ reqbuf' = [reqbuf EXCEPT ![c] = <<>>]
                   /\ handled' = [handled EXCEPT ![c] = Number(buf)]
                   /\ handle_request(c, Meaning(buf))
              ELSE /\ reqbuf' = [reqbuf EXCEPT ![c] = buf]
                   /\ UNCHANGED <<handled, perClient, out, config>>
    /\ UNCHANGED <<stream, proto>>
-----------------------------------------------------------------------------
(* The clients. *)

Begin(c, msg, size) ==
    /\ todo[c] = <<>> /\ sent[c] < MaxSent
    /\ sent' = [sent EXCEPT ![c] = @ + 1]
    /\ todo' = [todo EXCEPT ![c] = Units(sent[c] + 1, msg, size)]
    /\ UNCHANGED <<framing, perClient, out, config>>

(* A sensitivity, or a protocol: this one or a later version. *)
SendV0(c) ==
    /\ speaks[c] = 0
    /\ \/ \E v \in {2, NaN} : Begin(c, [op |-> "SENS", v |-> v], 1) /\ UNCHANGED speaks
       \/ \E v \in {0, MAX_PROTO_VER + 1} :
              /\ Begin(c, [op |-> "CHANGE_PROTO", v |-> v], 1)
              /\ speaks' = [speaks EXCEPT ![c] = v]
    /\ UNCHANGED rest

(* Any other request.  It gives up the string it is in the middle of. *)
SendRequest(c) ==
    /\ speaks[c] > 0
    /\ \E r \in Requests[c] : Begin(c, r, ReqUnits)
    /\ rest' = [rest EXCEPT ![c] = Nothing]
    /\ UNCHANGED speaks

Chunk(of, str, at) == [op |-> "STR", of |-> of, str |-> str, at |-> at]

RestOf(r) == IF Left(r) <= ChunkSize THEN Nothing ELSE [r EXCEPT !.at = @ + ChunkSize]

SendChunk(c, r) ==
    /\ Begin(c, r, ReqUnits)
    /\ rest' = [rest EXCEPT ![c] = RestOf(r)]
    /\ UNCHANGED speaks

BeginString(c, of, str) == speaks[c] > 0 /\ SendChunk(c, Chunk(of, str, 0))

ContinueString(c) == rest[c] # Nothing /\ SendChunk(c, rest[c])

Write(c) ==
    /\ todo[c] # <<>>
    /\ unread' = [unread EXCEPT ![c] = Append(@, Head(todo[c]))]
    /\ todo' = [todo EXCEPT ![c] = Tail(@)]
    /\ UNCHANGED <<sent, speaks, rest, proto, reqbuf, handled, perClient, out, config>>

Take(c) ==
    /\ out[c] # <<>>
    /\ out' = [out EXCEPT ![c] = Tail(@)]
    /\ UNCHANGED <<stream, framing, perClient, config>>
-----------------------------------------------------------------------------
ProtoInit ==
    /\ sent = [c \in Conn |-> 0] /\ speaks = [c \in Conn |-> 0]
    /\ rest = [c \in Conn |-> Nothing] /\ todo = [c \in Conn |-> <<>>]
    /\ unread = [c \in Conn |-> <<>>] /\ proto = [c \in Conn |-> 0]
    /\ reqbuf = [c \in Conn |-> <<>>] /\ handled = [c \in Conn |-> 0]
    /\ sens = [c \in Conn |-> 1] /\ evmask = [c \in Conn |-> {"MOTION", "BUTTON"}]
    /\ name = [c \in Conn |-> Nothing] /\ strbuf = [c \in Conn |-> NoBuffer]
    /\ out = [c \in Conn |-> <<>>]
    /\ cfg = Default /\ used = InUse(Default) /\ disk = Default

handle_uevents(c) == ReadV0(c) \/ ReadV1(c)

ProtoNext ==
    \E c \in Conn :
        \/ handle_uevents(c)
        \/ \E type \in {"DEV"} : send_uevent(c, type)
        \/ SendV0(c) \/ SendRequest(c) \/ ContinueString(c) \/ Write(c) \/ Take(c)
        \/ \E of \in DOMAIN Strings[c] : \E str \in Strings[c][of] : BeginString(c, of, str)

ProtoSpec == ProtoInit /\ [][ProtoNext]_protovars

(* select tells of every socket with something to read, and all are read. *)
ProtoFairSpec == ProtoSpec /\ \A c \in Conn : WF_protovars(handle_uevents(c))
-----------------------------------------------------------------------------
Int2 == [1..2 -> Int]
Paths == {str \in Seq(Token) : Len(str) <= PathMax}

(* The values a cell may have, whatever clients ask for. *)
Allowed(cell) == CASE cell[1] = "AXISMAP" -> -1..5 \cup {cell[2]}
                   [] cell[1] = "BNMAP" -> Button
                   [] cell[1] = "BNACTION" -> Action
                   [] cell[1] = "KBMAP" -> Keys \cup {0}
                   [] cell[1] = "INVERT" -> [1..2 -> {0, 1}]
                   [] cell[1] \in {"SWAPYZ", "GRAB"} -> {0, 1}
                   [] cell[1] = "LED" -> 0..2
                   [] cell[1] = "SENS_AXIS" -> Int2
                   [] cell[1] \in {"SERDEV", "SOCKET"} -> Paths
                   [] OTHER -> Int

(***************************************************************************)
(* Types.  The configuration is one the rest of the daemon can use: it     *)
(* takes button numbers from it and indexes its arrays with them, and axis *)
(* numbers, of which it passes over what the event has no place for.       *)
(***************************************************************************)
ProtoTypeOK ==
    /\ DOMAIN cfg = Cells /\ \A cell \in Cells : cfg[cell] \in Allowed(cell)
    /\ \A c \in Conn :
        /\ sent[c] \in 0..MaxSent /\ handled[c] \in -1..MaxSent
        /\ proto[c] \in 0..MAX_PROTO_VER /\ sens[c] \in Int
        /\ Len(reqbuf[c]) < ReqUnits /\ Len(out[c]) <= OutRoom
        /\ evmask[c] \subseteq EventTypes

(***************************************************************************)
(* However requests are cut into pieces and wherever the protocol changes, *)
(* the daemon handles the messages of a client one by one, in the order    *)
(* they were sent, and nothing else.                                       *)
(***************************************************************************)
HandledInOrder ==
    [][\A c \in Conn : handled'[c] \in {handled[c], handled[c] + 1}]_protovars

(***************************************************************************)
(* A client's name is a string sent for it, whole, and a path in the       *)
(* configuration as much of one as a path can hold: no chunks of two       *)
(* strings are put together, though clients give up strings half-way and   *)
(* other strings share the buffer.                                         *)
(***************************************************************************)
WholeStrings ==
    /\ \A of \in {"SERDEV", "SOCKET"} :
        cfg[<<of, 0>>] \in {<<>>} \cup {PathOf(str) : str \in UNION {Strings[c][of] : c \in Conn}}
    /\ \A c \in Conn : name[c] \in {Nothing} \cup Strings[c]["NAME"]

(***************************************************************************)
(* A request that is answered with a failure has changed nothing.          *)
(***************************************************************************)
RefusedChangesNothing ==
    [][\A c \in Conn :
        Len(out'[c]) > Len(out[c]) /\ Last(out'[c]) = -1
        => UNCHANGED <<config, perClient>>]_protovars

(***************************************************************************)
(* LED mode and serial path are applied as soon as they change, by any     *)
(* request: cfg_changed is called wherever it must be.                     *)
(***************************************************************************)
ConfigApplied == used = InUse(cfg)

(***************************************************************************)
(* The daemon always catches up: whatever was written to the end is        *)
(* handled.                                                                *)
(***************************************************************************)
EveryMessageHandled ==
    \A c \in Conn : []<>(todo[c] # <<>> \/ handled[c] = sent[c])

(***************************************************************************)
(* Whatever requests arrive, the configuration has values it may have,     *)
(* whole strings, and is the one that is in use.                           *)
(***************************************************************************)
ConfigIsSound == ProtoTypeOK /\ WholeStrings /\ ConfigApplied
=============================================================================
