----------------------------- MODULE SerialInput -----------------------------
(***************************************************************************)
(* A serial device from its line to its event queue (dev_serial.c): the    *)
(* handshake of open_dev_serial with its time-outs, read_dev_serial and    *)
(* proc_input over packets that arrive in pieces, and the two parsers,     *)
(* which fill the ring of EvQueue.                                         *)
(*                                                                         *)
(* A byte of the line knows which packet it is of and its place there; a   *)
(* byte of payload stands for one 16-bit word, for one set of button bits  *)
(* of a Spaceball, or for one nibble of a Magellan's.  The Spaceball's     *)
(* escapes are left out: they keep CR out of the payload.                  *)
(***************************************************************************)
EXTENDS EvQueue, SequencesExt

CONSTANTS BufSz,        \* INP_BUF_SZ
          ProbeSz,      \* bound: pieces of an answer that fit open_dev_serial's buf
          Readings,     \* payloads of motion packets
          KeyBytes,     \* payloads of a Spaceball's key packets, a byte each
          KeyNibbles,   \* payloads of a Magellan's: three nibbles, or four
          Bursts,       \* lengths of line noise
          MaxWire,      \* bound: bytes sent and not read yet
          MaxPackets    \* bound: packets sent

\* The characters the parsers know, and one they do not.
CR   == 13
Dot  == 46
Junk == 63
D    == 68
K    == 75

(* Two axes stand for the six.  The payload is free of CR; a packet that   *)
(* was moved wrongly is read all the same, so any character may be a value. *)
(* A Magellan's nibbles are no D: its key packets are far shorter than its *)
(* motion packets, whose 24 nibbles are three bytes here.                  *)
ASSUME SerialInputAssumption ==
    /\ BufSz \in Nat /\ BufSz > 6      \* the longest packet here has 6 bytes
    /\ ProbeSz \in Nat
    /\ Axes = {0, 1}
    /\ Readings \subseteq [1..3 -> Values \ {CR}]
    /\ KeyBytes \subseteq (Nat \cap Values) \ {CR}
    /\ KeyNibbles \subseteq [1..3 -> (Nat \cap Values) \ {CR, D}]
                                \cup [1..4 -> (Nat \cap Values) \ {CR, D}]
    /\ {Dot, Junk, D, K} \subseteq Values
    /\ Bursts \subseteq Nat
    /\ MaxWire \in Nat /\ MaxPackets \in Nat

Hardware == {"sball", "sball4000", "magellan", "other"}

Byte(n, k, c) == [n |-> n, k |-> k, c |-> c]

VARIABLES
    state,      \* "closed"; "reset" and "vQ" while an answer is awaited; "select",
                \* "read" and "parse" when open; "failed" once the probe has failed,
                \* "gone" once removed, "undefined"
    hw,         \* what is connected to the line
    answer,     \* what read_timeout has collected
    parse,      \* the parser chosen: "sball", "mag" or "none"
    wire,       \* bytes sent and not read yet
    buf,        \* sb->buf up to sb->len
    start,      \* bytes of buf that proc_input has parsed
    mot,        \* sb->mot
    keymask, sb4000,
    motion_events,  \* events of a motion packet still to be queued
    sent,       \* bound: packets sent so far
    noisy,      \* bound and history: the line was disturbed
    mangled     \* history: the unfinished packet in buf was moved wrongly

line  == <<hw, wire, sent, noisy>>
probe == <<answer, parse>>
input == <<buf, start, mangled>>
pkt   == <<mot, keymask, sb4000, motion_events>>
svars == <<vars, state, line, probe, input, pkt>>

SerialInit ==
    /\ Init
    /\ state = "closed" /\ hw \in Hardware
    /\ answer = <<>> /\ parse = "none"
    /\ wire = <<>> /\ sent = 0 /\ noisy = FALSE
    /\ buf = <<>> /\ start = 0 /\ mangled = FALSE
    /\ mot = [a \in Axes |-> 0] /\ keymask = {} /\ sb4000 = FALSE
    /\ motion_events = <<>>

Open == state \in {"select", "read", "parse"}
-----------------------------------------------------------------------------
(* The device and its line. *)

Packet(id, data) ==
    LET len == Len(data) + 2
    IN  [k \in 1..len |-> Byte(sent % 2, k, IF k = 1 THEN id
                                            ELSE IF k = len THEN CR ELSE data[k - 1])]

Packets ==
    {Packet(D, r) : r \in Readings}
        \cup (IF hw = "magellan" THEN {Packet(K, data) : data \in KeyNibbles}
              ELSE {Packet(K, <<b>>) : b \in KeyBytes})
        \cup (IF hw = "sball4000" THEN {Packet(Dot, <<b>>) : b \in KeyBytes} ELSE {})

SendPacket ==
    /\ Open /\ sent < MaxPackets
    /\ \E p \in Packets : Len(wire) + Len(p) <= MaxWire /\ wire' = wire \o p
    /\ sent' = sent + 1
    /\ UNCHANGED <<vars, state, hw, noisy, probe, input, pkt>>

(* Noise between two packets, or a byte that is lost, once.                *)
Disturb ==
    /\ Open /\ ~ noisy /\ noisy' = TRUE
    /\ \/ \E b \in Bursts : /\ Len(wire) + b <= MaxWire
                            /\ wire' = wire \o [k \in 1..b |-> Byte(2, 0, Junk)]
       \/ \E k \in DOMAIN wire : wire' = RemoveAt(wire, k)
    /\ UNCHANGED <<vars, state, hw, sent, probe, input, pkt>>

(***************************************************************************)
(* A piece of an answer arrives.  A Spaceball says "@1" and more on being  *)
(* reset, a Magellan "v" and more when asked; a device that is being moved *)
(* sends packets in between.                                               *)
(***************************************************************************)
Pieces ==
    {"text"} \cup
    (CASE state = "reset" /\ hw \in {"sball", "sball4000"} -> {"@1"}
       [] state = "vQ" /\ hw = "magellan" -> {"v"}
       [] OTHER -> {})

Answer ==
    /\ state \in {"reset", "vQ"} /\ Len(answer) < ProbeSz
    /\ \E t \in Pieces : answer' = Append(answer, t)
    /\ UNCHANGED <<vars, state, line, parse, input, pkt>>
-----------------------------------------------------------------------------
(* open_dev_serial and close_dev_serial. *)

(* The terminal is set up for a Spaceball and "@RESET" written.            *)
open_dev_serial ==
    /\ state = "closed" /\ state' \in {"reset", "failed"}
    /\ answer' = <<>>
    /\ UNCHANGED <<vars, line, parse, input, pkt>>

\* memstr compares everywhere but at the very end.
memstr(s, t) == \E i \in 1..Len(s)-1 : s[i] = t

Start(parser, mask) ==
    /\ state' = "select" /\ parse' = parser /\ keymask' = mask
    /\ answer' = <<>>
    /\ UNCHANGED <<vars, line, input, mot, sb4000, motion_events>>

FirstButtons(n) == {i \in Buttons : i < n}

(* guess_num_buttons: a 4000 may be taken for a model with fewer buttons.  *)
Guesses == {FirstButtons(n) : n \in {2, 4, 8, 11, 12, 15}}

(* Mutant of sball_answered: any answer will do.                           *)
AnyAnswer == answer # <<>>

sball_answered == memstr(answer, "@1")

mag_answered == answer # <<>> /\ Head(answer) = "v"

(***************************************************************************)
(* read_timeout has ended: a time of silence, or its buffer is full.       *)
(***************************************************************************)
SballProbed ==
    /\ state = "reset"
    /\ \/ sball_answered /\ \E mask \in Guesses : Start("sball", mask)
       \/ /\ ~ sball_answered
          /\ state' \in {"vQ", "failed"} /\ answer' = <<>>
          /\ UNCHANGED <<vars, line, parse, input, pkt>>

MagProbed ==
    /\ state = "vQ"
    /\ \/ mag_answered /\ \E mask \in Guesses : Start("mag", mask)
       \/ /\ ~ mag_answered
          /\ state' = "failed" /\ answer' = <<>>
          /\ UNCHANGED <<vars, line, parse, input, pkt>>
(***************************************************************************)
(* The device is removed: at exit, by another cfg.serial_dev, or because   *)
(* the probe failed.  open_dev_serial has freed the state by then and left *)
(* dev->data and dev->close as they were, so close_dev_serial restores the *)
(* terminal from freed memory and closes its descriptor a second time.     *)
(***************************************************************************)
close_dev_serial ==
    /\ \/ state = "select" /\ state' = "gone"
       \/ state = "failed" /\ state' = "undefined"
    /\ UNCHANGED <<vars, line, probe, input, pkt>>
-----------------------------------------------------------------------------
(* read_dev_serial. *)

Room == BufSz - 1 - Len(buf)

FirstCR(s) == CHOOSE k \in DOMAIN s : s[k].c = CR /\ \A j \in 1..k-1 : s[j].c # CR
HasCR(s) == \E k \in DOMAIN s : s[k].c = CR

(* There is something to read.  In canonical mode, for a Magellan, the     *)
(* line discipline keeps what has no CR yet.                               *)
Readable == wire # <<>> /\ (parse = "mag" => HasCR(wire))

(* How many bytes a read may return: for a Spaceball any that have come,   *)
(* for a Magellan one line, or as much of it as there is room for.         *)
Arrived ==
    IF ~ Readable THEN {}
    ELSE IF parse = "mag" THEN {IF FirstCR(wire) <= Room THEN FirstCR(wire) ELSE Room} \ {0}
    ELSE 1..Len(wire)

(* Mutant of Read: bytes are read once all of them have room.              *)
ReadWhole ==
    /\ state \in {"select", "read"} /\ diff = {}
    /\ Readable /\ Len(wire) <= Room
    /\ buf' = buf \o wire /\ wire' = <<>>
    /\ state' = "parse" /\ start' = 0
    /\ UNCHANGED <<vars, hw, sent, noisy, probe, mangled, pkt>>

(***************************************************************************)
(* A turn of the loop around read.  The device is looked at only when      *)
(* select says there is something to read; without room the read returns   *)
(* 0, like at the end of the input.                                        *)
(***************************************************************************)
Read ==
    /\ state \in {"select", "read"} /\ diff = {}
    /\ \E k \in Arrived : /\ k <= Room
                          /\ buf' = buf \o SubSeq(wire, 1, k)
                          /\ wire' = SubSeq(wire, k + 1, Len(wire))
    /\ state' = "parse" /\ start' = 0
    /\ UNCHANGED <<vars, hw, sent, noisy, probe, mangled, pkt>>

Rest == SubSeq(buf, start + 1, Len(buf))
Line == SubSeq(Rest, 1, FirstCR(Rest))
Data == SubSeq(Line, 2, Len(Line) - 1)

\* The bits of a byte, or of the first four nibbles, that stand for buttons.
Keys(b) == {i \in Buttons : (b \div 2^i) % 2 = 1}
MagKeys(data) ==
    {i \in Buttons : /\ i < 16 /\ i < 4 * Len(data)
                     /\ (data[i \div 4 + 1].c \div 2^(i % 4)) % 2 = 1}

MotionEvents(axes, reading) ==
    LET Changed(a) == IF a \in axes THEN <<[type |-> "motion", idx |-> a, val |-> reading[a]]>>
                      ELSE <<>>
    IN  Changed(0) \o Changed(1) \o (IF axes = {} THEN <<>> ELSE <<Flush>>)

(* A motion packet: the axes that changed, then a flush.                   *)
motion_packet ==
    LET reading == [a \in Axes |-> Data[a + 2].c]
    IN  /\ mot' = reading
        /\ motion_events' = MotionEvents({a \in Axes : reading[a] # mot[a]}, reading)
        /\ UNCHANGED <<vars, keymask, sb4000>>

(* Mutant of KeyPacket: all buttons of a packet are reported.              *)
KeyPacketAll(keys) ==
    /\ keystate' = keys
    /\ diff' = keystate'
    /\ UNCHANGED <<evqueue, evq_rd, evq_wr, inp, seen, dropped>>

(* A key packet: the buttons that changed.                                 *)
KeyPacket(keys) == IF keys = keystate THEN UNCHANGED vars ELSE parse_keys(keys)

(* A Magellan's key packet may be of any length from three nibbles on.     *)
MagValidLength == IF Line[1].c = D THEN Len(Data) = 3 ELSE Len(Data) >= 3

mag_parsepkt ==
    \/ Line[1].c = D /\ MagValidLength /\ motion_packet
    \/ /\ Line[1].c = K /\ MagValidLength /\ KeyPacket(MagKeys(Data))
       /\ UNCHANGED pkt
    \/ /\ Line[1].c \notin {D, K} \/ ~ MagValidLength
       /\ UNCHANGED <<vars, pkt>>

(* Mutant of ValidLength: a motion packet may be too long.                 *)
ValidLengthAtLeast == Len(Data) >= IF Line[1].c = D THEN 3 ELSE 1

ValidLength == Len(Data) = IF Line[1].c = D THEN 3 ELSE 1

sball_parsepkt ==
    \/ Line[1].c = D /\ ValidLength /\ motion_packet
    \/ /\ Line[1].c = K /\ ValidLength /\ ~ sb4000 /\ KeyPacket(Keys(Data[1].c) \cap keymask)
       /\ UNCHANGED pkt
    \/ /\ Line[1].c = Dot /\ ValidLength /\ KeyPacket(Keys(Data[1].c) \cap FirstButtons(12))
       /\ sb4000' = TRUE /\ keymask' = FirstButtons(12)
       /\ UNCHANGED <<mot, motion_events>>
    \/ /\ \/ Line[1].c \notin {D, K, Dot} \/ ~ ValidLength
          \/ Line[1].c = K /\ sb4000
       /\ UNCHANGED <<vars, pkt>>

(* The packet before the next CR of the buffer.                            *)
Parse ==
    /\ state = "parse" /\ diff = {} /\ motion_events = <<>> /\ HasCR(Rest)
    /\ IF parse = "sball" THEN sball_parsepkt ELSE mag_parsepkt
    /\ start' = start + Len(Line) /\ mangled' = FALSE
    /\ UNCHANGED <<state, line, probe, buf>>

(* The events of a packet go into the ring before the parser goes on.      *)
EnqueueMotion ==
    /\ motion_events # <<>> /\ diff = {}
    /\ Enqueue(Head(motion_events)) /\ Forget({})
    /\ motion_events' = Tail(motion_events)
    /\ UNCHANGED <<inp, keystate, diff, seen>>
    /\ UNCHANGED <<state, line, probe, input, mot, keymask, sb4000>>

EnqueueButton ==
    /\ \E i \in Buttons : gen_button_events(i)
    /\ UNCHANGED <<state, line, probe, input, pkt>>

(***************************************************************************)
(* The buffer after the first n bytes of s were parsed: as many bytes as   *)
(* were parsed are moved to the front (dev_serial.c:351), so if more       *)
(* remain, what follows is what stood there before.                        *)
(***************************************************************************)
Moved(s, n) ==
    [k \in 1..Len(s) - n |-> IF k <= n THEN s[n + k] ELSE s[k]]

EndOfParse ==
    /\ state = "parse" /\ diff = {} /\ motion_events = <<>> /\ ~ HasCR(Rest)
    /\ buf' = IF start = 0 THEN buf ELSE Moved(buf, start)
    /\ mangled' = (mangled \/ (start > 0 /\ Len(buf) - start > start))
    /\ start' = 0 /\ state' = "read"
    /\ UNCHANGED <<vars, line, probe, pkt>>

(* Mutant of Deliver: one event for each time the device is ready.         *)
DeliverOne ==
    /\ state = "read" /\ read_dev_serial
    /\ state' = "select"
    /\ UNCHANGED <<line, probe, input, pkt>>

(* No more bytes: the oldest event is returned, and read_device is called  *)
(* again.                                                                  *)
Deliver ==
    /\ state = "read" /\ read_dev_serial
    /\ UNCHANGED <<state, line, probe, input, pkt>>

(* No more bytes and no event: -1, and the daemon goes back to select.     *)
(* len never reaches INP_BUF_SZ, so the buffer is not discarded.           *)
Sleep ==
    /\ state = "read" /\ diff = {} /\ evq_rd = evq_wr
    /\ IF Len(buf) >= BufSz THEN buf' = <<>> /\ mangled' = FALSE ELSE UNCHANGED <<buf, mangled>>
    /\ state' = "select"
    /\ UNCHANGED <<vars, line, probe, start, pkt>>

SerialDaemon == Read \/ Parse \/ EnqueueMotion \/ EnqueueButton \/ EndOfParse
                \/ Deliver \/ Sleep

SerialNext == \/ open_dev_serial \/ SballProbed \/ MagProbed \/ close_dev_serial
              \/ SerialDaemon
              \/ SendPacket \/ Disturb \/ Answer

SerialSpec == SerialInit /\ [][SerialNext]_svars

(* One thread, which select wakes when there is something to read.         *)
FairSerialSpec == SerialSpec /\ WF_svars(SerialDaemon)
-----------------------------------------------------------------------------
(***************************************************************************)
(* The parser uses the queue only as EvQueue says, so that what is proved  *)
(* of EvQueue holds here.                                                  *)
(***************************************************************************)
DrivesQueue == Spec

Genuine(s) == \A k \in DOMAIN s : s[k].k = k /\ s[k].n = s[1].n

(***************************************************************************)
(* Motion and buttons change only by a packet that the device sent just    *)
(* so, however the line cuts packets and whatever it adds or loses; except *)
(* a packet whose beginning was moved wrongly when a shorter one before it *)
(* was parsed, and except the buttons of a Magellan on a line that was     *)
(* disturbed: its key packets are believed whatever follows the third      *)
(* nibble (dev_serial.c:392), so that one which lost a nibble, or runs     *)
(* into the next, is read as other buttons.                                *)
(***************************************************************************)
GenuinePackets ==
    [][/\ mot' # mot => Genuine(Line) \/ mangled
       /\ keystate' # keystate => Genuine(Line) \/ mangled \/ (parse = "mag" /\ noisy)]_svars

(***************************************************************************)
(* When the daemon goes to sleep on a serial device, no event waits in its *)
(* ring and no complete packet in its buffer: nothing would wake it.       *)
(***************************************************************************)
NothingLeftBehind ==
    state = "select" => evq_rd = evq_wr /\ ~ HasCR(buf)

(***************************************************************************)
(* Packets alone never fill the input buffer, cut as they may be: a device *)
(* goes deaf only after noise on its line.                                 *)
(***************************************************************************)
DeafOnlyAfterNoise == state = "select" /\ Room = 0 => noisy

(* Whatever there is to read of an open device is read, unless the buffer  *)
(* is full.                                                                *)
LineIsRead == Open /\ Readable ~> ~ Readable \/ Room = 0 \/ ~ Open

(***************************************************************************)
(* A device that is opened is spoken to in its own language, and another   *)
(* kind of device is not opened.                                           *)
(***************************************************************************)
RightParser ==
    Open => parse = CASE hw = "magellan" -> "mag"
                      [] hw \in {"sball", "sball4000"} -> "sball"
                      [] OTHER -> "none"

(***************************************************************************)
(* "if we fill the input buffer, make a last attempt to parse it, and      *)
(* discard it so we can receive more" (dev_serial.c:224).                  *)
(***************************************************************************)
RoomToReceive == state = "select" => Room > 0

(***************************************************************************)
(* When the daemon goes back to sleep it has parsed every packet it was    *)
(* given and taken every event, and it can receive more, unless there was  *)
(* noise on the line.                                                      *)
(***************************************************************************)
ReadyForMore == NothingLeftBehind /\ DeafOnlyAfterNoise
=============================================================================
