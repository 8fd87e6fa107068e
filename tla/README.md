# A TLA+ model of spacenavd

spacenavd is the free driver daemon for 6dof input devices ("space mice").
One process with one thread reads the devices, keeps the configuration, and
sends motion and button events to client programs over a UNIX domain socket or
through X11 (the "magellan" protocol). Everything happens in one `select` loop
(`src/src/spnavd.c`, `main` and `handle_events`), interrupted only by signal
handlers.

What makes the program hard to get right is therefore not threads but

* the order in which one turn of the loop does its work, with what `select`
  reported going stale while the turn changes descriptors, devices and clients;
* global state shared by functions that call each other through several layers:
  one client iterator (`client_iter` in `client.c`), one device list, one list
  of accumulated events keyed by the address of a device, one configuration
  that requests, SIGHUP and button actions change;
* signal handlers (SIGHUP, SIGALRM, SIGUSR1/2) that run at any instruction;
* time: hold timers of buttons, the delayed hotplug scan, the repeat interval;
* partial reads, full buffers and queues, and devices and clients that go away
  at any moment.

## 1. Inventory

Paths are relative to `src/src/`.

| Component | State it keeps | Operations | Talks to | Hard part | What makes it correct | Model |
|---|---|---|---|---|---|---|
| Main loop (`spnavd.c`) | `pfd`, `cfg`, `prev_cfg` | one turn: SIGHUP pipe, UNIX, X11, devices, hotplug; else repeat motion; then button timeouts | everything | the turn works on one result of `select` | what is ready is served once; nothing sleeps on work to do | inside each module |
| Buttons (`event.c`) | `hold_timeouts` of each `dev_event`; what was last sent | `process_input`, `emit_button`, `emit_button_timeouts`, `next_button_timeout` | configuration, clients, keyboard emulation | release racing the timer; mapping changed while a button is down | one report for each hold, of the right kind; nothing stays pressed | `Buttons` |
| Motion (`event.c`) | the modes, `cur_axis_mag`, `cur_dom_axis`, the event of each device | `process_input`, `handle_button_action`, `in_deadzone`, `repeat_last_motion_event` | configuration, clients, main loop | settings change while an axis is deflected | a device at rest is seen at rest; one held is repeated | `Motion` |
| Accumulated motion, dispatch (`event.c`) | `dev_ev_list`: accumulated motion for each device address | accumulate, flush, `dispatch_event`, `broadcast_event` | devices, clients | order against buttons; entries of freed devices | clients see the last motion; nothing left pending | `Devices` (values abstract) |
| Devices (`dev.c`, `dev_usb_linux.c`) | device list, `last_id`, descriptors | scan, open, read, fail, remove | hotplug, clients (DEV_ADD/DEV_RM), LEDs | unplug and replug under one path; addresses used again | nothing open twice; clients know the devices | `Devices` |
| Hotplug (`hotplug_linux.c`) | netlink socket or polling pipe, `delay_pending`, alarm | messages, delayed scan, polling | device scan | devices that come during the delay | no plugging is forgotten | `Hotplug` |
| Serial event queue (`dev_serial.c`) | `evqueue`, `evq_rd`, `evq_wr`, `keystate` | `enqueue_motion`, `gen_button_events`, `read_dev_serial` | parser, main loop | overflow and wrap | a FIFO that drops its oldest event | `EvQueue`, `DropOldestQueue` |
| Serial line protocol (`dev_serial.c`) | `buf`, `len`, parser, keys | handshake, `read_dev_serial`, `proc_input`, packet parsers | device, event queue | partial packets, a full buffer, time-outs | packets are parsed once and whole; the right parser | `SerialInput` |
| Clients and the UNIX socket (`proto_unix.c`, `client.c`) | client list, the global iterator, sockets | accept, loop, disconnect, requests with side effects | devices (LEDs), configuration | the iterator moves under the loop | each ready client is served once; only ended ones go | `UnixServer` |
| Client protocol (`proto_unix.c`, `proto.c`) | protocol, request buffer, string buffer, event mask, sensitivity | framing, every request, answers | configuration | requests in pieces, strings in chunks, full sockets | messages are handled one by one; refusals change nothing | `UnixProto` |
| Configuration file (`cfgfile.c`) | `cfg`, `cfglines` | `read_cfg`, `write_cfg` | requests, SIGHUP | lines edited in place over several saves | what is saved is what is read | `ConfigFile` |
| X11 clients (`proto_x11.c`) | their entries in the client list, jump buffer | registration, sending, X errors, loss of the server | client list, `dispatch_event`, Xlib | Xlib calls handlers inside any call | every listed client is sent each event of the newest device once | `X11Clients` |
| X connection and detection, keyboard emulation (`proto_x11.c`, `xdetect*.c`, `kbemu*.c`) | display, inotify queue, `watch_tmp`, `watch_x11` | connect, watch, close, send key | signals, main loop | files that appear between two looks; signals in `select` | a server that comes is found, its end is noticed | `XConnection`; keys in `Buttons` |
| Start-up and control (`spnavd.c`, `proto_unix.c`) | pid file, socket file, `sockpath` | `find_running_daemon`, `init_unix`, `close_unix`, `cleanup`, signals | file system, other daemons | two starts at once, stale files | one daemon, which clients reach | `Lifecycle` |
| Other systems, logging, scripts | | | | | | not modelled |

The hazards, each at its line, are listed in `PROJECT.json`; the properties
below are aimed at them.

## 2. The modules and the code

A handler of the C code is an action; where the code calls functions that
change state, the action contains them. The name of an action or operator is
that of the function it models where there is one. Definitions headed
"Mutant of ..." are variants with a plausible bug; each is defined before the
definition it varies, and no specification uses them. They are there to show
that every property depends on the code it is about.

### DropOldestQueue, EvQueue: the serial event queue

`DropOldestQueue` is the abstract promise: a bounded FIFO that gives up its
oldest event for a new one. `EvQueue` is the code: a ring with two masked
cursors, of which one slot stays free, filled by `enqueue_motion` and bit by
bit by `gen_button_events`, and emptied by `read_dev_serial`. `evq_rd`,
`evq_wr`, `keystate` are the fields of `struct sball`. The refinement mapping
takes the slots between the cursors for the queue.

### SerialInput: the line of a serial device

Extends `EvQueue`: the parsers fill its ring. A byte of the line knows which
packet it is of and its place there, so that a property can say that what was
parsed is a packet the device sent. The line delivers packets cut anywhere; once,
it adds noise or loses a byte, a CR as well as any other. A Magellan is read through a
terminal in canonical mode, a line at a time. The parsers check the length of a packet
where the code does: `mag_parsepkt` takes key packets of any length from three
nibbles on, so that one that lost a nibble changes the keys, which `GenuinePackets`
excuses. `read_dev_serial` is a turn of reading, parsing each line up to its CR,
queueing events one by one, and delivering. `proc_input`
moves what remains, as the code does it: with the number of bytes consumed as
the count (`mangled` remembers when that moved too few). The handshake
(`open_dev_serial`) sends its reset and `vQ`, and decides by what came within
the time-outs. The use of the state freed by a failed open is "undefined".
The ring is that of `EvQueue`; `DrivesQueue` says that all `SerialInput` does to
it are steps of `EvQueue`, so that what is proved there holds here.

### Motion: from samples to what clients see

One device. `data` and `pending` are its `dev_event`; `cfg` is the part of the
configuration that `process_input` looks at, replaced as a whole by SIGHUP and
requests and in part by `handle_button_action`. `seen` is the last motion that
was dispatched. `repeat_on_timeout` is the local of `main`, decided when
`select` is called. The history variables name the excuses: axes of the
event last written under other settings (`old`), those whose source was mapped
elsewhere while they were deflected (`left`), and a magnitude of the dominant
axis that dates from another time (`unsure`). All sensitivities are one factor, in
hundredths, which the actions of buttons raise and lower by a tenth or reset.

### Devices: device list, accumulated motion, dispatch

`dev_list` is the linked list of `dev.c`, newest first; a device is its
address, and freed addresses are given out again. `dev_ev` is `dev_ev_list` of
`event.c`, looked up by address. The loop of `handle_events` is followed device
by device: the saved next pointer (`nxt`), reading input until there is none,
the read error that removes the device, and the flush that follows in either
case, for a freed address too. The scan opens files not in use, which
adds a device before it is known whether it can be opened. One observer stands
for all clients that selected no device: none can select one, as
`set_client_device` has no caller. Values of motion are "moved" or "at rest".

### Hotplug: who finds out about a device

`con_hotplug` gives a netlink socket or not; then messages, the one-second
alarm and its pipe, or the polling alarm and its pipe, lead to a scan. Signal
handlers are actions of their own. The loop is cut where the outside
can intervene: at `select`, after reading devices, after the hotplug handler.
The window between the first scan and `init_hotplug` is kept (`early`).

### Buttons: holds, timers, mappings

One device; time in ticks. `timer` is `hold_timeouts`, `tv` the timeout of
`select`. `cfg` is the part of the configuration `emit_button` looks at; a new
one is put in force at the point of the loop where SIGHUP and requests are
handled, before the devices are read. `view` is what was reported as pressed
and not released, to clients and to the keyboard emulation. Input that
`read_evdev` answers with -1 ends the reading of this turn, as in the code.

### UnixServer: the loop over the clients

`client_list`, `client_iter` and `citer` are the list, the global iterator of
`client.c` and the local of `handle_uevents`. A turn is followed client by
client: requests that change the LED mode or the serial device call
`cfg_changed`, whose `first_client` and whose broadcasts move the iterator.
`rset` and `lready` are `select`'s result, which stays as it was during the
turn; `stale` says that the number of a descriptor closed in this turn is in it.
The use of a freed client is the state "undefined", after which nothing more is
said. A client is known by its connection; one message is one `read`.

### UnixProto: what a client may say

The stream is counted in units of four bytes. Protocol 0 messages are one unit,
requests of protocol 1 are several, written and read in any pieces.
`handle_request` is one operator for each group of requests; values are
validated as the code does it, index by index. Answers go into `out`, which
holds a few packets and loses the rest, since no result of a write is looked
at. Strings come in chunks (`spnav_recv_str`) into the client's one buffer.

What was written is in `unread`; what is still to come of a message is in `todo`,
and `rest` is the chunk that is next of a string a client is in the middle of. A
chunk is known by the string and the place it was cut from, of which the daemon
sees what `proto.c` looks at: the data, how much is left (`Left`), and whether it is
the first (`First`). A completed string that is a path is stored up to `PATH_MAX`
(`PathOf`), for which `PathMax` tokens stand.

Handlers run whole and the buffers are the client's own, so one client shows
what the properties are about. What is left out: a 4-byte message
split in transit; strings too long for the 16 bits of the length; chunks whose length field contradicts the string (a client
that is not the library); the text of answers.

### ConfigFile: the file edited in place

`lines` is `cfglines`: text, option and owner of each line. `write_cfg` is the
composition of its parts (`Edited`), one for each option or group, each made of
`add_cfgopt` and of `rm_cfgopt` with `RMCFG_ALL` (`RmAll`) or `RMCFG_OWN` (`RmOwn`)
in the order of the code. The options stand for all of them, one for each way
an option is written; sensitivities are counted in units of 0.0001 and written
with three decimals. `Number` models what `EXPECT` does: its `continue` leaves
its own `do ... while`, so what is no number counts as 0. A failing `fopen`,
`calloc` or `strdup` changes nothing and is left out, as are the lock on the
file, device-id lines and the text of values.

### XConnection: waiting for the X server

A server makes its directory, its socket, and answers, in this order, and each
step is an event of inotify if there is a watch at that moment. `watch_tmp` and
`watch_x11` are the numbers `xdetect_linux.c` keeps, `inotify` is the kernel's
queue: they differ once a queue was forgotten. `init_x11`, `try_xconnect` and
`xdet_start` are followed call by call; SIGUSR1 and SIGUSR2 run where the daemon
sleeps. `watched` is what `select` was told to look at.

### X11Clients: the list under Xlib's handlers

The list of `client.c` with clients of both kinds. The walk of
`dispatch_event` sends to one client at a time; for an X11 client the request
goes to the server and `XFlush` may read what the server sent: errors are
handled at once by `xerr`, which removes a client and so moves the iterator;
events wait in Xlib's queue (`xqueue`). The other calls of Xlib on the same display,
those of `drop_xinput` and of the keyboard emulation, are one call (`xcall`) that
reads in the same way, outside of both functions that handle what is read;
`stranded` remembers the introductions that such calls leave in the queue. The end of the
server removes all X11 clients and jumps to the place the last `setjmp` left. Where the
jump leads into a function that has returned, the walk goes on with a freed client, or
SIGUSR2 closes the display under a call of Xlib, the state is "undefined".

The event that is walked with is of the newest device or of another one (`newest`):
`dispatch_event` asks `get_client_device`, which answers with the newest, and sends
the events of other devices to nobody. The id of a window comes in two signed shorts; where
bit 15 is set it is understood as an id no window has (`Ghost`, `Understood`), and the
client is listed under that.

### Lifecycle: several runs of the daemon

Processes that start, race, end and crash share the file system: `pidfile` and
`socket` name the process a file belongs to. `cfgpath` is `cfg.sockpath`, and
`sockpath` points into it, as in the code, so it changes when the configuration does.
Every system call on the way may fail, with the consequences the code draws from it,
mostly none: the pid file cannot be read, is no regular file, cannot be opened or written;
`socket`, `bind`, `listen` or an `unlink` fails. Two history variables name the
excuses: `failed`, the calls of a process that failed, and `beside`, how a process came to
run beside another: one that was "stopping", its socket closed already, when the other looked,
or one that was "hidden" from it (`Concealed`).

### How the modules fit

The modules share no variables: each models its part with what the rest of the
daemon can do to it as actions. The pieces of the loop they share are alike:
`select` computes what is ready from the state, the turn works on that result
and ends in `select` again, in the order of `handle_events`. `UnixServer`
contains the devices as far as LEDs and broadcasts go, `Devices` the clients as
one observer, `Buttons` and `UnixProto` the configuration as values,
`Hotplug` the devices as files, `X11Clients` the UNIX clients as members of its
list. `Motion` is one device of `Devices` with its values, `SerialInput` contains
`EvQueue`.

## 3. What the runs check

State counts are distinct states.

| Run | Bounds | What it shows |
|---|---|---|
| `serial_input` | one device of four kinds, input buffer of 10 bytes, ring of 4, 3 packets, one disturbance; 773 000 states | the ring implements the queue and is used only as `EvQueue` says; a button is wrong at the reader only if its newest event was dropped, presses and releases alternate (`QueueKeepsButtons`); nothing complete is left behind when the daemon sleeps, and it is deaf only after noise (`ReadyForMore`); motion and keys change by packets the device sent, except the buttons of a Magellan on a disturbed line (`GenuinePackets`); the parser fits the device; what is sent is read |
| `buttons` | 2 buttons, 3 configurations, 2 unread events, 2 changes; 335 000 | one report for each hold, of the kind its duration says, and -1 sent as a number only after a rebinding (`HoldsReported`); what clients take for pressed is down; timers end without further input |
| `motion` | 2 axes with 3 samples, 4 configurations, 6 actions, 3 unread inputs, 2 changes; 1.7 million | clients see a device at rest at rest, and axes where they are (`MotionIsSeen`); in dominant axis mode the strongest sample passes; a device held off its center is repeated |
| `devices` | 2 files, 2 addresses, ids 0..2, one unread event a device; 657 000 | nothing open or listed twice; DEV_ADD and DEV_RM tell which devices there are until the id wraps; a freed address holds no motion and nothing is pending in `select` (`NoMotionKept`); the last motion seen is the current one; motion before a button is seen before it |
| `hotplug` | 3 files; 17 000 | a delay ends, no plugging is forgotten, one scan for each delay (`ScanIsComing`); what stays is opened, what is gone is closed (`FilesAreFollowed`) |
| `unix_server` | 2 clients, 1 USB and 1 serial device, 2 unread messages a client, 2 messages and SIGHUPs in all; 2.5 million | LEDs follow clients; every ready client is served, once unless a request moved the iterator; harm is done only in those turns, or when a descriptor is used again |
| `unix_server_live` | 2 clients, 1 USB device, 1 unread message each; 480 000 | messages are read, gone clients are removed (`ClientsAreServed`) |
| `unix_proto` | 4 messages, requests of 2 units, 2 packets of room; 113 000 | messages are handled in order whatever the pieces; strings are those that were sent, cut where a path must be, and changes applied (`ConfigIsSound`); refused requests change nothing; everything written is handled |
| `config_file` | 19 files of up to three lines, 5 operations; 363 000 | what is saved is what is read, with listed exceptions; a save after a read changes nothing; no second line for an option (`LinesAreSound`) |
| `x_detect` | 2 attempts to connect, 2 servers, 2 other files, 2 signals; 63 000 | while detection waits, the next file of the server is watched for (`XIsAwaited`); a server is found and its end noticed (`XIsFollowed`); both with the exceptions the properties name |
| `x11_clients` | 2 windows, of which one has an id that is misunderstood, 1 UNIX client, 2 messages under way; 226 000 | no client without a server or twice; each listed client is sent each event of the newest device once and of the others none, unless the list changed under the walk; a freed client is used only for the causes named; introductions and errors are handled |
| `lifecycle` | 3 processes, 2 paths, one failing call; 4.4 million | two daemons run together or are unreachable only for the reasons the properties name; a daemon past its cleanup left neither socket nor pid file, unless its configured path changed under it or a removal failed (`NothingLeft`) |

### Disagreements with what the sources say

These are left out of the runs above by the exceptions of their properties.
Each has a configuration of its own, for which TLC reports a counterexample:

| Configuration | Property | The sources say | The code does |
|---|---|---|---|
| `MCUnixServerRestart` | `OnlyEndedDisconnected` | "something went wrong... disconnect client" (proto_unix.c:222) | `cfg_changed` (spnavd.c:496) and `broadcast_event` move the iterator `handle_uevents` works with: a client is read twice in a turn, the second read finds nothing, and the client is disconnected |
| `MCDevicesDispatch` | `UnselectedGetsAll` | "if the client has selected a single device to get input from, then don't send the event if it originates from a different device" (event.c:457) | a client that selected none gets the newest device's input only (event.c:460 with client.c:150) |
| `MCHotplugPoll` | `NoScansInARow` | "schedule a delayed trigger to avoid multiple hotplug activations in a row" (hotplug_linux.c:130) | in polling mode the pipe that woke the daemon is never read (112): from the first alarm on every turn scans again |
| `MCConfigFileSaved` | `RestoreGivesSaved` | proto.h:97-98, save and restore | a user's `led = off` stays in the file when the LED is on and saved (cfgfile.c:729) |
| `MCSerialInputFull` | `RoomToReceive` | "if we fill the input buffer, make a last attempt to parse it, and discard it so we can receive more" (dev_serial.c:224) | the read leaves room for one byte (219), so the buffer is never taken for full: the device stays deaf |
| `MCX11ClientsErrors` | `AllClientsServed` | "dispatches spacenav events to the clients" (event.c:192) | an X error for the client after the one being sent to moves the walk past clients that stay |
| `MCX11ClientsIds` | `WindowsListed` | "adds a new X11 client to the list" (proto_x11.c:313) | the lower half of the id is a signed short (proto_x11.c:293-294): where its bit 15 is set the client is listed under an id no window has, and the first event it is sent removes it |
| `MCX11ClientsStranded` | `NoEventStranded` | "process any pending X events" (proto_x11.c:278) | events that other calls than `XPending` have read wait until the server sends something more |
| `MCLifecycleSocket` | `AloneServes` | "in case it already exists" (proto_unix.c:63) | the default path is unlinked, not the configured one: after a crash `bind` fails and the daemon has no socket |

Without a configuration: `NoClosedDisplay` of `XConnection` ("stop the kbemu
module from using an invalid Display*", proto_x11.c:205), which every loss of a
server breaks, since `kbemu_set_display` ignores 0.

`SaveIsFaithful` lists the other cases in which a save is not what is read
again (`Excused`): each of its disjuncts is needed, the run fails without it.
Among them is `repeat`, whose option number is 0, that of comments and unknown
lines: saving it overwrites the file's first comment. Another was found by the
proof, where no run had a file for it: a user's line that maps an axis to none of
the six is rejected and so not the axis's own; a save of another mapping adds a
line behind it, and a save of the default removes the first line of that name
(cfgfile.c:931-958), the rejected one, so that the old mapping is read again.

### Why the bounds are enough

* `serial_input`: a ring of four wraps and overflows within two packets; the
  buffer of ten holds one packet and a part of the next, two packets of a Magellan
  that a lost CR joined fit as well, and noise of nine bytes fills it; three packets are one cut short, one moved wrongly and one
  after it.
* `motion`: two axes are one that dominates and one that is dominated, a
  translation and a rotation; three samples are rest, inside the dead zone and
  outside; two changes are a change while deflected and a change back. The
  configurations swap and invert, drop an axis, and map two to one.
* `devices`: two devices give every position in the list, and a third id makes
  the counter wrap; two addresses are as many as are in use, so each is used
  again.
* `hotplug`: devices are independent but for the shared scan; two would do.
* `buttons`: a timer concerns one button; the second one shares outputs,
  configurations and `select`'s timeout with it. The three configurations take
  a hold mapping away, add one, and replace it by an action and a key. Two
  changes are a change and a change back, or a change and an unplugging.
* `unix_server`: with two clients the one served may be before or after
  the one that is harmed; two messages are needed for one to move the iterator
  in a turn in which the other is read.
* `unix_proto`: a request of two units may be cut at its start, middle or end; a
  string of three tokens needs two chunks of two; four messages are a
  change of protocol, a chunk, a request in between, and a chunk. The string for the serial
  device is longer than a path may be, the one for the socket is not.
* `config_file`: set, save, restore, set, save is the shortest sequence in which
  a line added in one save is edited by another after the file was read again; the files
  hold each form of each line, alone, repeated, and with the other form.

* `x_detect`: the second server is one after the connection was lost, or after a
  queue was forgotten; two attempts are one that fails and the last.
* `x11_clients`: two windows and a socket give every order of the client sent to,
  the one removed and the one passed over; an id is understood or it is not.
* `lifecycle`: a third process sees what two that ran together leave; each property
  excuses a call by itself, so one that fails shows what the excuse is worth.

For the properties of section 4 the bounds of `serial_input`, `motion`,
`devices`, `hotplug`, `x_detect`, `buttons`, `unix_server`, `unix_proto`,
`x11_clients` and `lifecycle` do not matter: they are proved for all of them. The runs then show that the
interesting states are reached, that the invariants used in the proofs hold where they
can be looked at, and what is not proved.

Symmetry is used for clients, files, addresses and processes, in runs without liveness.

### Fairness

* `Buttons`: `WF(Daemon)`, the process runs; `WF(Tick)`, time passes; strong
  fairness of `LastInput` and `EndOfInput`: the loop in `handle_events` reads
  until a device has no more, and a device sends a few hundred events a
  second, which the daemon reads much faster, so it finds the end of the input.
* `UnixServer`: `WF(Daemon)`: one thread, which `select` wakes when a socket is
  ready. Clients are not fair: they may stop at any point.
* `UnixProto`: `WF(handle_uevents(c))` for each client: every pass visits every
  ready client, which is what `UnixServer` checks.
* `SerialInput`: `WF(SerialDaemon)`, one thread, woken by the line.
* `Motion`: `WF(Daemon)`; a timeout of `select` comes to its end.
* `XConnection`: `WF(XDaemon)`; the server and other programs are not fair.
* `X11Clients`: `WF(Daemon)` and `WF(Execute)`: the X server carries out what it is
  sent.
* `Hotplug`: `WF(Daemon)`, and `WF(SigAlrm)`, an alarm that is set goes off.

Liveness in `UnixServer` is stated up to undefined behaviour, of which
`HarmHasCause` says when it can occur.

## 4. What is proved

TLAPS checks the following for every value of the constants. The only
assumptions are the named ones of the modules:

| Assumption | What it says beyond types | Why the code justifies it |
|---|---|---|
| `EvQueueAssumption` | at least two slots, buttons are numbers | `EVQUEUE_SZ` (dev_serial.c:59); with one slot the ring could hold nothing |
| `SerialInputAssumption` | the input buffer is longer than the longest packet; no payload byte is a CR, no nibble of a Magellan's keys is the letter that begins a motion packet | `INP_BUF_SZ` (dev_serial.c:57); CR is escaped in binary packets (dev_serial.c:444) and no encoded nibble; a motion packet of a Magellan has 24 nibbles (dev_serial.c:366), for which three bytes stand here, and key packets, also when two are joined, have far fewer |
| `MotionAssumption` | a device has at most 64 axes; what they are mapped to, and the other settings, are any integers | `MAX_AXES` (cfgfile.h:24); `map_axis` (event.c:128) looks at what it finds |
| `DevicesAssumption` | `None` is no address and no event; there is at least one id | NULL; `last_id` is an `unsigned short` (dev.c:115) |
| `ButtonsAssumption` | a button is mapped to a number, a hold time-out is not negative, there is a longest one | checked where they are set (cfgfile.c:391, cfgfile.c:483, proto_unix.c:489); an `int` |
| `UnixProtoAssumption` | sizes and counts are positive, a path has a greatest length, key symbols are positive; what is sent has the types of proto.h; a float that is not finite is no number, and a null pointer no string | `sizeof(struct reqresp)`, `REQSTR_CHUNK_SIZE`, `PATH_MAX`, `MAX_AXES`, `MAX_BUTTONS`; X11's keysyms; which values are accepted is the code's to decide |
| `UnixServerAssumption`, `LifecycleAssumption` | `None` is no client, device or process; USB and serial devices, default and other paths are told apart; the number of calls that may fail is bounded, by any number | names |
| `X11ClientsAssumption` | windows, sockets and `None` are told apart; an id is understood as it is or as one no window has | names; X's ids have three bits clear at the top, a sign-extended one has them set (proto_x11.c:293-294) |
| `ConfigFileAssumption` | a removed line, a value that is no number and a missing file are told apart from texts, numbers and files; files are sequences of lines; options are set to integers | `str` and `cfglines` are 0 or point to text |

Each proof has the same shape: an inductive invariant `IInv` (`SInv`, `QInv`),
the lemmas that `Init` gives it and each action keeps it, `Invariance`, and the
properties of the runs from it. What has to be added to a property to make it
inductive says why the code is right:

* `SerialProofs`, `EvQueue`: `TypeOK` is inductive. `RingImplementsQueue`
  computes what `Queue` becomes: `EnqueueIsPut` splits on whether the ring was
  full, `ReadIsGet` takes the head; lemmas on `%` say where a slot is.
  `ButtonsComeThrough` works on that queue: events are dropped from the front
  and stored at the back, so the newest event of a button is dropped only when
  all its older ones were.
* `SerialProofs`, `SerialInput`: `SerialDrivesQueue` carries the three facts over
  to the parsers. `PacketsAreGenuine` and `SleepsReady` need to look at what is
  still on the wire: `Sound` says of every line of buffer and wire together that
  it is a packet as it was sent, or, after a disturbance, one the parsers skip; and
  of the piece after the last CR that nothing sent later makes a packet of it. What
  the parsers skip depends on the device: of a Magellan's disturbed line `Sound` promises
  nothing about key packets, whose length is not checked.
  Only the line whose beginning `proc_input` moved wrongly is free of that.
  `Sound` is kept by each of the five things that happen to a stream
  (`SendKeepsSound` to `MoveKeepsSound`), however the reads cut it.
  `DevicesAreToldApart` needs `Handshake`: which devices can say which words.
* `MotionProofs`: unread input is what separates the daemon from the device, so
  `HeardComesToRaw` says that the last unread sample of an axis, or if there is none
  the last one read, is where the axis is. `EventIsCurrent` and
  `DeflectionHasSource` relate the event to the samples read, `SeenIsEvent` the
  clients to the event; asleep, input and pending motion are empty and the three
  add up to `MotionIsSeen`. `StrongestPasses` needs `MagnitudeIsHeard`: the
  kept magnitude is that of a source of the dominant axis.
* `DevicesProofs`: `NoDeviceTwice`, `ClientsKnowDevices`, `NoMotionIsKept` are
  parts of `IInv`. `OpenedOnce` is kept by the scan because `dev_path_in_use` looks
  at paths, not at whether the device is still there. That the saved next pointer
  is still listed after the current device was freed (`Cursors`) needs that
  nothing is listed twice. `ObserverKnowsDevices` needs `IdsRise`: before the
  counter wraps, every id in use is below `last_id`. `OrphansAreBlank` and
  `NothingPendingAsleep` need `PendingIsRead`: motion is accumulated only for the
  device that is being read. A second invariant on top of it, `SeenOrPending`,
  says that the observer is in step with each device except for what has
  accumulated; a new device has an id no other one has (`IdsRise`) and a blank
  event (`OrphansAreBlank`), so it starts in step. It gives `MotionStaysCurrent`
  and the action property `MotionGoesFirst`.
* `DetectionProofs`, `Hotplug`: `ScansCome`: the conjunction of `DelayEnds`, `NoPlugForgotten`
  and `OneScanPerDelay`. `NoPlugForgotten` is not inductive: a device that comes back
  under a file whose descriptor has died since `select` returned is skipped by
  the scan, and is found only because its death sent a message as well
  (`LateDeathsAnnounced`). `ReportStands` says that what `select` reported holds
  until it is used; `PipeBeforeScan` that the delay pipe is written only by the
  alarm that starts the count of scans anew.
* `DetectionProofs`, `XConnection`: `ServerIsAwaited` states `XIsAwaited`. While
  detection runs and no attempt to connect is being made, the next file of a
  server is watched for, or its event waits (`DetectionGoesOn`): first the
  directory, then the socket in it. To carry that through an attempt, which ends
  detection and starts it again, takes how far the attempt has come and for whom
  it is made (`Attempts`), that there is no queue beside a connection
  (`OneOrTheOther`), what a new queue holds (`QueueIsNew`), and that a directory that
  is watched, or whose event waits, is there (`WatchedIsThere`).
* `ButtonsProofs`: presses and releases of a button alternate in the unread input
  (`InputAlternates`), a timer runs only for a button that is down and mapped to
  a hold (`TimersHaveButtons`) and shows what is left since the press
  (`TimersCount`): so a report at the end of a timer is a long hold, and one at the
  release a short one. `ViewIsWhatIsDown` splits into `SeenIsDown` and `DownIsSeen`,
  which stay true through a turn because a button that is rebound or
  unplugged while down is remembered (`stuck`).
* `UnixServerProofs`: `LedsAlwaysRight` is inductive with the list itself
  (`ListedOnce`). Fairness of a pass has two halves. None is served twice, because
  as long as no request moved the iterator those at and behind it are not served
  (`PassIsOnCourse`). None is passed over, because even a request that moved it
  sent it to the head only (`NobodyIsPassed`). `HarmIsExplained` needs
  `ReportStands`: what `select` reported of a client is still true when it is
  served, unless the descriptor was another device's.
* `ClientsProofs`, `X11Clients`: an undisturbed walk has sent to everyone before its cursor,
  once, and to no one behind it (`WalkIsOnCourse`); that a client taken out
  elsewhere moves the place of the cursor needs `WithoutProperties`, which counts
  the places kept. What is on course is to have been sent to once if the event is of the
  newest device, and not at all otherwise. `CursorIsListed` and `ReadsConnected` (Xlib reads only while there
  is a connection, so an error can only come then) give `HarmIsExplained`.
* `ClientsProofs`, `UnixProto`: `ProtoInv` looks at all that a client has begun to
  write and that was not handled as one sequence: the request buffer, the
  socket, and what the client still holds. Reading and writing move a unit along
  and leave the sequence as it is; handling takes its first message off. It is
  whole messages, numbered from the last one handled (`Framed`), which with
  what `Lacking` asks for gives `HandledInOrder`, and with the protocol changing for
  both sides at the same message (`Spoken`) says that no message is read as one of
  the other protocol. `Strung` says of each chunk of a string that when it is
  handled the buffer holds what precedes it, so that a completed string is the
  one that was sent, up to what a path may hold, whatever was given up before (`WholeStrings`). `SoundCfg`, of
  what is in use and of the file, is kept because each request's checks imply
  the range of its cell (`StoredAllowed`). Each handler gives `Outcome`, which
  includes that a failure is reported only when nothing changed.
* `FilesProofs`, `Lifecycle`: a process is told from those beside it by what hid them from
  each other (`beside`). One that nothing hid is alone (`Alone`), and has the pid
  file unless it failed to write it (`PidFileNamesAlone`), and its socket unless a call
  for it failed; one that found only ending ones runs beside
  processes that closed their sockets (`BesideEnding`), so the socket it binds
  stays its own (`PathIsServed`). `NothingLeft` needs that sockets belong to
  who bound them at that path (`SocketsAreOwned`), that `close_unix` unlinks that
  path unless it moved (`PathsAgree`), and that nobody's pid file outlives its
  cleanup (`PidFileRemoved`).

* `FilesProofs`, `ConfigFile`: the state is data, and the invariant is short: the
  lines are of the right type, each has the option of its key unless it was
  rejected or is a comment (`Shaped`), the daemon's own come after the user's (`OwnLast`),
  and none of its own has another line of its option beside it (`OneEach`, which gives
  `LinesStaySound`). `SavesAreFaithful` is what the lines say, followed through a
  save. (1) Reading goes line by line and the last line that tells an option
  counts (`ReadTold`, `ReadText`, from `ReadSteps` and `FlattenSteps`, by induction on the
  number of lines). (2) An edit writes at most one entry (`AddIsAdded`,
  `RmIsRemoved`), keeps the invariant and touches the lines of its key only
  (`AddEdit`, `RmEdit`, `EditedParts`), except that "repeat", looked for under option 0, may
  overwrite a comment or a rejected line. (3) A part of `write_cfg` leaves one line of the
  daemon's with the value, or none but those that `Stays` names (`TransOutcome`,
  `DeadOutcome`, `OneOutcome`), and no later part touches them (`StageViews`). (4) Since the
  daemon's line comes last, it is the one that counts (`SoleSays`), or nothing
  tells the option and the default is read (`SensReads` to `AxisReads`, one for each
  way an option is written). `SavesAfterReadAreHarmless` needs less: every
  line that tells an option tells the value read (`EditedAllTell`).

The library's theorems for induction take an operator as parameter, which the
installed provers do not handle. `LeastOne` and `Induction` of `FilesProofs` state
the same of a set of numbers, from the library's `NatLessThanWellFounded`, and
that is enough for what `FoldLeft` and `FlattenSeq` make of files of every length.

TLC checked each of these invariants on the instances of the runs
before it was proved.

Only model-checked: the liveness properties (`LineIsRead`, `TimersFire`,
`RepeatsGoOn`, `ClientsAreServed`, `FilesAreFollowed`, `EveryMessageHandled`,
`XIsFollowed`, `MessagesHandled`). Liveness under fairness and facts about ENABLED
are out of the prover's reach. Every other property of the runs is a theorem.
No module declares a RECURSIVE operator.

## 5. Plan

The modules and the proofs that were planned are there. What could follow is
more of the code: the configurations of section 3 without a
run show what the code would have to change before the exceptions of their
properties can go.

## 6. Not modelled, and why

* FreeBSD, macOS, Windows: other implementations of the same interfaces, which
  are not in a Linux build.
* Logging, scripts, packaging: no state that other parts read.
* The text of options, key names and answers; enumeration of `/proc/bus/input`
  and `/sys`; ioctls: input and output without control of their own.
* The six axes' own sensitivities: `Motion` has one factor, which the actions of buttons
  round to hundredths. What is rounded beyond that is the conversion to `int`.
* The escapes of binary data in the Spaceball's packets, and terminal settings:
  the escapes only keep CR out of the payload.
* Atoms and properties of X windows, the sensitivity message of the magellan
  protocol, what `drop_xinput` and the keyboard emulation ask the X server: of their
  calls `X11Clients` has what Xlib does to the daemon's own state.
* SIGUSR2 during the pass of `UnixServer`, where `close_x11` would move the iterator of
  the pass (spnavd.c:539-541, proto_x11.c:210-213): `X11Clients` has that signal in the
  walk of `dispatch_event`; `XConnection` takes signals in `select` and between attempts
  to connect.
* File modes, so that `umask`, which stays changed after a failing `bind`
  (proto_unix.c:69-75), makes no difference here. A pid file at different paths: every start uses the
  same option `-pidfile`.
* A full inotify queue; the fork, the log file and the command line in `main`.
* The lock on the configuration file, and crashes in the middle of writing it:
  the file is then empty, by the order of `fopen` and the first write.
