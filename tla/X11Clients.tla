------------------------------ MODULE X11Clients ------------------------------
(***************************************************************************)
(* Clients of the magellan protocol (proto_x11.c) beside the clients of    *)
(* the UNIX socket, and the walk of dispatch_event over all of them        *)
(* (event.c, client.c).                                                    *)
(*                                                                         *)
(* Xlib reads what the server sent inside any call that flushes.  Errors   *)
(* are handled at once, by xerr; events wait in a queue of Xlib's.  So a   *)
(* client may be removed, and the one global iterator of client.c moved,   *)
(* while dispatch_event sends an event to another client.                  *)
(***************************************************************************)
EXTENDS Integers, FiniteSets, SequencesExt

CONSTANTS Window,           \* windows programs make, by their ids
          Ghost,            \* ids no window has
          Understood,       \* window -> the id handle_xevents takes it for
          Socket,           \* clients of the UNIX socket
          None,             \* a null pointer
          MaxTraffic        \* bound: requests and answers on the way to and from
                            \* the X server when a client or an event comes

(* The id comes in two signed shorts.  Where bit 15 is set the lower one   *)
(* sets the upper half as well: that is no id the server gives out.        *)
ASSUME X11ClientsAssumption ==
    /\ Window \cap Ghost = {} /\ (Window \cup Ghost) \cap Socket = {}
    /\ None \notin Window \cup Ghost \cup Socket
    /\ Understood \in [Window -> Window \cup Ghost]
    /\ \A w \in Window : Understood[w] \in {w} \cup Ghost
    /\ MaxTraffic \in Nat

X11Client == Window \cup Ghost       \* by the window they are listed with
Client == X11Client \cup Socket

VARIABLES
    windows,      \* windows there are in the X server
    up,           \* the X server runs
    dpy,          \* "none", "open", or "lost": the server ended and Xlib has not noticed
    requests,     \* windows events were sent to, not yet seen by the server
    wire,         \* what the server sent and Xlib has not read
    xqueue,       \* events in Xlib's queue: windows of clients that introduce themselves
    pc,           \* "select", "events", "devices", "walk", "flush", "xcall", or "undefined"
    client_list,  \* newest first
    client_iter,  \* the global iterator of client.c
    citer,        \* the local of dispatch_event that has its name
    newest,       \* the event is of the device that is first in the list of devices
    due, got,     \* history: clients listed when the walk began, how often each was sent to
    upset,        \* history: what happened to the list during the walk
    stranded      \* history: windows whose clients another call than XPending
                  \* read of, which no select reports

xserver == <<windows, up, requests, wire>>
xlib    == <<dpy, xqueue>>
list    == <<client_list, client_iter, citer>>
hist    == <<newest, due, got, upset, stranded>>
vars    == <<xserver, xlib, pc, list, hist>>

Listed == ToSet(client_list)

Init ==
    /\ windows = {} /\ up = TRUE /\ dpy = "open"
    /\ requests = <<>> /\ wire = <<>> /\ xqueue = <<>>
    /\ pc = "select"
    /\ client_list = <<>> /\ client_iter = None /\ citer = None
    /\ newest = TRUE /\ due = {} /\ got = [c \in Client |-> 0] /\ upset = {} /\ stranded = {}

first_client == IF client_list = <<>> THEN None ELSE Head(client_list)

(* c->next for a client of the list l. *)
After(l, c) ==
    LET k == CHOOSE i \in DOMAIN l : l[i] = c
    IN  IF k = Len(l) THEN None ELSE l[k + 1]

next_client == IF client_iter = None THEN None ELSE After(client_list, client_iter)

App(w) == [type |-> "app", win |-> w]    \* CommandEvent with CMD_APP_WINDOW
Bad(w) == [type |-> "bad", win |-> w]    \* the error BadWindow

Quiet == Len(requests) + Len(wire) + Len(xqueue) < MaxTraffic
-----------------------------------------------------------------------------
(* The X server and its clients. *)

(* A client makes its window and tells the daemon; or tells it once more.  *)
Introduce(w) ==
    /\ up /\ dpy = "open" /\ Quiet
    /\ windows' = windows \cup {w}
    /\ wire' = Append(wire, App(w))
    /\ UNCHANGED <<up, requests, xlib, pc, list, hist>>

Destroy(w) ==
    /\ w \in windows /\ windows' = windows \ {w}
    /\ UNCHANGED <<up, requests, wire, xlib, pc, list, hist>>

(* A request is carried out; an event for a window that is gone is an error. *)
Execute ==
    /\ pc # "undefined"
    /\ up /\ requests # <<>> /\ requests' = Tail(requests)
    /\ wire' = IF Head(requests) \in windows THEN wire ELSE Append(wire, Bad(Head(requests)))
    /\ UNCHANGED <<windows, up, xlib, pc, list, hist>>

ServerEnds ==
    /\ up /\ up' = FALSE /\ windows' = {} /\ requests' = <<>>
    /\ dpy' = IF dpy = "open" THEN "lost" ELSE dpy
    /\ UNCHANGED <<wire, xqueue, pc, list, hist>>

ServerStarts ==
    /\ ~ up /\ up' = TRUE
    /\ UNCHANGED <<windows, requests, wire, xlib, pc, list, hist>>
-----------------------------------------------------------------------------
(* The list of clients.                                                    *)

InWalk == pc \in {"walk", "flush"}
Upset(what) == upset' = IF InWalk THEN upset \cup what ELSE upset

(* The list without some clients, in the order it has.                     *)
Without(gone) ==
    LET kept     == {k \in DOMAIN client_list : client_list[k] \notin gone}
        Place(i) == CHOOSE k \in kept : Cardinality(kept \cap 1..k) = i
    IN  [i \in 1..Cardinality(kept) |-> client_list[Place(i)]]

(* set_client_window: a client is listed once; the search stops at it.     *)
set_client_window(w) ==
    IF w \in Listed
    THEN client_iter' = w /\ UNCHANGED client_list
    ELSE client_iter' = None /\ client_list' = <<w>> \o client_list

(* Mutant of remove_client_window: cnode, already the next, is removed.    *)
RemoveCnode(w) ==
    /\ client_list' = IF w \in Listed THEN Without({After(client_list, w)}) ELSE client_list
    /\ client_iter' = None
    /\ Upset(IF w = citer THEN {"error", "next"} ELSE {"error"})

(* remove_client_window leaves the iterator behind the client it removes.  *)
remove_client_window(w) ==
    /\ client_list' = Without({w})
    /\ client_iter' = IF w \in Listed THEN After(client_list, w) ELSE None
    /\ Upset(IF w = citer THEN {"error", "next"} ELSE {"error"})

(* Mutant of RemoveX11Clients: close_x11 only looks after the clients of   *)
(* a display that is open.                                                 *)
RemoveX11ClientsIfOpen ==
    IF dpy = "open" THEN client_list' = Without(X11Client) /\ client_iter' = None
                    ELSE UNCHANGED <<client_list, client_iter>>

(* The end of close_x11, which walks the list with the global iterator.    *)
RemoveX11Clients == client_list' = Without(X11Client) /\ client_iter' = None

close_x11(why) ==
    /\ dpy' = "none" /\ xqueue' = <<>> /\ wire' = <<>> /\ stranded' = {}
    /\ RemoveX11Clients
    /\ Upset({why})

(* xioerr, and its jump to the last setjmp: the end of send_xevent or of   *)
(* handle_xevents.                                                         *)
xioerr == close_x11("lost")
-----------------------------------------------------------------------------
(* The main loop. *)

(* A client of the UNIX socket comes or goes: add_client, remove_client.   *)
UnixClient(s) ==
    /\ pc = "select"
    /\ \/ /\ s \notin Listed /\ client_list' = <<s>> \o client_list
       \/ /\ s \in Listed /\ client_list' = Without({s})
    /\ client_iter' = None
    /\ UNCHANGED <<xserver, xlib, pc, citer, hist>>

(* handle_xevents, if select reported the connection.                      *)
Readable == dpy # "none" /\ (wire # <<>> \/ dpy = "lost")

Wake ==
    /\ pc = "select" /\ Readable /\ pc' = "events"
    /\ UNCHANGED <<xserver, xlib, list, hist>>

(* A device, or a time that is up, wakes the daemon.                       *)
OtherWake ==
    /\ pc = "select" /\ ~ Readable /\ pc' = "devices"
    /\ UNCHANGED <<xserver, xlib, list, hist>>

TurnEnds ==
    /\ pc = "devices" /\ pc' = "select"
    /\ UNCHANGED <<xserver, xlib, list, hist>>

(***************************************************************************)
(* One answer is read: by XPending, by XFlush, or by another call.         *)
(***************************************************************************)
Read ==
    /\ pc \in {"events", "flush", "xcall"} /\ wire # <<>>
    /\ LET m == Head(wire)
       IN  \/ /\ m.type = "bad"
              /\ remove_client_window(m.win)
              /\ UNCHANGED <<xqueue, stranded>>
           \/ /\ m.type = "app"
              /\ xqueue' = Append(xqueue, m.win)
              /\ stranded' = IF pc = "events" THEN stranded ELSE stranded \cup {m.win}
              /\ UNCHANGED <<client_list, client_iter, upset>>
    /\ wire' = Tail(wire)
    /\ UNCHANGED <<windows, up, requests, dpy, pc, citer, newest, due, got>>

(* Mutant of XEvent: if(XPending(dpy)) instead of while(XPending(dpy)).    *)
XEventOnce ==
    /\ pc = "events" /\ wire = <<>> /\ xqueue # <<>>
    /\ set_client_window(Understood[Head(xqueue)]) /\ xqueue' = Tail(xqueue)
    /\ pc' = "devices" /\ stranded' = {}
    /\ UNCHANGED <<xserver, dpy, citer, newest, due, got, upset>>

XEvent ==
    /\ pc = "events" /\ wire = <<>> /\ xqueue # <<>>
    /\ set_client_window(Understood[Head(xqueue)]) /\ xqueue' = Tail(xqueue)
    /\ UNCHANGED <<xserver, dpy, pc, citer, hist>>

(* Nothing is pending; or the connection is gone.                          *)
NoMoreXEvents ==
    /\ pc = "events" /\ wire = <<>>
    /\ \/ /\ dpy # "lost" /\ xqueue = <<>> /\ stranded' = {}
          /\ UNCHANGED <<xlib, wire, client_list, client_iter, upset>>
       \/ dpy = "lost" /\ xqueue = <<>> /\ xioerr
    /\ pc' = "devices"
    /\ UNCHANGED <<windows, up, requests, citer, newest, due, got>>

(* Mutant of Dispatch: the walk goes on where the iterator was left.       *)
DispatchOn ==
    /\ pc = "devices" /\ Quiet
    /\ pc' = "walk"
    /\ citer' = (IF client_iter # None THEN client_iter ELSE first_client)
    /\ client_iter' = citer'
    /\ newest' \in BOOLEAN
    /\ due' = Listed /\ got' = [c \in Client |-> 0] /\ upset' = {}
    /\ UNCHANGED <<xserver, xlib, client_list, stranded>>

(* dispatch_event with an event of a device, which may not be the newest.  *)
Dispatch ==
    /\ pc = "devices" /\ Quiet
    /\ pc' = "walk"
    /\ citer' = first_client /\ client_iter' = first_client
    /\ newest' \in BOOLEAN
    /\ due' = Listed /\ got' = [c \in Client |-> 0] /\ upset' = {}
    /\ UNCHANGED <<xserver, xlib, client_list, stranded>>

(***************************************************************************)
(* One turn of the loop: the next client is asked for before the event is  *)
(* sent to this one, by send_uevent or send_xevent.  No client selects a   *)
(* device (set_client_device is never called): get_client_device answers   *)
(* with the newest, and no client is sent the events of the others.        *)
(***************************************************************************)
Send ==
    /\ pc = "walk" /\ citer \in Listed
    /\ citer' = next_client /\ client_iter' = next_client
    /\ \/ /\ ~ newest
          /\ UNCHANGED <<pc, requests, got>>
       \/ /\ newest /\ (citer \in Socket \/ dpy = "none")
          /\ got' = [got EXCEPT ![citer] = @ + 1]
          /\ UNCHANGED <<pc, requests>>
       \/ /\ newest /\ citer \in X11Client /\ dpy # "none" /\ pc' = "flush"
          /\ got' = [got EXCEPT ![citer] = @ + 1]
          /\ requests' = IF dpy = "open" THEN Append(requests, citer) ELSE requests
    /\ UNCHANGED <<windows, up, wire, xlib, client_list, newest, due, upset, stranded>>

(* The end of XFlush.                                                      *)
Flushed ==
    /\ pc = "flush"
    /\ \/ /\ dpy # "lost" /\ wire = <<>>
          /\ UNCHANGED <<xlib, wire, client_list, client_iter, upset, stranded>>
       \/ dpy = "lost" /\ xioerr
    /\ pc' = "walk"
    /\ UNCHANGED <<windows, up, requests, citer, newest, due, got>>

(* Another event in the same turn of the main loop is the next turn here.  *)
WalkEnds ==
    /\ pc = "walk" /\ citer = None /\ pc' = "select"
    /\ newest' = TRUE /\ due' = {} /\ got' = [c \in Client |-> 0] /\ upset' = {}
    /\ UNCHANGED <<xserver, xlib, list, stranded>>

(* The local names a client that has been freed.                           *)
UseFreed ==
    /\ pc = "walk" /\ citer # None /\ citer \notin Listed
    /\ pc' = "undefined"
    /\ UNCHANGED <<xserver, xlib, list, hist>>

(***************************************************************************)
(* drop_xinput for a new device, or a key of the keyboard emulation, which *)
(* may be sent to the window that has the focus: calls of Xlib that read   *)
(* what there is, outside of all frames a jump of xioerr may go to.        *)
(***************************************************************************)
OtherXCall ==
    /\ pc = "devices" /\ dpy # "none" /\ pc' = "xcall"
    /\ \/ UNCHANGED requests
       \/ \E w \in windows : Quiet /\ dpy = "open" /\ requests' = Append(requests, w)
    /\ UNCHANGED <<windows, up, wire, xlib, list, hist>>

(* What else there is in the same turn of the main loop is the next turn here. *)
XCallEnds ==
    /\ pc = "xcall" /\ wire = <<>>
    /\ \/ dpy # "lost" /\ pc' = "select" /\ UNCHANGED upset
       \/ dpy = "lost" /\ pc' = "undefined" /\ upset' = {"jump"}
    /\ UNCHANGED <<xserver, xlib, list, newest, due, got, stranded>>

(* SIGUSR2 calls close_x11 wherever the daemon is: between two calls of     *)
(* Xlib, or inside one, which goes on with the display that was closed.    *)
SigUsr2 ==
    /\ dpy # "none"
    /\ \/ /\ pc \in {"select", "devices", "walk"}
          /\ close_x11("signal") /\ requests' = <<>>
          /\ UNCHANGED pc
       \/ /\ pc \in {"events", "flush", "xcall"}
          /\ pc' = "undefined" /\ upset' = {"signal"}
          /\ UNCHANGED <<requests, wire, xlib, client_list, client_iter, stranded>>
    /\ UNCHANGED <<windows, up, citer, newest, due, got>>

(* init_x11, after SIGUSR1 or when the server was detected.  A client that *)
(* introduces itself at once is read of by drop_xinput, its last call.     *)
init_x11 ==
    /\ pc \in {"select", "devices", "walk"} /\ dpy = "none" /\ up /\ dpy' = "open"
    /\ \/ UNCHANGED <<windows, xqueue, stranded>>
       \/ \E w \in Window :
              /\ Quiet /\ windows' = windows \cup {w}
              /\ xqueue' = Append(xqueue, w) /\ stranded' = stranded \cup {w}
    /\ UNCHANGED <<up, requests, wire, pc, list, newest, due, got, upset>>

Daemon == Wake \/ Read \/ XEvent \/ NoMoreXEvents \/ Send \/ Flushed \/ WalkEnds \/ UseFreed
          \/ TurnEnds \/ XCallEnds

(* Where anything may happen nothing more is asked.                        *)
World == /\ pc # "undefined"
         /\ \/ \E w \in Window : Introduce(w) \/ Destroy(w)
            \/ ServerEnds \/ ServerStarts
            \/ \E s \in Socket : UnixClient(s)
            \/ OtherWake \/ Dispatch \/ OtherXCall \/ SigUsr2 \/ init_x11

Next == Daemon \/ Execute \/ World

Spec == Init /\ [][Next]_vars

(* The daemon has one thread; the X server carries requests out.           *)
FairSpec == Spec /\ WF_vars(Daemon) /\ WF_vars(Execute)
-----------------------------------------------------------------------------
(***************************************************************************)
(* "adds a new X11 client to the list, IF it does not already exist"       *)
(* (proto_x11.c:313), and the types of the variables.                      *)
(***************************************************************************)
TypeOK ==
    /\ windows \subseteq Window /\ up \in BOOLEAN
    /\ dpy \in {"none", "open", "lost"}
    /\ requests \in Seq(X11Client) /\ xqueue \in Seq(Window)
    /\ pc \in {"select", "events", "devices", "walk", "flush", "xcall", "undefined"}
    /\ client_list \in Seq(Client) /\ IsInjective(client_list)
    /\ client_iter \in Listed \cup {None} /\ citer \in Client \cup {None}
    /\ newest \in BOOLEAN

(***************************************************************************)
(* At the end of the walk of dispatch_event every client that was listed   *)
(* when it began has been sent the event once, if it is of the newest      *)
(* device, and none if it is of another (event.c:457-463), unless the list *)
(* changed under the walk: an X error, the end of the server, SIGUSR2.     *)
(***************************************************************************)
EventsReachAll ==
    pc = "walk" /\ citer = None /\ upset = {} =>
        \A c \in due : got[c] = IF newest THEN 1 ELSE 0

(***************************************************************************)
(* The walk uses a client that has been freed only if the very next client *)
(* was removed by an X error, or all X11 clients were; the loss of the     *)
(* server is harmful otherwise only outside of send_xevent and             *)
(* handle_xevents.                                                         *)
(***************************************************************************)
HarmHasCause ==
    pc = "undefined" => upset \cap {"next", "lost", "signal", "jump"} # {}

(* Without a connection there are no X11 clients: a later server may give  *)
(* the same number to a window of its own.                                 *)
NoClientsOfNoServer ==
    dpy = "none" => Listed \cap X11Client = {}

(* A client whose window is gone is removed after an event was sent to it. *)
GoneWindowsRemoved ==
    \A w \in X11Client :
        (\E k \in DOMAIN wire : wire[k] = Bad(w)) /\ w \in Listed ~>
            w \notin Listed \/ pc = "undefined"

(* A client that introduces itself is listed, unless another call than     *)
(* XPending reads what it sent, or its id is understood as another.        *)
IntroductionsHandled ==
    \A w \in Window :
        Understood[w] = w /\ (\E k \in DOMAIN wire : wire[k] = App(w)) ~>
            w \in Listed \/ w \in stranded \/ dpy # "open" \/ pc = "undefined"

(* "adds a new X11 client to the list" (proto_x11.c:313): whatever its id. *)
WindowsListed ==
    \A w \in Window :
        (\E k \in DOMAIN wire : wire[k] = App(w)) ~>
            w \in Listed \/ w \in stranded \/ dpy # "open" \/ pc = "undefined"

(* "process any pending X events" (proto_x11.c:278): also those that other *)
(* calls than XPending read.                                               *)
NoEventStranded ==
    \A w \in Window : w \in stranded ~> w \notin stranded \/ pc = "undefined"

(***************************************************************************)
(* "process_input processes an device input event, and dispatches spacenav *)
(* events to the clients by calling dispatch_event" (event.c:192): a       *)
(* client that stays is sent every event of the newest device, whatever    *)
(* the others do.                                                          *)
(***************************************************************************)
AllClientsServed ==
    pc = "walk" /\ citer = None /\ newest /\ "lost" \notin upset /\ "signal" \notin upset =>
        \A c \in due \cap Listed : got[c] >= 1

(* No client is listed twice, and none without a server.                   *)
ListedClientsExist == TypeOK /\ NoClientsOfNoServer

(* What the server answers and what programs send reaches the list.        *)
MessagesHandled == GoneWindowsRemoved /\ IntroductionsHandled
=============================================================================
