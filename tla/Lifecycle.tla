------------------------------ MODULE Lifecycle ------------------------------
(***************************************************************************)
(* Daemons that start, serve, stop and crash (main and cleanup of          *)
(* spnavd.c, init_unix and close_unix of proto_unix.c), and what they      *)
(* leave in the file system for each other: the pid file and the socket.   *)
(*                                                                         *)
(* A start looks for a running daemon, and only later, when the devices    *)
(* are open, has a socket by which it is found itself.  Nothing holds a    *)
(* second start off meanwhile, nor during the end of a daemon.             *)
(*                                                                         *)
(* Any of the system calls may fail.  The daemon looks at few of the       *)
(* results, and goes on whatever they are.                                 *)
(***************************************************************************)
EXTENDS Naturals, FiniteSets

CONSTANTS Proc,             \* processes, each the run of one daemon
          None,             \* no file
          DefaultPath,      \* SOCK_NAME
          OtherPaths,       \* paths the option "socket" may name
          MaxFailures       \* bound on the calls after which no more fail

ASSUME LifecycleAssumption ==
    /\ None \notin Proc /\ DefaultPath \notin OtherPaths /\ MaxFailures \in Nat

Path == {DefaultPath} \cup OtherPaths

VARIABLES
    pc,         \* of each process; see Stages
    pidfile,    \* the process the pid file names, or None
    socket,     \* for each path, the process that bound the socket there, or None
    cfgpath,    \* cfg.sockpath of each process; the default path if it is empty
    bound,      \* the path a process chose when it started: sockpath
    open,       \* processes with a listening socket
    beside,     \* history: how a process came to run beside another one
    moved,      \* history: processes whose cfg.sockpath changed while they ran
    failed      \* history: the calls of each process that failed

files == <<pidfile, socket>>
vars  == <<pc, files, cfgpath, bound, open, beside, moved, failed>>

(* What a process calls for: to find a running daemon, to write the pid    *)
(* file, which may turn out to be no path for one, to get its socket, and  *)
(* to remove its files.                                                    *)
Call == {"look", "pidfile", "path", "socket", "remove"}

Early  == {"write", "devices", "unlink", "bind", "listen"}
Ending == {"close", "off"}
Stages == {"look", "connect", "x11", "loop", "gone", "stopped"} \cup Early \cup Ending

Init ==
    /\ pc = [p \in Proc |-> "look"]
    /\ pidfile = None /\ socket = [f \in Path |-> None]
    /\ cfgpath = [p \in Proc |-> DefaultPath] /\ bound = cfgpath
    /\ open = {}
    /\ beside = [p \in Proc |-> {}] /\ moved = {} /\ failed = beside

\* Processes that are past find_running_daemon and not gone.
Running == {p \in Proc : pc[p] \in Early \cup Ending \cup {"x11", "loop"}}

At(p, stage) == pc[p] = stage
To(p, stage) == pc' = [pc EXCEPT ![p] = stage]

\* Calls of p fail in one step.
Fail(p, calls) ==
    /\ Cardinality({f \in Proc \X Call : f[2] \in failed[f[1]]}) < MaxFailures
    /\ failed' = [failed EXCEPT ![p] = @ \cup calls]
-----------------------------------------------------------------------------
(* find_running_daemon: there is a pid file, and the default socket        *)
(* answers.                                                                *)

Answers(f) == socket[f] \in open

(***************************************************************************)
(* Why a start does not find p: it is not there yet, listens elsewhere,    *)
(* could not write the pid file or could not get its socket, or another    *)
(* one took its files; or it has closed its socket and is about to end.    *)
(***************************************************************************)
Concealed(p) ==
    \/ pc[p] \in Early
    \/ bound[p] # DefaultPath
    \/ pidfile = None /\ failed[p] \cap {"pidfile", "path"} # {}
    \/ p \notin open /\ "socket" \in failed[p]
    \/ beside[p] # {}

Hidden(p) == IF pc[p] \in Ending /\ p \notin open THEN {"stopping"}
             ELSE IF Concealed(p) THEN {"hidden"} ELSE {}

\* q takes itself for the only one; why are its own reasons to see nobody.
Pass(q, why) ==
    /\ To(q, "write")
    /\ beside' = [p \in Proc |->
           IF p = q THEN UNION {Hidden(r) \cup why : r \in Running}
           ELSE IF p \in Running THEN beside[p] \cup Hidden(p) \cup why ELSE beside[p]]

(* Mutant of Look: every pid file is taken for a stale one.                *)
LookNever(q) ==
    /\ At(q, "look") /\ Pass(q, {})
    /\ UNCHANGED <<files, cfgpath, bound, open, moved, failed>>

(* The pid file cannot be read, although it is there.                      *)
Look(q) ==
    /\ At(q, "look")
    /\ \/ pidfile = None /\ Pass(q, {}) /\ UNCHANGED failed
       \/ pidfile # None /\ To(q, "connect") /\ UNCHANGED <<beside, failed>>
       \/ pidfile # None /\ Pass(q, {"hidden"}) /\ Fail(q, {"look"})
    /\ UNCHANGED <<files, cfgpath, bound, open, moved>>

(* Whatever connect or socket itself fail for, it is a stale pid file.     *)
ConnectDaemon(q) ==
    /\ At(q, "connect")
    /\ \/ Answers(DefaultPath) /\ To(q, "gone") /\ UNCHANGED <<beside, failed>>
       \/ ~ Answers(DefaultPath) /\ Pass(q, {}) /\ UNCHANGED failed
       \/ Answers(DefaultPath) /\ Pass(q, {"hidden"}) /\ Fail(q, {"look"})
    /\ UNCHANGED <<files, cfgpath, bound, open, moved>>
-----------------------------------------------------------------------------
(* The rest of main up to its loop. *)

(***************************************************************************)
(* write_pid_file, whose result nobody looks at: what is at the path is no *)
(* regular file, which is left alone from then on; the file cannot be      *)
(* opened; it is emptied, and the pid not written.                         *)
(***************************************************************************)
WritePidFile(p) ==
    /\ At(p, "write") /\ To(p, "devices")
    /\ \/ pidfile' = p /\ UNCHANGED failed
       \/ pidfile = None /\ UNCHANGED pidfile /\ Fail(p, {"path"})
       \/ pidfile' \in {pidfile, None} /\ Fail(p, {"pidfile"})
    /\ UNCHANGED <<socket, cfgpath, bound, open, beside, moved>>

(* read_cfg, init_devices and init_hotplug, which may take seconds.  What  *)
(* is configured when they end is the path that init_unix chooses.         *)
InitDevices(p) ==
    /\ At(p, "devices") /\ To(p, "unlink")
    /\ \E f \in Path : cfgpath' = [cfgpath EXCEPT ![p] = f] /\ bound' = [bound EXCEPT ![p] = f]
    /\ UNCHANGED <<files, open, beside, moved, failed>>

(* Mutant of InitUnix: the file is left where it is.                       *)
InitUnixNoUnlink(p) ==
    /\ At(p, "unlink") /\ To(p, "bind")
    /\ UNCHANGED <<files, cfgpath, bound, open, beside, moved, failed>>

(***************************************************************************)
(* init_unix: the default socket is removed, whatever the path.  Where any *)
(* call but that one fails, the daemon goes on without a socket.           *)
(***************************************************************************)
InitUnix(p) ==
    /\ At(p, "unlink")
    /\ \/ /\ To(p, "bind")
          /\ socket' = [socket EXCEPT ![DefaultPath] = None] /\ UNCHANGED failed
       \/ To(p, "bind") /\ UNCHANGED socket /\ Fail(p, {"socket"})
       \/ To(p, "x11") /\ UNCHANGED socket /\ Fail(p, {"socket"})
    /\ UNCHANGED <<pidfile, cfgpath, bound, open, beside, moved>>

(* bind fails where there is a file, and for other reasons.                *)
Bind(p) ==
    /\ At(p, "bind")
    /\ \/ /\ socket[bound[p]] = None /\ To(p, "listen")
          /\ socket' = [socket EXCEPT ![bound[p]] = p] /\ UNCHANGED failed
       \/ socket[bound[p]] # None /\ To(p, "x11") /\ UNCHANGED <<socket, failed>>
       \/ socket[bound[p]] = None /\ To(p, "x11") /\ UNCHANGED socket /\ Fail(p, {"socket"})
    /\ UNCHANGED <<pidfile, cfgpath, bound, open, beside, moved>>

(* Where listen fails, the file is removed, if it can be.                  *)
Listen(p) ==
    /\ At(p, "listen") /\ To(p, "x11")
    /\ \/ open' = open \cup {p} /\ UNCHANGED <<socket, failed>>
       \/ /\ UNCHANGED open
          /\ \/ socket' = [socket EXCEPT ![bound[p]] = None] /\ Fail(p, {"socket"})
             \/ UNCHANGED socket /\ Fail(p, {"socket", "remove"})
    /\ UNCHANGED <<pidfile, cfgpath, bound, beside, moved>>

(* init_x11, kbemu_init and atexit(cleanup).                               *)
EnterLoop(p) ==
    /\ At(p, "x11") /\ To(p, "loop")
    /\ UNCHANGED <<files, cfgpath, bound, open, beside, moved, failed>>
-----------------------------------------------------------------------------
(* The loop, and the end. *)

(* REQ_SCFG_SOCKET, or a SIGHUP after the file was changed.                *)
SetSocket(p) ==
    /\ At(p, "loop")
    /\ \E f \in Path \ {cfgpath[p]} : cfgpath' = [cfgpath EXCEPT ![p] = f]
    /\ moved' = moved \cup {p}
    /\ UNCHANGED <<pc, files, bound, open, beside, failed>>

(* SIGTERM or SIGINT: cleanup runs if the loop was reached.  Before, as by *)
(* any way to die at once, the socket closes and the files stay.  What is  *)
(* remembered of the process goes with it.                                 *)
Terminate(p) ==
    /\ At(p, "loop") /\ To(p, "close")
    /\ UNCHANGED <<files, cfgpath, bound, open, beside, moved, failed>>

Die(p) ==
    /\ p \in Running /\ To(p, "gone")
    /\ open' = open \ {p} /\ moved' = moved \ {p}
    /\ beside' = [beside EXCEPT ![p] = {}]
    /\ UNCHANGED <<files, cfgpath, bound, failed>>

(* Mutant of sockpath: the default socket is the one to remove.            *)
SockpathDefault(p) == DefaultPath

(***************************************************************************)
(* The global sockpath at the end: it points into cfg if a path was        *)
(* configured at the start, and an empty one names no file.                *)
(***************************************************************************)
sockpath(p) ==
    IF bound[p] = DefaultPath THEN DefaultPath
    ELSE IF cfgpath[p] = DefaultPath THEN None ELSE cfgpath[p]

(* close_unix, after close_x11.                                            *)
CloseUnix(p) ==
    /\ At(p, "close") /\ To(p, "off")
    /\ open' = open \ {p}
    /\ \/ /\ socket' = [f \in Path |->
                 IF p \in open /\ f = sockpath(p) THEN None ELSE socket[f]]
          /\ UNCHANGED failed
       \/ p \in open /\ UNCHANGED socket /\ Fail(p, {"remove"})
    /\ UNCHANGED <<pidfile, cfgpath, bound, beside, moved>>

(* When the devices are off, the pid file goes, whoever wrote it.  A path  *)
(* that was given up is left alone.                                        *)
RemovePidFile(p) ==
    /\ At(p, "off") /\ To(p, "stopped")
    /\ \/ "path" \notin failed[p] /\ pidfile' = None /\ UNCHANGED failed
       \/ "path" \in failed[p] /\ UNCHANGED <<pidfile, failed>>
       \/ "path" \notin failed[p] /\ UNCHANGED pidfile /\ Fail(p, {"remove"})
    /\ UNCHANGED <<socket, cfgpath, bound, open, beside, moved>>

Step(p) == \/ Look(p) \/ ConnectDaemon(p) \/ WritePidFile(p) \/ InitDevices(p)
           \/ InitUnix(p) \/ Bind(p) \/ Listen(p) \/ EnterLoop(p)
           \/ CloseUnix(p) \/ RemovePidFile(p)

Next == \E p \in Proc : Step(p) \/ SetSocket(p) \/ Terminate(p) \/ Die(p)

Spec == Init /\ [][Next]_vars
-----------------------------------------------------------------------------
TypeOK ==
    /\ pc \in [Proc -> Stages]
    /\ pidfile \in Proc \cup {None} /\ socket \in [Path -> Proc \cup {None}]
    /\ cfgpath \in [Proc -> Path] /\ bound \in [Proc -> Path]
    /\ open \subseteq Running /\ moved \subseteq Proc
    /\ beside \in [Proc -> SUBSET {"stopping", "hidden"}] /\ failed \in [Proc -> SUBSET Call]

(***************************************************************************)
(* "Spacenav daemon already running (pid: %d). Aborting." (spnavd.c:149).  *)
(* Two daemons run at a time only if one of them was still starting or     *)
(* already stopping when the other looked, if it listens at a configured   *)
(* path or had failed to write the pid file or to get a socket, if the     *)
(* other could not look, or if it had lost its files that way before.      *)
(***************************************************************************)
OneDaemon ==
    \A p, q \in Running : p # q => beside[p] \cup beside[q] # {}

(***************************************************************************)
(* A daemon in its loop is the one that clients reach at its path, except  *)
(* beside another one (only one that was stopping does no harm), or        *)
(* without a socket: at a configured path, where one that a crash left     *)
(* behind is not removed, or after a call for it failed.                   *)
(***************************************************************************)
Reachable ==
    \A p \in Proc : At(p, "loop") =>
        \/ p \in open /\ socket[bound[p]] = p
        \/ beside[p] \ {"stopping"} # {}
        \/ p \notin open /\ (bound[p] # DefaultPath \/ "socket" \in failed[p])

(***************************************************************************)
(* A daemon that went through cleanup leaves neither its socket nor its    *)
(* pid file, whatever ran beside it, unless the configured path was        *)
(* changed under it or a file could not be removed.                        *)
(***************************************************************************)
NothingLeft ==
    \A p \in Proc : At(p, "stopped") /\ p \notin moved /\ "remove" \notin failed[p] =>
        pidfile # p /\ \A f \in Path : socket[f] # p

(***************************************************************************)
(* "in case it already exists" (proto_unix.c:63): a daemon that is alone   *)
(* gets its socket, also after a crash, where no call fails.               *)
(***************************************************************************)
AloneServes ==
    \A p \in Proc : At(p, "loop") /\ beside[p] = {} /\ failed[p] = {} => p \in open

(* The files belong to processes, and to one daemon at a time.             *)
OneAtATime == TypeOK /\ OneDaemon
=============================================================================
