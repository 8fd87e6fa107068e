---------------------------- MODULE FilesProofs ----------------------------
(***************************************************************************)
(* What is proved of the files the daemon leaves behind: of Lifecycle, its *)
(* socket and pid file, for any number of daemons and paths, and of        *)
(* ConfigFile, its configuration file, for any text that is read and any   *)
(* values that are set.                                                    *)
(***************************************************************************)
EXTENDS Lifecycle, ConfigFile, SequenceTheorems, WellFoundedInduction, TLAPS

(* A daemon that nothing hid from another one, or another one from it, is  *)
(* the only one that runs.                                                 *)
Alone ==
    \A p, q \in Running : beside[p] = {} => q = p

(* A daemon that is not ending, and ran beside ending ones only, runs      *)
(* beside daemons that have closed their sockets.                          *)
BesideEnding ==
    \A p, q \in Running :
        pc[p] \notin Ending /\ beside[p] \subseteq {"stopping"} /\ q # p
            => pc[q] \in Ending /\ q \notin open

(* The pid file names a daemon that is alone, if it could be written.      *)
PidFileNamesAlone ==
    \A p \in Running : beside[p] = {} /\ pc[p] # "write" =>
        pidfile = p \/ failed[p] \cap {"pidfile", "path"} # {}

(* What a daemon that ran beside ending ones only has at its path.         *)
Served(p) ==
    /\ pc[p] = "bind" /\ bound[p] = DefaultPath =>
           socket[DefaultPath] = None \/ "socket" \in failed[p]
    /\ pc[p] = "listen" => socket[bound[p]] = p
    /\ pc[p] \in {"x11", "loop"} =>
           /\ p \in open => socket[bound[p]] = p
           /\ bound[p] = DefaultPath => p \in open \/ "socket" \in failed[p]
    /\ pc[p] = "close" /\ beside[p] = {} /\ bound[p] = DefaultPath =>
           \/ socket[DefaultPath] = p /\ p \in open
           \/ p \notin open /\ "socket" \in failed[p]

PathIsServed ==
    \A p \in Running : beside[p] \subseteq {"stopping"} => Served(p)

(* Who owns a socket bound it at its path, and has it open until it ends,  *)
(* unless it could not remove it.                                          *)
SocketsAreOwned ==
    \A p \in Proc, f \in Path : socket[f] = p =>
        /\ f = bound[p]
        /\ \/ pc[p] \in {"listen", "gone", "stopped"} \cup Ending
           \/ pc[p] \in {"x11", "loop"} /\ (p \in open \/ "remove" \in failed[p])
        /\ pc[p] = "close" => p \in open \/ "remove" \in failed[p]
        /\ pc[p] \in {"off", "stopped"} => p \in moved \/ "remove" \in failed[p]

(* The path that close_unix removes is the one that was bound.             *)
PathsAgree ==
    /\ \A p \in Proc \ moved : pc[p] = "gone" \/ cfgpath[p] = bound[p]
    /\ \A p \in open : pc[p] \in {"x11", "loop", "close"}
    /\ \A p \in moved : pc[p] \in {"loop", "stopped"} \cup Ending

(* The pid file of a daemon that has removed it names another one, and so  *)
(* it does where a daemon found no path for it.                            *)
PidFileRemoved ==
    /\ \A p \in Proc : pc[p] \in {"look", "connect", "write"} =>
           pidfile # p /\ "path" \notin failed[p]
    /\ \A p \in Proc : pc[p] = "stopped" => pidfile # p \/ "remove" \in failed[p]
    /\ \A p \in Proc : "path" \in failed[p] => pidfile # p

IInv == /\ TypeOK /\ Alone /\ BesideEnding /\ PidFileNamesAlone /\ PathIsServed
        /\ SocketsAreOwned /\ PathsAgree /\ PidFileRemoved
-----------------------------------------------------------------------------
(* How one step moves a process from one stage to another. *)

LEMMA Moves ==
    ASSUME TypeOK, NEW p \in Proc, NEW s \in Stages, To(p, s)
    PROVE  /\ pc' \in [Proc -> Stages] /\ pc'[p] = s
           /\ \A r \in Proc : r # p => pc'[r] = pc[r]
           /\ \A r \in Proc : r # p => (r \in Running' <=> r \in Running)
           /\ p \in Running' <=> s \in Early \cup Ending \cup {"x11", "loop"}
           /\ Running' \subseteq Proc
  <1>1. pc' \in [Proc -> Stages] /\ pc'[p] = s /\ \A r \in Proc : r # p => pc'[r] = pc[r]
    BY DEF TypeOK, To
  <1>2. Running' = {r \in Proc : pc'[r] \in Early \cup Ending \cup {"x11", "loop"}}
    BY DEF Running, Early, Ending
  <1> HIDE DEF To
  <1> QED  BY <1>1, <1>2 DEF Running, Early, Ending

(* Beside a daemon that is not ending, the others that may say how they    *)
(* are reached are ending ones.                                            *)
LEMMA OthersEnd ==
    ASSUME Alone, BesideEnding, NEW p \in Running, pc[p] \notin Ending,
           NEW r \in Running, r # p, beside[r] \subseteq {"stopping"}
    PROVE  pc[r] \in Ending /\ beside[r] # {}
  BY DEF Alone, BesideEnding

(* A daemon that a start cannot see for no reason is seen by it: there is  *)
(* a pid file, and the default socket answers.                             *)
LEMMA NothingHides ==
    ASSUME IInv, NEW p \in Running, Hidden(p) = {}
    PROVE  pidfile # None /\ Answers(DefaultPath)
  <1> USE DEF IInv
  <1>1. ~ Concealed(p) /\ (pc[p] \in Ending => p \in open)
    BY DEF Hidden
  <1>2. pc[p] \notin Early /\ bound[p] = DefaultPath /\ beside[p] = {}
    BY <1>1 DEF Concealed
  <1>3. pidfile # None
    BY <1>1, <1>2, LifecycleAssumption DEF PidFileNamesAlone, Early, Concealed, Running
  <1>4. pc[p] \in {"x11", "loop", "close"}
    BY <1>1, <1>2 DEF Running, Ending, PathsAgree
  <1>5. Served(p)
    BY <1>2 DEF PathIsServed
  <1>6. p \in open /\ socket[DefaultPath] = p
    BY <1>1, <1>2, <1>4, <1>5 DEF Served, Concealed
  <1> QED  BY <1>3, <1>6 DEF Answers

(* A daemon hidden only because it is stopping has closed its socket.      *)
LEMMA OnlyStopping ==
    ASSUME NEW p \in Running, Hidden(p) \subseteq {"stopping"}, Hidden(p) # {}
    PROVE  pc[p] \in Ending /\ p \notin open
  BY DEF Hidden

LEMMA HiddenType ==
    ASSUME NEW p \in Running
    PROVE  Hidden(p) \subseteq {"stopping", "hidden"}
  BY DEF Hidden

(* A start that does not find a running daemon, because each one is hidden *)
(* from it or because it cannot look.                                      *)
LEMMA PassIInv ==
    ASSUME IInv, NEW q \in Proc, pc[q] \in {"look", "connect"},
           NEW why \in {{}, {"hidden"}}, Pass(q, why),
           \A r \in Running : Hidden(r) \cup why # {},
           UNCHANGED <<files, cfgpath, bound, open, moved>>,
           failed' \in [Proc -> SUBSET Call],
           \A r \in Running : failed'[r] = failed[r],
           \A r \in Proc : "remove" \in failed[r] => "remove" \in failed'[r],
           \A r \in Proc : "path" \in failed'[r] => "path" \in failed[r]
    PROVE  IInv'
  <1> USE DEF IInv
  <1>1. q \notin Running
    BY DEF Running, Early, Ending
  <1>2. /\ pc' \in [Proc -> Stages] /\ pc'[q] = "write"
        /\ \A r \in Proc : r # q => pc'[r] = pc[r]
        /\ \A r \in Proc : r # q => (r \in Running' <=> r \in Running)
        /\ q \in Running' /\ Running' \subseteq Proc
    <2>1. "write" \in Stages /\ "write" \in Early
      BY DEF Stages, Early
    <2> QED  BY <2>1, Moves DEF Pass
  <1>3. /\ beside' \in [Proc -> SUBSET {"stopping", "hidden"}]
        /\ beside'[q] = UNION {Hidden(r) \cup why : r \in Running}
        /\ \A r \in Running : beside'[r] = beside[r] \cup Hidden(r) \cup why
    <2>1. beside' = [p \in Proc |->
             IF p = q THEN UNION {Hidden(r) \cup why : r \in Running}
             ELSE IF p \in Running THEN beside[p] \cup Hidden(p) \cup why ELSE beside[p]]
      BY DEF Pass
    <2>2. \A r \in Running : Hidden(r) \cup why \subseteq {"stopping", "hidden"}
      BY HiddenType
    <2>2a. UNION {Hidden(r) \cup why : r \in Running} \subseteq {"stopping", "hidden"}
      BY <2>2, Zenon
    <2>3. Running \subseteq Proc
      BY DEF Running
    <2> QED  BY <1>1, <2>1, <2>2, <2>2a, <2>3 DEF TypeOK
  <1>4. \A r \in Running : beside'[r] # {} /\ (Hidden(r) \cup why) \subseteq beside'[q]
    <2> SUFFICES ASSUME NEW r \in Running
                 PROVE  beside'[r] # {} /\ (Hidden(r) \cup why) \subseteq beside'[q]
      OBVIOUS
    <2>1. beside'[r] # {}
      BY <1>3
    <2>2. (Hidden(r) \cup why) \subseteq beside'[q]
      <3>1. (Hidden(r) \cup why) \in {Hidden(u) \cup why : u \in Running}
        OBVIOUS
      <3>2. beside'[q] = UNION {Hidden(u) \cup why : u \in Running}
        BY <1>3
      <3> QED  BY <3>1, <3>2, Zenon
    <2> QED  BY <2>1, <2>2
  <1>5. \A r \in Running' : r = q \/ r \in Running
    BY <1>2
  <1>6. /\ pidfile' = pidfile /\ socket' = socket /\ cfgpath' = cfgpath /\ bound' = bound
        /\ open' = open /\ moved' = moved
    BY DEF files
  <1>7. q \notin open
    BY <1>1 DEF TypeOK
  <1>8. TypeOK'
    <2>1. open' \subseteq Running'
      BY <1>2, <1>6, <1>7 DEF TypeOK, Running
    <2> QED  BY <1>2, <1>3, <1>6, <2>1 DEF TypeOK
  <1>9. Alone'
    BY <1>4, <1>5 DEF Alone
  <1>10. BesideEnding'
    <2> SUFFICES ASSUME NEW p \in Running', NEW r \in Running', pc'[p] \notin Ending,
                        beside'[p] \subseteq {"stopping"}, r # p
                 PROVE  pc'[r] \in Ending /\ r \notin open'
      BY DEF BesideEnding, Ending
    <2>1. CASE p = q
      <3>1. r \in Running
        BY <1>5, <2>1
      <3>2. Hidden(r) \subseteq {"stopping"} /\ Hidden(r) # {}
        BY <1>4, <2>1, <3>1
      <3>3. pc[r] \in Ending /\ r \notin open
        BY <3>1, <3>2, OnlyStopping
      <3> QED  BY <1>2, <1>6, <2>1, <3>1, <3>3
    <2>2. CASE p # q
      <3>1. p \in Running /\ pc'[p] = pc[p]
        BY <1>2, <1>5, <2>2
      <3>2. Hidden(p) \subseteq {"stopping"} /\ Hidden(p) # {}
        BY <1>3, <3>1
      <3> QED  BY <3>1, <3>2, OnlyStopping
    <2> QED  BY <2>1, <2>2
  <1>11. PidFileNamesAlone'
    BY <1>2, <1>4, <1>5 DEF PidFileNamesAlone
  <1>12. PathIsServed'
    <2> SUFFICES ASSUME NEW p \in Running', beside'[p] \subseteq {"stopping"}
                 PROVE  Served(p)'
      BY DEF PathIsServed
    <2>1. CASE p = q
      BY <1>2, <2>1 DEF Served
    <2>2. CASE p # q
      <3>1. p \in Running /\ pc'[p] = pc[p] /\ beside'[p] # {}
        BY <1>2, <1>4, <1>5, <2>2
      <3>2. beside'[p] = beside[p] \cup Hidden(p) \cup why
        BY <1>3, <3>1
      <3>2a. beside[p] \subseteq {"stopping"}
        BY <3>2, Zenon
      <3>3. Served(p)
        BY <3>1, <3>2a DEF PathIsServed
      <3> QED  BY <1>6, <3>1, <3>3 DEF Served
    <2> QED  BY <2>1, <2>2
  <1>13. SocketsAreOwned'
    <2>1. \A f \in Path : socket[f] # q
      BY DEF SocketsAreOwned, Ending
    <2>2. pc'[q] = "write" /\ \A r \in Proc : r # q => pc'[r] = pc[r]
      BY <1>2
    <2> QED  BY <1>6, <2>1, <2>2 DEF SocketsAreOwned
  <1>14. PathsAgree'
    <2>1. q \notin moved
      BY DEF PathsAgree, Ending
    <2>2. open \subseteq Proc
      BY DEF TypeOK, Running
    <2> QED  BY <1>2, <1>6, <1>7, <2>1, <2>2 DEF PathsAgree, TypeOK, Ending
  <1>15. PidFileRemoved'
    BY <1>2, <1>6 DEF PidFileRemoved
  <1> QED  BY <1>8, <1>9, <1>10, <1>11, <1>12, <1>13, <1>14, <1>15
(* A step of a process that is not a daemon, before it is one or instead.  *)
LEMMA IdleIInv ==
    ASSUME IInv, NEW p \in Proc, NEW s \in {"connect", "gone"}, To(p, s),
           pc[p] \in {"look", "connect"},
           UNCHANGED <<files, cfgpath, bound, open, beside, moved, failed>>
    PROVE  IInv'
  <1> USE DEF IInv
  <1>1. /\ Running' = Running /\ p \notin Running /\ pc'[p] = s
        /\ pc' \in [Proc -> Stages] /\ \A r \in Proc : r # p => pc'[r] = pc[r]
    BY Moves DEF Running, Early, Ending, Stages
  <1>2. /\ pidfile' = pidfile /\ socket' = socket /\ cfgpath' = cfgpath /\ bound' = bound
        /\ open' = open /\ beside' = beside /\ moved' = moved /\ failed' = failed
    BY DEF files
  <1>3. p \notin open /\ p \notin moved /\ pidfile # p
    BY <1>1 DEF TypeOK, PathsAgree, PidFileRemoved, Ending
  <1>4. \A r \in Running : r # p /\ pc'[r] = pc[r]
    BY <1>1 DEF Running
  <1>5. TypeOK'
    BY <1>1, <1>2 DEF TypeOK
  <1>6. Alone' /\ BesideEnding' /\ PidFileNamesAlone'
    BY <1>1, <1>2, <1>4 DEF Alone, BesideEnding, PidFileNamesAlone, Ending
  <1>7. PathIsServed'
    BY <1>1, <1>2, <1>4 DEF PathIsServed, Served
  <1>8. SocketsAreOwned'
    <2>1. \A f \in Path : socket[f] # p
      BY DEF SocketsAreOwned, Ending
    <2>2. \A r \in Proc : r # p => pc'[r] = pc[r]
      BY <1>1
    <2> QED  BY <1>2, <2>1, <2>2 DEF SocketsAreOwned
  <1>9. PathsAgree' /\ PidFileRemoved'
    BY <1>1, <1>2, <1>3 DEF PathsAgree, PidFileRemoved, TypeOK, Ending, Running
  <1> QED  BY <1>5, <1>6, <1>7, <1>8, <1>9

(* What a step in which calls may fail remembers of them.                  *)
LEMMA Fails ==
    ASSUME TypeOK, NEW p \in Proc, NEW calls \in SUBSET Call, Fail(p, calls)
    PROVE  /\ failed' \in [Proc -> SUBSET Call]
           /\ \A r \in Proc : r # p => failed'[r] = failed[r]
           /\ failed'[p] = failed[p] \cup calls
  BY DEF TypeOK, Fail

(* A start that cannot look.                                               *)
LEMMA BlindIInv ==
    ASSUME IInv, NEW q \in Proc, pc[q] \in {"look", "connect"}, Pass(q, {"hidden"}),
           Fail(q, {"look"}), UNCHANGED <<files, cfgpath, bound, open, moved>>
    PROVE  IInv'
  <1>1. TypeOK /\ {"look"} \in SUBSET Call
    BY DEF IInv, Call
  <1>2. /\ failed' \in [Proc -> SUBSET Call]
        /\ \A r \in Proc : r # q => failed'[r] = failed[r]
        /\ failed'[q] = failed[q] \cup {"look"}
    BY <1>1, Fails
  <1>3. q \notin Running /\ Running \subseteq Proc
    BY DEF Running, Early, Ending
  <1>4. \A r \in Running : failed'[r] = failed[r]
    BY <1>2, <1>3
  <1>5. \A r \in Proc : "remove" \in failed[r] => "remove" \in failed'[r]
    BY <1>2
  <1>5a. \A r \in Proc : "path" \in failed'[r] => "path" \in failed[r]
    BY <1>2
  <1>6. \A r \in Running : Hidden(r) \cup {"hidden"} # {}
    OBVIOUS
  <1> QED  BY <1>2, <1>4, <1>5, <1>5a, <1>6, PassIInv
-----------------------------------------------------------------------------
LEMMA InitIInv == Init => IInv
  <1> SUFFICES ASSUME Init PROVE IInv
    OBVIOUS
  <1> USE LifecycleAssumption DEF Init
  <1>1. Running = {}
    BY DEF Running, Early, Ending
  <1>2. TypeOK
    BY <1>1 DEF TypeOK, Stages, Path
  <1>3. Alone /\ BesideEnding /\ PidFileNamesAlone /\ PathIsServed
    BY <1>1 DEF Alone, BesideEnding, PidFileNamesAlone, PathIsServed
  <1>4. SocketsAreOwned /\ PathsAgree /\ PidFileRemoved
    BY DEF SocketsAreOwned, PathsAgree, PidFileRemoved
  <1> QED  BY <1>2, <1>3, <1>4 DEF IInv


LEMMA NextIInv == IInv /\ [Next]_vars => IInv'
  <1> SUFFICES ASSUME IInv, [Next]_vars PROVE IInv'
    OBVIOUS
  <1> USE LifecycleAssumption DEF IInv, files, At
  <1>0. Running \subseteq Proc /\ open \subseteq Proc
    BY DEF Running, TypeOK
  <1>2. ASSUME NEW p \in Proc, Look(p) PROVE IInv'
    <2>1. CASE pidfile = None /\ Pass(p, {}) /\ UNCHANGED failed
      <3>1. \A r \in Running : Hidden(r) \cup {} # {}
        BY <2>1, NothingHides
      <3> QED  BY <1>2, <2>1, <3>1, PassIInv DEF Look, TypeOK
    <2>2. CASE pidfile # None /\ To(p, "connect") /\ UNCHANGED <<beside, failed>>
      BY <1>2, <2>2, IdleIInv DEF Look
    <2>3. CASE pidfile # None /\ Pass(p, {"hidden"}) /\ Fail(p, {"look"})
      BY <1>2, <2>3, BlindIInv DEF Look
    <2> QED  BY <1>2, <2>1, <2>2, <2>3 DEF Look
  <1>3. ASSUME NEW p \in Proc, ConnectDaemon(p) PROVE IInv'
    <2>1. CASE ~ Answers(DefaultPath) /\ Pass(p, {}) /\ UNCHANGED failed
      <3>1. \A r \in Running : Hidden(r) \cup {} # {}
        BY <2>1, NothingHides
      <3> QED  BY <1>3, <2>1, <3>1, PassIInv DEF ConnectDaemon, TypeOK
    <2>2. CASE Answers(DefaultPath) /\ To(p, "gone") /\ UNCHANGED <<beside, failed>>
      BY <1>3, <2>2, IdleIInv DEF ConnectDaemon
    <2>3. CASE Answers(DefaultPath) /\ Pass(p, {"hidden"}) /\ Fail(p, {"look"})
      BY <1>3, <2>3, BlindIInv DEF ConnectDaemon
    <2> QED  BY <1>3, <2>1, <2>2, <2>3 DEF ConnectDaemon
  <1>4. ASSUME NEW p \in Proc, WritePidFile(p) PROVE IInv'
    <2>00. /\ failed' \in [Proc -> SUBSET Call]
           /\ \A r \in Proc : r # p => failed'[r] = failed[r]
           /\ \/ pidfile' = p /\ failed'[p] = failed[p]
              \/ (pidfile = None /\ UNCHANGED pidfile) /\ failed'[p] = failed[p] \cup {"path"}
              \/ pidfile' \in {pidfile, None} /\ failed'[p] = failed[p] \cup {"pidfile"}
      <3>1. CASE pidfile' = p /\ UNCHANGED failed
        BY <3>1 DEF TypeOK
      <3>2. CASE (pidfile = None /\ UNCHANGED pidfile) /\ Fail(p, {"path"})
        <4>1. {"path"} \in SUBSET Call
          BY DEF Call
        <4> QED  BY <3>2, <4>1, Fails
      <3>3. CASE pidfile' \in {pidfile, None} /\ Fail(p, {"pidfile"})
        <4>1. {"pidfile"} \in SUBSET Call
          BY DEF Call
        <4> QED  BY <3>3, <4>1, Fails
      <3> QED  BY <1>4, <3>1, <3>2, <3>3 DEF WritePidFile
    <2>0. /\ Running' = Running /\ p \in Running /\ pc[p] = "write" /\ pc'[p] = "devices"
          /\ pc' \in [Proc -> Stages] /\ \A r \in Proc : r # p => pc'[r] = pc[r]
      BY <1>4, Moves DEF WritePidFile, Running, Early, Ending, Stages
    <2>1. TypeOK'
      BY <1>4, <2>0, <2>00 DEF TypeOK, WritePidFile
    <2>2. Alone'
      BY <1>0, <1>4, <2>0, <2>00 DEF TypeOK, Alone, WritePidFile, Ending
    <2>3. BesideEnding'
      BY <1>0, <1>4, <2>0, <2>00 DEF TypeOK, BesideEnding, WritePidFile, Ending
    <2>4. PidFileNamesAlone'
      BY <1>0, <1>4, <2>0, <2>00 DEF WritePidFile, PidFileNamesAlone, Alone
    <2>5. PathIsServed'
      <3> SUFFICES ASSUME NEW r \in Running', beside'[r] \subseteq {"stopping"}
                   PROVE  Served(r)'
        BY DEF PathIsServed
      <3>1. CASE r = p
        BY <1>0, <1>4, <2>0, <2>00, <3>1 DEF WritePidFile, TypeOK, PathIsServed, Served, PathsAgree
      <3>2. CASE r # p
        <4>1. pc[r] \in Ending /\ beside[r] # {}
          BY <1>0, <1>4, <2>0, <2>00, <3>2, OthersEnd DEF WritePidFile, Ending, Running
        <4> QED  BY <1>0, <1>4, <2>0, <2>00, <3>2, <4>1 DEF WritePidFile, Served, Ending
      <3> QED  BY <3>1, <3>2
    <2>6. SocketsAreOwned'
      <3>1. \A f \in Path : socket[f] # p
        BY <2>0 DEF SocketsAreOwned, Ending
      <3> QED  BY <1>4, <2>0, <2>00, <3>1 DEF WritePidFile, SocketsAreOwned
    <2>7. PathsAgree'
      BY <1>0, <1>4, <2>0, <2>00 DEF TypeOK, PathsAgree, WritePidFile, Ending
    <2>8. PidFileRemoved'
      BY <1>0, <1>4, <2>0, <2>00 DEF TypeOK, PidFileRemoved, WritePidFile, Ending
    <2> QED  BY <2>1, <2>2, <2>3, <2>4, <2>5, <2>6, <2>7, <2>8
  <1>5. ASSUME NEW p \in Proc, InitDevices(p) PROVE IInv'
    <2>0. /\ Running' = Running /\ p \in Running /\ pc[p] = "devices" /\ pc'[p] = "unlink"
          /\ pc' \in [Proc -> Stages] /\ \A r \in Proc : r # p => pc'[r] = pc[r]
      BY <1>5, Moves DEF InitDevices, Running, Early, Ending, Stages
    <2>1. TypeOK'
      <3>1. PICK f \in Path : cfgpath' = [cfgpath EXCEPT ![p] = f] /\ bound' = [bound EXCEPT ![p] = f]
        BY <1>5 DEF InitDevices
      <3> QED  BY <1>5, <2>0, <3>1 DEF TypeOK, InitDevices
    <2>2. Alone'
      BY <1>0, <1>5, <2>0 DEF TypeOK, Alone, InitDevices, Ending
    <2>3. BesideEnding'
      BY <1>0, <1>5, <2>0 DEF TypeOK, BesideEnding, InitDevices, Ending
    <2>4. PidFileNamesAlone'
      BY <1>0, <1>5, <2>0 DEF TypeOK, PidFileNamesAlone, InitDevices, Ending
    <2>5. PathIsServed'
      <3> SUFFICES ASSUME NEW r \in Running', beside'[r] \subseteq {"stopping"}
                   PROVE  Served(r)'
        BY DEF PathIsServed
      <3>1. CASE r = p
        BY <1>0, <1>5, <2>0, <3>1 DEF InitDevices, TypeOK, PathIsServed, Served, PathsAgree
      <3>2. CASE r # p
        <4>1. pc[r] \in Ending /\ beside[r] # {}
          BY <1>0, <1>5, <2>0, <3>2, OthersEnd DEF InitDevices, Ending, Running
        <4> QED  BY <1>0, <1>5, <2>0, <3>2, <4>1 DEF InitDevices, Served, Ending
      <3> QED  BY <3>1, <3>2
    <2>6. SocketsAreOwned'
      <3>1. \A f \in Path : socket[f] # p
        BY <2>0 DEF SocketsAreOwned, Ending
      <3>2. \A r \in Proc : r # p => bound'[r] = bound[r]
        BY <1>5 DEF InitDevices, TypeOK
      <3> QED  BY <1>5, <2>0, <3>1, <3>2 DEF InitDevices, SocketsAreOwned
    <2>7. PathsAgree'
      BY <1>0, <1>5, <2>0 DEF TypeOK, PathsAgree, InitDevices, Ending
    <2>8. PidFileRemoved'
      BY <1>0, <1>5, <2>0 DEF TypeOK, PidFileRemoved, InitDevices, Ending
    <2> QED  BY <2>1, <2>2, <2>3, <2>4, <2>5, <2>6, <2>7, <2>8
  <1>6. ASSUME NEW p \in Proc, InitUnix(p) PROVE IInv'
    <2>00. /\ failed' \in [Proc -> SUBSET Call]
           /\ \A r \in Proc : r # p => failed'[r] = failed[r]
           /\ \/ (To(p, "bind") /\ socket' = [socket EXCEPT ![DefaultPath] = None]) /\ failed'[p] = failed[p]
              \/ (To(p, "bind") /\ UNCHANGED socket) /\ failed'[p] = failed[p] \cup {"socket"}
              \/ (To(p, "x11") /\ UNCHANGED socket) /\ failed'[p] = failed[p] \cup {"socket"}
      <3>1. CASE (To(p, "bind") /\ socket' = [socket EXCEPT ![DefaultPath] = None]) /\ UNCHANGED failed
        BY <3>1 DEF TypeOK
      <3>2. CASE (To(p, "bind") /\ UNCHANGED socket) /\ Fail(p, {"socket"})
        <4>1. {"socket"} \in SUBSET Call
          BY DEF Call
        <4> QED  BY <3>2, <4>1, Fails
      <3>3. CASE (To(p, "x11") /\ UNCHANGED socket) /\ Fail(p, {"socket"})
        <4>1. {"socket"} \in SUBSET Call
          BY DEF Call
        <4> QED  BY <3>3, <4>1, Fails
      <3> QED  BY <1>6, <3>1, <3>2, <3>3 DEF InitUnix
    <2>01. \A r \in Proc : "path" \in failed'[r] => "path" \in failed[r]
      BY <2>00
    <2>0. /\ Running' = Running /\ p \in Running /\ pc[p] = "unlink" /\ pc'[p] \in {"bind", "x11"}
          /\ pc' \in [Proc -> Stages] /\ \A r \in Proc : r # p => pc'[r] = pc[r]
      BY <1>6, Moves DEF InitUnix, Running, Early, Ending, Stages
    <2>1. TypeOK'
      BY <1>0, <1>6, <2>0, <2>00 DEF TypeOK, InitUnix, Ending
    <2>2. Alone'
      BY <1>0, <1>6, <2>0, <2>00 DEF TypeOK, Alone, InitUnix, Ending
    <2>3. BesideEnding'
      BY <1>0, <1>6, <2>0, <2>00 DEF TypeOK, BesideEnding, InitUnix, Ending
    <2>4. PidFileNamesAlone'
      BY <1>0, <1>6, <2>0, <2>00 DEF TypeOK, PidFileNamesAlone, InitUnix, Ending
    <2>5. PathIsServed'
      <3> SUFFICES ASSUME NEW r \in Running', beside'[r] \subseteq {"stopping"}
                   PROVE  Served(r)'
        BY DEF PathIsServed
      <3>1. CASE r = p
        <4>1. p \notin open
          BY <2>0 DEF PathsAgree
        <4>2. CASE socket' = [socket EXCEPT ![DefaultPath] = None] /\ To(p, "bind")
          <5>1. DefaultPath \in Path
            BY DEF Path
          <5> QED  BY <1>6, <3>1, <4>2, <5>1 DEF InitUnix, To, TypeOK, Served
        <4>3. CASE "socket" \in failed'[p]
          BY <1>6, <2>0, <3>1, <4>1, <4>3 DEF InitUnix, Served
        <4> QED  BY <2>00, <4>2, <4>3
      <3>2. CASE r # p
        <4>1. pc[r] \in Ending /\ beside[r] # {}
          BY <1>0, <1>6, <2>0, <2>00, <3>2, OthersEnd DEF InitUnix, Ending, Running
        <4> QED  BY <1>0, <1>6, <2>0, <2>00, <3>2, <4>1 DEF InitUnix, Served, Ending
      <3> QED  BY <3>1, <3>2
    <2>6. SocketsAreOwned'
      <3>1. \A f \in Path : socket[f] # p
        BY <2>0 DEF SocketsAreOwned, Ending
      <3>2. \A r \in Proc, f \in Path : socket'[f] = r => socket[f] = r
        BY <2>00 DEF TypeOK
      <3> QED  BY <1>6, <2>0, <2>00, <3>1, <3>2 DEF InitUnix, SocketsAreOwned
    <2>7. PathsAgree'
      BY <1>0, <1>6, <2>0, <2>00 DEF TypeOK, PathsAgree, InitUnix, Ending
    <2>8. PidFileRemoved'
      <3>1. \A r \in Proc : r # p => pc'[r] = pc[r] /\ failed'[r] = failed[r]
        BY <2>0, <2>00
      <3> QED  BY <1>6, <2>0, <2>01, <3>1 DEF PidFileRemoved, InitUnix
    <2> QED  BY <2>1, <2>2, <2>3, <2>4, <2>5, <2>6, <2>7, <2>8
  <1>7. ASSUME NEW p \in Proc, Bind(p) PROVE IInv'
    <2>00. /\ failed' \in [Proc -> SUBSET Call]
           /\ \A r \in Proc : r # p => failed'[r] = failed[r]
           /\ \/ (socket[bound[p]] = None /\ To(p, "listen") /\ socket' = [socket EXCEPT ![bound[p]] = p]) /\ failed'[p] = failed[p]
              \/ (socket[bound[p]] # None /\ To(p, "x11") /\ UNCHANGED socket) /\ failed'[p] = failed[p]
              \/ (socket[bound[p]] = None /\ To(p, "x11") /\ UNCHANGED socket) /\ failed'[p] = failed[p] \cup {"socket"}
      <3>1. CASE (socket[bound[p]] = None /\ To(p, "listen") /\ socket' = [socket EXCEPT ![bound[p]] = p]) /\ UNCHANGED failed
        BY <3>1 DEF TypeOK
      <3>2. CASE (socket[bound[p]] # None /\ To(p, "x11") /\ UNCHANGED socket) /\ UNCHANGED failed
        BY <3>2 DEF TypeOK
      <3>3. CASE (socket[bound[p]] = None /\ To(p, "x11") /\ UNCHANGED socket) /\ Fail(p, {"socket"})
        <4>1. {"socket"} \in SUBSET Call
          BY DEF Call
        <4> QED  BY <3>3, <4>1, Fails
      <3> QED  BY <1>7, <3>1, <3>2, <3>3 DEF Bind
    <2>01. \A r \in Proc : "path" \in failed'[r] => "path" \in failed[r]
      BY <2>00
    <2>0. /\ Running' = Running /\ p \in Running /\ pc[p] = "bind" /\ pc'[p] \in {"listen", "x11"}
          /\ pc' \in [Proc -> Stages] /\ \A r \in Proc : r # p => pc'[r] = pc[r]
      BY <1>7, Moves DEF Bind, Running, Early, Ending, Stages
    <2>1. TypeOK'
      BY <1>0, <1>7, <2>0, <2>00 DEF TypeOK, Bind, Ending
    <2>2. Alone'
      BY <1>0, <1>7, <2>0, <2>00 DEF TypeOK, Alone, Bind, Ending
    <2>3. BesideEnding'
      BY <1>0, <1>7, <2>0, <2>00 DEF TypeOK, BesideEnding, Bind, Ending
    <2>4. PidFileNamesAlone'
      BY <1>0, <1>7, <2>0, <2>00 DEF TypeOK, PidFileNamesAlone, Bind, Ending
    <2>5. PathIsServed'
      <3> SUFFICES ASSUME NEW r \in Running', beside'[r] \subseteq {"stopping"}
                   PROVE  Served(r)'
        BY DEF PathIsServed
      <3>1. CASE r = p
        <4>1. CASE socket[bound[p]] = None
          BY <1>7, <2>0, <2>00, <3>1, <4>1 DEF Bind, To, TypeOK, Served, PathsAgree
        <4>2. CASE socket[bound[p]] # None
          <5>1. (bound[p] # DefaultPath \/ "socket" \in failed[p]) /\ p \notin open
            BY <1>7, <2>0, <2>00, <3>1, <4>2 DEF Bind, PathIsServed, Served, PathsAgree
          <5> QED  BY <1>7, <2>0, <2>00, <3>1, <4>2, <5>1 DEF Bind, To, TypeOK, Served
        <4> QED  BY <4>1, <4>2
      <3>2. CASE r # p
        <4>1. pc[r] \in Ending /\ beside[r] # {}
          BY <1>0, <1>7, <2>0, <2>00, <3>2, OthersEnd DEF Bind, Ending, Running
        <4> QED  BY <1>0, <1>7, <2>0, <2>00, <3>2, <4>1 DEF Bind, Served, Ending
      <3> QED  BY <3>1, <3>2
    <2>6. SocketsAreOwned'
      <3>1. \A f \in Path : socket[f] # p
        BY <2>0 DEF SocketsAreOwned, Ending
      <3>2. CASE To(p, "listen") /\ socket' = [socket EXCEPT ![bound[p]] = p]
        <4>1. /\ pc'[p] = "listen" /\ bound' = bound /\ open' = open /\ moved' = moved
              /\ \A f \in Path : f # bound[p] => socket'[f] = socket[f]
          BY <1>7, <3>2 DEF Bind, To, TypeOK
        <4>2. \A f \in Path : socket'[f] = p => f = bound[p]
          BY <3>1, <4>1
        <4>3. \A r \in Proc, f \in Path : r # p /\ socket'[f] = r => socket[f] = r
          BY <3>2, <4>1 DEF TypeOK
        <4>4. \A f \in Path : socket'[f] = p => f = bound[p] /\ pc'[p] = "listen"
          BY <4>1, <4>2
        <4>5. \A r \in Proc : r # p => pc'[r] = pc[r] /\ failed'[r] = failed[r]
          BY <2>0, <2>00
        <4> HIDE <1>7, <2>0, <2>00, <3>2
        <4> QED  BY <4>1, <4>3, <4>4, <4>5 DEF SocketsAreOwned, Ending
      <3>3. CASE UNCHANGED socket
        BY <1>7, <2>0, <2>00, <3>1, <3>3 DEF Bind, SocketsAreOwned
      <3> QED  BY <2>00, <3>2, <3>3
    <2>7. PathsAgree'
      BY <1>0, <1>7, <2>0, <2>00 DEF TypeOK, PathsAgree, Bind, Ending
    <2>8. PidFileRemoved'
      <3>1. \A r \in Proc : r # p => pc'[r] = pc[r] /\ failed'[r] = failed[r]
        BY <2>0, <2>00
      <3> QED  BY <1>7, <2>0, <2>01, <3>1 DEF PidFileRemoved, Bind
    <2> QED  BY <2>1, <2>2, <2>3, <2>4, <2>5, <2>6, <2>7, <2>8
  <1>8. ASSUME NEW p \in Proc, Listen(p) PROVE IInv'
    <2>00. /\ failed' \in [Proc -> SUBSET Call]
           /\ \A r \in Proc : r # p => failed'[r] = failed[r]
           /\ \/ (open' = open \cup {p} /\ UNCHANGED socket) /\ failed'[p] = failed[p]
              \/ (UNCHANGED open /\ socket' = [socket EXCEPT ![bound[p]] = None]) /\ failed'[p] = failed[p] \cup {"socket"}
              \/ (UNCHANGED open /\ UNCHANGED socket) /\ failed'[p] = failed[p] \cup {"socket", "remove"}
      <3>1. CASE (open' = open \cup {p} /\ UNCHANGED socket) /\ UNCHANGED failed
        BY <3>1 DEF TypeOK
      <3>2. CASE (UNCHANGED open /\ socket' = [socket EXCEPT ![bound[p]] = None]) /\ Fail(p, {"socket"})
        <4>1. {"socket"} \in SUBSET Call
          BY DEF Call
        <4> QED  BY <3>2, <4>1, Fails
      <3>3. CASE (UNCHANGED open /\ UNCHANGED socket) /\ Fail(p, {"socket", "remove"})
        <4>1. {"socket", "remove"} \in SUBSET Call
          BY DEF Call
        <4> QED  BY <3>3, <4>1, Fails
      <3> QED  BY <1>8, <3>1, <3>2, <3>3 DEF Listen
    <2>01. \A r \in Proc : "path" \in failed'[r] => "path" \in failed[r]
      BY <2>00
    <2>0. /\ Running' = Running /\ p \in Running /\ pc[p] = "listen" /\ pc'[p] = "x11"
          /\ pc' \in [Proc -> Stages] /\ \A r \in Proc : r # p => pc'[r] = pc[r]
      BY <1>8, Moves DEF Listen, Running, Early, Ending, Stages
    <2>1. TypeOK'
      BY <1>0, <1>8, <2>0, <2>00 DEF TypeOK, Listen, Ending
    <2>2. Alone'
      BY <1>0, <1>8, <2>0, <2>00 DEF TypeOK, Alone, Listen, Ending
    <2>3. BesideEnding'
      BY <1>0, <1>8, <2>0, <2>00 DEF TypeOK, BesideEnding, Listen, Ending
    <2>4. PidFileNamesAlone'
      BY <1>0, <1>8, <2>0, <2>00 DEF TypeOK, PidFileNamesAlone, Listen, Ending
    <2>5. PathIsServed'
      <3> SUFFICES ASSUME NEW r \in Running', beside'[r] \subseteq {"stopping"}
                   PROVE  Served(r)'
        BY DEF PathIsServed
      <3>1. CASE r = p
        BY <1>0, <1>8, <2>0, <2>00, <3>1 DEF Listen, TypeOK, PathIsServed, Served, PathsAgree
      <3>2. CASE r # p
        <4>1. pc[r] \in Ending /\ beside[r] # {}
          BY <1>0, <1>8, <2>0, <2>00, <3>2, OthersEnd DEF Listen, Ending, Running
        <4> QED  BY <1>0, <1>8, <2>0, <2>00, <3>2, <4>1 DEF Listen, Served, Ending
      <3> QED  BY <3>1, <3>2
    <2>6. SocketsAreOwned'
      <3> SUFFICES ASSUME NEW r \in Proc, NEW f \in Path, socket'[f] = r
                   PROVE  /\ f = bound[r]
                          /\ \/ pc'[r] \in {"listen", "gone", "stopped"} \cup Ending
                             \/ pc'[r] \in {"x11", "loop"} /\ (r \in open' \/ "remove" \in failed'[r])
                          /\ pc'[r] = "close" => r \in open' \/ "remove" \in failed'[r]
                          /\ pc'[r] \in {"off", "stopped"} =>
                                 r \in moved \/ "remove" \in failed'[r]
        BY <1>8 DEF Listen, SocketsAreOwned, Ending
      <3>1. socket[f] = r
        BY <1>8, <2>00 DEF TypeOK, Listen
      <3>2. CASE r # p
        <4>1. pc'[r] = pc[r] /\ failed'[r] = failed[r] /\ (r \in open => r \in open')
          BY <2>0, <2>00, <3>2
        <4> QED  BY <3>1, <4>1 DEF SocketsAreOwned
      <3>3. CASE r = p
        <4>1. f = bound[p]
          BY <3>1, <3>3 DEF SocketsAreOwned
        <4>2. p \in open' \/ "remove" \in failed'[p]
          <5>1. CASE socket' = [socket EXCEPT ![bound[p]] = None]
            BY <3>3, <4>1, <5>1 DEF TypeOK
          <5> QED  BY <2>00, <5>1
        <4> QED  BY <2>0, <3>3, <4>1, <4>2 DEF Ending
      <3> QED  BY <3>2, <3>3
    <2>7. PathsAgree'
      BY <1>0, <1>8, <2>0, <2>00 DEF TypeOK, PathsAgree, Listen, Ending
    <2>8. PidFileRemoved'
      <3>1. \A r \in Proc : r # p => pc'[r] = pc[r] /\ failed'[r] = failed[r]
        BY <2>0, <2>00
      <3> QED  BY <1>8, <2>0, <2>01, <3>1 DEF PidFileRemoved, Listen
    <2> QED  BY <2>1, <2>2, <2>3, <2>4, <2>5, <2>6, <2>7, <2>8
  <1>9. ASSUME NEW p \in Proc, EnterLoop(p) PROVE IInv'
    <2>0. /\ Running' = Running /\ p \in Running /\ pc[p] = "x11" /\ pc'[p] = "loop"
          /\ pc' \in [Proc -> Stages] /\ \A r \in Proc : r # p => pc'[r] = pc[r]
      BY <1>9, Moves DEF EnterLoop, Running, Early, Ending, Stages
    <2>1. TypeOK'
      BY <1>0, <1>9, <2>0 DEF TypeOK, EnterLoop, Ending
    <2>2. Alone'
      BY <1>0, <1>9, <2>0 DEF TypeOK, Alone, EnterLoop, Ending
    <2>3. BesideEnding'
      BY <1>0, <1>9, <2>0 DEF TypeOK, BesideEnding, EnterLoop, Ending
    <2>4. PidFileNamesAlone'
      BY <1>0, <1>9, <2>0 DEF TypeOK, PidFileNamesAlone, EnterLoop, Ending
    <2>5. PathIsServed'
      <3> SUFFICES ASSUME NEW r \in Running', beside'[r] \subseteq {"stopping"}
                   PROVE  Served(r)'
        BY DEF PathIsServed
      <3>1. CASE r = p
        BY <1>0, <1>9, <2>0, <3>1 DEF EnterLoop, TypeOK, PathIsServed, Served, PathsAgree
      <3>2. CASE r # p
        <4>1. pc[r] \in Ending /\ beside[r] # {}
          BY <1>0, <1>9, <2>0, <3>2, OthersEnd DEF EnterLoop, Ending, Running
        <4> QED  BY <1>0, <1>9, <2>0, <3>2, <4>1 DEF EnterLoop, Served, Ending
      <3> QED  BY <3>1, <3>2
    <2>6. SocketsAreOwned'
      BY <1>0, <1>9, <2>0 DEF TypeOK, SocketsAreOwned, EnterLoop, Ending
    <2>7. PathsAgree'
      BY <1>0, <1>9, <2>0 DEF TypeOK, PathsAgree, EnterLoop, Ending
    <2>8. PidFileRemoved'
      BY <1>0, <1>9, <2>0 DEF TypeOK, PidFileRemoved, EnterLoop, Ending
    <2> QED  BY <2>1, <2>2, <2>3, <2>4, <2>5, <2>6, <2>7, <2>8
  <1>10. ASSUME NEW p \in Proc, CloseUnix(p) PROVE IInv'
    <2>00. /\ failed' \in [Proc -> SUBSET Call]
           /\ \A r \in Proc : r # p => failed'[r] = failed[r]
           /\ \/ socket' = [f \in Path |-> IF p \in open /\ f = sockpath(p) THEN None ELSE socket[f]] /\ failed'[p] = failed[p]
              \/ (p \in open /\ UNCHANGED socket) /\ failed'[p] = failed[p] \cup {"remove"}
      <3>1. CASE socket' = [f \in Path |-> IF p \in open /\ f = sockpath(p) THEN None ELSE socket[f]] /\ UNCHANGED failed
        BY <3>1 DEF TypeOK
      <3>2. CASE (p \in open /\ UNCHANGED socket) /\ Fail(p, {"remove"})
        <4>1. {"remove"} \in SUBSET Call
          BY DEF Call
        <4> QED  BY <3>2, <4>1, Fails
      <3> QED  BY <1>10, <3>1, <3>2 DEF CloseUnix
    <2>01. \A r \in Proc : "path" \in failed'[r] => "path" \in failed[r]
      BY <2>00
    <2>0. /\ Running' = Running /\ p \in Running /\ pc[p] = "close" /\ pc'[p] = "off"
          /\ pc' \in [Proc -> Stages] /\ \A r \in Proc : r # p => pc'[r] = pc[r]
      BY <1>10, Moves DEF CloseUnix, Running, Early, Ending, Stages
    <2>1. TypeOK'
      BY <1>0, <1>10, <2>0, <2>00 DEF TypeOK, CloseUnix, Ending
    <2>2. Alone'
      BY <1>0, <1>10, <2>0, <2>00 DEF TypeOK, Alone, CloseUnix, Ending
    <2>3. BesideEnding'
      BY <1>0, <1>10, <2>0, <2>00 DEF TypeOK, BesideEnding, CloseUnix, Ending
    <2>4. PidFileNamesAlone'
      BY <1>0, <1>10, <2>0, <2>00 DEF TypeOK, PidFileNamesAlone, CloseUnix, Ending
    <2>5. PathIsServed'
      <3> SUFFICES ASSUME NEW r \in Running', beside'[r] \subseteq {"stopping"}
                   PROVE  Served(r)'
        BY DEF PathIsServed
      <3>1. CASE r = p
        BY <1>0, <1>10, <2>0, <2>00, <3>1 DEF CloseUnix, TypeOK, PathIsServed, Served, PathsAgree
      <3>2. CASE r # p
        <4>1. pc[r] \notin Ending => p \notin open
          BY <1>0, <1>10, <2>0, <2>00, <3>2 DEF CloseUnix, BesideEnding
        <4>2. beside[r] # {}
          BY <1>10, <2>0, <2>00, <3>2 DEF CloseUnix, Alone
        <4>3. p \notin open => socket' = socket
          BY <1>10 DEF CloseUnix, TypeOK
        <4> QED  BY <1>0, <1>10, <2>0, <2>00, <3>2, <4>1, <4>2, <4>3
                 DEF CloseUnix, PathIsServed, Served, Ending
      <3> QED  BY <3>1, <3>2
    <2>6. SocketsAreOwned'
      <3> SUFFICES ASSUME NEW r \in Proc, NEW f \in Path, socket'[f] = r
                   PROVE  /\ f = bound[r]
                          /\ \/ pc'[r] \in {"listen", "gone", "stopped"} \cup Ending
                             \/ pc'[r] \in {"x11", "loop"} /\ (r \in open' \/ "remove" \in failed'[r])
                          /\ pc'[r] = "close" => r \in open' \/ "remove" \in failed'[r]
                          /\ pc'[r] \in {"off", "stopped"} =>
                                 r \in moved \/ "remove" \in failed'[r]
        BY <1>10 DEF CloseUnix, SocketsAreOwned, Ending
      <3>1. socket[f] = r
        BY <1>10 DEF CloseUnix
      <3>2. CASE r # p
        BY <1>10, <2>0, <2>00, <3>1, <3>2 DEF CloseUnix, SocketsAreOwned
      <3>3. CASE r = p /\ "remove" \notin failed'[p]
        <4>1. p \in open /\ f = bound[p]
          BY <2>0, <2>00, <3>1, <3>3 DEF SocketsAreOwned
        <4>2. ~ (p \in open /\ f = sockpath(p))
          BY <1>10, <2>00, <3>1, <3>3 DEF CloseUnix
        <4>3. p \in moved
          BY <2>0, <2>00, <4>1, <4>2 DEF PathsAgree, sockpath
        <4> QED  BY <2>0, <2>00, <3>3, <4>1, <4>3 DEF Ending
      <3>4. CASE r = p /\ "remove" \in failed'[p]
        <4>1. f = bound[p]
          BY <3>1, <3>4 DEF SocketsAreOwned
        <4> QED  BY <2>0, <2>00, <3>4, <4>1 DEF Ending
      <3> QED  BY <3>2, <3>3, <3>4
    <2>7. PathsAgree'
      BY <1>0, <1>10, <2>0, <2>00 DEF TypeOK, PathsAgree, CloseUnix, Ending
    <2>8. PidFileRemoved'
      <3>1. \A r \in Proc : r # p => pc'[r] = pc[r] /\ failed'[r] = failed[r]
        BY <2>0, <2>00
      <3> QED  BY <1>10, <2>0, <2>01, <3>1 DEF PidFileRemoved, CloseUnix
    <2> QED  BY <2>1, <2>2, <2>3, <2>4, <2>5, <2>6, <2>7, <2>8
  <1>12. ASSUME NEW p \in Proc, RemovePidFile(p) PROVE IInv'
    <2>00. /\ failed' \in [Proc -> SUBSET Call]
           /\ \A r \in Proc : r # p => failed'[r] = failed[r]
           /\ \/ ("path" \notin failed[p] /\ pidfile' = None) /\ failed'[p] = failed[p]
              \/ ("path" \in failed[p] /\ UNCHANGED pidfile) /\ failed'[p] = failed[p]
              \/ ("path" \notin failed[p] /\ UNCHANGED pidfile) /\ failed'[p] = failed[p] \cup {"remove"}
      <3>1. CASE ("path" \notin failed[p] /\ pidfile' = None) /\ UNCHANGED failed
        BY <3>1 DEF TypeOK
      <3>2. CASE ("path" \in failed[p] /\ UNCHANGED pidfile) /\ UNCHANGED failed
        BY <3>2 DEF TypeOK
      <3>3. CASE ("path" \notin failed[p] /\ UNCHANGED pidfile) /\ Fail(p, {"remove"})
        <4>1. {"remove"} \in SUBSET Call
          BY DEF Call
        <4> QED  BY <3>3, <4>1, Fails
      <3> QED  BY <1>12, <3>1, <3>2, <3>3 DEF RemovePidFile
    <2>01. \A r \in Proc : "path" \in failed'[r] => "path" \in failed[r]
      BY <2>00
    <2>0. /\ p \in Running /\ pc[p] = "off" /\ p \notin Running' /\ pc'[p] = "stopped"
          /\ pc' \in [Proc -> Stages] /\ \A r \in Proc : r # p => pc'[r] = pc[r]
          /\ \A r \in Running' : r \in Running /\ r # p
          /\ \A r \in Running : r # p => r \in Running'
      <3>1. p \in Running /\ "stopped" \in Stages /\ To(p, "stopped")
        BY <1>12 DEF RemovePidFile, Running, Ending, Stages
      <3>2. "stopped" \notin Early \cup Ending \cup {"x11", "loop"}
        BY DEF Early, Ending
      <3> QED  BY <1>0, <1>12, <3>1, <3>2, Moves DEF RemovePidFile
    <2>1. TypeOK'
      <3>1. p \notin open
        BY <2>0, <2>00 DEF PathsAgree
      <3> QED  BY <1>12, <2>0, <2>00, <3>1 DEF RemovePidFile, TypeOK
    <2>2. Alone'
      BY <1>0, <1>12, <2>0, <2>00 DEF TypeOK, Alone, RemovePidFile, Ending
    <2>3. BesideEnding'
      BY <1>0, <1>12, <2>0, <2>00 DEF TypeOK, BesideEnding, RemovePidFile, Ending
    <2>4. PidFileNamesAlone'
      BY <1>12, <2>0, <2>00 DEF RemovePidFile, PidFileNamesAlone, Alone
    <2>5. PathIsServed'
      <3> SUFFICES ASSUME NEW r \in Running', beside'[r] \subseteq {"stopping"}
                   PROVE  Served(r)'
        BY DEF PathIsServed
      <3>1. CASE r = p
        BY <1>0, <1>12, <2>0, <2>00, <3>1 DEF RemovePidFile, TypeOK, PathIsServed, Served, PathsAgree
      <3>2. CASE r # p
        BY <1>0, <1>12, <2>0, <2>00, <3>2 DEF RemovePidFile, TypeOK, PathIsServed, Served
      <3> QED  BY <3>1, <3>2
    <2>6. SocketsAreOwned'
      BY <1>0, <1>12, <2>0, <2>00 DEF TypeOK, SocketsAreOwned, RemovePidFile, Ending
    <2>7. PathsAgree'
      BY <1>0, <1>12, <2>0, <2>00 DEF TypeOK, PathsAgree, RemovePidFile, Ending
    <2>8. PidFileRemoved'
      <3>1. pidfile' \in {pidfile, None} /\ None \notin Proc
        BY <2>00
      <3>2. pidfile' # p \/ "remove" \in failed'[p]
        BY <2>00, <3>1 DEF PidFileRemoved
      <3> QED  BY <2>0, <2>00, <2>01, <3>1, <3>2 DEF PidFileRemoved
    <2> QED  BY <2>1, <2>2, <2>3, <2>4, <2>5, <2>6, <2>7, <2>8
  <1>13. ASSUME NEW p \in Proc, SetSocket(p) PROVE IInv'
    <2>0. pc' = pc /\ Running' = Running /\ pc[p] = "loop" /\ p \in Running
          /\ \A r \in Proc : r # p => pc'[r] = pc[r]
      BY <1>13 DEF SetSocket, Running
    <2>1. TypeOK'
      BY <1>0, <1>13, <2>0 DEF TypeOK, SetSocket, Ending
    <2>2. Alone'
      BY <1>0, <1>13, <2>0 DEF TypeOK, Alone, SetSocket, Ending
    <2>3. BesideEnding'
      BY <1>0, <1>13, <2>0 DEF TypeOK, BesideEnding, SetSocket, Ending
    <2>4. PidFileNamesAlone'
      BY <1>0, <1>13, <2>0 DEF TypeOK, PidFileNamesAlone, SetSocket, Ending
    <2>5. PathIsServed'
      <3> SUFFICES ASSUME NEW r \in Running', beside'[r] \subseteq {"stopping"}
                   PROVE  Served(r)'
        BY DEF PathIsServed
      <3>1. CASE r = p
        BY <1>0, <1>13, <2>0, <3>1 DEF SetSocket, TypeOK, PathIsServed, Served, PathsAgree
      <3>2. CASE r # p
        <4>1. pc[r] \in Ending /\ beside[r] # {}
          BY <1>0, <1>13, <2>0, <3>2, OthersEnd DEF SetSocket, Ending, Running
        <4> QED  BY <1>0, <1>13, <2>0, <3>2, <4>1 DEF SetSocket, Served, Ending
      <3> QED  BY <3>1, <3>2
    <2>6. SocketsAreOwned'
      BY <1>0, <1>13, <2>0 DEF TypeOK, SocketsAreOwned, SetSocket, Ending
    <2>7. PathsAgree'
      BY <1>0, <1>13, <2>0 DEF TypeOK, PathsAgree, SetSocket, Ending
    <2>8. PidFileRemoved'
      BY <1>0, <1>13, <2>0 DEF TypeOK, PidFileRemoved, SetSocket, Ending
    <2> QED  BY <2>1, <2>2, <2>3, <2>4, <2>5, <2>6, <2>7, <2>8
  <1>14. ASSUME NEW p \in Proc, Terminate(p) PROVE IInv'
    <2>0. /\ Running' = Running /\ p \in Running /\ pc[p] = "loop" /\ pc'[p] = "close"
          /\ pc' \in [Proc -> Stages] /\ \A r \in Proc : r # p => pc'[r] = pc[r]
      BY <1>14, Moves DEF Terminate, Running, Early, Ending, Stages
    <2>1. TypeOK'
      BY <1>0, <1>14, <2>0 DEF TypeOK, Terminate, Ending
    <2>2. Alone'
      BY <1>0, <1>14, <2>0 DEF TypeOK, Alone, Terminate, Ending
    <2>3. BesideEnding'
      BY <1>0, <1>14, <2>0 DEF TypeOK, BesideEnding, Terminate, Ending
    <2>4. PidFileNamesAlone'
      BY <1>0, <1>14, <2>0 DEF TypeOK, PidFileNamesAlone, Terminate, Ending
    <2>5. PathIsServed'
      <3> SUFFICES ASSUME NEW r \in Running', beside'[r] \subseteq {"stopping"}
                   PROVE  Served(r)'
        BY DEF PathIsServed
      <3>1. CASE r = p
        BY <1>0, <1>14, <2>0, <3>1 DEF Terminate, TypeOK, PathIsServed, Served, PathsAgree
      <3>2. CASE r # p
        <4>1. pc[r] \in Ending /\ beside[r] # {}
          BY <1>0, <1>14, <2>0, <3>2, OthersEnd DEF Terminate, Ending, Running
        <4> QED  BY <1>0, <1>14, <2>0, <3>2, <4>1 DEF Terminate, Served, Ending
      <3> QED  BY <3>1, <3>2
    <2>6. SocketsAreOwned'
      BY <1>0, <1>14, <2>0 DEF TypeOK, SocketsAreOwned, Terminate, Ending
    <2>7. PathsAgree'
      BY <1>0, <1>14, <2>0 DEF TypeOK, PathsAgree, Terminate, Ending
    <2>8. PidFileRemoved'
      BY <1>0, <1>14, <2>0 DEF TypeOK, PidFileRemoved, Terminate, Ending
    <2> QED  BY <2>1, <2>2, <2>3, <2>4, <2>5, <2>6, <2>7, <2>8
  <1>15. ASSUME NEW p \in Proc, Die(p) PROVE IInv'
    <2>0. /\ p \in Running  /\ p \notin Running' /\ pc'[p] = "gone"
          /\ pc' \in [Proc -> Stages] /\ \A r \in Proc : r # p => pc'[r] = pc[r]
          /\ \A r \in Running' : r \in Running /\ r # p
          /\ \A r \in Running : r # p => r \in Running'
      <3>1. p \in Running /\ "gone" \in Stages /\ To(p, "gone")
        BY <1>15 DEF Die, Running, Ending, Stages
      <3>2. "gone" \notin Early \cup Ending \cup {"x11", "loop"}
        BY DEF Early, Ending
      <3> QED  BY <1>0, <1>15, <3>1, <3>2, Moves DEF Die
    <2>1. TypeOK'
      BY <1>0, <1>15, <2>0 DEF TypeOK, Die, Ending
    <2>2. Alone'
      BY <1>0, <1>15, <2>0 DEF TypeOK, Alone, Die, Ending
    <2>3. BesideEnding'
      BY <1>0, <1>15, <2>0 DEF TypeOK, BesideEnding, Die, Ending
    <2>4. PidFileNamesAlone'
      BY <1>0, <1>15, <2>0 DEF TypeOK, PidFileNamesAlone, Die, Ending
    <2>5. PathIsServed'
      <3> SUFFICES ASSUME NEW r \in Running', beside'[r] \subseteq {"stopping"}
                   PROVE  Served(r)'
        BY DEF PathIsServed
      <3>1. CASE r = p
        BY <1>0, <1>15, <2>0, <3>1 DEF Die, TypeOK, PathIsServed, Served, PathsAgree
      <3>2. CASE r # p
        BY <1>0, <1>15, <2>0, <3>2 DEF Die, TypeOK, PathIsServed, Served
      <3> QED  BY <3>1, <3>2
    <2>6. SocketsAreOwned'
      BY <1>0, <1>15, <2>0 DEF TypeOK, SocketsAreOwned, Die, Ending
    <2>7. PathsAgree'
      BY <1>0, <1>15, <2>0 DEF TypeOK, PathsAgree, Die, Ending
    <2>8. PidFileRemoved'
      BY <1>0, <1>15, <2>0 DEF TypeOK, PidFileRemoved, Die, Ending
    <2> QED  BY <2>1, <2>2, <2>3, <2>4, <2>5, <2>6, <2>7, <2>8
  <1>16. CASE UNCHANGED vars
    BY <1>16 DEF vars, TypeOK, Alone, BesideEnding, PidFileNamesAlone, PathIsServed, SocketsAreOwned, PathsAgree, PidFileRemoved, Running, Served
  <1> QED  BY <1>2, <1>3, <1>4, <1>5, <1>6, <1>7, <1>8, <1>9, <1>10, <1>12, <1>13, <1>14, <1>15, <1>16 DEF Next, Step
-----------------------------------------------------------------------------
(* The invariant holds in every state of the specification. *)
THEOREM Invariance == Spec => []IInv
  BY InitIInv, NextIInv, PTL DEF Spec

(* Two daemons run at a time for the reasons of OneDaemon only (main of    *)
(* spnavd.c), however many are started, stopped and crash.                 *)
THEOREM OneDaemonAtATime == Spec => []OneAtATime
  <1>1. IInv => OneAtATime
    BY DEF IInv, OneAtATime, OneDaemon, Alone
  <1> QED  BY <1>1, Invariance, PTL

(* A daemon in its loop is reached at its path (init_unix), except for the *)
(* reasons that Reachable names.                                           *)
THEOREM DaemonsAreReachable == Spec => []Reachable
  <1>1. IInv => Reachable
    <2> SUFFICES ASSUME IInv, NEW p \in Proc, pc[p] = "loop"
                 PROVE  \/ p \in open /\ socket[bound[p]] = p
                        \/ beside[p] \ {"stopping"} # {}
                        \/ p \notin open /\ (bound[p] # DefaultPath \/ "socket" \in failed[p])
      BY DEF Reachable, At
    <2>1. CASE beside[p] \subseteq {"stopping"}
      <3>1. p \in Running
        BY DEF Running
      <3> QED  BY <2>1, <3>1 DEF IInv, PathIsServed, Served
    <2>2. CASE ~ (beside[p] \subseteq {"stopping"})
      BY <2>2
    <2> QED  BY <2>1, <2>2
  <1> QED  BY <1>1, Invariance, PTL

(* A daemon that went through cleanup leaves no socket and no pid file     *)
(* (close_unix and the end of cleanup), even beside other daemons, unless  *)
(* its configured path changed or a file could not be removed.             *)
THEOREM CleanupLeavesNothing == Spec => []NothingLeft
  <1>1. IInv => NothingLeft
    BY DEF IInv, NothingLeft, SocketsAreOwned, PidFileRemoved, At
  <1> QED  BY <1>1, Invariance, PTL
-----------------------------------------------------------------------------
(***************************************************************************)
(* The configuration file.                                                 *)
(*                                                                         *)
(* The library's induction theorems take an operator; what a fold yields   *)
(* is proved here from the least number of a set instead.                  *)
(***************************************************************************)
(* Induction, for a set of numbers. *)
LEMMA LeastOne ==
    ASSUME NEW T, T \subseteq Nat, T # {}
    PROVE  \E m \in T : \A k \in T : m <= k
  <1> DEFINE R == {ss \in Nat \X Nat : ss[1] < ss[2]}
  <1>1. IsWellFoundedOn(R, Nat)
    BY NatLessThanWellFounded DEF OpToRel
  <1> HIDE DEF R
  <1>2. PICK m \in T : \A k \in T : ~ (<<k, m>> \in R)
    BY <1>1, WFMin
  <1>3. \A k \in T : ~ (k < m)
    BY <1>2 DEF R
  <1> QED  BY <1>3

(* What holds of 0, and of n + 1 if it does of n, holds of all numbers up  *)
(* to N.                                                                   *)
LEMMA Induction ==
    ASSUME NEW N \in Nat, NEW S, 0 \in S, \A n \in 0..N : n < N /\ n \in S => n + 1 \in S
    PROVE  0..N \subseteq S
  <1> DEFINE T == {n \in 0..N : n \notin S}
  <1> SUFFICES ASSUME T # {} PROVE FALSE
    OBVIOUS
  <1>1. T \subseteq Nat
    OBVIOUS
  <1>2. PICK m \in T : \A k \in T : m <= k
    BY <1>1, LeastOne
  <1>3. m \in 0..N /\ m \notin S /\ m # 0
    OBVIOUS
  <1> DEFINE p == m - 1
  <1>4. p \in 0..N /\ p < N /\ p + 1 = m /\ ~ (m <= p)
    BY <1>3
  <1>5. p \in S
    BY <1>2, <1>4
  <1> QED  BY <1>3, <1>4, <1>5
-----------------------------------------------------------------------------
(* What a file says of an option. *)
Tells(t, o) == o \in Sets(t.key) /\ Accepted(t)

(* The value o has after the first n lines: the last one that tells it. *)
Told(f, n, o, v) ==
    \/ v = Default[o] /\ \A k \in 1..n : ~ Tells(f[k], o)
    \/ \E k \in 1..n : /\ Tells(f[k], o) /\ v = Number(f[k].val)
                       /\ \A j \in 1..n : Tells(f[j], o) => j <= k

(* read_cfg goes from line to line. *)
Steps(f, r) ==
    /\ r[0] = Default /\ Read(f) = r[Len(f)]
    /\ \A n \in 1..Len(f) : r[n] = ParseLine(r[n - 1], f[n])

LEMMA MaxIs ==
    ASSUME NEW n \in Nat, NEW s \in SUBSET (1..n + 1), n + 1 \in s
    PROVE  Max(s) = n + 1
  <1>1. \A y \in s : n + 1 >= y
    OBVIOUS
  <1>2. \A x \in s : (\A y \in s : x >= y) => x = n + 1
    OBVIOUS
  <1> QED  BY <1>1, <1>2 DEF Max

(* The fold over ParseLine has these steps. *)
LEMMA ReadSteps ==
    ASSUME NEW f \in Seq(Texts)
    PROVE  \E r : Steps(f, r)
  <1> DEFINE N == Len(f)
             G(g, s) == IF s = {} THEN Default ELSE ParseLine(g[s \ {Max(s)}], f[Max(s)])
             Good(n) == \E g : g = [s \in SUBSET (1..n) |-> G(g, s)]
             S == {n \in 0..N : Good(n)}
             iter[s \in SUBSET DOMAIN f] ==
                 IF s = {} THEN Default ELSE ParseLine(iter[s \ {Max(s)}], f[Max(s)])
  <1>1. N \in Nat /\ DOMAIN f = 1..N
    BY LenProperties
  <1>2. Read(f) = iter[DOMAIN f]
    BY DEF Read, FoldLeft, MapThenFoldSet
  <1>3. 0 \in S
    <2> DEFINE g == [s \in SUBSET (1..0) |-> Default]
    <2>1. SUBSET (1..0) = {{}}
      OBVIOUS
    <2>2. g = [s \in SUBSET (1..0) |-> G(g, s)]
      BY <2>1
    <2>3. Good(0)
      BY <2>2
    <2>4. 0 \in 0..N
      BY <1>1
    <2> HIDE DEF Good
    <2> QED  BY <2>3, <2>4
  <1>4. ASSUME NEW n \in 0..N, n < N, n \in S PROVE n + 1 \in S
    <2>1. PICK g : g = [s \in SUBSET (1..n) |-> G(g, s)]
      BY <1>4
    <2> DEFINE h == [s \in SUBSET (1..n + 1) |->
                        IF n + 1 \in s THEN ParseLine(g[s \ {n + 1}], f[n + 1]) ELSE g[s]]
    <2>2. ASSUME NEW s \in SUBSET (1..n + 1) PROVE h[s] = G(h, s)
      <3>1. CASE n + 1 \in s
        <4>1. Max(s) = n + 1
          BY <1>1, <3>1, MaxIs
        <4>2. s \ {n + 1} \in SUBSET (1..n) /\ s \ {n + 1} \in SUBSET (1..n + 1) /\ n + 1 \notin s \ {n + 1}
          BY <1>1
        <4>3. h[s \ {n + 1}] = g[s \ {n + 1}]
          BY <4>2
        <4>4. h[s] = ParseLine(g[s \ {n + 1}], f[n + 1])
          BY <3>1
        <4>5. s # {}
          BY <3>1
        <4> HIDE DEF h
        <4> QED  BY <4>1, <4>3, <4>4, <4>5
      <3>2. CASE n + 1 \notin s
        <4>0. n \in Nat
          BY <1>1
        <4> DEFINE m == Max(s)
        <4> HIDE DEF m
        <4>1. s \in SUBSET (1..n) /\ s \ {m} \in SUBSET (1..n)
          <5>1. ASSUME NEW x \in s PROVE x \in 1..n
            <6>1. x \in 1..n + 1 /\ x # n + 1
              BY <3>2
            <6> QED  BY <4>0, <6>1
          <5> QED  BY <5>1
        <4>2. s \ {m} \in SUBSET (1..n + 1) /\ n + 1 \notin s \ {m}
          BY <3>2
        <4>3. h[s] = g[s] /\ h[s \ {m}] = g[s \ {m}]
          BY <3>2, <4>2
        <4>4. g[s] = G(g, s)
          BY <2>1, <4>1
        <4> HIDE DEF h
        <4> QED  BY <4>3, <4>4 DEF m
      <3> QED  BY <3>1, <3>2
    <2>3. h = [s \in SUBSET (1..n + 1) |-> G(h, s)]
      BY <2>2
    <2>4. Good(n + 1)
      BY <2>3
    <2>5. n + 1 \in 0..N
      BY <1>1, <1>4
    <2> HIDE DEF Good
    <2> QED  BY <2>4, <2>5
  <1>5. N \in S
    <2> HIDE DEF S
    <2>1. 0..N \subseteq S
      BY <1>1, <1>3, <1>4, Induction
    <2> QED  BY <1>1, <2>1
  <1>6. \E g : g = [s \in SUBSET DOMAIN f |-> G(g, s)]
    BY <1>1, <1>5
  <1>7. iter = [s \in SUBSET DOMAIN f |-> G(iter, s)]
    BY <1>6
  <1> HIDE DEF iter
  <1> DEFINE r == [n \in 0..N |-> iter[1..n]]
  <1>8. r[0] = Default
    <2>1. 1..0 = {} /\ {} \in SUBSET DOMAIN f /\ 0 \in 0..N
      BY <1>1
    <2> QED  BY <1>7, <2>1
  <1>9. ASSUME NEW n \in 1..N PROVE r[n] = ParseLine(r[n - 1], f[n])
    <2> DEFINE p == n - 1
    <2>1. p \in Nat /\ p + 1 = n /\ p \in 0..N /\ n \in 0..N
      BY <1>1
    <2>2. 1..n \in SUBSET (1..p + 1) /\ n \in 1..n
      BY <2>1
    <2>3. Max(1..n) = n
      BY <2>1, <2>2, MaxIs
    <2>4. (1..n) \ {n} = 1..p /\ 1..n # {} /\ 1..n \in SUBSET DOMAIN f
      <3>1. 1..n \in SUBSET DOMAIN f
        BY <1>1, <2>1
      <3>2. ASSUME NEW x PROVE x \in (1..n) \ {n} <=> x \in 1..p
        <4> HIDE DEF p
        <4> QED  BY <2>1
      <3> QED  BY <2>2, <3>1, <3>2
    <2>5. iter[1..n] = ParseLine(iter[1..p], f[n])
      BY <1>7, <2>3, <2>4
    <2> QED  BY <2>1, <2>5
  <1>10. Read(f) = r[N]
    BY <1>1, <1>2
  <1> QED  BY <1>8, <1>9, <1>10 DEF Steps

LEMMA TextFacts ==
    ASSUME NEW t \in Texts
    PROVE  t.key \in Key \cup {"#"} /\ t.val \in Int \cup {Bad} /\ t.form \in Forms /\ Number(t.val) \in Int
  <1>1. CASE t = Comment
    BY <1>1 DEF Comment, Forms, Number
  <1>2. CASE t \in [key : Key, val : Int \cup {Bad}, form : Forms]
    BY <1>2 DEF Number
  <1> QED  BY <1>1, <1>2 DEF Texts

LEMMA ParsedType ==
    ASSUME NEW c \in [Option -> Int], NEW t \in Texts
    PROVE  /\ ParseLine(c, t) \in [Option -> Int]
           /\ \A o \in Option : ParseLine(c, t)[o] = IF Tells(t, o) THEN Number(t.val) ELSE c[o]
  BY TextFacts DEF ParseLine, Tells

LEMMA DefaultType == Default \in [Option -> Int]
  BY DEF Default

(* Reading goes on where it stopped, and the last line that tells counts.  *)
LEMMA ReadTold ==
    ASSUME NEW f \in Seq(Texts)
    PROVE  Read(f) \in [Option -> Int] /\ \A o \in Option : Told(f, Len(f), o, Read(f)[o])
  <1> DEFINE N == Len(f)
  <1>1. N \in Nat /\ \A k \in 1..N : f[k] \in Texts
    BY LenProperties, ElementOfSeq
  <1>2. PICK r : Steps(f, r)
    BY ReadSteps
  <1> DEFINE Good(n) == r[n] \in [Option -> Int] /\ \A o \in Option : Told(f, n, o, r[n][o])
             S == {n \in 0..N : Good(n)}
  <1>3. 0 \in S
    <2>1. r[0] = Default /\ 1..0 = {} /\ 0 \in 0..N
      BY <1>1, <1>2 DEF Steps
    <2>2. Good(0)
      BY <2>1, DefaultType DEF Told
    <2> HIDE DEF Good
    <2> QED  BY <2>1, <2>2
  <1>4. ASSUME NEW n \in 0..N, n < N, n \in S PROVE n + 1 \in S
    <2> DEFINE m == n + 1
               t == f[m]
    <2>1. n \in Nat /\ m \in 1..N /\ m \in 0..N /\ m - 1 = n
      BY <1>1, <1>4
    <2>2. r[m] = ParseLine(r[m - 1], f[m])
      BY <1>2, <2>1 DEF Steps
    <2>3. Good(n)
      BY <1>4
    <2>4. r[m] = ParseLine(r[n], t) /\ t \in Texts
      BY <1>1, <2>1, <2>2
    <2>5. /\ r[m] \in [Option -> Int]
          /\ \A o \in Option : r[m][o] = IF Tells(t, o) THEN Number(t.val) ELSE r[n][o]
      BY <2>3, <2>4, ParsedType
    <2>6. \A k : k \in 1..m <=> k \in 1..n \/ k = m
      BY <2>1
    <2>7. \A k \in 1..n : k <= m
      BY <2>1
    <2> HIDE DEF m
    <2>8. ASSUME NEW o \in Option PROVE Told(f, m, o, r[m][o])
      <3>1. CASE Tells(t, o)
        <4>1. r[m][o] = Number(f[m].val) /\ Tells(f[m], o) /\ m <= m /\ m \in 1..m
          BY <2>1, <2>5, <2>6, <3>1
        <4>2. \A j \in 1..m : j <= m
          BY <2>6, <2>7, <4>1
        <4> QED  BY <4>1, <4>2 DEF Told
      <3>2. CASE ~ Tells(t, o)
        <4>1. Told(f, n, o, r[m][o]) /\ ~ Tells(f[m], o)
          BY <2>3, <2>5, <3>2
        <4> QED  BY <2>6, <4>1 DEF Told
      <3> QED  BY <3>1, <3>2
    <2>9. Good(m)
      BY <2>5, <2>8
    <2> HIDE DEF Good
    <2> QED  BY <2>1, <2>9 DEF m
  <1>5. Good(N)
    <2> HIDE DEF Good
    <2> DEFINE Set0 == S
    <2>1. \A n \in 0..N : n < N /\ n \in Set0 => n + 1 \in Set0
      BY <1>4
    <2>2. 0 \in Set0
      BY <1>3
    <2> HIDE DEF Set0
    <2>3. 0..N \subseteq Set0
      BY <1>1, <2>1, <2>2, Induction
    <2>4. N \in Set0
      BY <1>1, <2>3
    <2> QED  BY <2>4 DEF Set0
  <1>6. Read(f) = r[N]
    BY <1>2 DEF Steps
  <1> QED  BY <1>5, <1>6

(* What is read of two files behind each other. *)
LEMMA ReadAppend ==
    ASSUME NEW f \in Seq(Texts), NEW t \in Texts
    PROVE  Read(Append(f, t)) = ParseLine(Read(f), t)
  <1> DEFINE N == Len(f)
             g == Append(f, t)
             M == N + 1
  <1>1. N \in Nat /\ g \in Seq(Texts) /\ Len(g) = M /\ g[M] = t /\ \A k \in 1..N : g[k] = f[k]
    BY LenProperties, AppendProperties
  <1>2. PICK r : Steps(f, r)
    BY ReadSteps
  <1> HIDE DEF g
  <1>3. PICK q : Steps(g, q)
    BY <1>1, ReadSteps
  <1> DEFINE S == {n \in 0..N : q[n] = r[n]}
  <1>4. 0 \in S
    BY <1>1, <1>2, <1>3 DEF Steps
  <1>5. ASSUME NEW n \in 0..N, n < N, n \in S PROVE n + 1 \in S
    <2> DEFINE m == n + 1
    <2>1. m \in 1..N /\ m \in 1..M /\ m - 1 = n /\ m \in 0..N
      BY <1>1, <1>5
    <2> HIDE DEF m
    <2>2. r[m] = ParseLine(r[m - 1], f[m]) /\ q[m] = ParseLine(q[m - 1], g[m])
      BY <1>1, <1>2, <1>3, <2>1 DEF Steps
    <2>3. q[m] = r[m]
      BY <1>1, <1>5, <2>1, <2>2
    <2> QED  BY <2>1, <2>3 DEF m
  <1>6. q[N] = r[N]
    <2> DEFINE Set0 == S
    <2>1. \A n \in 0..N : n < N /\ n \in Set0 => n + 1 \in Set0
      BY <1>5
    <2>2. 0 \in Set0
      BY <1>4
    <2> HIDE DEF Set0
    <2>3. 0..N \subseteq Set0
      BY <1>1, <2>1, <2>2, Induction
    <2>4. N \in Set0
      BY <1>1, <2>3
    <2> QED  BY <2>4 DEF Set0
  <1>7. M \in 1..M /\ M - 1 = N
    BY <1>1
  <1> HIDE DEF M
  <1>8. q[M] = ParseLine(q[N], g[M])
    BY <1>1, <1>3, <1>7 DEF Steps
  <1>9. Read(f) = r[N] /\ Read(g) = q[M]
    BY <1>1, <1>2, <1>3 DEF Steps
  <1> QED  BY <1>1, <1>6, <1>8, <1>9 DEF g

(* FlattenSeq goes from piece to piece. *)
Joins(s, r) ==
    /\ r[1] = s[1] /\ FlattenSeq(s) = r[Len(s)]
    /\ \A n \in 2..Len(s) : r[n] = r[n - 1] \o s[n]

(* FlattenSeq has these steps. *)
LEMMA FlattenSteps ==
    ASSUME NEW s, NEW N \in Nat \ {0}, Len(s) = N
    PROVE  \E r : Joins(s, r)
  <1> DEFINE G(g, i) == IF i = 1 THEN s[i] ELSE g[i - 1] \o s[i]
             Good(n) == \E g : g = [i \in 1..n |-> G(g, i)]
             S == {n \in 0..N : Good(n)}
             flatten[i \in 1..Len(s)] == IF i = 1 THEN s[i] ELSE flatten[i - 1] \o s[i]
  <1>1. FlattenSeq(s) = flatten[N]
    BY DEF FlattenSeq
  <1>2. 0 \in S
    <2> DEFINE g == [i \in 1..0 |-> s]
    <2>1. 1..0 = {} /\ 0 \in 0..N
      OBVIOUS
    <2>2. g = [i \in 1..0 |-> G(g, i)]
      BY <2>1
    <2>3. Good(0)
      BY <2>2
    <2> HIDE DEF Good
    <2> QED  BY <2>1, <2>3
  <1>3. ASSUME NEW n \in 0..N, n < N, n \in S PROVE n + 1 \in S
    <2> DEFINE m == n + 1
    <2>1. PICK g : g = [i \in 1..n |-> G(g, i)]
      BY <1>3
    <2> DEFINE h == [i \in 1..m |-> IF i = m THEN G(g, m) ELSE g[i]]
    <2>2. ASSUME NEW i \in 1..m PROVE h[i] = G(h, i)
      <3> DEFINE p == i - 1
      <3>1. n \in Nat /\ p \in 0..n /\ (i # 1 => p \in 1..n) /\ (i # m => i \in 1..n) /\ p # m
        OBVIOUS
      <3>2. i # 1 => h[p] = g[p]
        BY <3>1
      <3>3. i # m => g[i] = G(g, i)
        BY <2>1, <3>1
      <3>4. h[i] = G(g, i)
        BY <3>3
      <3> HIDE DEF h
      <3> QED  BY <3>2, <3>4
    <2>3. h = [i \in 1..m |-> G(h, i)]
      BY <2>2
    <2>4. Good(m)
      BY <2>3
    <2>5. m \in 0..N
      BY <1>3
    <2> HIDE DEF Good
    <2> QED  BY <2>4, <2>5
  <1>4. N \in S
    <2> DEFINE Set0 == S
    <2>1. \A n \in 0..N : n < N /\ n \in Set0 => n + 1 \in Set0
      BY <1>3
    <2>2. 0 \in Set0
      BY <1>2
    <2> HIDE DEF Set0
    <2>3. 0..N \subseteq Set0
      BY <2>1, <2>2, Induction
    <2>4. N \in Set0
      BY <2>3
    <2> QED  BY <2>4 DEF Set0
  <1>5. \E g : g = [i \in 1..N |-> G(g, i)]
    BY <1>4
  <1>6. flatten = [i \in 1..N |-> G(flatten, i)]
    BY <1>5
  <1> HIDE DEF flatten
  <1>7. 1 \in 1..N /\ \A n \in 2..N : n \in 1..N /\ n # 1
    OBVIOUS
  <1>8. flatten[1] = s[1] /\ \A n \in 2..N : flatten[n] = flatten[n - 1] \o s[n]
    BY <1>6, <1>7
  <1> QED  BY <1>1, <1>8 DEF Joins
-----------------------------------------------------------------------------
(* What the lines say of an option. *)
Telling(l, o) == Used(l) /\ Tells(l.text, o)

(* The last of the first n lines that tells o tells v; if none does, v is  *)
(* the default.                                                            *)
SaysUpTo(ls, n, o, v) ==
    \/ v = Default[o] /\ \A k \in 1..n : ~ Telling(ls[k], o)
    \/ \E k \in 1..n : /\ Telling(ls[k], o) /\ v = Number(ls[k].text.val)
                       /\ \A j \in 1..n : Telling(ls[j], o) => j <= k

Says(ls, o, v) == SaysUpTo(ls, Len(ls), o, v)

LEMMA LineFacts ==
    ASSUME NEW l \in Lines
    PROVE  /\ l.own \in BOOLEAN /\ l.opt \in Key
           /\ Used(l) => l.text \in Texts
  BY DEF Lines, Used

(* Reading the text of one more line. *)
LEMMA ShownRead ==
    ASSUME NEW f \in Seq(Texts), NEW l \in Lines
    PROVE  /\ Shown(l) \in Seq(Texts) /\ f \o Shown(l) \in Seq(Texts)
           /\ \A o \in Option : Read(f \o Shown(l))[o] =
                IF Telling(l, o) THEN Number(l.text.val) ELSE Read(f)[o]
  <1>0. Read(f) \in [Option -> Int]
    BY ReadTold
  <1>1. CASE ~ Used(l)
    <2>1. Shown(l) = <<>> /\ <<>> \in Seq(Texts)
      BY <1>1, EmptySeq DEF Shown
    <2>2. f \o Shown(l) = f
      BY <2>1, ConcatEmptySeq
    <2>3. \A o \in Option : ~ Telling(l, o)
      BY <1>1 DEF Telling
    <2> QED  BY <2>1, <2>2, <2>3
  <1>2. ASSUME Used(l), l.text.form # "newline" PROVE Shown(l) = <<l.text>> /\ l.text \in Texts
    BY <1>2, LineFacts DEF Shown
  <1>3. CASE Used(l) /\ l.text.form # "newline"
    <2> DEFINE t == l.text
    <2>0. Shown(l) = <<t>> /\ t \in Texts
      BY <1>2, <1>3
    <2> HIDE DEF t
    <2>1a. f \o Shown(l) = Append(f, t)
      BY <2>0
    <2>1. f \o Shown(l) = Append(f, l.text) /\ l.text \in Texts
      BY <2>0, <2>1a DEF t
    <2>2. Read(f \o Shown(l)) = ParseLine(Read(f), l.text) /\ f \o Shown(l) \in Seq(Texts)
      BY <2>1, ReadAppend, AppendProperties
    <2>3. \A o \in Option : Telling(l, o) <=> Tells(l.text, o)
      BY <1>3 DEF Telling
    <2>4. Shown(l) \in Seq(Texts)
      BY <2>0
    <2> QED  BY <1>0, <2>1, <2>2, <2>3, <2>4, ParsedType
  <1>4. CASE Used(l) /\ l.text.form = "newline"
    <2> DEFINE t == [l.text EXCEPT !.form = "spaced"]
               g == Append(f, t)
    <2>1. l.text \in Texts /\ l.text # Comment
      BY <1>4, LineFacts DEF Comment
    <2>2. /\ t \in Texts /\ t.key = l.text.key /\ t.val = l.text.val
      BY <2>1 DEF Texts, Forms
    <2>3. Comment \in Texts /\ \A o \in Option : ~ Tells(Comment, o)
      BY DEF Texts, Comment, Tells, Sets
    <2>4. Shown(l) = <<t, Comment>>
      BY <1>4 DEF Shown
    <2> HIDE DEF t
    <2>5. f \o Shown(l) = Append(g, Comment) /\ g \in Seq(Texts)
      BY <2>2, <2>3, <2>4
    <2> HIDE DEF g
    <2>6. Read(Append(g, Comment)) = ParseLine(Read(g), Comment) /\ Append(g, Comment) \in Seq(Texts)
      BY <2>3, <2>5, ReadAppend, AppendProperties
    <2>7. Read(g) = ParseLine(Read(f), t)
      BY <2>2, ReadAppend DEF g
    <2>8. /\ Read(g) \in [Option -> Int]
          /\ \A o \in Option : Read(g)[o] = IF Tells(t, o) THEN Number(t.val) ELSE Read(f)[o]
      BY <1>0, <2>2, <2>7, ParsedType
    <2>9. \A o \in Option : Read(Append(g, Comment))[o] = Read(g)[o]
      BY <2>3, <2>6, <2>8, ParsedType
    <2>10. \A o \in Option : Telling(l, o) <=> Tells(t, o)
      BY <1>4, <2>2 DEF Telling, Tells, Accepted
    <2>11. Shown(l) \in Seq(Texts)
      BY <2>2, <2>3, <2>4
    <2> QED  BY <2>2, <2>5, <2>6, <2>8, <2>9, <2>10, <2>11
  <1> QED  BY <1>1, <1>3, <1>4

(* What is read from the text of the lines is what the lines say.          *)
LEMMA ReadText ==
    ASSUME NEW ls \in Seq(Lines)
    PROVE  Text(ls) \in Seq(Texts) /\ \A o \in Option : Says(ls, o, Read(Text(ls))[o])
  <1> DEFINE N == Len(ls)
             s == [k \in DOMAIN ls |-> Shown(ls[k])]
  <1>1. N \in Nat /\ DOMAIN ls = 1..N /\ \A k \in 1..N : ls[k] \in Lines
    BY LenProperties, ElementOfSeq
  <1>2. /\ <<>> \in Seq(Texts) /\ Len(<<>>) = 0 /\ 1..0 = {}
        /\ \A t \in Seq(Texts) : <<>> \o t = t
    BY EmptySeq, ConcatEmptySeq
  <1>3. Read(<<>>) = Default
    <2>1. PICK r : Steps(<<>>, r)
      BY <1>2, ReadSteps
    <2> QED  BY <1>2, <2>1 DEF Steps
  <1>4. Len(s) = N /\ \A k \in 1..N : s[k] = Shown(ls[k])
    <2>1. s = [k \in 1..N |-> Shown(ls[k])]
      BY <1>1
    <2> HIDE DEF s, N
    <2> QED  BY <1>1, <2>1
  <1>5. Text(ls) = FlattenSeq(s)
    BY DEF Text
  <1>6. CASE N = 0
    <2>1. s = <<>>
      <3>1. DOMAIN s = {}
        BY <1>1, <1>6
      <3> QED  BY <3>1
    <2>2. FlattenSeq(s) = <<>>
      BY <1>2, <2>1 DEF FlattenSeq
    <2>3. \A o \in Option : Says(ls, o, Default[o])
      BY <1>1, <1>6 DEF Says, SaysUpTo
    <2> QED  BY <1>2, <1>3, <1>5, <2>2, <2>3
  <1>7. CASE N # 0
    <2>1. N \in Nat \ {0}
      BY <1>1, <1>7
    <2> HIDE DEF s, N
    <2>2. PICK r : Joins(s, r)
      BY <1>4, <2>1, FlattenSteps
    <2> DEFINE q == [n \in 0..N |-> IF n = 0 THEN <<>> ELSE r[n]]
    <2>3. ASSUME NEW n \in 0..N, n < N PROVE q[n + 1] = q[n] \o Shown(ls[n + 1])
      <3> DEFINE m == n + 1
      <3>1. m \in 0..N /\ m \in 1..N /\ m # 0 /\ m - 1 = n /\ (n # 0 => m \in 2..N) /\ (n = 0 => m = 1)
        BY <2>1, <2>3
      <3> HIDE DEF m
      <3>2. q[m] = r[m] /\ (n # 0 => q[n] = r[n]) /\ (n = 0 => q[n] = <<>>)
        BY <3>1
      <3>3. s[m] = Shown(ls[m]) /\ ls[m] \in Lines
        BY <1>1, <1>4, <3>1
      <3>4. CASE n # 0
        <4>1. r[m] = r[m - 1] \o s[m]
          BY <1>4, <2>2, <3>1, <3>4 DEF Joins
        <4> HIDE DEF q
        <4> QED  BY <3>1, <3>2, <3>3, <3>4, <4>1 DEF m
      <3>5. CASE n = 0
        <4>1. r[m] = s[m]
          BY <2>2, <3>1, <3>5 DEF Joins
        <4>2. <<>> \o Shown(ls[m]) = Shown(ls[m])
          <5>1. <<>> \o Shown(ls[m]) \in Seq(Texts) /\ Shown(ls[m]) \in Seq(Texts)
            BY <1>2, <3>3, ShownRead
          <5> QED  BY <1>2, <5>1
        <4> HIDE DEF q
        <4> QED  BY <3>1, <3>2, <3>3, <3>5, <4>1, <4>2 DEF m
      <3> QED  BY <3>4, <3>5
    <2>4. q[0] = <<>> /\ q[N] = FlattenSeq(s)
      BY <1>4, <2>1, <2>2 DEF Joins
    <2> HIDE DEF q
    <2> DEFINE Good(n) == /\ q[n] \in Seq(Texts)
                          /\ \A o \in Option : SaysUpTo(ls, n, o, Read(q[n])[o])
               S == {n \in 0..N : Good(n)}
    <2>5. 0 \in S
      <3>1. Good(0)
        BY <1>2, <1>3, <2>4 DEF SaysUpTo
      <3>2. 0 \in 0..N
        BY <2>1
      <3> HIDE DEF Good
      <3> QED  BY <3>1, <3>2
    <2>6. ASSUME NEW n \in 0..N, n < N, n \in S PROVE n + 1 \in S
      <3> DEFINE m == n + 1
                 l == ls[m]
      <3>1. m \in 1..N /\ m \in 0..N /\ (\A k : k \in 1..m <=> k \in 1..n \/ k = m) /\ \A k \in 1..m : k <= m
        BY <2>1, <2>6
      <3>2. q[m] = q[n] \o Shown(l)
        BY <2>3, <2>6
      <3>3. Good(n)
        BY <2>6
      <3> HIDE DEF m
      <3>4. l \in Lines
        BY <1>1, <3>1
      <3>5. /\ q[m] \in Seq(Texts)
            /\ \A o \in Option : Read(q[m])[o] = IF Telling(l, o) THEN Number(l.text.val) ELSE Read(q[n])[o]
        BY <3>2, <3>3, <3>4, ShownRead
      <3>6. ASSUME NEW o \in Option PROVE SaysUpTo(ls, m, o, Read(q[m])[o])
        <4>1. CASE Telling(l, o)
          BY <3>1, <3>5, <4>1 DEF SaysUpTo
        <4>2. CASE ~ Telling(l, o)
          <5>1. SaysUpTo(ls, n, o, Read(q[m])[o])
            BY <3>3, <3>5, <4>2
          <5> QED  BY <3>1, <4>2, <5>1 DEF SaysUpTo
        <4> QED  BY <4>1, <4>2
      <3>7. Good(m)
        BY <3>5, <3>6
      <3> HIDE DEF Good
      <3> QED  BY <3>1, <3>7 DEF m
    <2>7. Good(N)
      <3> DEFINE Set0 == S
      <3>1. \A n \in 0..N : n < N /\ n \in Set0 => n + 1 \in Set0
        BY <2>6
      <3>2. 0 \in Set0
        BY <2>5
      <3> HIDE DEF Set0
      <3>3. 0..N \subseteq Set0
        BY <2>1, <3>1, <3>2, Induction
      <3>4. N \in Set0
        BY <2>1, <3>3
      <3> HIDE DEF Good
      <3> QED  BY <3>4 DEF Set0
    <2> QED  BY <1>5, <2>4, <2>7 DEF Says, N
  <1> QED  BY <1>6, <1>7

(* The lines in use with a key. *)
LinesAt(ls, key) == {k \in DOMAIN ls : Used(ls[k]) /\ ls[k].text.key = key}

(* The text add_cfgopt writes. *)
NewText(key, val) ==
    [key |-> key, val |-> Written(key, val), form |-> IF key = "repeat" THEN "newline" ELSE "spaced"]

(* One entry is written, in place or behind the others. *)
Put(ls, es, p, l) ==
    /\ es \in Seq(Lines) /\ DOMAIN es = DOMAIN ls \cup {p} /\ p \in Nat
    /\ es[p] = l /\ \A k \in DOMAIN ls : k # p => es[k] = ls[k]
    /\ p \notin DOMAIN ls => \A k \in DOMAIN ls : k < p

(* What add_cfgopt does: it appends a line of its own, or writes the first *)
(* line with the option anew.                                              *)
Added(ls, es, key, val) ==
    \/ \E p \in Nat :
          /\ p \notin DOMAIN ls /\ \A k \in DOMAIN ls : Used(ls[k]) => ls[k].opt # key
          /\ Put(ls, es, p, [text |-> NewText(key, val), opt |-> key, own |-> TRUE])
    \/ \E p \in DOMAIN ls :
          /\ Used(ls[p]) /\ ls[p].opt = key
          /\ Put(ls, es, p, [text |-> NewText(key, val), opt |-> key, own |-> ls[p].own])

(* What rm_cfgopt does: nothing if all lines with the key have no blank    *)
(* before the "=", nothing to a line of the user's if only its own are to  *)
(* go, or it takes one line out.                                           *)
Removed(ls, es, key, onlyOwn) ==
    \/ es = ls /\ \A k \in LinesAt(ls, key) : ls[k].text.form = "tight"
    \/ onlyOwn /\ es = ls /\ \E k \in LinesAt(ls, key) : ~ ls[k].own
    \/ \E p \in LinesAt(ls, key) :
          /\ onlyOwn => ls[p].own
          /\ ls[p].text.form # "tight"
          /\ Put(ls, es, p, [text |-> Gone, opt |-> ls[p].opt, own |-> ls[p].own])

LEMMA NewTextType ==
    ASSUME NEW key \in Key, NEW val \in Int
    PROVE  /\ NewText(key, val) \in Texts /\ NewText(key, val) # Gone
           /\ Written(key, val) \in Int /\ Written(key, val) # Bad
  <1>1. Written(key, val) \in Int
    BY DEF Written
  <1>2. NewText(key, val) \in Texts
    BY <1>1 DEF NewText, Texts, Forms
  <1> QED  BY <1>1, <1>2, ConfigFileAssumption

LEMMA MinIsIn ==
    ASSUME NEW T, NEW n \in Nat, T \subseteq 1..n, T # {}
    PROVE  Min(T) \in T
  <1>1. T \subseteq Nat
    OBVIOUS
  <1>2. \E m \in T : \A k \in T : m <= k
    BY <1>1, LeastOne
  <1> QED  BY <1>2 DEF Min

LEMMA AddIsAdded ==
    ASSUME NEW ls \in Seq(Lines), NEW key \in Key, NEW val \in Int
    PROVE  Added(ls, add_cfgopt(ls, key, val), key, val)
  <1> DEFINE N == Len(ls)
             I == {i \in 1..N : Used(ls[i]) /\ ls[i].opt = key}
             k == IF I # {} THEN Min(I) ELSE 0
             text == NewText(key, val)
             es == add_cfgopt(ls, key, val)
  <1>1. N \in Nat /\ DOMAIN ls = 1..N /\ \A i \in 1..N : ls[i] \in Lines
    BY LenProperties, ElementOfSeq
  <1>2. es = IF k = 0 THEN Append(ls, [text |-> text, opt |-> key, own |-> TRUE])
             ELSE [ls EXCEPT ![k] = [text |-> text, opt |-> key, own |-> @.own]]
    BY DEF add_cfgopt, SelectInSeq, NewText
  <1>3. text \in Texts /\ text # Gone
    BY NewTextType
  <1>4. CASE I = {}
    <2> DEFINE l == [text |-> text, opt |-> key, own |-> TRUE]
               p == N + 1
    <2>1. l \in Lines
      BY <1>3 DEF Lines
    <2>2. es = Append(ls, l)
      BY <1>2, <1>4
    <2> HIDE DEF l, es
    <2>3. es \in Seq(Lines) /\ Len(es) = p /\ es[p] = l /\ \A i \in 1..N : es[i] = ls[i]
      BY <2>1, <2>2, AppendProperties
    <2>4. DOMAIN es = 1..p
      BY <2>3, LenProperties
    <2>5. p \in Nat /\ 1..p = 1..N \cup {p} /\ p \notin 1..N /\ \A i \in 1..N : i < p
      BY <1>1
    <2>6. Put(ls, es, p, l)
      BY <1>1, <2>3, <2>4, <2>5 DEF Put
    <2>7. \A i \in DOMAIN ls : Used(ls[i]) => ls[i].opt # key
      BY <1>1, <1>4
    <2> QED  BY <1>1, <2>5, <2>6, <2>7 DEF Added, l, es
  <1>5. CASE I # {}
    <2>1. k \in I
      BY <1>1, <1>5, MinIsIn
    <2>2. k \in 1..N /\ k # 0 /\ k \in Nat /\ Used(ls[k]) /\ ls[k].opt = key
      BY <1>1, <2>1
    <2> DEFINE l == [text |-> text, opt |-> key, own |-> ls[k].own]
    <2> HIDE DEF k
    <2>3. l \in Lines
      BY <1>1, <1>3, <2>2 DEF Lines
    <2>4. es = [ls EXCEPT ![k] = l]
      BY <1>2, <2>2
    <2> HIDE DEF l, es
    <2>5. es \in Seq(Lines) /\ DOMAIN es = 1..N /\ es[k] = l /\ \A i \in 1..N : i # k => es[i] = ls[i]
      BY <1>1, <2>2, <2>3, <2>4, ExceptSeq
    <2>6. Put(ls, es, k, l)
      BY <1>1, <2>2, <2>5 DEF Put
    <2> QED  BY <1>1, <2>2, <2>6 DEF Added, l, es
  <1> QED  BY <1>4, <1>5

LEMMA RmIsRemoved ==
    ASSUME NEW ls \in Seq(Lines), NEW key, NEW onlyOwn \in BOOLEAN
    PROVE  Removed(ls, rm_cfgopt(ls, key, onlyOwn), key, onlyOwn)
  <1> DEFINE N == Len(ls)
             I == {i \in 1..N : Used(ls[i]) /\ ls[i].text.key = key /\ ls[i].text.form # "tight"}
             k == IF I # {} THEN Min(I) ELSE 0
             es == rm_cfgopt(ls, key, onlyOwn)
  <1>1. N \in Nat /\ DOMAIN ls = 1..N /\ \A i \in 1..N : ls[i] \in Lines
    BY LenProperties, ElementOfSeq
  <1>2. es = IF k = 0 \/ (onlyOwn /\ ~ ls[k].own) THEN ls ELSE [ls EXCEPT ![k].text = Gone]
    BY DEF rm_cfgopt, SelectInSeq
  <1>3. CASE I = {}
    BY <1>1, <1>2, <1>3 DEF Removed, LinesAt
  <1>4. CASE I # {}
    <2>1. k \in I
      BY <1>1, <1>4, MinIsIn
    <2>2. k \in 1..N /\ k # 0 /\ k \in Nat /\ k \in LinesAt(ls, key) /\ ls[k].text.form # "tight"
      BY <1>1, <2>1 DEF LinesAt
    <2> HIDE DEF k
    <2>3. CASE onlyOwn /\ ~ ls[k].own
      BY <1>2, <2>2, <2>3 DEF Removed
    <2>4. CASE ~ (onlyOwn /\ ~ ls[k].own)
      <3> DEFINE l == [text |-> Gone, opt |-> ls[k].opt, own |-> ls[k].own]
      <3>1. l \in Lines /\ [ls[k] EXCEPT !.text = Gone] = l
        BY <1>1, <2>2 DEF Lines
      <3>2. es = [ls EXCEPT ![k] = l]
        BY <1>1, <1>2, <2>2, <2>4, <3>1
      <3> HIDE DEF l, es
      <3>3. es \in Seq(Lines) /\ DOMAIN es = 1..N /\ es[k] = l /\ \A i \in 1..N : i # k => es[i] = ls[i]
        BY <1>1, <2>2, <3>1, <3>2, ExceptSeq
      <3>4. Put(ls, es, k, l)
        BY <1>1, <2>2, <3>3 DEF Put
      <3> QED  BY <2>2, <2>4, <3>4 DEF Removed, l, es
    <2> QED  BY <2>3, <2>4
  <1> QED  BY <1>3, <1>4

(* The lines in use with a key, and what can be said of them. *)
View(ls, key) == [k \in LinesAt(ls, key) |-> ls[k]]

(* At most one line; lines of the daemon's only; none that rm_cfgopt       *)
(* finds, or all of them; none; one with the value; some of those of       *)
(* another view.                                                           *)
Few(g)       == \A j, k \in DOMAIN g : j = k
NoForeign(g) == \A k \in DOMAIN g : g[k].own
Tight(g)     == \A k \in DOMAIN g : g[k].text.form = "tight"
Loose(g)     == \A k \in DOMAIN g : g[k].text.form # "tight"
Clear(g)     == DOMAIN g = {}
Sole(g, key, val) == \E p \in DOMAIN g : DOMAIN g = {p} /\ g[p].text = NewText(key, val)
Within(g, h) == DOMAIN g \subseteq DOMAIN h /\ \A k \in DOMAIN g : g[k] = h[k]

(* Keys under which write_cfg finds the lines that say something of them. *)
PlainKeys == {"sens", "led", "trans", "dead"} \cup Trans \cup Dead

(* A line has the option of its key, or else 0, which is "repeat", for a   *)
(* comment and for a value that was rejected; the daemon writes a blank    *)
(* before the "=".                                                         *)
Shaped(l) ==
    Used(l) => /\ \/ l.opt = l.text.key
                  \/ /\ l.opt = "repeat" /\ ~ l.own
                     /\ l.text.key = "#" \/ (l.text.key = "axismap" /\ ~ Accepted(l.text))
               /\ l.own => l.text.form # "tight"

(* The daemon's lines come after the user's. *)
OwnLast(ls) == \A j, k \in DOMAIN ls : ls[j].own /\ ~ ls[k].own => k < j

(* OneLineEach, of any lines. *)
OneEach(ls) ==
    \A j, k \in DOMAIN ls :
        j # k /\ ls[j].own /\ Used(ls[j]) /\ Used(ls[k]) => ls[j].opt # ls[k].opt

WellKept(ls) ==
    ls \in Seq(Lines) /\ (\A k \in DOMAIN ls : Shaped(ls[k])) /\ OwnLast(ls) /\ OneEach(ls)

(* What every edit keeps. *)
Edit(ls, es) ==
    /\ WellKept(es)
    /\ \A key \in PlainKeys : /\ Few(View(ls, key)) => Few(View(es, key))
                              /\ NoForeign(View(ls, key)) => NoForeign(View(es, key))

(* The keys whose lines add_cfgopt leaves alone. *)
Others(key) == IF key = "repeat" THEN PlainKeys ELSE (Key \cup {"#"}) \ {key}

LEMMA LineOf ==
    ASSUME NEW ls \in Seq(Lines), NEW k \in DOMAIN ls
    PROVE  ls[k] \in Lines /\ ls[k].own \in BOOLEAN /\ ls[k].opt \in Key /\ k \in Nat
  <1>1. DOMAIN ls = 1..Len(ls) /\ Len(ls) \in Nat
    BY LenProperties
  <1>2. ls[k] \in Lines
    BY <1>1, ElementOfSeq
  <1> QED  BY <1>1, <1>2, LineFacts

LEMMA ViewIs ==
    ASSUME NEW ls, NEW key
    PROVE  DOMAIN View(ls, key) = LinesAt(ls, key) /\ \A k \in LinesAt(ls, key) : View(ls, key)[k] = ls[k]
  BY DEF View

LEMMA SameView ==
    ASSUME NEW ls, NEW es, NEW key, LinesAt(es, key) = LinesAt(ls, key), \A k \in LinesAt(ls, key) : es[k] = ls[k]
    PROVE  View(es, key) = View(ls, key)
  BY DEF View

LEMMA GoneIs == \A opt, own : ~ Used([text |-> Gone, opt |-> opt, own |-> own])
  BY DEF Used

LEMMA NewIs ==
    ASSUME NEW key \in Key, NEW val \in Int, NEW own
    PROVE  LET l == [text |-> NewText(key, val), opt |-> key, own |-> own]
           IN  Used(l) /\ l.text.key = key /\ l.opt = key /\ l.own = own /\ Shaped(l) /\ l.text = NewText(key, val)
  <1>1. NewText(key, val) # Gone
    BY NewTextType
  <1>2. NewText(key, val).key = key /\ NewText(key, val).form # "tight"
    BY DEF NewText
  <1> QED  BY <1>1, <1>2 DEF Used, Shaped

(* Adding a line or writing one anew. *)
LEMMA PutKeeps ==
    ASSUME NEW ls, WellKept(ls), NEW es, NEW p, NEW l, Put(ls, es, p, l), Shaped(l), l.own \in BOOLEAN,
           p \in DOMAIN ls => /\ l.own = ls[p].own
                              /\ Used(l) => Used(ls[p]) /\ l.opt = ls[p].opt,
           p \notin DOMAIN ls => l.own /\ \A k \in DOMAIN ls : Used(ls[k]) => ls[k].opt # l.opt
    PROVE  WellKept(es)
  <1>1. /\ es \in Seq(Lines) /\ DOMAIN es = DOMAIN ls \cup {p} /\ es[p] = l
        /\ \A k \in DOMAIN ls : k # p => es[k] = ls[k]
        /\ p \notin DOMAIN ls => \A k \in DOMAIN ls : k < p
    BY DEF Put
  <1>2. \A k \in DOMAIN ls : es[k].own = ls[k].own
    BY <1>1
  <1>3. \A k \in DOMAIN es : Shaped(es[k])
    BY <1>1 DEF WellKept
  <1>4. OwnLast(es)
    <2> SUFFICES ASSUME NEW j \in DOMAIN es, NEW k \in DOMAIN es, es[j].own, ~ es[k].own PROVE k < j
      BY DEF OwnLast
    <2>1. k \in DOMAIN ls
      BY <1>1
    <2>2. CASE j \in DOMAIN ls
      BY <1>2, <2>1, <2>2 DEF WellKept, OwnLast
    <2>3. CASE j \notin DOMAIN ls
      BY <1>1, <2>1, <2>3
    <2> QED  BY <2>2, <2>3
  <1>5. OneEach(es)
    <2> SUFFICES ASSUME NEW j \in DOMAIN es, NEW k \in DOMAIN es, j # k, es[j].own,
                        Used(es[j]), Used(es[k])
                 PROVE  es[j].opt # es[k].opt
      BY DEF OneEach
    <2>1. CASE p \in DOMAIN ls
      <3>1. \A i \in DOMAIN ls : Used(es[i]) => Used(ls[i]) /\ es[i].opt = ls[i].opt
        BY <1>1, <2>1
      <3>2. j \in DOMAIN ls /\ k \in DOMAIN ls
        BY <1>1, <2>1
      <3> QED  BY <1>2, <3>1, <3>2 DEF WellKept, OneEach
    <2>2. CASE p \notin DOMAIN ls
      <3>1. CASE j = p
        BY <1>1, <2>2, <3>1
      <3>2. CASE k = p
        BY <1>1, <2>2, <3>2
      <3>3. CASE j # p /\ k # p
        BY <1>1, <3>3 DEF WellKept, OneEach
      <3> QED  BY <3>1, <3>2, <3>3
    <2> QED  BY <2>1, <2>2
  <1> QED  BY <1>1, <1>3, <1>4, <1>5 DEF WellKept

(* What adding a line changes, and for which keys. *)
LEMMA AddEdit ==
    ASSUME NEW ls, WellKept(ls), NEW es, NEW key \in Key, NEW val \in Int, Added(ls, es, key, val)
    PROVE  /\ Edit(ls, es)
           /\ \A other \in Others(key) : View(es, other) = View(ls, other)
           /\ Within(View(es, "axismap"), View(ls, "axismap")) \/ key = "axismap"
  <1>1. PICK p \in Nat, own \in BOOLEAN :
           LET l == [text |-> NewText(key, val), opt |-> key, own |-> own]
           IN  /\ Put(ls, es, p, l)
               /\ p \in DOMAIN ls => own = ls[p].own /\ Used(ls[p]) /\ ls[p].opt = key
               /\ p \notin DOMAIN ls => own /\ \A k \in DOMAIN ls : Used(ls[k]) => ls[k].opt # key
    <2>1. ls \in Seq(Lines)
      BY DEF WellKept
    <2> QED  BY <2>1, LineOf DEF Added
  <1> DEFINE l == [text |-> NewText(key, val), opt |-> key, own |-> own]
  <1>2. Used(l) /\ l.text.key = key /\ l.opt = key /\ l.own = own /\ Shaped(l)
    BY NewIs
  <1>3. /\ Put(ls, es, p, l)
        /\ p \in DOMAIN ls => own = ls[p].own /\ Used(ls[p]) /\ ls[p].opt = key
        /\ p \notin DOMAIN ls => own /\ \A k \in DOMAIN ls : Used(ls[k]) => ls[k].opt # key
    BY <1>1
  <1> HIDE DEF l
  <1>4. WellKept(es)
    BY <1>2, <1>3, PutKeeps
  <1>5. DOMAIN es = DOMAIN ls \cup {p} /\ es[p] = l /\ \A k \in DOMAIN ls : k # p => es[k] = ls[k]
    BY <1>3 DEF Put
  <1>6. \A k \in DOMAIN ls : Used(ls[k]) /\ ls[k].opt # "repeat" => ls[k].text.key = ls[k].opt
    BY DEF WellKept, Shaped
  <1>7. \A k \in DOMAIN ls : Used(ls[k]) /\ ls[k].opt = "repeat" =>
           ls[k].text.key = "repeat" \/ (~ ls[k].own /\ ls[k].text.key \in {"#", "axismap"})
    BY DEF WellKept, Shaped
  <1>8. p \in DOMAIN ls => \A other \in Others(key) : ls[p].text.key # other
    BY <1>3, <1>6, <1>7 DEF Others, PlainKeys, Trans, Dead
  <1>9. key \notin Others(key)
    BY DEF Others, PlainKeys, Trans, Dead
  <1>10. ASSUME NEW other \in Others(key) PROVE View(es, other) = View(ls, other)
    <2>1. p \notin LinesAt(es, other) /\ p \notin LinesAt(ls, other)
      BY <1>2, <1>5, <1>8, <1>9 DEF LinesAt
    <2>2. LinesAt(es, other) = LinesAt(ls, other) /\ \A k \in LinesAt(ls, other) : es[k] = ls[k]
      BY <1>5, <2>1 DEF LinesAt
    <2> QED  BY <2>2, SameView
  <1>11. ASSUME key # "axismap" PROVE Within(View(es, "axismap"), View(ls, "axismap"))
    <2>1. p \notin LinesAt(es, "axismap")
      BY <1>2, <1>5, <1>11 DEF LinesAt
    <2>2. LinesAt(es, "axismap") \subseteq LinesAt(ls, "axismap") /\ \A k \in LinesAt(es, "axismap") : es[k] = ls[k]
      BY <1>5, <2>1 DEF LinesAt
    <2> QED  BY <2>2, ViewIs DEF Within
  <1>12. ASSUME NEW other \in PlainKeys
         PROVE  /\ Few(View(ls, other)) => Few(View(es, other))
                /\ NoForeign(View(ls, other)) => NoForeign(View(es, other))
    <2>1. CASE other # key
      <3>1. other \in Others(key)
        BY <2>1 DEF Others, PlainKeys, Key, Option
      <3> QED  BY <1>10, <3>1
    <2>2. CASE other = key
      <3>1. key # "repeat"
        BY <2>2 DEF PlainKeys, Trans, Dead
      <3>2. p \in DOMAIN ls => p \in LinesAt(ls, key)
        BY <1>3, <1>6, <3>1 DEF LinesAt
      <3>3. p \notin DOMAIN ls => LinesAt(ls, key) = {}
        <4>1. \A k \in DOMAIN ls : Used(ls[k]) /\ ls[k].text.key = key => ls[k].opt = key
          BY <2>2, <3>1 DEF WellKept, Shaped, PlainKeys, Trans, Dead
        <4> QED  BY <1>3, <4>1 DEF LinesAt
      <3>4. LinesAt(es, key) = LinesAt(ls, key) \cup {p}
        BY <1>2, <1>5, <3>2 DEF LinesAt
      <3>5. \A k \in LinesAt(ls, key) : es[k].own = ls[k].own
        BY <1>2, <1>3, <1>5 DEF LinesAt
      <3>6. p \notin DOMAIN ls => es[p].own
        BY <1>2, <1>3, <1>5
      <3>7. Few(View(ls, key)) => Few(View(es, key))
        BY <3>2, <3>3, <3>4, ViewIs DEF Few
      <3>8. NoForeign(View(ls, key)) => NoForeign(View(es, key))
        BY <3>2, <3>3, <3>4, <3>5, <3>6, ViewIs DEF NoForeign
      <3> QED  BY <2>2, <3>7, <3>8
    <2> QED  BY <2>1, <2>2
  <1>13. Edit(ls, es)
    BY <1>4, <1>12 DEF Edit
  <1> QED  BY <1>10, <1>11, <1>13

(* What removing a line changes. *)
LEMMA RmEdit ==
    ASSUME NEW ls, WellKept(ls), NEW es, NEW key, NEW onlyOwn \in BOOLEAN, Removed(ls, es, key, onlyOwn)
    PROVE  /\ Edit(ls, es)
           /\ \A other : /\ Within(View(es, other), View(ls, other))
                         /\ other # key => View(es, other) = View(ls, other)
  <1>1. CASE es = ls
    BY <1>1 DEF Edit, Within
  <1>2. ASSUME NEW p \in LinesAt(ls, key), onlyOwn => ls[p].own,
               Put(ls, es, p, [text |-> Gone, opt |-> ls[p].opt, own |-> ls[p].own])
        PROVE  /\ Edit(ls, es)
               /\ \A other : /\ Within(View(es, other), View(ls, other))
                             /\ other # key => View(es, other) = View(ls, other)
    <2> DEFINE l == [text |-> Gone, opt |-> ls[p].opt, own |-> ls[p].own]
    <2>1. p \in DOMAIN ls /\ ls[p].text.key = key
      BY DEF LinesAt
    <2>2. ~ Used(l) /\ l.own = ls[p].own /\ l.opt = ls[p].opt /\ Shaped(l)
      BY GoneIs DEF Shaped
    <2>3. l.own \in BOOLEAN
      BY <2>1, <2>2, LineOf DEF WellKept
    <2>4. Put(ls, es, p, l)
      BY <1>2
    <2> HIDE DEF l
    <2>5. WellKept(es)
      BY <2>1, <2>2, <2>3, <2>4, PutKeeps
    <2>6. DOMAIN es = DOMAIN ls /\ es[p] = l /\ \A k \in DOMAIN ls : k # p => es[k] = ls[k]
      BY <2>1, <2>4 DEF Put
    <2>7. ASSUME NEW other PROVE LinesAt(es, other) = LinesAt(ls, other) \ {p} /\ \A k \in LinesAt(es, other) : es[k] = ls[k]
      BY <2>2, <2>6 DEF LinesAt
    <2>8. ASSUME NEW other PROVE Within(View(es, other), View(ls, other))
      BY <2>7, ViewIs DEF Within
    <2>9. ASSUME NEW other, other # key PROVE View(es, other) = View(ls, other)
      <3>1. p \notin LinesAt(ls, other)
        BY <2>1, <2>9 DEF LinesAt
      <3> QED  BY <2>7, <3>1, SameView
    <2>10. Edit(ls, es)
      BY <2>5, <2>8 DEF Edit, Within, Few, NoForeign
    <2> QED  BY <2>8, <2>9, <2>10
  <1> QED  BY <1>1, <1>2 DEF Removed

(* If there was at most one line with the key, the line written is the     *)
(* only one.                                                               *)
LEMMA AddSole ==
    ASSUME NEW ls, WellKept(ls), NEW es, NEW key \in PlainKeys \cup {"repeat"}, NEW val \in Int,
           Added(ls, es, key, val),
           IF key = "repeat" THEN NoForeign(View(ls, key)) ELSE Few(View(ls, key))
    PROVE  Sole(View(es, key), key, val)
  <1>0. key \in Key
    BY DEF PlainKeys, Key, Option
  <1>1. PICK p \in Nat, own \in BOOLEAN :
           LET l == [text |-> NewText(key, val), opt |-> key, own |-> own]
           IN  /\ Put(ls, es, p, l)
               /\ p \in DOMAIN ls => own = ls[p].own /\ Used(ls[p]) /\ ls[p].opt = key
               /\ p \notin DOMAIN ls => own /\ \A k \in DOMAIN ls : Used(ls[k]) => ls[k].opt # key
    <2>1. ls \in Seq(Lines)
      BY DEF WellKept
    <2> QED  BY <2>1, LineOf DEF Added
  <1> DEFINE l == [text |-> NewText(key, val), opt |-> key, own |-> own]
  <1>2. Used(l) /\ l.text.key = key /\ l.text = NewText(key, val)
    BY <1>0, NewIs
  <1>3. /\ Put(ls, es, p, l)
        /\ p \in DOMAIN ls => own = ls[p].own /\ Used(ls[p]) /\ ls[p].opt = key
        /\ p \notin DOMAIN ls => \A k \in DOMAIN ls : Used(ls[k]) => ls[k].opt # key
    BY <1>1
  <1> HIDE DEF l
  <1>4. DOMAIN es = DOMAIN ls \cup {p} /\ es[p] = l /\ \A k \in DOMAIN ls : k # p => es[k] = ls[k]
    BY <1>3 DEF Put
  <1>5. \A k \in LinesAt(ls, key) : k \in DOMAIN ls /\ Used(ls[k]) /\ ls[k].opt = key
    BY DEF WellKept, Shaped, LinesAt, PlainKeys, Trans, Dead
  <1>6. LinesAt(ls, key) \subseteq {p}
    <2>1. CASE p \notin DOMAIN ls
      BY <1>3, <1>5, <2>1
    <2>2. CASE p \in DOMAIN ls /\ key = "repeat"
      <3>1. \A k \in LinesAt(ls, key) : ls[k].own
        BY <2>2, ViewIs DEF NoForeign
      <3> QED  BY <1>3, <1>5, <2>2, <3>1 DEF WellKept, OneEach
    <2>3. CASE p \in DOMAIN ls /\ key # "repeat"
      <3>1. p \in LinesAt(ls, key)
        BY <1>3, <2>3 DEF WellKept, Shaped, LinesAt
      <3>2. \A j, k \in LinesAt(ls, key) : j = k
        BY <2>3, ViewIs DEF Few
      <3> QED  BY <3>1, <3>2
    <2> QED  BY <2>1, <2>2, <2>3
  <1>7. LinesAt(es, key) = {p}
    BY <1>2, <1>4, <1>6 DEF LinesAt
  <1>8. DOMAIN View(es, key) = {p} /\ View(es, key)[p] = l
    BY <1>4, <1>7, ViewIs
  <1> HIDE DEF NewText
  <1> QED  BY <1>2, <1>8 DEF Sole

LEMMA OwnIsLoose ==
    ASSUME NEW ls, WellKept(ls), NEW key, NoForeign(View(ls, key))
    PROVE  Loose(View(ls, key))
  <1>0. \A k \in LinesAt(ls, key) : ls[k].own
    BY ViewIs DEF NoForeign
  <1>1. \A k \in LinesAt(ls, key) : k \in DOMAIN ls /\ Used(ls[k]) /\ ls[k].own
    BY <1>0 DEF LinesAt
  <1>2. \A k \in LinesAt(ls, key) : ls[k].text.form # "tight"
    BY <1>1 DEF WellKept, Shaped
  <1> QED  BY <1>2, ViewIs DEF Loose

(* If there was at most one line with the key, one that is left was not    *)
(* found.                                                                  *)
LEMMA RmTight ==
    ASSUME NEW ls, NEW es, NEW key, Removed(ls, es, key, FALSE), Few(View(ls, key))
    PROVE  Tight(View(es, key))
  <1>1. CASE es = ls /\ \A k \in LinesAt(ls, key) : ls[k].text.form = "tight"
    BY <1>1, ViewIs DEF Tight
  <1>2. ASSUME NEW p \in LinesAt(ls, key), NEW opt, NEW own, Put(ls, es, p, [text |-> Gone, opt |-> opt, own |-> own])
        PROVE  Tight(View(es, key))
    <2> DEFINE l == [text |-> Gone, opt |-> opt, own |-> own]
    <2>1. ~ Used(l)
      BY GoneIs
    <2>2. Put(ls, es, p, l)
      BY <1>2
    <2> HIDE DEF l
    <2>3. p \in DOMAIN ls /\ DOMAIN es = DOMAIN ls \cup {p} /\ es[p] = l /\ \A k \in DOMAIN ls : k # p => es[k] = ls[k]
      BY <2>2 DEF Put, LinesAt
    <2>4. \A k \in LinesAt(ls, key) : k = p
      BY ViewIs DEF Few
    <2>5. LinesAt(es, key) = {}
      BY <2>1, <2>3, <2>4 DEF LinesAt
    <2> QED  BY <2>5, ViewIs DEF Tight
  <1> QED  BY <1>1, <1>2 DEF Removed

(* When no line with the key is left. *)
LEMMA RmClear ==
    ASSUME NEW ls, WellKept(ls), NEW es, NEW key, NEW onlyOwn \in BOOLEAN, Removed(ls, es, key, onlyOwn),
           Few(View(ls, key)), IF onlyOwn THEN NoForeign(View(ls, key)) ELSE Loose(View(ls, key))
    PROVE  Clear(View(es, key))
  <1>1. \A k \in LinesAt(ls, key) : ls[k].text.form # "tight"
    BY OwnIsLoose, ViewIs DEF Loose
  <1>2. CASE es = ls /\ \A k \in LinesAt(ls, key) : ls[k].text.form = "tight"
    <2>1. LinesAt(es, key) = {}
      BY <1>1, <1>2
    <2> QED  BY <2>1, ViewIs DEF Clear
  <1>3. CASE onlyOwn /\ es = ls /\ \E k \in LinesAt(ls, key) : ~ ls[k].own
    BY <1>3, ViewIs DEF NoForeign
  <1>4. ASSUME NEW p \in LinesAt(ls, key), NEW opt, NEW own, Put(ls, es, p, [text |-> Gone, opt |-> opt, own |-> own])
        PROVE  Clear(View(es, key))
    <2> DEFINE l == [text |-> Gone, opt |-> opt, own |-> own]
    <2>1. ~ Used(l)
      BY GoneIs
    <2>2. Put(ls, es, p, l)
      BY <1>4
    <2> HIDE DEF l
    <2>3. p \in DOMAIN ls /\ DOMAIN es = DOMAIN ls \cup {p} /\ es[p] = l /\ \A k \in DOMAIN ls : k # p => es[k] = ls[k]
      BY <2>2 DEF Put, LinesAt
    <2>4. \A k \in LinesAt(ls, key) : k = p
      BY ViewIs DEF Few
    <2>5. LinesAt(es, key) = {}
      BY <2>1, <2>3, <2>4 DEF LinesAt
    <2> QED  BY <2>5, ViewIs DEF Clear
  <1> QED  BY <1>2, <1>3, <1>4 DEF Removed

LEMMA EditsChain ==
    ASSUME NEW a, NEW b, NEW c, Edit(a, b), Edit(b, c)
    PROVE  Edit(a, c)
  BY DEF Edit

LEMMA TightLoose ==
    ASSUME NEW g, Tight(g), Loose(g)
    PROVE  Clear(g)
  BY DEF Tight, Loose, Clear

LEMMA WithinKeeps ==
    ASSUME NEW g, NEW h, Within(g, h)
    PROVE  /\ Few(h) => Few(g)
           /\ NoForeign(h) => NoForeign(g)
           /\ Tight(h) => Tight(g)
           /\ Loose(h) => Loose(g)
           /\ Clear(h) => Clear(g)
  BY DEF Within, Few, NoForeign, Tight, Loose, Clear

(* Only lines with these keys are edited.                                  *)
Affects(ls, es, keys) ==
    Edit(ls, es) /\ \A key \in (Key \cup {"#"}) \ keys : View(es, key) = View(ls, key)

(* The lines after each part of write_cfg. *)
After1(ls) == WriteSingle(ls, "sens")
After2(ls) == WriteTrans(After1(ls))
After3(ls) == WriteDead(After2(ls))
After4(ls) == WriteSingle(After3(ls), "repeat")
After5(ls) == WriteSingle(After4(ls), "axismap")

(* The parts follow each other. *)
LEMMA EditedInParts ==
    ASSUME NEW ls
    PROVE  Edited(ls) = WriteSingle(After5(ls), "led")
  BY DEF Edited, After1, After2, After3, After4, After5

LEMMA AffectsChain ==
    ASSUME NEW a, NEW b, NEW c, NEW keys, Affects(a, b, keys), Affects(b, c, keys)
    PROVE  Affects(a, c, keys)
  BY EditsChain DEF Affects

LEMMA AffectsMore ==
    ASSUME NEW a, NEW b, NEW keys, NEW more, Affects(a, b, keys), keys \subseteq more
    PROVE  Affects(a, b, more)
  BY DEF Affects

LEMMA AffectsNone ==
    ASSUME NEW ls, WellKept(ls), NEW keys
    PROVE  Affects(ls, ls, keys)
  BY DEF Affects, Edit

LEMMA AddAffects ==
    ASSUME NEW ls, WellKept(ls), NEW key \in Key \ {"repeat"}, NEW val \in Int
    PROVE  Affects(ls, add_cfgopt(ls, key, val), {key})
  <1> DEFINE es == add_cfgopt(ls, key, val)
  <1>1. Added(ls, es, key, val)
    BY AddIsAdded DEF WellKept
  <1> HIDE DEF es
  <1>2. Edit(ls, es) /\ \A other \in Others(key) : View(es, other) = View(ls, other)
    BY <1>1, AddEdit
  <1>3. Others(key) = (Key \cup {"#"}) \ {key}
    BY DEF Others
  <1>4. Affects(ls, es, {key})
    BY <1>2, <1>3 DEF Affects
  <1> QED  BY <1>4 DEF es

LEMMA RmAffects ==
    ASSUME NEW ls, WellKept(ls), NEW key, NEW onlyOwn \in BOOLEAN
    PROVE  Affects(ls, rm_cfgopt(ls, key, onlyOwn), {key})
  <1> DEFINE es == rm_cfgopt(ls, key, onlyOwn)
  <1>1. Removed(ls, es, key, onlyOwn)
    BY RmIsRemoved DEF WellKept
  <1> HIDE DEF es
  <1>2. Affects(ls, es, {key})
    BY <1>1, RmEdit DEF Affects
  <1> QED  BY <1>2 DEF es

LEMMA RmsAffect ==
    ASSUME NEW ls, WellKept(ls), NEW keys, NEW key \in keys
    PROVE  Affects(ls, RmAll(ls, key), keys) /\ Affects(ls, RmOwn(ls, key), keys)
  <1>0. TRUE \in BOOLEAN /\ FALSE \in BOOLEAN /\ {key} \subseteq keys
    OBVIOUS
  <1>1. Affects(ls, RmAll(ls, key), {key}) /\ Affects(ls, RmOwn(ls, key), {key})
    BY <1>0, RmAffects DEF RmAll, RmOwn
  <1> QED  BY <1>0, <1>1, AffectsMore

LEMMA CfgValues ==
    ASSUME cfg \in [Option -> Int]
    PROVE  \A o \in Option : cfg[o] \in Int /\ o \in Key
  BY DEF Key

LEMMA SingleAffects ==
    ASSUME NEW ls, WellKept(ls), cfg \in [Option -> Int], NEW o \in Option \ {"repeat"}
    PROVE  Affects(ls, WriteSingle(ls, o), {o})
  <1>1. cfg[o] \in Int /\ o \in Key \ {"repeat"} /\ (o = "led") \in BOOLEAN
    BY CfgValues
  <1>2. Affects(ls, add_cfgopt(ls, o, cfg[o]), {o}) /\ Affects(ls, rm_cfgopt(ls, o, o = "led"), {o})
    BY <1>1, AddAffects, RmAffects
  <1> QED  BY <1>2 DEF WriteSingle

(* "repeat" is looked for under option 0: comments and rejected lines may  *)
(* be written over, but no line that tells another option.                 *)
LEMMA RepeatAffects ==
    ASSUME NEW ls, WellKept(ls), cfg \in [Option -> Int]
    PROVE  /\ Edit(ls, WriteSingle(ls, "repeat"))
           /\ \A key \in PlainKeys : View(WriteSingle(ls, "repeat"), key) = View(ls, key)
           /\ Within(View(WriteSingle(ls, "repeat"), "axismap"), View(ls, "axismap"))
  <1>0. "repeat" \in Key /\ "repeat" \in Option /\ cfg["repeat"] \in Int /\ ls \in Seq(Lines)
    BY CfgValues DEF Key, Option, WellKept
  <1>1. CASE ~ IsDefault("repeat")
    <2> DEFINE es == add_cfgopt(ls, "repeat", cfg["repeat"])
    <2>1. Added(ls, es, "repeat", cfg["repeat"])
      BY <1>0, AddIsAdded
    <2>2. WriteSingle(ls, "repeat") = es
      BY <1>1 DEF WriteSingle
    <2> HIDE DEF es
    <2>3. /\ Edit(ls, es)
          /\ \A other \in Others("repeat") : View(es, other) = View(ls, other)
          /\ Within(View(es, "axismap"), View(ls, "axismap"))
      BY <1>0, <2>1, AddEdit
    <2> QED  BY <2>2, <2>3 DEF Others
  <1>2. CASE IsDefault("repeat")
    <2>1. WriteSingle(ls, "repeat") = RmAll(ls, "repeat")
      BY <1>2 DEF WriteSingle, RmAll
    <2>2. Affects(ls, RmAll(ls, "repeat"), {"repeat"})
      BY RmsAffect
    <2>3. PlainKeys \cup {"axismap"} \subseteq (Key \cup {"#"}) \ {"repeat"}
      BY DEF PlainKeys, Trans, Dead, Key, Option
    <2> QED  BY <2>1, <2>2, <2>3 DEF Affects, Within
  <1> QED  BY <1>1, <1>2

LEMMA OneAffects ==
    ASSUME NEW ls, WellKept(ls), cfg \in [Option -> Int], NEW o \in Option \ {"repeat"}, NEW group
    PROVE  Affects(ls, WriteOne(ls, o, group), {o, group})
  <1>1. cfg[o] \in Int /\ o \in Key \ {"repeat"}
    BY CfgValues
  <1> DEFINE a == add_cfgopt(ls, o, cfg[o])
  <1>2. Affects(ls, a, {o}) /\ Affects(ls, RmOwn(ls, o), {o})
    BY <1>1, AddAffects, RmAffects DEF RmOwn
  <1> HIDE DEF a
  <1>3. WellKept(a)
    BY <1>2 DEF Affects, Edit
  <1>4. Affects(a, RmAll(a, group), {group})
    BY <1>3, RmAffects DEF RmAll
  <1>5. Affects(ls, RmOwn(ls, o), {o, group}) /\ Affects(ls, a, {o, group}) /\ Affects(a, RmAll(a, group), {o, group})
    BY <1>2, <1>4, AffectsMore
  <1>6. Affects(ls, RmAll(a, group), {o, group})
    BY <1>5, AffectsChain
  <1> QED  BY <1>5, <1>6 DEF WriteOne, a

LEMMA OneAffectsGroup ==
    ASSUME NEW ls, WellKept(ls), cfg \in [Option -> Int], NEW keys,
           NEW o \in keys, o \in Option \ {"repeat"}, NEW group \in keys
    PROVE  Affects(ls, WriteOne(ls, o, group), keys)
  <1>1. Affects(ls, WriteOne(ls, o, group), {o, group}) /\ {o, group} \subseteq keys
    BY OneAffects
  <1> QED  BY <1>1, AffectsMore

(* The part for the sensitivities edits their lines only, that for the     *)
(* dead zones theirs.                                                      *)
LEMMA TransAffects ==
    ASSUME NEW ls, WellKept(ls), cfg \in [Option -> Int]
    PROVE  Affects(ls, WriteTrans(ls), {"trans", "trans1", "trans2"})
  <1> DEFINE T == {"trans", "trans1", "trans2"}
  <1>0. /\ {"trans1", "trans2"} \subseteq Option \ {"repeat"} /\ "trans" \in Key \ {"repeat"}
        /\ cfg["trans1"] \in Int
    BY CfgValues DEF Key, Option, Trans
  <1>1. CASE cfg["trans1"] = cfg["trans2"]
    <2> DEFINE a == RmAll(ls, "trans1")
               b == RmAll(a, "trans2")
               c == RmOwn(b, "trans")
               d == add_cfgopt(b, "trans", cfg["trans1"])
    <2>1. Affects(ls, a, T)
      BY RmsAffect
    <2> HIDE DEF a
    <2>2. WellKept(a)
      BY <2>1 DEF Affects, Edit
    <2>3. Affects(a, b, T)
      BY <2>2, RmsAffect
    <2> HIDE DEF b
    <2>4. WellKept(b)
      BY <2>3 DEF Affects, Edit
    <2>5. Affects(b, c, T)
      BY <2>4, RmsAffect
    <2>6. Affects(b, d, T)
      BY <1>0, <2>4, AddAffects, AffectsMore
    <2>7. WriteTrans(ls) = IF IsDefault("trans1") THEN c ELSE d
      BY <1>1 DEF WriteTrans, a, b
    <2> HIDE DEF c, d
    <2>8. Affects(ls, c, T) /\ Affects(ls, d, T)
      BY <2>1, <2>3, <2>5, <2>6, AffectsChain
    <2> QED  BY <2>7, <2>8
  <1>2. CASE cfg["trans1"] # cfg["trans2"]
    <2> DEFINE a == WriteOne(ls, "trans1", "trans")
               b == WriteOne(a, "trans2", "trans")
    <2>1. Affects(ls, a, T)
      BY <1>0, OneAffectsGroup
    <2> HIDE DEF a
    <2>2. WellKept(a)
      BY <2>1 DEF Affects, Edit
    <2>3. Affects(a, b, T)
      BY <1>0, <2>2, OneAffectsGroup
    <2>4. WriteTrans(ls) = b
      BY <1>2 DEF WriteTrans, a
    <2> HIDE DEF b
    <2> QED  BY <2>1, <2>3, <2>4, AffectsChain
  <1> QED  BY <1>1, <1>2

LEMMA DeadAffects ==
    ASSUME NEW ls, WellKept(ls), cfg \in [Option -> Int]
    PROVE  Affects(ls, WriteDead(ls), {"dead", "dead1", "dead2"})
  <1> DEFINE T == {"dead", "dead1", "dead2"}
  <1>0. /\ {"dead1", "dead2"} \subseteq Option \ {"repeat"} /\ "dead" \in Key \ {"repeat"}
        /\ cfg["dead1"] \in Int
    BY CfgValues DEF Key, Option, Dead
  <1>1. CASE cfg["dead1"] = cfg["dead2"] /\ IsDefault("dead1")
    <2>1. WriteDead(ls) = RmOwn(ls, "dead")
      BY <1>1 DEF WriteDead
    <2>2. Affects(ls, RmOwn(ls, "dead"), T)
      BY RmsAffect
    <2> QED  BY <2>1, <2>2
  <1>2. CASE cfg["dead1"] = cfg["dead2"] /\ ~ IsDefault("dead1")
    <2> DEFINE a == add_cfgopt(ls, "dead", cfg["dead1"])
               b == RmAll(a, "dead1")
               c == RmAll(b, "dead2")
    <2>1. Affects(ls, a, T)
      BY <1>0, AddAffects, AffectsMore
    <2> HIDE DEF a
    <2>2. WellKept(a)
      BY <2>1 DEF Affects, Edit
    <2>3. Affects(a, b, T)
      BY <2>2, RmsAffect
    <2> HIDE DEF b
    <2>4. WellKept(b)
      BY <2>3 DEF Affects, Edit
    <2>5. Affects(b, c, T)
      BY <2>4, RmsAffect
    <2>6. WriteDead(ls) = c
      BY <1>2 DEF WriteDead, a, b
    <2> HIDE DEF c
    <2> QED  BY <2>1, <2>3, <2>5, <2>6, AffectsChain
  <1>3. CASE cfg["dead1"] # cfg["dead2"]
    <2> DEFINE a == WriteOne(ls, "dead1", "dead")
               b == WriteOne(a, "dead2", "dead")
    <2>1. Affects(ls, a, T)
      BY <1>0, OneAffectsGroup
    <2> HIDE DEF a
    <2>2. WellKept(a)
      BY <2>1 DEF Affects, Edit
    <2>3. Affects(a, b, T)
      BY <1>0, <2>2, OneAffectsGroup
    <2>4. WriteDead(ls) = b
      BY <1>3 DEF WriteDead, a
    <2> HIDE DEF b
    <2> QED  BY <2>1, <2>3, <2>4, AffectsChain
  <1> QED  BY <1>1, <1>2, <1>3

(* What each part of write_cfg may edit. *)
LEMMA EditedParts ==
    ASSUME NEW ls, WellKept(ls), cfg \in [Option -> Int]
    PROVE  /\ Affects(ls, After1(ls), {"sens"})
           /\ Affects(After1(ls), After2(ls), {"trans", "trans1", "trans2"})
           /\ Affects(After2(ls), After3(ls), {"dead", "dead1", "dead2"})
           /\ Edit(After3(ls), After4(ls))
           /\ \A key \in PlainKeys : View(After4(ls), key) = View(After3(ls), key)
           /\ Within(View(After4(ls), "axismap"), View(After3(ls), "axismap"))
           /\ Affects(After4(ls), After5(ls), {"axismap"})
           /\ Affects(After5(ls), Edited(ls), {"led"})
  <1>0. {"sens", "axismap", "led"} \subseteq Option \ {"repeat"}
    BY DEF Option
  <1>1. Affects(ls, After1(ls), {"sens"}) /\ WellKept(After1(ls))
    BY <1>0, SingleAffects DEF After1, Affects, Edit
  <1>2. Affects(After1(ls), After2(ls), {"trans", "trans1", "trans2"}) /\ WellKept(After2(ls))
    BY <1>1, TransAffects DEF After2, Affects, Edit
  <1>3. Affects(After2(ls), After3(ls), {"dead", "dead1", "dead2"}) /\ WellKept(After3(ls))
    BY <1>2, DeadAffects DEF After3, Affects, Edit
  <1>4. /\ Edit(After3(ls), After4(ls)) /\ WellKept(After4(ls))
        /\ \A key \in PlainKeys : View(After4(ls), key) = View(After3(ls), key)
        /\ Within(View(After4(ls), "axismap"), View(After3(ls), "axismap"))
    BY <1>3, RepeatAffects DEF After4, Edit
  <1>5. Affects(After4(ls), After5(ls), {"axismap"}) /\ WellKept(After5(ls))
    BY <1>0, <1>4, SingleAffects DEF After5, Affects, Edit
  <1>6. Affects(After5(ls), Edited(ls), {"led"})
    BY <1>0, <1>5, SingleAffects, EditedInParts
  <1> QED  BY <1>1, <1>2, <1>3, <1>4, <1>5, <1>6

(* The inductive invariant. *)
FileInv == FileTypeOK /\ WellKept(lines)

(* The lines as read_cfg keeps them. *)
LEMMA KeptWell ==
    ASSUME NEW f \in Seq(Texts)
    PROVE  WellKept(Kept(f)) /\ RoomFor(f) \in Nat
  <1>1. Len(f) \in Nat /\ DOMAIN f = 1..Len(f) /\ \A k \in 1..Len(f) : f[k] \in Texts
    BY LenProperties, ElementOfSeq
  <1> DEFINE ls == Kept(f)
  <1>2. ls = [k \in 1..Len(f) |-> [text |-> f[k], opt |-> OptOf(f[k]), own |-> FALSE]]
    BY <1>1 DEF Kept
  <1>3. ASSUME NEW k \in 1..Len(f)
        PROVE  ls[k] \in Lines /\ ~ ls[k].own /\ Shaped(ls[k])
    <2> DEFINE l == [text |-> f[k], opt |-> OptOf(f[k]), own |-> FALSE]
    <2>1. ls[k] = l /\ f[k] \in Texts
      BY <1>1, <1>2
    <2>2. OptOf(f[k]) \in Key
      BY <2>1, TextFacts DEF OptOf, Key, Option
    <2>3. l \in Lines
      BY <2>1, <2>2 DEF Lines
    <2>4. Shaped(l)
      BY DEF Shaped, OptOf
    <2> HIDE DEF ls
    <2> QED  BY <2>1, <2>3, <2>4
  <1>4. ls \in Seq(Lines)
    <2> HIDE DEF ls
    <2>1. ls \in [1..Len(f) -> Lines]
      BY <1>2, <1>3
    <2> QED  BY <1>1, <2>1, IsASeq
  <1>5. DOMAIN ls = 1..Len(f)
    BY <1>2
  <1> HIDE DEF ls
  <1>6. WellKept(ls)
    BY <1>3, <1>4, <1>5 DEF WellKept, OwnLast, OneEach
  <1>7. RoomFor(f) \in Nat
    BY <1>1, ConfigFileAssumption DEF RoomFor
  <1> QED  BY <1>6, <1>7 DEF ls

LEMMA NoLines ==
    WellKept(<<>>)
  <1>1. <<>> \in Seq(Lines) /\ DOMAIN <<>> = {}
    BY EmptySeq
  <1> QED  BY <1>1 DEF WellKept, OwnLast, OneEach

(* A save keeps the lines well. *)
LEMMA EditedKept ==
    ASSUME NEW ls, WellKept(ls), cfg \in [Option -> Int]
    PROVE  WellKept(Edited(ls))
  BY EditedParts DEF Affects, Edit

LEMMA FileInitInv == FileInit => FileInv
  <1> SUFFICES ASSUME FileInit PROVE FileInv
    OBVIOUS
  <1>1. ops \in 0..MaxOps /\ (file = NoFile \/ file \in Seq(Texts))
    BY ConfigFileAssumption DEF FileInit
  <1>2. CASE file = NoFile
    <2>1. cfg \in [Option -> Int] /\ WellKept(lines) /\ room \in Nat
      BY <1>2, DefaultType, NoLines DEF FileInit
    <2> QED  BY <1>1, <2>1 DEF FileInv, FileTypeOK, WellKept
  <1>3. CASE file # NoFile
    <2>1. file \in Seq(Texts)
      BY <1>1, <1>3
    <2>2. cfg = Read(file) /\ lines = Kept(file) /\ room = RoomFor(file)
      BY <1>3 DEF FileInit
    <2>3. cfg \in [Option -> Int] /\ WellKept(lines) /\ room \in Nat
      BY <2>1, <2>2, ReadTold, KeptWell
    <2> QED  BY <1>1, <2>3 DEF FileInv, FileTypeOK, WellKept
  <1> QED  BY <1>2, <1>3

LEMMA LoadInv ==
    ASSUME FileInv, file # NoFile, Load(file)
    PROVE  cfg' \in [Option -> Int] /\ WellKept(lines') /\ room' \in Nat
  BY ReadTold, KeptWell DEF FileInv, FileTypeOK, Load

LEMMA FileNextInv == FileInv /\ [FileNext]_filevars => FileInv'
  <1> SUFFICES ASSUME FileInv, [FileNext]_filevars PROVE FileInv'
    OBVIOUS
  <1>0. /\ cfg \in [Option -> Int] /\ (file = NoFile \/ file \in Seq(Texts)) /\ room \in Nat
        /\ ops \in 0..MaxOps /\ WellKept(lines)
    BY DEF FileInv, FileTypeOK
  <1>1. ASSUME Operation PROVE ops' \in 0..MaxOps
    BY <1>0, <1>1, ConfigFileAssumption DEF Operation
  <1>2. ASSUME NEW o \in Option, NEW val \in Settable[o], Set(o, val) PROVE FileInv'
    <2>1. val \in Int
      BY ConfigFileAssumption
    <2>2. cfg' \in [Option -> Int]
      BY <1>0, <1>2, <2>1 DEF Set
    <2> QED  BY <1>0, <1>1, <1>2, <2>2 DEF Set, FileInv, FileTypeOK, WellKept
  <1>3. CASE Reset
    BY <1>0, <1>1, <1>3, DefaultType DEF Reset, FileInv, FileTypeOK, WellKept
  <1>4. CASE Restore
    <2>1. CASE file = NoFile
      BY <1>0, <1>1, <1>4, <2>1, DefaultType DEF Restore, FileInv, FileTypeOK, WellKept
    <2>2. CASE file # NoFile
      <3>1. Load(file) /\ file' = file /\ Operation
        BY <1>4, <2>2 DEF Restore
      <3>2. cfg' \in [Option -> Int] /\ WellKept(lines') /\ room' \in Nat
        BY <2>2, <3>1, LoadInv
      <3> QED  BY <1>0, <1>1, <3>1, <3>2 DEF FileInv, FileTypeOK, WellKept
    <2> QED  BY <2>1, <2>2
  <1>5. CASE Restart
    <2>1. CASE file = NoFile
      <3>1. cfg' \in [Option -> Int] /\ WellKept(lines') /\ room' \in Nat /\ file' = file /\ Operation
        BY <1>5, <2>1, DefaultType, NoLines DEF Restart
      <3> QED  BY <1>0, <1>1, <3>1 DEF FileInv, FileTypeOK, WellKept
    <2>2. CASE file # NoFile
      <3>1. Load(file) /\ file' = file /\ Operation
        BY <1>5, <2>2 DEF Restart
      <3>2. cfg' \in [Option -> Int] /\ WellKept(lines') /\ room' \in Nat
        BY <2>2, <3>1, LoadInv
      <3> QED  BY <1>0, <1>1, <3>1, <3>2 DEF FileInv, FileTypeOK, WellKept
    <2> QED  BY <2>1, <2>2
  <1>6. CASE write_cfg
    <2>1. WellKept(lines') /\ file' = Text(lines') /\ cfg' = cfg /\ Operation
      BY <1>0, <1>6, EditedKept DEF write_cfg
    <2>2. file' \in Seq(Texts)
      BY <2>1, ReadText DEF WellKept
    <2>3. room' \in Nat
      BY <1>0, <1>6, ConfigFileAssumption DEF write_cfg
    <2> QED  BY <1>0, <1>1, <2>1, <2>2, <2>3 DEF FileInv, FileTypeOK, WellKept
  <1>7. ASSUME NEW f \in EditedFiles, EditFile(f) PROVE FileInv'
    BY <1>0, <1>1, <1>7, ConfigFileAssumption DEF EditFile, FileInv, FileTypeOK, WellKept
  <1>8. CASE UNCHANGED filevars
    BY <1>0, <1>8 DEF filevars, FileInv, FileTypeOK, WellKept
  <1> QED  BY <1>2, <1>3, <1>4, <1>5, <1>6, <1>7, <1>8 DEF FileNext

(* The lines that read_cfg keeps and write_cfg edits are sound: after any  *)
(* number of saves no option has a line of the daemon's and another one.   *)
THEOREM LinesStaySound == FileSpec => []LinesAreSound
  <1>1. FileInv => LinesAreSound
    BY DEF FileInv, LinesAreSound, WellKept, OneEach, OneLineEach
  <1> QED  BY <1>1, FileInitInv, FileNextInv, PTL DEF FileSpec

(* What is left of the lines with a key after one call or several. *)
LEMMA AddWrites ==
    ASSUME NEW ls, WellKept(ls), NEW key \in PlainKeys, NEW val \in Int, Few(View(ls, key))
    PROVE  Sole(View(add_cfgopt(ls, key, val), key), key, val)
  <1> DEFINE es == add_cfgopt(ls, key, val)
  <1>1. key \in Key /\ key # "repeat"
    BY DEF PlainKeys, Key, Option, Trans, Dead
  <1>2. Added(ls, es, key, val)
    BY <1>1, AddIsAdded DEF WellKept
  <1> HIDE DEF es
  <1>3. Sole(View(es, key), key, val)
    BY <1>1, <1>2, AddSole
  <1> QED  BY <1>3 DEF es

LEMMA RmWithin ==
    ASSUME NEW ls, WellKept(ls), NEW key, NEW onlyOwn \in BOOLEAN, NEW other
    PROVE  Within(View(rm_cfgopt(ls, key, onlyOwn), other), View(ls, other))
  <1> DEFINE es == rm_cfgopt(ls, key, onlyOwn)
  <1>1. Removed(ls, es, key, onlyOwn)
    BY RmIsRemoved DEF WellKept
  <1> HIDE DEF es
  <1>2. Within(View(es, other), View(ls, other))
    BY <1>1, RmEdit
  <1> QED  BY <1>2 DEF es

LEMMA RmsWithin ==
    ASSUME NEW ls, WellKept(ls), NEW key, NEW other
    PROVE  /\ Within(View(RmAll(ls, key), other), View(ls, other))
           /\ Within(View(RmOwn(ls, key), other), View(ls, other))
  <1>1. TRUE \in BOOLEAN /\ FALSE \in BOOLEAN
    OBVIOUS
  <1> QED  BY <1>1, RmWithin DEF RmAll, RmOwn

LEMMA RmAllRemoves ==
    ASSUME NEW ls, WellKept(ls), NEW key, Few(View(ls, key))
    PROVE  /\ Tight(View(RmAll(ls, key), key))
           /\ Loose(View(ls, key)) => Clear(View(RmAll(ls, key), key))
  <1> DEFINE es == rm_cfgopt(ls, key, FALSE)
  <1>1. FALSE \in BOOLEAN
    OBVIOUS
  <1>2. Removed(ls, es, key, FALSE)
    BY <1>1, RmIsRemoved DEF WellKept
  <1>3. es = RmAll(ls, key)
    BY DEF RmAll
  <1> HIDE DEF es
  <1>4. Tight(View(es, key))
    BY <1>2, RmTight
  <1>5. Loose(View(ls, key)) => Clear(View(es, key))
    <2>1. Within(View(es, key), View(ls, key))
      BY <1>3, RmsWithin
    <2> QED  BY <1>4, <2>1, WithinKeeps, TightLoose
  <1> QED  BY <1>3, <1>4, <1>5

LEMMA RmOwnClears ==
    ASSUME NEW ls, WellKept(ls), NEW key, Few(View(ls, key)), NoForeign(View(ls, key))
    PROVE  Clear(View(RmOwn(ls, key), key))
  <1> DEFINE es == rm_cfgopt(ls, key, TRUE)
  <1>1. TRUE \in BOOLEAN
    OBVIOUS
  <1>2. Removed(ls, es, key, TRUE)
    BY <1>1, RmIsRemoved DEF WellKept
  <1>3. es = RmOwn(ls, key)
    BY DEF RmOwn
  <1> HIDE DEF es
  <1>4. Clear(View(es, key))
    BY <1>2, RmClear
  <1> QED  BY <1>3, <1>4

(* One option of a group. *)
LEMMA OneOutcome ==
    ASSUME NEW ls, WellKept(ls), cfg \in [Option -> Int], NEW o \in PlainKeys, o \in Option,
           NEW group \in PlainKeys, o # group
    PROVE  LET es == WriteOne(ls, o, group)
           IN  /\ Within(View(es, group), View(ls, group))
               /\ ~ IsDefault(o) /\ Few(View(ls, o)) => Sole(View(es, o), o, cfg[o])
               /\ ~ IsDefault(o) /\ Few(View(ls, group)) => Tight(View(es, group))
               /\ IsDefault(o) /\ Few(View(ls, o)) /\ NoForeign(View(ls, o)) => Clear(View(es, o))
               /\ IsDefault(o) => View(es, group) = View(ls, group)
  <1> DEFINE es == WriteOne(ls, o, group)
             a == add_cfgopt(ls, o, cfg[o])
  <1>1. cfg[o] \in Int /\ {o, group} \subseteq Key \ {"repeat"}
    BY CfgValues DEF PlainKeys, Key, Option, Trans, Dead
  <1>2. CASE IsDefault(o)
    <2>1. es = RmOwn(ls, o)
      BY <1>2 DEF WriteOne
    <2>2. Affects(ls, RmOwn(ls, o), {o})
      BY RmsAffect
    <2>3. View(es, group) = View(ls, group)
      BY <1>1, <2>1, <2>2 DEF Affects
    <2>4. Within(View(es, group), View(ls, group))
      BY <2>3 DEF Within
    <2>5. Few(View(ls, o)) /\ NoForeign(View(ls, o)) => Clear(View(es, o))
      BY <2>1, RmOwnClears
    <2> HIDE DEF es
    <2>6. es = WriteOne(ls, o, group)
      BY DEF es
    <2> QED  BY <1>2, <2>3, <2>4, <2>5, <2>6
  <1>3. CASE ~ IsDefault(o)
    <2>1. es = RmAll(a, group)
      BY <1>3 DEF WriteOne
    <2>2. Affects(ls, a, {o})
      BY <1>1, AddAffects
    <2>3. Few(View(ls, o)) => Sole(View(a, o), o, cfg[o])
      BY <1>1, AddWrites
    <2> HIDE DEF a
    <2>4. WellKept(a) /\ View(a, group) = View(ls, group)
      BY <1>1, <2>2 DEF Affects, Edit
    <2>5. Affects(a, RmAll(a, group), {group})
      BY <2>4, RmsAffect
    <2>6. View(es, o) = View(a, o)
      BY <1>1, <2>1, <2>5 DEF Affects
    <2>7. Within(View(es, group), View(ls, group))
      BY <2>1, <2>4, RmsWithin
    <2>8. Few(View(ls, group)) => Tight(View(es, group))
      BY <2>1, <2>4, RmAllRemoves
    <2> HIDE DEF es
    <2>9. es = WriteOne(ls, o, group)
      BY DEF es
    <2> QED  BY <1>3, <2>3, <2>6, <2>7, <2>8, <2>9
  <1> QED  BY <1>2, <1>3

(* Two options of a group that are written one by one. *)
LEMMA PairOutcome ==
    ASSUME NEW ls, WellKept(ls), cfg \in [Option -> Int],
           NEW o1 \in PlainKeys, o1 \in Option, NEW o2 \in PlainKeys, o2 \in Option, NEW group \in PlainKeys,
           o1 # o2, o1 # group, o2 # group,
           NEW o \in {o1, o2}, Few(View(ls, o)), Few(View(ls, group))
    PROVE  LET es == WriteOne(WriteOne(ls, o1, group), o2, group)
           IN  /\ ~ IsDefault(o) => Sole(View(es, o), o, cfg[o]) /\ Tight(View(es, group))
               /\ /\ IsDefault(o) /\ (~ IsDefault(o1) \/ ~ IsDefault(o2))
                  /\ NoForeign(View(ls, o)) /\ Loose(View(ls, group))
                  => Clear(View(es, o)) /\ Clear(View(es, group))
  <1> DEFINE a == WriteOne(ls, o1, group)
             es == WriteOne(a, o2, group)
  <1>1. {o1, o2, group} \subseteq (Key \cup {"#"}) \ {"repeat"} /\ {o1, o2} \subseteq Option \ {"repeat"}
    BY DEF PlainKeys, Key, Option, Trans, Dead
  <1>2. Affects(ls, a, {o1, group})
    BY <1>1, OneAffects
  <1>3. /\ Within(View(a, group), View(ls, group))
        /\ ~ IsDefault(o1) /\ Few(View(ls, o1)) => Sole(View(a, o1), o1, cfg[o1])
        /\ ~ IsDefault(o1) /\ Few(View(ls, group)) => Tight(View(a, group))
        /\ IsDefault(o1) /\ Few(View(ls, o1)) /\ NoForeign(View(ls, o1)) => Clear(View(a, o1))
        /\ IsDefault(o1) => View(a, group) = View(ls, group)
    BY OneOutcome
  <1> HIDE DEF a
  <1>4. WellKept(a) /\ View(a, o2) = View(ls, o2)
    BY <1>1, <1>2 DEF Affects, Edit
  <1>5. Affects(a, es, {o2, group})
    BY <1>1, <1>4, OneAffects
  <1>6. /\ Within(View(es, group), View(a, group))
        /\ ~ IsDefault(o2) /\ Few(View(a, o2)) => Sole(View(es, o2), o2, cfg[o2])
        /\ ~ IsDefault(o2) /\ Few(View(a, group)) => Tight(View(es, group))
        /\ IsDefault(o2) /\ Few(View(a, o2)) /\ NoForeign(View(a, o2)) => Clear(View(es, o2))
        /\ IsDefault(o2) => View(es, group) = View(a, group)
    BY <1>4, OneOutcome
  <1> HIDE DEF es
  <1>7. View(es, o1) = View(a, o1)
    BY <1>1, <1>5 DEF Affects
  <1>8. Few(View(a, group)) /\ (Loose(View(ls, group)) => Loose(View(a, group)))
    BY <1>3, WithinKeeps
  <1>9. Loose(View(ls, group)) => Loose(View(es, group))
    BY <1>6, <1>8, WithinKeeps
  <1>10. ~ IsDefault(o1) => Tight(View(es, group))
    BY <1>3, <1>6, WithinKeeps
  <1>11. ~ IsDefault(o2) => Tight(View(es, group))
    BY <1>6, <1>8
  <1>12. ~ IsDefault(o) => Sole(View(es, o), o, cfg[o]) /\ Tight(View(es, group))
    <2>1. CASE o = o1
      BY <1>3, <1>7, <1>10, <2>1
    <2>2. CASE o = o2
      BY <1>4, <1>6, <1>11, <2>2
    <2> QED  BY <2>1, <2>2
  <1>13. ASSUME IsDefault(o), ~ IsDefault(o1) \/ ~ IsDefault(o2), NoForeign(View(ls, o)), Loose(View(ls, group))
         PROVE  Clear(View(es, o)) /\ Clear(View(es, group))
    <2>1. Clear(View(es, group))
      BY <1>9, <1>10, <1>11, <1>13, TightLoose
    <2>2. CASE o = o1
      BY <1>3, <1>7, <1>13, <2>1, <2>2
    <2>3. CASE o = o2
      BY <1>4, <1>6, <1>13, <2>1, <2>3
    <2> QED  BY <2>2, <2>3
  <1> QED  BY <1>12, <1>13 DEF es, a

(* An option of a group is written under its own key, or that of the group. *)
Outcome(ls, o, group, val) ==
    \/ Sole(View(ls, o), o, val) /\ Tight(View(ls, group))
    \/ Sole(View(ls, group), group, val) /\ Tight(View(ls, o))

(* After the part for the sensitivities, and after that for the dead       *)
(* zones.                                                                  *)
LEMMA TransOutcome ==
    ASSUME NEW ls, WellKept(ls), cfg \in [Option -> Int],
           NEW o \in Trans, Few(View(ls, o)), Few(View(ls, "trans"))
    PROVE  LET es == WriteTrans(ls)
           IN  /\ ~ IsDefault(o) => Outcome(es, o, "trans", cfg[o])
               /\ /\ IsDefault(o)
                  /\ IF cfg["trans1"] = cfg["trans2"] THEN Loose(View(ls, o)) /\ NoForeign(View(ls, "trans"))
                     ELSE NoForeign(View(ls, o)) /\ Loose(View(ls, "trans"))
                  => Clear(View(es, o)) /\ Clear(View(es, "trans"))
  <1> DEFINE es == WriteTrans(ls)
  <1>0. /\ {"trans1", "trans2"} \subseteq Option /\ {"trans", "trans1", "trans2"} \subseteq PlainKeys
        /\ {"trans", "trans1", "trans2"} \subseteq (Key \cup {"#"}) \ {"repeat"}
        /\ cfg["trans1"] \in Int /\ o \in {"trans1", "trans2"}
        /\ Default["trans1"] = Default["trans2"]
    BY CfgValues DEF PlainKeys, Key, Option, Trans, Dead, Default
  <1>1. CASE cfg["trans1"] = cfg["trans2"]
    <2> DEFINE a == RmAll(ls, "trans1")
               b == RmAll(a, "trans2")
               c == RmOwn(b, "trans")
               d == add_cfgopt(b, "trans", cfg["trans1"])
    <2>0. es = IF IsDefault("trans1") THEN c ELSE d
      BY <1>1 DEF WriteTrans
    <2>1. cfg[o] = cfg["trans1"] /\ (IsDefault(o) <=> IsDefault("trans1"))
      BY <1>0, <1>1 DEF IsDefault
    <2>2. Affects(ls, a, {"trans1"}) /\ Within(View(a, o), View(ls, o))
      BY RmsAffect, RmsWithin
    <2>3. Few(View(ls, "trans1")) => /\ Tight(View(a, "trans1"))
                                     /\ Loose(View(ls, "trans1")) => Clear(View(a, "trans1"))
      BY RmAllRemoves
    <2> HIDE DEF a
    <2>4. WellKept(a) /\ View(a, "trans") = View(ls, "trans") /\ View(a, "trans2") = View(ls, "trans2")
      BY <1>0, <2>2 DEF Affects, Edit
    <2>5. Affects(a, b, {"trans2"})
      BY <2>4, RmsAffect
    <2>6. Few(View(a, "trans2")) => /\ Tight(View(b, "trans2"))
                                    /\ Loose(View(a, "trans2")) => Clear(View(b, "trans2"))
      BY <2>4, RmAllRemoves
    <2> HIDE DEF b
    <2>7. WellKept(b) /\ View(b, "trans") = View(a, "trans") /\ View(b, "trans1") = View(a, "trans1")
      BY <1>0, <2>5 DEF Affects, Edit
    <2>8. Tight(View(b, o)) /\ (Loose(View(ls, o)) => Clear(View(b, o)))
      <3>1. CASE o = "trans1"
        BY <2>3, <2>7, <3>1
      <3>2. CASE o = "trans2"
        BY <2>4, <2>6, <3>2
      <3> QED  BY <1>0, <3>1, <3>2
    <2>9. View(b, "trans") = View(ls, "trans")
      BY <2>4, <2>7
    <2>10. Affects(b, c, {"trans"}) /\ (NoForeign(View(b, "trans")) => Clear(View(c, "trans")))
      BY <2>7, <2>9, RmsAffect, RmOwnClears
    <2>11. Affects(b, d, {"trans"}) /\ Sole(View(d, "trans"), "trans", cfg["trans1"])
      BY <1>0, <2>7, <2>9, AddAffects, AddWrites
    <2> HIDE DEF c, d
    <2>12. View(c, o) = View(b, o) /\ View(d, o) = View(b, o)
      BY <1>0, <2>10, <2>11 DEF Affects
    <2>13. ~ IsDefault(o) => Outcome(es, o, "trans", cfg[o])
      BY <2>0, <2>1, <2>8, <2>11, <2>12 DEF Outcome
    <2>14. IsDefault(o) /\ Loose(View(ls, o)) /\ NoForeign(View(ls, "trans"))
           => Clear(View(es, o)) /\ Clear(View(es, "trans"))
      BY <2>0, <2>1, <2>8, <2>9, <2>10, <2>12
    <2> HIDE DEF es
    <2> QED  BY <1>1, <2>13, <2>14 DEF es
  <1>2. CASE cfg["trans1"] # cfg["trans2"]
    <2>1. es = WriteOne(WriteOne(ls, "trans1", "trans"), "trans2", "trans")
      BY <1>2 DEF WriteTrans
    <2>2. ~ IsDefault("trans1") \/ ~ IsDefault("trans2")
      BY <1>0, <1>2 DEF IsDefault
    <2>3. /\ ~ IsDefault(o) => Sole(View(es, o), o, cfg[o]) /\ Tight(View(es, "trans"))
          /\ /\ IsDefault(o) /\ (~ IsDefault("trans1") \/ ~ IsDefault("trans2"))
             /\ NoForeign(View(ls, o)) /\ Loose(View(ls, "trans"))
             => Clear(View(es, o)) /\ Clear(View(es, "trans"))
      BY <1>0, <2>1, PairOutcome
    <2> HIDE DEF es
    <2> QED  BY <1>2, <2>2, <2>3 DEF Outcome, es
  <1> QED  BY <1>1, <1>2

LEMMA DeadOutcome ==
    ASSUME NEW ls, WellKept(ls), cfg \in [Option -> Int],
           NEW o \in Dead, Few(View(ls, o)), Few(View(ls, "dead"))
    PROVE  LET es == WriteDead(ls)
           IN  /\ cfg["dead1"] = cfg["dead2"] /\ ~ IsDefault("dead1") => Outcome(es, o, "dead", cfg[o])
               /\ cfg["dead1"] # cfg["dead2"] /\ ~ IsDefault(o) => Outcome(es, o, "dead", cfg[o])
               /\ /\ cfg["dead1"] # cfg["dead2"]
                  /\ IsDefault(o) /\ (~ IsDefault("dead1") \/ ~ IsDefault("dead2"))
                  /\ NoForeign(View(ls, o)) /\ Loose(View(ls, "dead"))
                  => Clear(View(es, o)) /\ Clear(View(es, "dead"))
  <1> DEFINE es == WriteDead(ls)
  <1>0. /\ {"dead1", "dead2"} \subseteq Option /\ {"dead", "dead1", "dead2"} \subseteq PlainKeys
        /\ {"dead", "dead1", "dead2"} \subseteq (Key \cup {"#"}) \ {"repeat"}
        /\ cfg["dead1"] \in Int /\ o \in {"dead1", "dead2"}
    BY CfgValues DEF PlainKeys, Key, Option, Trans, Dead
  <1>1. CASE cfg["dead1"] = cfg["dead2"]
    <2> SUFFICES ASSUME ~ IsDefault("dead1") PROVE Outcome(es, o, "dead", cfg[o])
      BY <1>1
    <2> DEFINE a == add_cfgopt(ls, "dead", cfg["dead1"])
               b == RmAll(a, "dead1")
               c == RmAll(b, "dead2")
    <2>0. es = c
      BY <1>1 DEF WriteDead
    <2>1. cfg[o] = cfg["dead1"]
      BY <1>0, <1>1
    <2>2. Affects(ls, a, {"dead"}) /\ Sole(View(a, "dead"), "dead", cfg["dead1"])
      BY <1>0, AddAffects, AddWrites
    <2> HIDE DEF a
    <2>3. WellKept(a) /\ View(a, "dead1") = View(ls, "dead1") /\ View(a, "dead2") = View(ls, "dead2")
      BY <1>0, <2>2 DEF Affects, Edit
    <2>4. Affects(a, b, {"dead1"}) /\ (Few(View(a, "dead1")) => Tight(View(b, "dead1")))
      BY <2>3, RmsAffect, RmAllRemoves
    <2> HIDE DEF b
    <2>5. WellKept(b) /\ View(b, "dead") = View(a, "dead") /\ View(b, "dead2") = View(a, "dead2")
      BY <1>0, <2>4 DEF Affects, Edit
    <2>6. Affects(b, c, {"dead2"}) /\ (Few(View(b, "dead2")) => Tight(View(c, "dead2")))
      BY <2>5, RmsAffect, RmAllRemoves
    <2> HIDE DEF c
    <2>7. View(c, "dead") = View(b, "dead") /\ View(c, "dead1") = View(b, "dead1")
      BY <1>0, <2>6 DEF Affects
    <2>8. Tight(View(c, o))
      <3>1. CASE o = "dead1"
        BY <2>3, <2>4, <2>7, <3>1
      <3>2. CASE o = "dead2"
        BY <2>3, <2>5, <2>6, <3>2
      <3> QED  BY <1>0, <3>1, <3>2
    <2>9. Sole(View(c, "dead"), "dead", cfg[o])
      BY <2>1, <2>2, <2>5, <2>7
    <2> QED  BY <2>0, <2>8, <2>9 DEF Outcome
  <1>2. CASE cfg["dead1"] # cfg["dead2"]
    <2>1. es = WriteOne(WriteOne(ls, "dead1", "dead"), "dead2", "dead")
      BY <1>2 DEF WriteDead
    <2>2. /\ ~ IsDefault(o) => Sole(View(es, o), o, cfg[o]) /\ Tight(View(es, "dead"))
          /\ /\ IsDefault(o) /\ (~ IsDefault("dead1") \/ ~ IsDefault("dead2"))
             /\ NoForeign(View(ls, o)) /\ Loose(View(ls, "dead"))
             => Clear(View(es, o)) /\ Clear(View(es, "dead"))
      BY <1>0, <2>1, PairOutcome
    <2> HIDE DEF es
    <2> QED  BY <1>2, <2>2 DEF Outcome, es
  <1> QED  BY <1>1, <1>2
-----------------------------------------------------------------------------
(* What is read from lines as they are left. *)

LEMMA WrittenIs ==
    ASSUME NEW val \in Int
    PROVE  /\ \A o \in Trans : Written(o, val) = Written("trans", val)
           /\ \A o \in Dead \cup {"dead", "repeat", "axismap"} : Written(o, val) = val
           /\ \A o \in Option : Written(o, Default[o]) = Default[o]
  <1>1. \A o \in Trans : Written(o, val) = Written("trans", val)
    BY DEF Written, Trans
  <1>2. \A o \in Dead \cup {"dead", "repeat", "axismap"} : Written(o, val) = val
    BY DEF Written, Trans, Dead
  <1>3. \A o \in Option : Written(o, Default[o]) = Default[o]
    BY DEF Written, Default, Option, Trans, Dead
  <1> QED  BY <1>1, <1>2, <1>3

(* The lines that tell an option have its key or that of its group. *)
LEMMA TellingKeys ==
    ASSUME NEW ls, NEW k \in DOMAIN ls, NEW o \in Option, Telling(ls[k], o)
    PROVE  /\ k \in LinesAt(ls, o) \/ (o \in Trans /\ k \in LinesAt(ls, "trans")) \/ (o \in Dead /\ k \in LinesAt(ls, "dead"))
           /\ Accepted(ls[k].text) /\ Used(ls[k])
  <1>1. Used(ls[k]) /\ o \in Sets(ls[k].text.key) /\ Accepted(ls[k].text)
    BY DEF Telling, Tells
  <1>2. ls[k].text.key = o \/ (o \in Trans /\ ls[k].text.key = "trans") \/ (o \in Dead /\ ls[k].text.key = "dead")
    BY <1>1 DEF Sets
  <1> QED  BY <1>1, <1>2 DEF LinesAt

(* No line tells o: the default is read.  All that do tell the same: it is *)
(* read.                                                                   *)
LEMMA NoneSays ==
    ASSUME NEW ls \in Seq(Lines), NEW o \in Option, NEW u, Says(ls, o, u),
           \A k \in DOMAIN ls : ~ Telling(ls[k], o)
    PROVE  u = Default[o]
  <1>1. DOMAIN ls = 1..Len(ls)
    BY LenProperties
  <1> QED  BY <1>1 DEF Says, SaysUpTo

LEMMA TameSays ==
    ASSUME NEW ls \in Seq(Lines), NEW o \in Option, NEW u, Says(ls, o, u), NEW v,
           \A k \in DOMAIN ls : Telling(ls[k], o) => Number(ls[k].text.val) = v,
           v = Default[o] \/ \E k \in DOMAIN ls : Telling(ls[k], o)
    PROVE  u = v
  <1>1. DOMAIN ls = 1..Len(ls)
    BY LenProperties
  <1> QED  BY <1>1 DEF Says, SaysUpTo

LEMMA SoleTells ==
    ASSUME NEW ls, NEW key \in Key, NEW val \in Int, NEW o \in Sets(key), Sole(View(ls, key), key, val),
           key = "axismap" => val \in 0..5
    PROVE  \E p \in DOMAIN ls : /\ LinesAt(ls, key) = {p} /\ Telling(ls[p], o)
                                /\ Number(ls[p].text.val) = Written(key, val)
  <1>1. PICK p \in LinesAt(ls, key) : LinesAt(ls, key) = {p} /\ ls[p].text = NewText(key, val)
    BY ViewIs DEF Sole
  <1>2. p \in DOMAIN ls /\ Used(ls[p])
    BY DEF LinesAt
  <1>3. ls[p].text.key = key /\ ls[p].text.val = Written(key, val)
    BY <1>1 DEF NewText
  <1>4. Written(key, val) \in Int /\ Written(key, val) # Bad
    BY NewTextType
  <1>5. Number(ls[p].text.val) = Written(key, val)
    BY <1>3, <1>4 DEF Number
  <1>6. Accepted(ls[p].text)
    BY <1>3, <1>4, <1>5, WrittenIs DEF Accepted
  <1> QED  BY <1>1, <1>2, <1>3, <1>5, <1>6 DEF Telling, Tells

(* The one line that was written counts: what else may tell the option are *)
(* lines of the user's, and they come before it.                           *)
LEMMA SoleSays ==
    ASSUME NEW ls, WellKept(ls), NEW key \in PlainKeys, NEW val \in Int, NEW o \in Option, o \in Sets(key),
           Sole(View(ls, key), key, val), NEW u, Says(ls, o, u),
           \A k \in DOMAIN ls : Telling(ls[k], o) =>
              k \in LinesAt(ls, key) \/ (~ ls[k].own /\ NoForeign(View(ls, key)))
    PROVE  u = Written(key, val)
  <1>0. ls \in Seq(Lines) /\ DOMAIN ls = 1..Len(ls) /\ Len(ls) \in Nat
    BY LenProperties DEF WellKept
  <1>1. key \in Key /\ key # "axismap"
    BY DEF PlainKeys, Key, Option, Trans, Dead
  <1>2. PICK p \in DOMAIN ls : /\ LinesAt(ls, key) = {p} /\ Telling(ls[p], o)
                               /\ Number(ls[p].text.val) = Written(key, val)
    BY <1>1, SoleTells
  <1>3. PICK k \in DOMAIN ls : /\ Telling(ls[k], o) /\ u = Number(ls[k].text.val)
                               /\ \A j \in DOMAIN ls : Telling(ls[j], o) => j <= k
    BY <1>0, <1>2 DEF Says, SaysUpTo
  <1>4. CASE k \in LinesAt(ls, key)
    BY <1>2, <1>3, <1>4
  <1>5. CASE ~ ls[k].own /\ NoForeign(View(ls, key))
    <2>1. ls[p].own
      BY <1>2, <1>5, ViewIs DEF NoForeign
    <2>2. k < p
      BY <1>5, <2>1 DEF WellKept, OwnLast
    <2> QED  BY <1>0, <1>2, <1>3, <2>2
  <1> QED  BY <1>3, <1>4, <1>5

(* An option of a group is read as the part that wrote it left it. *)
LEMMA OutcomeSays ==
    ASSUME NEW ls, WellKept(ls), NEW o \in Trans \cup Dead, NEW group, NEW val \in Int,
           group = IF o \in Trans THEN "trans" ELSE "dead",
           Outcome(ls, o, group, val), NoForeign(View(ls, o)) \/ NoForeign(View(ls, group)),
           NEW u, Says(ls, o, u)
    PROVE  u = Written(o, val)
  <1>0. /\ o \in Option /\ o \in PlainKeys /\ group \in PlainKeys /\ o # group
        /\ o \in Sets(o) /\ o \in Sets(group)
    BY DEF Option, PlainKeys, Trans, Dead, Sets
  <1>1. Written(group, val) = Written(o, val)
    BY WrittenIs DEF Trans, Dead
  <1>2. ASSUME NEW k \in DOMAIN ls, Telling(ls[k], o) PROVE k \in LinesAt(ls, o) \/ k \in LinesAt(ls, group)
    BY <1>0, <1>2, TellingKeys DEF Trans, Dead
  <1>3. ASSUME NEW key, Tight(View(ls, key)), NEW k \in LinesAt(ls, key) PROVE ~ ls[k].own
    <2>1. ls[k].text.form = "tight"
      BY <1>3, ViewIs DEF Tight
    <2>2. k \in DOMAIN ls /\ Used(ls[k])
      BY DEF LinesAt
    <2>3. Shaped(ls[k])
      BY <2>2 DEF WellKept
    <2> QED  BY <2>1, <2>2, <2>3 DEF Shaped
  <1>4. ASSUME NEW key, NoForeign(View(ls, key)), NEW k \in LinesAt(ls, key) PROVE ls[k].own
    BY <1>4, ViewIs DEF NoForeign
  <1>5. CASE Sole(View(ls, o), o, val) /\ Tight(View(ls, group))
    <2>1. \A k \in DOMAIN ls : Telling(ls[k], o) => k \in LinesAt(ls, o) \/ (~ ls[k].own /\ NoForeign(View(ls, o)))
      BY <1>2, <1>3, <1>4, <1>5
    <2> QED  BY <1>0, <1>5, <2>1, SoleSays
  <1>6. CASE Sole(View(ls, group), group, val) /\ Tight(View(ls, o))
    <2>1. \A k \in DOMAIN ls : Telling(ls[k], o) =>
             k \in LinesAt(ls, group) \/ (~ ls[k].own /\ NoForeign(View(ls, group)))
      BY <1>2, <1>3, <1>4, <1>6
    <2>2. u = Written(group, val)
      BY <1>0, <1>6, <2>1, SoleSays
    <2> QED  BY <1>1, <2>2
  <1> QED  BY <1>5, <1>6 DEF Outcome

(* The lines of an option before and after the part of write_cfg that writes it. *)
LEMMA StageViews ==
    ASSUME NEW ls, WellKept(ls), cfg \in [Option -> Int]
    PROVE  /\ WellKept(After1(ls)) /\ WellKept(After2(ls)) /\ WellKept(After3(ls)) /\ WellKept(After4(ls))
           /\ WellKept(After5(ls)) /\ Edit(ls, Edited(ls))
           /\ View(Edited(ls), "sens") = View(After1(ls), "sens")
           /\ \A key \in {"trans"} \cup Trans : /\ View(After1(ls), key) = View(ls, key)
                                               /\ View(Edited(ls), key) = View(After2(ls), key)
           /\ \A key \in {"dead"} \cup Dead : /\ View(After2(ls), key) = View(ls, key)
                                             /\ View(Edited(ls), key) = View(After3(ls), key)
           /\ View(After3(ls), "repeat") = View(ls, "repeat")
           /\ View(Edited(ls), "repeat") = View(After4(ls), "repeat")
           /\ Within(View(After4(ls), "axismap"), View(ls, "axismap"))
           /\ View(Edited(ls), "axismap") = View(After5(ls), "axismap")
           /\ View(After5(ls), "led") = View(ls, "led")
  <1> DEFINE a == After1(ls)
             b == After2(ls)
             c == After3(ls)
             d == After4(ls)
             e == After5(ls)
             f == Edited(ls)
  <1>1. /\ Affects(ls, a, {"sens"})
        /\ Affects(a, b, {"trans", "trans1", "trans2"})
        /\ Affects(b, c, {"dead", "dead1", "dead2"})
        /\ Edit(c, d)
        /\ \A key \in PlainKeys : View(d, key) = View(c, key)
        /\ Within(View(d, "axismap"), View(c, "axismap"))
        /\ Affects(d, e, {"axismap"})
        /\ Affects(e, f, {"led"})
    BY EditedParts
  <1> HIDE DEF a, b, c, d, e, f
  <1>2. WellKept(a) /\ WellKept(b) /\ WellKept(c) /\ WellKept(d) /\ WellKept(e)
    BY <1>1 DEF Affects, Edit
  <1>3. Edit(ls, f)
    <2>1. Edit(ls, a) /\ Edit(a, b) /\ Edit(b, c) /\ Edit(c, d) /\ Edit(d, e) /\ Edit(e, f)
      BY <1>1 DEF Affects
    <2>2. Edit(ls, c)
      BY <2>1, EditsChain
    <2>3. Edit(c, f)
      BY <2>1, EditsChain
    <2> QED  BY <2>2, <2>3, EditsChain
  <1>4. /\ \A key \in Key \ {"sens"} : View(a, key) = View(ls, key)
        /\ \A key \in Key \ {"trans", "trans1", "trans2"} : View(b, key) = View(a, key)
        /\ \A key \in Key \ {"dead", "dead1", "dead2"} : View(c, key) = View(b, key)
        /\ \A key \in Key \ {"axismap"} : View(e, key) = View(d, key)
        /\ \A key \in Key \ {"led"} : View(f, key) = View(e, key)
    BY <1>1 DEF Affects
  <1>5. /\ PlainKeys = {"sens", "led", "trans", "trans1", "trans2", "dead", "dead1", "dead2"}
        /\ Key = PlainKeys \cup {"repeat", "axismap"}
    BY DEF PlainKeys, Key, Option, Trans, Dead
  <1>6. View(f, "sens") = View(a, "sens")
    BY <1>1, <1>4, <1>5
  <1>7. ASSUME NEW key \in {"trans"} \cup Trans
        PROVE  View(a, key) = View(ls, key) /\ View(f, key) = View(b, key)
    <2>1. key \in PlainKeys /\ key \notin {"sens", "dead", "dead1", "dead2", "axismap", "led"} /\ key \in Key
      BY <1>5 DEF Trans
    <2> QED  BY <1>1, <1>4, <2>1
  <1>8. ASSUME NEW key \in {"dead"} \cup Dead
        PROVE  View(b, key) = View(ls, key) /\ View(f, key) = View(c, key)
    <2>1. key \in PlainKeys /\ key \notin {"sens", "trans", "trans1", "trans2", "axismap", "led"} /\ key \in Key
      BY <1>5 DEF Dead
    <2> QED  BY <1>1, <1>4, <2>1
  <1>9. View(c, "repeat") = View(ls, "repeat") /\ View(f, "repeat") = View(d, "repeat")
    BY <1>4, <1>5
  <1>10. View(c, "axismap") = View(ls, "axismap") /\ View(f, "axismap") = View(e, "axismap")
    BY <1>4, <1>5
  <1>11. View(e, "led") = View(ls, "led")
    BY <1>1, <1>4, <1>5
  <1> QED  BY <1>1, <1>2, <1>3, <1>6, <1>7, <1>8, <1>9, <1>10, <1>11 DEF a, b, c, d, e, f

(* What is read after a save is what was saved. *)
SaveReads(o) == \A u : Says(Edited(lines), o, u) => u = Written(o, cfg[o])

LEMMA ForeignAt ==
    ASSUME NEW key, NEW k \in LinesAt(lines, key), NEW o \in Sets(key), ~ lines[k].own
    PROVE  k \in Foreign(o) /\ lines[k].text.key = key
  BY DEF LinesAt, Foreign, Speaks

(* What an option that is not excused says of the lines before the save. *)
LEMMA FewLines ==
    ASSUME FileInv, NEW key \in PlainKeys, NEW o \in Sets(key), ~ Repeated(o)
    PROVE  Few(View(lines, key))
  <1> SUFFICES ASSUME NEW j \in LinesAt(lines, key), NEW k \in LinesAt(lines, key), j # k PROVE FALSE
    BY ViewIs DEF Few
  <1>1. /\ j \in DOMAIN lines /\ Used(lines[j]) /\ lines[j].text.key = key
        /\ k \in DOMAIN lines /\ Used(lines[k]) /\ lines[k].text.key = key
    BY DEF LinesAt
  <1>2. lines[j].opt = key /\ lines[k].opt = key
    BY <1>1 DEF FileInv, WellKept, Shaped, PlainKeys, Trans, Dead
  <1>3. ~ lines[j].own /\ ~ lines[k].own
    BY <1>1, <1>2 DEF FileInv, WellKept, OneEach
  <1>4. j \in Foreign(o) /\ k \in Foreign(o)
    BY <1>3, ForeignAt
  <1> QED  BY <1>4 DEF Repeated

LEMMA OneIsOwn ==
    ASSUME NEW key, NEW other, key # other, NEW o \in Sets(key), o \in Sets(other), ~ Repeated(o)
    PROVE  NoForeign(View(lines, key)) \/ NoForeign(View(lines, other))
  <1> SUFFICES ASSUME NEW j \in LinesAt(lines, key), NEW k \in LinesAt(lines, other), ~ lines[j].own, ~ lines[k].own
               PROVE  FALSE
    BY ViewIs DEF NoForeign
  <1>1. j \in Foreign(o) /\ k \in Foreign(o) /\ lines[j].text.key # lines[k].text.key
    BY ForeignAt
  <1> QED  BY <1>1 DEF Repeated

LEMMA LooseLines ==
    ASSUME FileInv, NEW key, \A k \in LinesAt(lines, key) : ~ lines[k].own => lines[k].text.form # "tight"
    PROVE  Loose(View(lines, key))
  <1>1. \A k \in LinesAt(lines, key) : k \in DOMAIN lines /\ Used(lines[k])
    BY DEF LinesAt
  <1>2. \A k \in LinesAt(lines, key) : lines[k].text.form # "tight"
    BY <1>1 DEF FileInv, WellKept, Shaped
  <1> QED  BY <1>2, ViewIs DEF Loose

LEMMA NoForeignLines ==
    ASSUME NEW key, \A k \in LinesAt(lines, key) : lines[k].own
    PROVE  NoForeign(View(lines, key))
  BY ViewIs DEF NoForeign

LEMMA EditedSeq ==
    ASSUME FileInv
    PROVE  /\ cfg \in [Option -> Int] /\ WellKept(lines) /\ WellKept(Edited(lines))
           /\ Edited(lines) \in Seq(Lines)
  BY EditedKept DEF FileInv, FileTypeOK, WellKept

(* Without a line the default is read, with one line its value. *)
LEMMA ClearSays ==
    ASSUME FileInv, NEW o \in Option, IsDefault(o), Clear(View(Edited(lines), o)),
           o \in Trans => Clear(View(Edited(lines), "trans")),
           o \in Dead => Clear(View(Edited(lines), "dead"))
    PROVE  SaveReads(o)
  <1> DEFINE es == Edited(lines)
  <1>1. es \in Seq(Lines)
    BY EditedSeq
  <1> SUFFICES ASSUME NEW u, Says(es, o, u) PROVE u = Written(o, cfg[o])
    BY DEF SaveReads
  <1>2. /\ LinesAt(es, o) = {} /\ (o \in Trans => LinesAt(es, "trans") = {}) /\ (o \in Dead => LinesAt(es, "dead") = {})
    BY ViewIs DEF Clear
  <1> HIDE DEF es
  <1>3. \A k \in DOMAIN es : ~ Telling(es[k], o)
    BY <1>2, TellingKeys
  <1>4. u = Default[o]
    BY <1>1, <1>3, NoneSays
  <1>5. cfg[o] = Default[o]
    BY DEF IsDefault
  <1>6. 0 \in Int
    OBVIOUS
  <1> QED  BY <1>4, <1>5, <1>6, WrittenIs

LEMMA SoleLine ==
    ASSUME FileInv, NEW o \in {"sens", "led"}, Sole(View(Edited(lines), o), o, cfg[o])
    PROVE  SaveReads(o)
  <1> DEFINE es == Edited(lines)
  <1>0. o \in Option /\ o \in PlainKeys /\ o \in Sets(o) /\ o \notin Trans /\ o \notin Dead
    BY DEF Option, PlainKeys, Sets, Trans, Dead
  <1>1. WellKept(es) /\ cfg[o] \in Int /\ Sole(View(es, o), o, cfg[o])
    BY <1>0, EditedSeq
  <1> SUFFICES ASSUME NEW u, Says(es, o, u) PROVE u = Written(o, cfg[o])
    BY DEF SaveReads
  <1> HIDE DEF es
  <1>2. \A k \in DOMAIN es : Telling(es[k], o) => k \in LinesAt(es, o)
    BY <1>0, TellingKeys
  <1> QED  BY <1>0, <1>1, <1>2, SoleSays

(* Each way an option is written, after the whole save. *)
LEMMA SensReads ==
    ASSUME FileInv, ~ Repeated("sens"),
           IsDefault("sens") => \A k \in Foreign("sens") : lines[k].text.form # "tight"
    PROVE  SaveReads("sens")
  <1> DEFINE a == After1(lines)
  <1>0. "sens" \in Option /\ "sens" \in PlainKeys /\ "sens" \in Sets("sens") /\ "sens" \notin Trans \cup Dead
    BY DEF Option, PlainKeys, Sets, Trans, Dead
  <1>1. cfg \in [Option -> Int] /\ WellKept(lines)
    BY EditedSeq
  <1>2. Few(View(lines, "sens"))
    BY <1>0, FewLines
  <1>3. View(Edited(lines), "sens") = View(a, "sens")
    BY <1>1, StageViews
  <1>4. CASE ~ IsDefault("sens")
    <2>1. a = add_cfgopt(lines, "sens", cfg["sens"])
      BY <1>4 DEF After1, WriteSingle
    <2>2. Sole(View(a, "sens"), "sens", cfg["sens"])
      BY <1>0, <1>1, <1>2, <2>1, AddWrites
    <2> QED  BY <1>3, <2>2, SoleLine
  <1>5. CASE IsDefault("sens")
    <2>1. a = RmAll(lines, "sens")
      BY <1>5 DEF After1, WriteSingle, RmAll
    <2>2. Loose(View(lines, "sens"))
      BY <1>0, <1>5, ForeignAt, LooseLines
    <2>3. Clear(View(a, "sens"))
      BY <1>1, <1>2, <2>1, <2>2, RmAllRemoves
    <2> QED  BY <1>0, <1>3, <1>5, <2>3, ClearSays
  <1> QED  BY <1>4, <1>5

LEMMA LedReads ==
    ASSUME FileInv, ~ Repeated("led"), IsDefault("led") => Foreign("led") = {}
    PROVE  SaveReads("led")
  <1> DEFINE e == After5(lines)
             es == Edited(lines)
  <1>0. "led" \in Option /\ "led" \in PlainKeys /\ "led" \in Sets("led") /\ "led" \notin Trans \cup Dead
    BY DEF Option, PlainKeys, Sets, Trans, Dead
  <1>1. cfg \in [Option -> Int] /\ WellKept(lines)
    BY EditedSeq
  <1>2. Few(View(lines, "led"))
    BY <1>0, FewLines
  <1>3. View(e, "led") = View(lines, "led") /\ WellKept(e)
    BY <1>1, StageViews
  <1>4. CASE ~ IsDefault("led")
    <2>1. es = add_cfgopt(e, "led", cfg["led"])
      BY <1>4, EditedInParts DEF WriteSingle
    <2>2. Sole(View(es, "led"), "led", cfg["led"])
      BY <1>0, <1>1, <1>2, <1>3, <2>1, AddWrites
    <2> QED  BY <2>2, SoleLine
  <1>5. CASE IsDefault("led")
    <2>1. es = RmOwn(e, "led")
      BY <1>5, EditedInParts DEF WriteSingle, RmOwn
    <2>2. NoForeign(View(lines, "led"))
      BY <1>0, <1>5, ForeignAt, NoForeignLines
    <2>3. Clear(View(es, "led"))
      BY <1>2, <1>3, <2>1, <2>2, RmOwnClears
    <2> QED  BY <1>0, <1>5, <2>3, ClearSays
  <1> QED  BY <1>4, <1>5

LEMMA TransReads ==
    ASSUME FileInv, NEW o \in Trans, ~ Repeated(o),
           IsDefault(o) => \A k \in Foreign(o) : ~ Stays(lines[k].text)
    PROVE  SaveReads(o)
  <1> DEFINE a == After1(lines)
             b == After2(lines)
             es == Edited(lines)
  <1>0. /\ o \in Option /\ {o, "trans"} \subseteq PlainKeys /\ o \in Sets(o) /\ o \in Sets("trans")
        /\ o # "trans" /\ o \notin Dead /\ {o, "trans"} \subseteq {"trans"} \cup Trans
    BY DEF Option, PlainKeys, Sets, Trans, Dead
  <1>1. cfg \in [Option -> Int] /\ WellKept(lines) /\ cfg[o] \in Int /\ WellKept(es)
    BY <1>0, EditedSeq
  <1>2. Few(View(lines, o)) /\ Few(View(lines, "trans"))
    BY <1>0, FewLines
  <1>3. NoForeign(View(lines, o)) \/ NoForeign(View(lines, "trans"))
    BY <1>0, OneIsOwn
  <1>4. /\ WellKept(a) /\ Edit(lines, es)
        /\ View(a, o) = View(lines, o) /\ View(a, "trans") = View(lines, "trans")
        /\ View(es, o) = View(b, o) /\ View(es, "trans") = View(b, "trans")
    BY <1>0, <1>1, StageViews
  <1>5. b = WriteTrans(a)
    BY DEF After2
  <1> HIDE DEF a, b, es
  <1>6. /\ ~ IsDefault(o) => Outcome(b, o, "trans", cfg[o])
        /\ /\ IsDefault(o)
           /\ IF cfg["trans1"] = cfg["trans2"] THEN Loose(View(a, o)) /\ NoForeign(View(a, "trans"))
              ELSE NoForeign(View(a, o)) /\ Loose(View(a, "trans"))
           => Clear(View(b, o)) /\ Clear(View(b, "trans"))
    BY <1>1, <1>2, <1>4, <1>5, TransOutcome
  <1>7. CASE ~ IsDefault(o)
    <2>1. Outcome(es, o, "trans", cfg[o])
      BY <1>4, <1>6, <1>7 DEF Outcome
    <2>2. NoForeign(View(es, o)) \/ NoForeign(View(es, "trans"))
      BY <1>0, <1>3, <1>4 DEF Edit
    <2>3. ASSUME NEW u, Says(es, o, u) PROVE u = Written(o, cfg[o])
      BY <1>1, <2>1, <2>2, <2>3, OutcomeSays
    <2> QED  BY <2>3 DEF SaveReads, es
  <1>8. CASE IsDefault(o)
    <2>1. \A k \in LinesAt(lines, o) : ~ lines[k].own => k \in Foreign(o) /\ lines[k].text.key = o
      BY <1>0, ForeignAt
    <2>2. \A k \in LinesAt(lines, "trans") : ~ lines[k].own => k \in Foreign(o) /\ lines[k].text.key = "trans"
      BY <1>0, ForeignAt
    <2>3. \A k \in Foreign(o) : ~ Stays(lines[k].text)
      BY <1>8
    <2>4. \A k \in LinesAt(lines, o) : ~ lines[k].own => lines[k].text.form # "tight" /\ cfg["trans1"] = cfg["trans2"]
      BY <2>1, <2>3 DEF Stays
    <2>5. \A k \in LinesAt(lines, "trans") :
             ~ lines[k].own => lines[k].text.form # "tight" /\ cfg["trans1"] # cfg["trans2"]
      BY <2>2, <2>3 DEF Stays
    <2>6. Loose(View(lines, o)) /\ Loose(View(lines, "trans"))
      BY <2>4, <2>5, LooseLines
    <2>7. CASE cfg["trans1"] = cfg["trans2"]
      <3>1. \A k \in LinesAt(lines, "trans") : lines[k].own
        BY <2>5, <2>7
      <3>2. NoForeign(View(lines, "trans"))
        BY <3>1, NoForeignLines
      <3>3. Clear(View(b, o)) /\ Clear(View(b, "trans"))
        BY <1>4, <1>6, <1>8, <2>6, <2>7, <3>2
      <3> QED  BY <1>0, <1>4, <1>8, <3>3, ClearSays DEF es
    <2>8. CASE cfg["trans1"] # cfg["trans2"]
      <3>1. \A k \in LinesAt(lines, o) : lines[k].own
        BY <2>4, <2>8
      <3>2. NoForeign(View(lines, o))
        BY <3>1, NoForeignLines
      <3>3. Clear(View(b, o)) /\ Clear(View(b, "trans"))
        BY <1>4, <1>6, <1>8, <2>6, <2>8, <3>2
      <3> QED  BY <1>0, <1>4, <1>8, <3>3, ClearSays DEF es
    <2> QED  BY <2>7, <2>8
  <1> QED  BY <1>7, <1>8

LEMMA DeadReads ==
    ASSUME FileInv, NEW o \in Dead, ~ Repeated(o),
           IsDefault(o) => \A k \in Foreign(o) : ~ Stays(lines[k].text),
           ~ \A d \in Dead : cfg[d] = Default["dead1"], ~ \A d \in Dead : IsDefault(d)
    PROVE  SaveReads(o)
  <1> DEFINE a == After2(lines)
             b == After3(lines)
             es == Edited(lines)
  <1>0. /\ o \in Option /\ {o, "dead"} \subseteq PlainKeys /\ o \in Sets(o) /\ o \in Sets("dead")
        /\ o # "dead" /\ o \notin Trans /\ {o, "dead"} \subseteq {"dead"} \cup Dead /\ o \in {"dead1", "dead2"}
    BY DEF Option, PlainKeys, Sets, Trans, Dead
  <1>1. cfg \in [Option -> Int] /\ WellKept(lines) /\ cfg[o] \in Int /\ WellKept(es)
    BY <1>0, EditedSeq
  <1>2. Few(View(lines, o)) /\ Few(View(lines, "dead"))
    BY <1>0, FewLines
  <1>3. NoForeign(View(lines, o)) \/ NoForeign(View(lines, "dead"))
    BY <1>0, OneIsOwn
  <1>4. /\ WellKept(a) /\ Edit(lines, es)
        /\ View(a, o) = View(lines, o) /\ View(a, "dead") = View(lines, "dead")
        /\ View(es, o) = View(b, o) /\ View(es, "dead") = View(b, "dead")
    BY <1>0, <1>1, StageViews
  <1>5. b = WriteDead(a)
    BY DEF After3
  <1> HIDE DEF a, b, es
  <1>6. /\ cfg["dead1"] = cfg["dead2"] /\ ~ IsDefault("dead1") => Outcome(b, o, "dead", cfg[o])
        /\ cfg["dead1"] # cfg["dead2"] /\ ~ IsDefault(o) => Outcome(b, o, "dead", cfg[o])
        /\ /\ cfg["dead1"] # cfg["dead2"]
           /\ IsDefault(o) /\ (~ IsDefault("dead1") \/ ~ IsDefault("dead2"))
           /\ NoForeign(View(a, o)) /\ Loose(View(a, "dead"))
           => Clear(View(b, o)) /\ Clear(View(b, "dead"))
    BY <1>1, <1>2, <1>4, <1>5, DeadOutcome
  <1>7. cfg["dead1"] = cfg["dead2"] => ~ IsDefault("dead1")
    BY DEF Dead, IsDefault
  <1>8. ~ IsDefault("dead1") \/ ~ IsDefault("dead2")
    BY DEF Dead
  <1>9. CASE cfg["dead1"] = cfg["dead2"] \/ ~ IsDefault(o)
    <2>1. Outcome(es, o, "dead", cfg[o])
      BY <1>4, <1>6, <1>7, <1>9 DEF Outcome
    <2>2. NoForeign(View(es, o)) \/ NoForeign(View(es, "dead"))
      BY <1>0, <1>3, <1>4 DEF Edit
    <2>3. ASSUME NEW u, Says(es, o, u) PROVE u = Written(o, cfg[o])
      BY <1>0, <1>1, <2>1, <2>2, <2>3, OutcomeSays
    <2> QED  BY <2>3 DEF SaveReads, es
  <1>10. CASE cfg["dead1"] # cfg["dead2"] /\ IsDefault(o)
    <2>1. \A k \in LinesAt(lines, o) : ~ lines[k].own => k \in Foreign(o) /\ lines[k].text.key = o
      BY <1>0, ForeignAt
    <2>2. \A k \in LinesAt(lines, "dead") : ~ lines[k].own => k \in Foreign(o)
      BY <1>0, ForeignAt
    <2>3. \A k \in Foreign(o) : ~ Stays(lines[k].text)
      BY <1>10
    <2>4. \A k \in LinesAt(lines, o) : lines[k].own
      BY <2>1, <2>3 DEF Stays
    <2>5. \A k \in LinesAt(lines, "dead") : ~ lines[k].own => lines[k].text.form # "tight"
      BY <2>2, <2>3 DEF Stays
    <2>6. NoForeign(View(lines, o)) /\ Loose(View(lines, "dead"))
      BY <2>4, <2>5, NoForeignLines, LooseLines
    <2>7. Clear(View(b, o)) /\ Clear(View(b, "dead"))
      BY <1>4, <1>6, <1>8, <1>10, <2>6
    <2> QED  BY <1>0, <1>4, <1>10, <2>7, ClearSays DEF es
  <1> QED  BY <1>9, <1>10

LEMMA RepeatReads ==
    ASSUME FileInv, Foreign("repeat") = {}
    PROVE  SaveReads("repeat")
  <1> DEFINE c == After3(lines)
             d == After4(lines)
             es == Edited(lines)
  <1>0. /\ "repeat" \in Option /\ "repeat" \in Key /\ "repeat" \in Sets("repeat")
        /\ "repeat" \notin Trans /\ "repeat" \notin Dead
    BY DEF Option, Key, Sets, Trans, Dead
  <1>1. cfg \in [Option -> Int] /\ WellKept(lines) /\ cfg["repeat"] \in Int /\ WellKept(es) /\ es \in Seq(Lines)
    BY <1>0, EditedSeq
  <1>2. NoForeign(View(lines, "repeat"))
    BY <1>0, ForeignAt, NoForeignLines
  <1>3. /\ WellKept(c) /\ View(c, "repeat") = View(lines, "repeat")
        /\ View(es, "repeat") = View(d, "repeat")
    BY <1>1, StageViews
  <1>4. d = WriteSingle(c, "repeat")
    BY DEF After4
  <1> HIDE DEF c, d, es
  <1>5. CASE ~ IsDefault("repeat")
    <2>1. d = add_cfgopt(c, "repeat", cfg["repeat"])
      BY <1>4, <1>5 DEF WriteSingle
    <2>2. Added(c, d, "repeat", cfg["repeat"])
      BY <1>0, <1>1, <1>3, <2>1, AddIsAdded DEF WellKept
    <2>3. Sole(View(d, "repeat"), "repeat", cfg["repeat"])
      BY <1>1, <1>2, <1>3, <2>2, AddSole
    <2>4. Sole(View(es, "repeat"), "repeat", cfg["repeat"])
      BY <1>3, <2>3
    <2>5. PICK p \in DOMAIN es : /\ LinesAt(es, "repeat") = {p} /\ Telling(es[p], "repeat")
                                 /\ Number(es[p].text.val) = Written("repeat", cfg["repeat"])
      BY <1>0, <1>1, <2>4, SoleTells
    <2>6. \A k \in DOMAIN es : Telling(es[k], "repeat") => k = p
      BY <1>0, <2>5, TellingKeys
    <2>7. ASSUME NEW u, Says(es, "repeat", u) PROVE u = Written("repeat", cfg["repeat"])
      BY <1>0, <1>1, <2>5, <2>6, <2>7, TameSays
    <2> QED  BY <2>7 DEF SaveReads, es
  <1>6. CASE IsDefault("repeat")
    <2>1. d = RmAll(c, "repeat")
      BY <1>4, <1>6 DEF WriteSingle, RmAll
    <2>2. Few(View(lines, "repeat"))
      <3>0. \A k \in LinesAt(lines, "repeat") : lines[k].own
        BY <1>2, ViewIs DEF NoForeign
      <3>1. \A k \in LinesAt(lines, "repeat") : /\ k \in DOMAIN lines /\ Used(lines[k])
                                           /\ lines[k].text.key = "repeat" /\ lines[k].own
        BY <3>0 DEF LinesAt
      <3>2. \A k \in LinesAt(lines, "repeat") : lines[k].opt = "repeat"
        BY <1>1, <3>1 DEF WellKept, Shaped
      <3> QED  BY <1>1, <3>1, <3>2, ViewIs DEF WellKept, OneEach, Few
    <2>3. Loose(View(c, "repeat"))
      BY <1>2, <1>3, OwnIsLoose
    <2>4. Clear(View(d, "repeat"))
      BY <1>3, <2>1, <2>2, <2>3, RmAllRemoves
    <2> QED  BY <1>0, <1>3, <1>6, <2>4, ClearSays DEF es
  <1> QED  BY <1>5, <1>6

(* The lines of an axis that are rejected tell nothing; another one of the *)
(* user's is written over or taken out.                                    *)
LEMMA AxisReads ==
    ASSUME FileInv, ~ Repeated("axismap"), cfg["axismap"] \in 0..5,
           IsDefault("axismap") => \A k \in Foreign("axismap") :
               Accepted(lines[k].text) /\ lines[k].text.form # "tight"
    PROVE  SaveReads("axismap")
  <1> DEFINE d == After4(lines)
             e == After5(lines)
             es == Edited(lines)
  <1>0. /\ "axismap" \in Option /\ "axismap" \in Key /\ "axismap" \in Sets("axismap")
        /\ "axismap" \notin Trans /\ "axismap" \notin Dead
    BY DEF Option, Key, Sets, Trans, Dead
  <1>1. cfg \in [Option -> Int] /\ WellKept(lines) /\ cfg["axismap"] \in Int /\ WellKept(es) /\ es \in Seq(Lines)
    BY <1>0, EditedSeq
  <1>2. /\ WellKept(d) /\ WellKept(e) /\ Within(View(d, "axismap"), View(lines, "axismap"))
        /\ View(es, "axismap") = View(e, "axismap")
    BY <1>1, StageViews
  <1>3. e = WriteSingle(d, "axismap")
    BY DEF After5
  <1> HIDE DEF d, e, es
  <1>4. ASSUME NEW k \in LinesAt(d, "axismap")
        PROVE  /\ k \in LinesAt(lines, "axismap") /\ d[k] = lines[k] /\ k \in DOMAIN d /\ Used(d[k])
               /\ d[k].text.key = "axismap"
               /\ ~ d[k].own => k \in Foreign("axismap")
    <2>1. k \in LinesAt(lines, "axismap") /\ d[k] = lines[k]
      BY <1>2, ViewIs DEF Within
    <2>2. ~ d[k].own => k \in Foreign("axismap")
      BY <1>0, <2>1, ForeignAt
    <2> QED  BY <2>1, <2>2 DEF LinesAt
  <1>5. \A k \in LinesAt(d, "axismap") : Accepted(d[k].text) \/ d[k].own => d[k].opt = "axismap"
    BY <1>2, <1>4 DEF WellKept, Shaped
  <1>6. ASSUME NEW j \in LinesAt(d, "axismap"), NEW k \in LinesAt(d, "axismap"), d[j].opt = "axismap", d[k].opt = "axismap"
        PROVE  j = k
    <2>1. CASE d[j].own \/ d[k].own
      BY <1>2, <1>4, <1>6, <2>1 DEF WellKept, OneEach
    <2>2. CASE ~ d[j].own /\ ~ d[k].own
      BY <1>4, <2>2 DEF Repeated
    <2> QED  BY <2>1, <2>2
  <1>7. CASE ~ IsDefault("axismap")
    <2> DEFINE val == cfg["axismap"]
    <2>1. Added(d, e, "axismap", val)
      <3>1. e = add_cfgopt(d, "axismap", val)
        BY <1>3, <1>7 DEF WriteSingle
      <3> QED  BY <1>0, <1>1, <1>2, <3>1, AddIsAdded DEF WellKept
    <2>2. PICK p \in Nat, own \in BOOLEAN :
             LET l == [text |-> NewText("axismap", val), opt |-> "axismap", own |-> own]
             IN  /\ Put(d, e, p, l)
                 /\ p \in DOMAIN d => Used(d[p]) /\ d[p].opt = "axismap"
                 /\ p \notin DOMAIN d => \A k \in DOMAIN d : Used(d[k]) => d[k].opt # "axismap"
      <3>1. d \in Seq(Lines)
        BY <1>2 DEF WellKept
      <3> QED  BY <2>1, <3>1, LineOf DEF Added
    <2> DEFINE l == [text |-> NewText("axismap", val), opt |-> "axismap", own |-> own]
    <2>3. Used(l) /\ l.text.key = "axismap" /\ l.text = NewText("axismap", val)
      BY <1>0, <1>1, NewIs
    <2>4. /\ Put(d, e, p, l)
          /\ p \in DOMAIN d => Used(d[p]) /\ d[p].opt = "axismap"
          /\ p \notin DOMAIN d => \A k \in DOMAIN d : Used(d[k]) => d[k].opt # "axismap"
      BY <2>2
    <2> HIDE DEF l
    <2>5. DOMAIN e = DOMAIN d \cup {p} /\ e[p] = l /\ \A k \in DOMAIN d : k # p => e[k] = d[k]
      BY <2>4 DEF Put
    <2>6. p \in DOMAIN d => p \in LinesAt(d, "axismap")
      BY <1>2, <2>4 DEF WellKept, Shaped, LinesAt
    <2>7. ASSUME NEW k \in LinesAt(e, "axismap"), Accepted(e[k].text) PROVE k = p
      <3> SUFFICES ASSUME k # p PROVE FALSE
        OBVIOUS
      <3>1. k \in LinesAt(d, "axismap") /\ e[k] = d[k]
        BY <2>5 DEF LinesAt
      <3>2. d[k].opt = "axismap" /\ k \in DOMAIN d /\ Used(d[k])
        BY <1>4, <1>5, <2>7, <3>1
      <3>3. p \in DOMAIN d
        BY <2>4, <3>2
      <3> QED  BY <1>6, <2>4, <2>6, <3>1, <3>2, <3>3
    <2>8. p \in LinesAt(e, "axismap") /\ e[p].text = NewText("axismap", val)
      BY <2>3, <2>5 DEF LinesAt
    <2>9. /\ \A k \in LinesAt(es, "axismap") : Accepted(es[k].text) => k = p
          /\ p \in LinesAt(es, "axismap") /\ es[p].text = NewText("axismap", val)
      <3>1. LinesAt(es, "axismap") = LinesAt(e, "axismap") /\ \A k \in LinesAt(e, "axismap") : es[k] = e[k]
        BY <1>2, ViewIs
      <3> QED  BY <2>7, <2>8, <3>1
    <2>10. NewText("axismap", val).key = "axismap" /\ NewText("axismap", val).val = val
      BY <1>1, WrittenIs DEF NewText
    <2>11. Number(val) = val /\ Accepted(NewText("axismap", val))
      BY <1>1, <2>10, ConfigFileAssumption DEF Number, Accepted
    <2>12. Telling(es[p], "axismap") /\ p \in DOMAIN es /\ Number(es[p].text.val) = val
      BY <1>0, <2>9, <2>10, <2>11 DEF Telling, Tells, LinesAt
    <2>13. \A k \in DOMAIN es : Telling(es[k], "axismap") => k = p
      BY <1>0, <2>9, TellingKeys
    <2>14. Written("axismap", val) = val
      BY <1>1, WrittenIs
    <2>15. ASSUME NEW u, Says(es, "axismap", u) PROVE u = Written("axismap", cfg["axismap"])
      BY <1>0, <1>1, <2>12, <2>13, <2>14, <2>15, TameSays
    <2> QED  BY <2>15 DEF SaveReads, es
  <1>8. CASE IsDefault("axismap")
    <2>1. e = RmAll(d, "axismap")
      BY <1>3, <1>8 DEF WriteSingle, RmAll
    <2>2. \A k \in LinesAt(d, "axismap") : ~ d[k].own => Accepted(d[k].text) /\ d[k].text.form # "tight"
      BY <1>4, <1>8
    <2>3. \A k \in LinesAt(d, "axismap") : d[k].opt = "axismap"
      BY <1>5, <2>2
    <2>4. Few(View(d, "axismap"))
      BY <1>6, <2>3, ViewIs DEF Few
    <2>5. \A k \in LinesAt(d, "axismap") : d[k].text.form # "tight"
      BY <1>2, <1>4, <2>2 DEF WellKept, Shaped
    <2>6. Loose(View(d, "axismap"))
      BY <2>5, ViewIs DEF Loose
    <2>7. Clear(View(e, "axismap"))
      BY <1>2, <2>1, <2>4, <2>6, RmAllRemoves
    <2> QED  BY <1>0, <1>2, <1>8, <2>7, ClearSays DEF es
  <1> QED  BY <1>7, <1>8

(* Every line that tells o tells v. *)
AllTell(ls, o, v) ==
    ls \in Seq(Lines) /\ \A k \in DOMAIN ls : Telling(ls[k], o) => Number(ls[k].text.val) = v

(* Lines that all tell the value to be written still do so after every     *)
(* edit.                                                                   *)
LEMMA AddAllTell ==
    ASSUME NEW ls, NEW o \in Option, NEW v, AllTell(ls, o, v), NEW key \in Key, NEW val \in Int,
           o \in Sets(key) => Written(key, val) = v
    PROVE  AllTell(add_cfgopt(ls, key, val), o, v)
  <1> DEFINE es == add_cfgopt(ls, key, val)
  <1>1. Added(ls, es, key, val)
    BY AddIsAdded DEF AllTell
  <1> HIDE DEF es
  <1>2. PICK p, own : Put(ls, es, p, [text |-> NewText(key, val), opt |-> key, own |-> own])
    BY <1>1 DEF Added
  <1> DEFINE l == [text |-> NewText(key, val), opt |-> key, own |-> own]
  <1>3. l.text = NewText(key, val) /\ Put(ls, es, p, l)
    BY <1>2
  <1> HIDE DEF l
  <1>4. es \in Seq(Lines) /\ DOMAIN es = DOMAIN ls \cup {p} /\ es[p] = l /\ \A k \in DOMAIN ls : k # p => es[k] = ls[k]
    BY <1>3 DEF Put
  <1>5. NewText(key, val).key = key /\ NewText(key, val).val = Written(key, val)
    BY DEF NewText
  <1>6. Telling(l, o) => Number(l.text.val) = v
    <2>1. Written(key, val) # Bad
      BY NewTextType
    <2>2. Telling(l, o) => o \in Sets(key)
      BY <1>3, <1>5 DEF Telling, Tells
    <2> QED  BY <1>3, <1>5, <2>1, <2>2 DEF Number
  <1>7. AllTell(es, o, v)
    BY <1>4, <1>6 DEF AllTell
  <1> QED  BY <1>7 DEF es

LEMMA RmAllTell ==
    ASSUME NEW ls, NEW o \in Option, NEW v, AllTell(ls, o, v), NEW key, NEW onlyOwn \in BOOLEAN
    PROVE  AllTell(rm_cfgopt(ls, key, onlyOwn), o, v)
  <1> DEFINE es == rm_cfgopt(ls, key, onlyOwn)
  <1>1. Removed(ls, es, key, onlyOwn)
    BY RmIsRemoved DEF AllTell
  <1> HIDE DEF es
  <1>2. CASE es = ls
    BY <1>2 DEF es
  <1>3. ASSUME NEW p, NEW opt, NEW own, Put(ls, es, p, [text |-> Gone, opt |-> opt, own |-> own])
        PROVE  AllTell(es, o, v)
    <2> DEFINE l == [text |-> Gone, opt |-> opt, own |-> own]
    <2>1. ~ Used(l) /\ Put(ls, es, p, l)
      BY <1>3, GoneIs
    <2> HIDE DEF l
    <2>2. es \in Seq(Lines) /\ DOMAIN es = DOMAIN ls \cup {p} /\ es[p] = l /\ \A k \in DOMAIN ls : k # p => es[k] = ls[k]
      BY <2>1 DEF Put
    <2> QED  BY <2>1, <2>2 DEF AllTell, Telling
  <1>4. AllTell(es, o, v)
    BY <1>1, <1>2, <1>3 DEF Removed, es
  <1> QED  BY <1>4 DEF es

LEMMA RmsAllTell ==
    ASSUME NEW ls, NEW o \in Option, NEW v, AllTell(ls, o, v), NEW key
    PROVE  AllTell(RmAll(ls, key), o, v) /\ AllTell(RmOwn(ls, key), o, v)
  <1>1. TRUE \in BOOLEAN /\ FALSE \in BOOLEAN
    OBVIOUS
  <1> QED  BY <1>1, RmAllTell DEF RmAll, RmOwn

LEMMA OptionSets ==
    \A o \in Option : Sets(o) = {o} /\ o \in Key
  BY DEF Sets, Option, Trans, Dead, Key

LEMMA SingleAllTell ==
    ASSUME cfg \in [Option -> Int], NEW o \in Option, NEW ls, AllTell(ls, o, Written(o, cfg[o])),
           NEW other \in Option
    PROVE  AllTell(WriteSingle(ls, other), o, Written(o, cfg[o]))
  <1>1. cfg[other] \in Int /\ other \in Key /\ (other = "led") \in BOOLEAN
    BY CfgValues
  <1>2. o \in Sets(other) => Written(other, cfg[other]) = Written(o, cfg[o])
    BY OptionSets
  <1>3. AllTell(add_cfgopt(ls, other, cfg[other]), o, Written(o, cfg[o]))
    BY <1>1, <1>2, AddAllTell
  <1>4. AllTell(rm_cfgopt(ls, other, other = "led"), o, Written(o, cfg[o]))
    BY <1>1, RmAllTell
  <1> QED  BY <1>3, <1>4 DEF WriteSingle

LEMMA OneAllTell ==
    ASSUME cfg \in [Option -> Int], NEW o \in Option, NEW ls, AllTell(ls, o, Written(o, cfg[o])),
           NEW other \in Option, NEW group
    PROVE  AllTell(WriteOne(ls, other, group), o, Written(o, cfg[o]))
  <1> DEFINE v == Written(o, cfg[o])
             a == add_cfgopt(ls, other, cfg[other])
  <1>1. cfg[other] \in Int /\ other \in Key
    BY CfgValues
  <1>2. o \in Sets(other) => Written(other, cfg[other]) = v
    BY OptionSets
  <1>3. AllTell(ls, o, v)
    OBVIOUS
  <1> HIDE DEF v
  <1>4. AllTell(a, o, v) /\ AllTell(RmOwn(ls, other), o, v)
    BY <1>1, <1>2, <1>3, AddAllTell, RmsAllTell
  <1> HIDE DEF a
  <1>5. AllTell(RmAll(a, group), o, v)
    BY <1>4, RmsAllTell
  <1> QED  BY <1>4, <1>5 DEF WriteOne, a, v

LEMMA GroupSets ==
    Sets("trans") = Trans /\ Sets("dead") = Dead /\ {"trans", "dead"} \subseteq Key
  BY DEF Sets, Key

LEMMA TransAllTell ==
    ASSUME cfg \in [Option -> Int], NEW o \in Option, NEW ls, AllTell(ls, o, Written(o, cfg[o]))
    PROVE  AllTell(WriteTrans(ls), o, Written(o, cfg[o]))
  <1> DEFINE v == Written(o, cfg[o])
  <1>0. {"trans1", "trans2"} \subseteq Option /\ cfg["trans1"] \in Int
    BY CfgValues DEF Option, Trans
  <1>1. CASE cfg["trans1"] = cfg["trans2"]
    <2> DEFINE a == RmAll(RmAll(ls, "trans1"), "trans2")
    <2>1. o \in Trans => v = Written("trans", cfg["trans1"])
      BY <1>0, <1>1, WrittenIs DEF Trans
    <2>2. AllTell(ls, o, v)
      OBVIOUS
    <2> HIDE DEF v
    <2>3. AllTell(a, o, v)
      BY <2>2, RmsAllTell
    <2> HIDE DEF a
    <2>4. AllTell(RmOwn(a, "trans"), o, v)
      BY <2>3, RmsAllTell
    <2>5. AllTell(add_cfgopt(a, "trans", cfg["trans1"]), o, v)
      BY <1>0, <2>1, <2>3, GroupSets, AddAllTell
    <2> QED  BY <1>1, <2>4, <2>5 DEF WriteTrans, a, v
  <1>2. CASE cfg["trans1"] # cfg["trans2"]
    <2> DEFINE a == WriteOne(ls, "trans1", "trans")
    <2>1. AllTell(a, o, v)
      BY <1>0, OneAllTell
    <2> HIDE DEF a
    <2>2. AllTell(WriteOne(a, "trans2", "trans"), o, v)
      BY <1>0, <2>1, OneAllTell
    <2> QED  BY <1>2, <2>2 DEF WriteTrans, a
  <1> QED  BY <1>1, <1>2

LEMMA DeadAllTell ==
    ASSUME cfg \in [Option -> Int], NEW o \in Option, NEW ls, AllTell(ls, o, Written(o, cfg[o]))
    PROVE  AllTell(WriteDead(ls), o, Written(o, cfg[o]))
  <1> DEFINE v == Written(o, cfg[o])
  <1>0. {"dead1", "dead2"} \subseteq Option /\ cfg["dead1"] \in Int
    BY CfgValues DEF Option, Dead
  <1>1. CASE cfg["dead1"] = cfg["dead2"]
    <2> DEFINE a == add_cfgopt(ls, "dead", cfg["dead1"])
    <2>1. o \in Dead => v = Written("dead", cfg["dead1"])
      BY <1>0, <1>1, WrittenIs DEF Dead
    <2>2. AllTell(ls, o, v)
      OBVIOUS
    <2> HIDE DEF v
    <2>3. AllTell(RmOwn(ls, "dead"), o, v)
      BY <2>2, RmsAllTell
    <2>4. AllTell(a, o, v)
      BY <1>0, <2>1, <2>2, GroupSets, AddAllTell
    <2> HIDE DEF a
    <2>5. AllTell(RmAll(RmAll(a, "dead1"), "dead2"), o, v)
      BY <2>4, RmsAllTell
    <2> QED  BY <1>1, <2>3, <2>5 DEF WriteDead, a, v
  <1>2. CASE cfg["dead1"] # cfg["dead2"]
    <2> DEFINE a == WriteOne(ls, "dead1", "dead")
    <2>1. AllTell(a, o, v)
      BY <1>0, OneAllTell
    <2> HIDE DEF a
    <2>2. AllTell(WriteOne(a, "dead2", "dead"), o, v)
      BY <1>0, <2>1, OneAllTell
    <2> QED  BY <1>2, <2>2 DEF WriteDead, a
  <1> QED  BY <1>1, <1>2

LEMMA EditedAllTell ==
    ASSUME cfg \in [Option -> Int], NEW o \in Option, NEW ls, AllTell(ls, o, Written(o, cfg[o]))
    PROVE  AllTell(Edited(ls), o, Written(o, cfg[o]))
  <1> DEFINE Good(es) == AllTell(es, o, Written(o, cfg[o]))
  <1>0. {"sens", "repeat", "axismap", "led"} \subseteq Option
    BY DEF Option
  <1>1. Good(After1(ls))
    BY <1>0, SingleAllTell DEF After1
  <1>2. Good(After2(ls))
    BY <1>1, TransAllTell DEF After2
  <1>3. Good(After3(ls))
    BY <1>2, DeadAllTell DEF After3
  <1>4. Good(After4(ls))
    BY <1>0, <1>3, SingleAllTell DEF After4
  <1>5. Good(After5(ls))
    BY <1>0, <1>4, SingleAllTell DEF After5
  <1> QED  BY <1>0, <1>5, SingleAllTell, EditedInParts

(* A line that add_cfgopt wrote is there; a line of the user's is spared. *)
LEMMA AddTells ==
    ASSUME NEW ls, WellKept(ls), NEW key \in Key, NEW val \in Int
    PROVE  \E p \in LinesAt(add_cfgopt(ls, key, val), key) : add_cfgopt(ls, key, val)[p].text = NewText(key, val)
  <1> DEFINE es == add_cfgopt(ls, key, val)
  <1>1. Added(ls, es, key, val)
    BY AddIsAdded DEF WellKept
  <1> HIDE DEF es
  <1>2. PICK p, own : Put(ls, es, p, [text |-> NewText(key, val), opt |-> key, own |-> own])
    BY <1>1 DEF Added
  <1> DEFINE l == [text |-> NewText(key, val), opt |-> key, own |-> own]
  <1>3. Used(l) /\ l.text.key = key /\ l.text = NewText(key, val)
    BY NewIs
  <1>4. Put(ls, es, p, l)
    BY <1>2
  <1> HIDE DEF l
  <1>5. p \in DOMAIN es /\ es[p] = l
    BY <1>4 DEF Put
  <1>6. p \in LinesAt(es, key) /\ es[p].text = NewText(key, val)
    BY <1>3, <1>5 DEF LinesAt
  <1> QED  BY <1>6 DEF es

LEMMA RmOwnSpares ==
    ASSUME NEW ls, WellKept(ls), NEW key, \A k \in LinesAt(ls, key) : ~ ls[k].own
    PROVE  RmOwn(ls, key) = ls
  <1> DEFINE es == rm_cfgopt(ls, key, TRUE)
  <1>1. TRUE \in BOOLEAN
    OBVIOUS
  <1>2. Removed(ls, es, key, TRUE)
    BY <1>1, RmIsRemoved DEF WellKept
  <1> HIDE DEF es
  <1>3. es = ls
    BY <1>2 DEF Removed
  <1> QED  BY <1>3 DEF RmOwn, es

(* The lines as they were read say what was read. *)
LEMMA KeptSays ==
    ASSUME NEW f \in Seq(Texts), NEW o \in Option
    PROVE  Says(Kept(f), o, Read(f)[o])
  <1> DEFINE ls == Kept(f)
             v == Read(f)[o]
             n == Len(f)
  <1>1. n \in Nat /\ DOMAIN f = 1..n /\ \A k \in 1..n : f[k] \in Texts
    BY LenProperties, ElementOfSeq
  <1>2. Told(f, n, o, v)
    BY ReadTold
  <1>3. ls = [k \in 1..n |-> [text |-> f[k], opt |-> OptOf(f[k]), own |-> FALSE]]
    BY <1>1 DEF Kept
  <1>4. DOMAIN ls = 1..n /\ \A k \in 1..n : ls[k].text = f[k]
    BY <1>3
  <1>5. ls \in Seq(Lines)
    BY KeptWell DEF WellKept
  <1> HIDE DEF ls, v
  <1>6. Len(ls) = n
    BY <1>1, <1>4, <1>5, LenProperties
  <1> HIDE DEF n
  <1>7. \A k \in 1..n : Telling(ls[k], o) <=> Tells(f[k], o)
    BY <1>1, <1>4, ConfigFileAssumption DEF Telling, Used
  <1>8. SaysUpTo(ls, n, o, v)
    BY <1>2, <1>4, <1>7 DEF Told, SaysUpTo
  <1> QED  BY <1>6, <1>8 DEF Says, ls, v

(* A value other than the default is told by a line. *)
LEMMA SaidTells ==
    ASSUME NEW ls \in Seq(Lines), NEW o \in Option, NEW v, Says(ls, o, v), v # Default[o]
    PROVE  \E k \in DOMAIN ls : Telling(ls[k], o)
  <1>1. DOMAIN ls = 1..Len(ls)
    BY LenProperties
  <1> QED  BY <1>1 DEF Says, SaysUpTo

(* The lines as they were read tell the configuration as it was read. *)
LEMMA FreshTells ==
    ASSUME FileInv, file # NoFile, lines = Kept(file), cfg = Read(file), NEW o \in Option, ~ Repeated(o)
    PROVE  /\ \A k \in DOMAIN lines : ~ lines[k].own
           /\ Says(lines, o, cfg[o])
           /\ AllTell(lines, o, cfg[o])
           /\ o = "axismap" => cfg[o] \in 0..5
  <1>1. file \in Seq(Texts) /\ lines \in Seq(Lines)
    BY DEF FileInv, FileTypeOK
  <1>2. Says(lines, o, cfg[o])
    BY <1>1, KeptSays
  <1>3. \A k \in DOMAIN lines : ~ lines[k].own
    BY DEF Kept
  <1>4. DOMAIN lines = 1..Len(lines)
    BY <1>1, LenProperties
  <1>5. \A k \in DOMAIN lines : Telling(lines[k], o) => k \in Foreign(o)
    BY <1>3 DEF Telling, Tells, Foreign, Speaks
  <1>6. \A j, k \in DOMAIN lines : Telling(lines[j], o) /\ Telling(lines[k], o) => j = k
    BY <1>5 DEF Repeated
  <1>7. \A k \in DOMAIN lines : Telling(lines[k], o) => Number(lines[k].text.val) = cfg[o]
    BY <1>2, <1>4, <1>6 DEF Says, SaysUpTo
  <1>8. ASSUME o = "axismap" PROVE cfg[o] \in 0..5
    <2>0. Default["axismap"] = 1
      BY DEF Default, Option, Trans, Dead
    <2>1. CASE cfg[o] = Default[o]
      BY <1>8, <2>0, <2>1
    <2>2. CASE cfg[o] # Default[o]
      <3>1. PICK k \in DOMAIN lines : Telling(lines[k], o)
        BY <1>1, <1>2, <2>2, SaidTells
      <3>2. lines[k].text.key = "axismap" /\ Accepted(lines[k].text)
        BY <1>8, <3>1 DEF Telling, Tells, Sets, Trans, Dead
      <3> QED  BY <1>7, <3>1, <3>2 DEF Accepted
    <2> QED  BY <2>1, <2>2
  <1> QED  BY <1>1, <1>2, <1>3, <1>7, <1>8 DEF AllTell

(* So it is read again, if a line that tells it is left. *)
LEMMA AllTellReads ==
    ASSUME FileInv, NEW o \in Option, AllTell(lines, o, cfg[o]), Written(o, cfg[o]) = cfg[o],
           IsDefault(o) \/ \E k \in DOMAIN Edited(lines) : Telling(Edited(lines)[k], o)
    PROVE  SaveReads(o)
  <1> DEFINE es == Edited(lines)
             v == Written(o, cfg[o])
  <1>1. cfg \in [Option -> Int] /\ es \in Seq(Lines)
    BY EditedSeq
  <1>2. AllTell(es, o, v)
    BY <1>1, EditedAllTell
  <1>3. v = Default[o] \/ \E k \in DOMAIN es : Telling(es[k], o)
    BY DEF IsDefault
  <1> HIDE DEF es, v
  <1>4. ASSUME NEW u, Says(es, o, u) PROVE u = v
    <2>1. \A k \in DOMAIN es : Telling(es[k], o) => Number(es[k].text.val) = v
      BY <1>2 DEF AllTell
    <2> QED  BY <1>1, <1>3, <1>4, <2>1, TameSays
  <1> QED  BY <1>4 DEF SaveReads, es, v

(* The options whose lines may change while the value does not. *)
LEMMA RepeatIsTold ==
    ASSUME FileInv, ~ IsDefault("repeat")
    PROVE  \E k \in DOMAIN Edited(lines) : Telling(Edited(lines)[k], "repeat")
  <1> DEFINE c == After3(lines)
             d == After4(lines)
             es == Edited(lines)
  <1>0. "repeat" \in Option /\ "repeat" \in Key /\ "repeat" \in Sets("repeat")
    BY DEF Option, Key, Sets
  <1>1. cfg \in [Option -> Int] /\ WellKept(lines) /\ cfg["repeat"] \in Int
    BY <1>0, EditedSeq
  <1>2. WellKept(c) /\ View(es, "repeat") = View(d, "repeat")
    BY <1>1, StageViews
  <1>3. d = add_cfgopt(c, "repeat", cfg["repeat"])
    BY DEF After4, WriteSingle
  <1> HIDE DEF c, d, es
  <1>4. PICK p \in LinesAt(d, "repeat") : d[p].text = NewText("repeat", cfg["repeat"])
    BY <1>0, <1>1, <1>2, <1>3, AddTells
  <1>5. p \in LinesAt(es, "repeat") /\ es[p].text = NewText("repeat", cfg["repeat"])
    BY <1>2, <1>4, ViewIs
  <1>6. es[p].text.key = "repeat"
    BY <1>5 DEF NewText
  <1>7. Telling(es[p], "repeat") /\ p \in DOMAIN es
    BY <1>0, <1>5, <1>6 DEF Telling, Tells, Accepted, LinesAt
  <1> QED  BY <1>7 DEF es

LEMMA DeadIsTold ==
    ASSUME FileInv, NEW o \in Dead, \A d \in Dead : cfg[d] = Default["dead1"], ~ IsDefault(o),
           \A k \in DOMAIN lines : ~ lines[k].own, Says(lines, o, cfg[o])
    PROVE  \E k \in DOMAIN Edited(lines) : Telling(Edited(lines)[k], o)
  <1> DEFINE a == After2(lines)
             b == After3(lines)
             es == Edited(lines)
  <1>0. o \in Option /\ o \notin Trans /\ {o, "dead"} \subseteq {"dead"} \cup Dead
    BY DEF Option, Trans, Dead
  <1>1. cfg \in [Option -> Int] /\ WellKept(lines) /\ lines \in Seq(Lines)
    BY EditedSeq DEF WellKept
  <1>2. /\ WellKept(a)
        /\ View(a, o) = View(lines, o) /\ View(a, "dead") = View(lines, "dead")
        /\ View(es, o) = View(b, o) /\ View(es, "dead") = View(b, "dead")
    BY <1>0, <1>1, StageViews
  <1>3. b = RmOwn(a, "dead")
    BY DEF After3, WriteDead, Dead, IsDefault
  <1> HIDE DEF a, b, es
  <1>4. \A k \in LinesAt(a, "dead") : k \in DOMAIN lines /\ a[k] = lines[k]
    <2>1. LinesAt(a, "dead") = LinesAt(lines, "dead") /\ \A k \in LinesAt(a, "dead") : a[k] = lines[k]
      BY <1>2, ViewIs
    <2> QED  BY <2>1 DEF LinesAt
  <1>5. b = a
    BY <1>2, <1>3, <1>4, RmOwnSpares
  <1>6. PICK k \in DOMAIN lines : Telling(lines[k], o)
    BY <1>0, <1>1, SaidTells DEF IsDefault
  <1>7. k \in LinesAt(lines, o) \/ k \in LinesAt(lines, "dead")
    BY <1>0, <1>6, TellingKeys
  <1>8. es[k] = lines[k] /\ (k \in LinesAt(es, o) \/ k \in LinesAt(es, "dead"))
    <2>1. View(es, o) = View(lines, o) /\ View(es, "dead") = View(lines, "dead")
      BY <1>2, <1>5
    <2> QED  BY <1>7, <2>1, ViewIs
  <1>9. k \in DOMAIN es /\ Telling(es[k], o)
    BY <1>6, <1>8 DEF LinesAt
  <1> QED  BY <1>9 DEF es
-----------------------------------------------------------------------------
(* An option that is not excused is read as it is written, after any       *)
(* history.                                                                *)
LEMMA FaithfulReads ==
    ASSUME FileInv, NEW o \in Option, ~ Excused(o)
    PROVE  SaveReads(o)
  <1>1. ~ Repeated(o)
    BY DEF Excused
  <1>2. IsDefault(o) => \A k \in Foreign(o) : ~ Stays(lines[k].text)
    BY DEF Excused
  <1>3. CASE o = "repeat"
    <2>1. Foreign("repeat") = {}
      BY <1>3 DEF Excused
    <2> QED  BY <1>3, <2>1, RepeatReads
  <1>4. CASE o = "sens"
    <2>1. IsDefault("sens") => \A k \in Foreign("sens") : lines[k].text.form # "tight"
      BY <1>2, <1>4 DEF Stays
    <2> QED  BY <1>1, <1>4, <2>1, SensReads
  <1>5. CASE o = "led"
    <2>1. \A k \in Foreign("led") : lines[k].text.key = "led"
      BY DEF Foreign, Speaks, Sets, Trans, Dead
    <2>2. IsDefault("led") => Foreign("led") = {}
      BY <1>2, <1>5, <2>1 DEF Stays
    <2> QED  BY <1>1, <1>5, <2>2, LedReads
  <1>6. CASE o = "axismap"
    <2>1. cfg["axismap"] \in 0..5
      BY <1>6 DEF Excused
    <2>2. IsDefault("axismap") => \A k \in Foreign("axismap") :
              Accepted(lines[k].text) /\ lines[k].text.form # "tight"
      BY <1>2, <1>6 DEF Excused, Stays
    <2> QED  BY <1>1, <1>6, <2>1, <2>2, AxisReads
  <1>7. CASE o \in Trans
    BY <1>1, <1>2, <1>7, TransReads
  <1>8. CASE o \in Dead
    <2>1. (~ \A d \in Dead : cfg[d] = Default["dead1"]) /\ ~ \A d \in Dead : IsDefault(d)
      BY <1>8 DEF Excused
    <2> QED  BY <1>1, <1>2, <1>8, <2>1, DeadReads
  <1> QED  BY <1>3, <1>4, <1>5, <1>6, <1>7, <1>8 DEF Option

(* An option the user wrote once is read as it was read before. *)
LEMMA FreshReads ==
    ASSUME FileInv, file # NoFile, lines = Kept(file), cfg = Read(file), NEW o \in Option, ~ Repeated(o)
    PROVE  SaveReads(o)
  <1>1. /\ \A k \in DOMAIN lines : ~ lines[k].own
        /\ Says(lines, o, cfg[o])
        /\ AllTell(lines, o, cfg[o])
        /\ o = "axismap" => cfg[o] \in 0..5
    BY FreshTells
  <1>2. cfg[o] \in Int
    BY EditedSeq
  <1>3. CASE IsDefault(o)
    <2>1. Written(o, cfg[o]) = cfg[o]
      BY <1>2, <1>3, WrittenIs DEF IsDefault
    <2> QED  BY <1>1, <1>3, <2>1, AllTellReads
  <1>4. CASE ~ IsDefault(o)
    <2>1. CASE o = "repeat"
      <3>1. Written(o, cfg[o]) = cfg[o]
        BY <1>2, <2>1, WrittenIs
      <3>2. \E k \in DOMAIN Edited(lines) : Telling(Edited(lines)[k], o)
        BY <1>4, <2>1, RepeatIsTold
      <3> QED  BY <1>1, <3>1, <3>2, AllTellReads
    <2>2. CASE o = "sens"
      BY <1>4, <2>2, SensReads
    <2>3. CASE o = "led"
      BY <1>4, <2>3, LedReads
    <2>4. CASE o = "axismap"
      BY <1>1, <1>4, <2>4, AxisReads
    <2>5. CASE o \in Trans
      BY <1>4, <2>5, TransReads
    <2>6. CASE o \in Dead /\ ~ \A d \in Dead : cfg[d] = Default["dead1"]
      BY <1>4, <2>6, DeadReads
    <2>7. CASE o \in Dead /\ \A d \in Dead : cfg[d] = Default["dead1"]
      <3>1. Written(o, cfg[o]) = cfg[o]
        BY <1>2, <2>7, WrittenIs
      <3>2. \E k \in DOMAIN Edited(lines) : Telling(Edited(lines)[k], o)
        BY <1>1, <1>4, <2>7, DeadIsTold
      <3> QED  BY <1>1, <3>1, <3>2, AllTellReads
    <2> QED  BY <2>1, <2>2, <2>3, <2>4, <2>5, <2>6, <2>7 DEF Option
  <1> QED  BY <1>3, <1>4

(* The new text is that of the new lines. *)
LEMMA SavedIsRead ==
    ASSUME FileInv, write_cfg, NEW o \in Option, SaveReads(o)
    PROVE  Read(file')[o] = Written(o, cfg[o])
  <1>1. file' = Text(Edited(lines))
    BY DEF write_cfg
  <1>2. Says(Edited(lines), o, Read(Text(Edited(lines)))[o])
    BY EditedSeq, ReadText
  <1> QED  BY <1>1, <1>2 DEF SaveReads

(* What write_cfg saves is what read_cfg reads again, for any lines a user *)
(* wrote and any edits before, with the exceptions of SaveIsFaithful.      *)
THEOREM SavesAreFaithful == FileSpec => SaveIsFaithful
  <1>1. FileInv /\ [FileNext]_filevars
        => [write_cfg => \A o \in Option : Excused(o) \/ Read(file')[o] = Written(o, cfg[o])]_filevars
    BY FaithfulReads, SavedIsRead
  <1> QED  BY <1>1, FileInitInv, FileNextInv, PTL DEF FileSpec, SaveIsFaithful

(* A save of what read_cfg has just read (write_cfg after a start or a     *)
(* restore) changes no option that the user wrote once.                    *)
THEOREM SavesAfterReadAreHarmless == FileSpec => SaveAfterReadIsHarmless
  <1>1. FileInv /\ [FileNext]_filevars
        => [write_cfg /\ file # NoFile /\ lines = Kept(file) /\ cfg = Read(file)
            => \A o \in Option : Repeated(o) \/ Read(file')[o] = Written(o, cfg[o])]_filevars
    BY FreshReads, SavedIsRead
  <1> QED  BY <1>1, FileInitInv, FileNextInv, PTL DEF FileSpec, SaveAfterReadIsHarmless
=============================================================================
