------------------------------- MODULE Service -------------------------------
(***************************************************************************)
(* The service around CHttpServer: main(), QtServiceBase::exec(), the      *)
(* detached process that exec() starts, CHttpDaemon, and the controller    *)
(* commands that reach it (src/src/main.cpp, src/src/httpio/http_daemon.cpp, *)
(* src/src/service).                                                       *)
(*                                                                         *)
(* The processes share three things: the file name of the local socket on  *)
(* which a service takes commands, the TCP port on which it serves, and    *)
(* the settings in which it is installed.  A process that dies leaves its  *)
(* file name behind.                                                       *)
(***************************************************************************)
EXTENDS Naturals, FiniteSets

CONSTANTS
  Processes,  \* bound: the processes that are ever started
  Options,    \* the first arguments users give, a subset of AllOptions
  Overlap,    \* whether the program is also run while a process of it starts or stops
  MayDie,     \* whether processes may be killed
  MayQuit     \* whether a query can fail and ask the application to quit

(* No option, one that CHttpDaemon runs in the foreground (-e), a command for *)
(* the running service, installation, and one that only prints (-v).          *)
Commands == [none |-> "alive", t |-> "terminate", p |-> "pause", r |-> "resume", c |-> "num"]
AllOptions == DOMAIN Commands \cup {"e", "i", "u", "v"}

ASSUME ProcessesAssumption == IsFiniteSet(Processes) /\ "nobody" \notin Processes
ASSUME OptionsAssumption == Options \subseteq AllOptions
ASSUME SwitchesAssumption == {Overlap, MayDie, MayQuit} \subseteq BOOLEAN

Nobody == "nobody"

VARIABLES
  pc,        \* where each process is
  option,    \* its first argument
  detached,  \* whether QTSERVICE_RUN is in its environment
  met,       \* the service that its isRunning() reached in main()
  peer,      \* the service its command was sent to
  reply,     \* what came back
  path,      \* the process whose socket the file name leads to
  bound,     \* the processes that listen on a local socket
  owns,      \* the processes with a path_ to remove when they close
  port,      \* the process that listens on the TCP port
  begun,     \* the processes whose CHttpDaemon::start() was called
  quitting,  \* those whose QCoreApplication::quit() was called
  installed  \* whether the settings know the service

vars == <<pc, option, detached, met, peer, reply, path, bound, owns, port, begun, quitting,
          installed>>
startVars == <<option, detached, met>>
askVars == <<peer, reply>>
socketVars == <<path, bound, owns>>
daemonVars == <<port, begun, quitting>>

Over == {"unused", "done", "killed"}
Alive(p) == pc[p] \notin Over
Serving(p) == port = p /\ pc[p] = "loop" /\ ~quitting[p]

(* connectTo() succeeds when somebody listens where the file name leads to. *)
Reachable(p) == path = p /\ p \in bound

Go(p, where) == pc' = [pc EXCEPT ![p] = where]

Settled(p) == ~Alive(p) \/ (pc[p] = "loop" /\ begun[p] /\ ~quitting[p])
Quiet == Overlap \/ \A q \in Processes : Settled(q)

(* Processes are left for all that start() may still detach. *)
Unused == {p \in Processes : pc[p] = "unused"}
Starting == {p \in Processes : option[p] = "none" /\ ~detached[p]
                              /\ pc[p] \in {"gate", "exec", "ask", "await", "answered", "spawn"}}
Spare(n) == Cardinality(Unused) >= Cardinality(Starting) + n

-----------------------------------------------------------------------------
(* main() and exec() *)

Launch(p, opt, isDetached) ==
  /\ pc[p] = "unused"
  /\ option' = [option EXCEPT ![p] = opt]
  /\ detached' = [detached EXCEPT ![p] = isDetached]

Run(p, opt) ==
  /\ Quiet /\ Spare(IF opt = "none" THEN 2 ELSE 1)
  /\ Launch(p, opt, FALSE) /\ Go(p, "gate")
  /\ UNCHANGED <<met, askVars, socketVars, daemonVars, installed>>

(* isRunning() in main(), which comes before the arguments are looked at. *)
gate(p) ==
  /\ pc[p] = "gate"
  /\ \/ /\ \E q \in Processes : Reachable(q) /\ met' = [met EXCEPT ![p] = q]
        /\ Go(p, "done")
     \/ /\ ~\E q \in Processes : Reachable(q)
        /\ Go(p, "exec")
        /\ UNCHANGED met
  /\ UNCHANGED <<option, detached, askVars, socketVars, daemonVars, installed>>

(* exec(): the detached process runs the service, the one the user ran asks *)
(* whether there is one (start()), or does what its argument says.          *)
exec(p) ==
  /\ pc[p] = "exec"
  /\ \/ /\ option[p] = "none" /\ detached[p]
        /\ Go(p, "unlink") /\ UNCHANGED installed
     \/ /\ option[p] \in DOMAIN Commands /\ ~detached[p]
        /\ Go(p, "ask") /\ UNCHANGED installed
     \/ /\ option[p] = "e"
        /\ Go(p, "loop") /\ UNCHANGED installed
     \/ /\ option[p] = "i"
        /\ Go(p, "done") /\ installed' = TRUE
     \/ /\ option[p] = "u"
        /\ Go(p, "done") /\ installed' = FALSE
     \/ /\ option[p] = "v"
        /\ Go(p, "done") /\ UNCHANGED installed
  /\ UNCHANGED <<startVars, askVars, socketVars, daemonVars>>

-----------------------------------------------------------------------------
(* sendCmd() *)

sendCmd(p) ==
  /\ pc[p] = "ask"
  /\ \/ \E q \in Processes :
          /\ Reachable(q) /\ Go(p, "await")
          /\ peer' = [peer EXCEPT ![p] = q] /\ UNCHANGED reply
     \/ /\ ~\E q \in Processes : Reachable(q)
        /\ Go(p, "answered")
        /\ reply' = [reply EXCEPT ![p] = "lost"] /\ UNCHANGED peer
  /\ UNCHANGED <<startVars, socketVars, daemonVars, installed>>

(* The service it is connected to is gone: waitForReadyRead() gives up. *)
Disconnected(p) ==
  /\ pc[p] = "await" /\ peer[p] \notin bound
  /\ Go(p, "answered")
  /\ reply' = [reply EXCEPT ![p] = "lost"]
  /\ UNCHANGED <<startVars, peer, socketVars, daemonVars, installed>>

(* A command returns; start() returns as well when the service answered "true", *)
(* and otherwise starts the detached process.                                   *)
Answered(p) ==
  /\ pc[p] = "answered"
  /\ Go(p, IF option[p] = "none" /\ reply[p] # "true" THEN "spawn" ELSE "done")
  /\ UNCHANGED <<startVars, askVars, socketVars, daemonVars, installed>>

startDetached(p) ==
  /\ pc[p] = "spawn"
  /\ \E q \in Processes :
       /\ Launch(q, "none", TRUE)
       /\ pc' = [pc EXCEPT ![p] = "done", ![q] = "gate"]
  /\ UNCHANGED <<met, askVars, socketVars, daemonVars, installed>>

-----------------------------------------------------------------------------
(* Variant: the file name is not removed first. *)
sysSetPathKeeping(p) ==
  /\ pc[p] = "unlink" /\ Go(p, "bind")
  /\ UNCHANGED <<startVars, askVars, socketVars, daemonVars, installed>>

(* The detached process: run(TRUE).  sysSetPath() removes whatever has the file *)
(* name, and binds its own socket to it.                                        *)

sysSetPath(p) ==
  /\ pc[p] = "unlink" /\ Go(p, "bind")
  /\ path' = Nobody
  /\ UNCHANGED <<startVars, askVars, bound, owns, daemonVars, installed>>

bindSocket(p) ==
  /\ pc[p] = "bind" /\ Go(p, "loop")
  /\ IF path = Nobody
       THEN path' = p /\ bound' = bound \cup {p} /\ owns' = owns \cup {p}
       ELSE UNCHANGED socketVars
  /\ UNCHANGED <<startVars, askVars, daemonVars, installed>>

(* Variants of start(): it does not look whether the port was free, or quits when it was. *)
startUnchecked(p) ==
  /\ pc[p] = "loop" /\ ~begun[p]
  /\ begun' = [begun EXCEPT ![p] = TRUE]
  /\ port' = IF port = Nobody THEN p ELSE port
  /\ UNCHANGED <<pc, startVars, askVars, socketVars, quitting, installed>>

startInverted(p) ==
  /\ pc[p] = "loop" /\ ~begun[p]
  /\ begun' = [begun EXCEPT ![p] = TRUE]
  /\ port' = IF port = Nobody THEN p ELSE port
  /\ quitting' = [quitting EXCEPT ![p] = port = Nobody]
  /\ UNCHANGED <<pc, startVars, askVars, socketVars, installed>>

(* CHttpDaemon::start(): listens on the port, and quits when another process does. *)
start(p) ==
  /\ pc[p] = "loop" /\ ~begun[p]
  /\ begun' = [begun EXCEPT ![p] = TRUE]
  /\ \/ /\ port = Nobody
        /\ port' = p /\ UNCHANGED quitting
     \/ /\ port # Nobody
        /\ quitting' = [quitting EXCEPT ![p] = TRUE] /\ UNCHANGED port
  /\ UNCHANGED <<pc, startVars, askVars, socketVars, installed>>

(* Variant: a command that is not known is not answered. *)
slotReadyKnown(d) ==
  /\ pc[d] = "loop"
  /\ \E p \in Processes :
       /\ pc[p] = "await" /\ peer[p] = d
       /\ Commands[option[p]] \in {"pause", "resume", "num"}
       /\ Go(p, "answered")
       /\ reply' = [reply EXCEPT ![p] = "true"]
  /\ UNCHANGED <<startVars, peer, socketVars, daemonVars, installed>>

(* slotReady(): the commands it knows are not all that a controller sends.  *)
(* CHttpDaemon::pause(), resume() and processCommand() only log: neither of *)
(* the first two calls its namesake of CHttpServer.                         *)
Known == {"stop", "pause", "resume", "status", "num"}

slotReady(d) ==
  /\ pc[d] = "loop"
  /\ \E p \in Processes :
       /\ pc[p] = "await" /\ peer[p] = d
       /\ Go(p, "answered")
       /\ reply' = [reply EXCEPT ![p] = IF Commands[option[p]] \in Known THEN "true" ELSE "false"]
       /\ quitting' = [quitting EXCEPT ![d] = @ \/ Commands[option[p]] = "stop"]
  /\ UNCHANGED <<startVars, peer, socketVars, port, begun, installed>>

(* QueryThread::run(): the database cannot be opened. *)
quit(d) ==
  /\ MayQuit /\ pc[d] = "loop" /\ begun[d] /\ ~quitting[d]
  /\ Quiet
  /\ quitting' = [quitting EXCEPT ![d] = TRUE]
  /\ UNCHANGED <<pc, startVars, askVars, socketVars, port, begun, installed>>

(* The event loop ends: the application, and with it the server, is deleted. *)
Leave(d) ==
  /\ pc[d] = "loop" /\ quitting[d]
  /\ Go(d, IF detached[d] THEN "close" ELSE "done")
  /\ port' = IF port = d THEN Nobody ELSE port
  /\ UNCHANGED <<startVars, askVars, socketVars, begun, quitting, installed>>

(* sysCleanup(): the socket is closed, then its file name removed, whoever has it by now. *)
sysCleanup(d) ==
  /\ pc[d] = "close" /\ Go(d, "cleanup")
  /\ bound' = bound \ {d}
  /\ UNCHANGED <<startVars, askVars, path, owns, daemonVars, installed>>

removePath(d) ==
  /\ pc[d] = "cleanup" /\ Go(d, "done")
  /\ path' = IF d \in owns THEN Nobody ELSE path
  /\ owns' = owns \ {d}
  /\ UNCHANGED <<startVars, askVars, bound, daemonVars, installed>>

(* A process is killed: its sockets are closed, its file name stays. *)
Die(p) ==
  /\ MayDie /\ Alive(p) /\ Go(p, "killed")
  /\ bound' = bound \ {p}
  /\ port' = IF port = p THEN Nobody ELSE port
  /\ UNCHANGED <<startVars, askVars, path, owns, begun, quitting, installed>>

-----------------------------------------------------------------------------
Init ==
  /\ pc = [p \in Processes |-> "unused"]
  /\ option = [p \in Processes |-> "none"]
  /\ detached = [p \in Processes |-> FALSE]
  /\ met = [p \in Processes |-> Nobody]
  /\ peer = [p \in Processes |-> Nobody]
  /\ reply = [p \in Processes |-> "none"]
  /\ path = Nobody /\ bound = {} /\ owns = {}
  /\ port = Nobody
  /\ begun = [p \in Processes |-> FALSE]
  /\ quitting = [p \in Processes |-> FALSE]
  /\ installed = FALSE

(* What a process does by itself, once it runs. *)
Step(p) ==
  \/ gate(p) \/ exec(p) \/ sendCmd(p) \/ Disconnected(p) \/ Answered(p) \/ startDetached(p)
  \/ sysSetPath(p) \/ bindSocket(p) \/ start(p) \/ Leave(p) \/ sysCleanup(p) \/ removePath(p)

Next == \E p \in Processes :
  \/ Step(p) \/ slotReady(p)
  \/ quit(p) \/ Die(p)
  \/ \E opt \in Options : Run(p, opt)

Spec == Init /\ [][Next]_vars

(* The system schedules every process, and the event loop gets to the commands *)
(* that have arrived even when more of them keep arriving.                     *)
FairSpec ==
  /\ Spec
  /\ \A p \in Processes : WF_vars(Step(p)) /\ WF_vars(slotReady(p))

-----------------------------------------------------------------------------
(* Properties *)

PCs == {"unused", "gate", "exec", "ask", "await", "answered", "spawn", "unlink", "bind",
        "loop", "close", "cleanup", "done", "killed"}

(* Every variable stays in its range. *)
TypeOK ==
  /\ pc \in [Processes -> PCs]
  /\ option \in [Processes -> AllOptions]
  /\ detached \in [Processes -> BOOLEAN]
  /\ met \in [Processes -> Processes \cup {Nobody}]
  /\ peer \in [Processes -> Processes \cup {Nobody}]
  /\ reply \in [Processes -> {"none", "true", "false", "lost"}]
  /\ path \in Processes \cup {Nobody}
  /\ bound \subseteq Processes /\ owns \subseteq Processes
  /\ port \in Processes \cup {Nobody}
  /\ begun \in [Processes -> BOOLEAN]
  /\ quitting \in [Processes -> BOOLEAN]
  /\ installed \in BOOLEAN

(* The file name is never left behind by a service that ended by itself: it leads to one *)
(* that will remove it, or was killed before it could, however many start and end.       *)
PathLeadsToOwner ==
  path # Nobody => path \in owns /\ pc[path] \in {"loop", "close", "cleanup", "killed"}

(* No port is kept by a process whose event loop is over, so that the next one gets it. *)
PortHeldByLoop == port # Nobody => pc[port] = "loop" /\ begun[port]

(* Only a detached process has a local socket, from the moment it binds it to the file *)
(* name until it has removed that name, or was killed.                                 *)
OwnersDetached ==
  /\ \A p \in owns : detached[p] /\ pc[p] \in {"loop", "close", "cleanup", "killed"}
  /\ \A p \in bound : p \in owns /\ pc[p] \in {"loop", "close"}
  /\ \A p \in Processes : pc[p] \in {"unlink", "bind"} => detached[p]

(* What the processes leave each other in the file system and on the network. *)
IInv == TypeOK /\ PathLeadsToOwner /\ PortHeldByLoop /\ OwnersDetached

(* A service that serves can be reached by the controller: with the next command, *)
(* and by the isRunning() that keeps a second one from starting.                  *)
ServiceReachable == \A p \in Processes : Serving(p) /\ detached[p] => Reachable(p)

(* Who asks has a command; who is detached, no other argument; who has begun, a loop. *)
Course == \A p \in Processes :
  /\ pc[p] \in {"ask", "await"} => option[p] \in DOMAIN Commands
  /\ detached[p] => option[p] = "none"
  /\ begun[p] => pc[p] \in {"loop", "close", "cleanup", "done", "killed"}

(* One process at a time is on its way up or down. *)
OneAtATime == \A p, q \in Processes : ~Settled(p) /\ ~Settled(q) => p = q

(* A daemon that has begun and does not quit has the port. *)
BegunServes == \A p \in Processes : pc[p] = "loop" /\ begun[p] /\ ~quitting[p] => port = p

(* On its way up a process has found no service; on its way down it had the port, *)
(* or lost it to a process in the foreground.                                     *)
NoOtherService == \A p, s \in Processes :
  ~Settled(p) /\ pc[p] # "gate" /\ s # p /\ Serving(s) => ~detached[s]

(* Nothing has the file name between its removal and the bind. *)
NameFree == \A p \in Processes : pc[p] = "bind" => path = Nobody

(* A service is reached from the moment it is bound, before it serves. *)
DaemonsReachable == \A p \in Processes :
  detached[p] /\ pc[p] = "loop" /\ ~quitting[p] => Reachable(p)

(* Why a service that serves is reached, as long as nothing overlaps. *)
ReachIInv ==
  Course /\ OneAtATime /\ BegunServes /\ NoOtherService /\ NameFree /\ DaemonsReachable

(* A service that did not get the port does not linger. *)
LosersLeave == \A p \in Processes :
  pc[p] = "loop" /\ begun[p] /\ port # p ~> pc[p] \in Over

(* When the program is run to start the service, however often at once, it is served. *)
LaunchServes == \A p \in Processes :
  pc[p] = "gate" /\ option[p] = "none" ~> port # Nobody

(* sendCmd() waits without a timeout, and yet not for ever. *)
NobodyWaitsForever == \A p \in Processes : pc[p] = "await" ~> pc[p] # "await"
=============================================================================
