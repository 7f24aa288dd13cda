--------------------------- MODULE Service_proofs ---------------------------
(***************************************************************************)
(* Proofs about Service: what its processes leave each other, for any      *)
(* number of them, killed or not, started one by one or all at once.       *)
(***************************************************************************)
EXTENDS Service, TLAPS

(* One process that goes somewhere leaves the others where they are. *)
LEMMA GoFacts ==
  ASSUME pc \in [Processes -> PCs], NEW p \in Processes, NEW where \in PCs, Go(p, where)
  PROVE  /\ pc' \in [Processes -> PCs] /\ pc'[p] = where
         /\ \A q \in Processes : q # p => pc'[q] = pc[q]
  BY DEF Go

LEMMA InitIInv == Init => IInv
<1> SUFFICES ASSUME Init PROVE IInv
  OBVIOUS
<1>1. "none" \in AllOptions
  BY DEF AllOptions, Commands
<1>2. TypeOK
  BY <1>1 DEF Init, TypeOK, PCs
<1>3. PathLeadsToOwner /\ PortHeldByLoop /\ OwnersDetached
  BY DEF Init, PathLeadsToOwner, PortHeldByLoop, OwnersDetached
<1>4. QED
  BY <1>2, <1>3 DEF IInv

(* The steps before a service is bound, and those of a controller, leave sockets and port alone. *)
LEMMA AskingIInv ==
  ASSUME IInv, NEW p \in Processes,
         gate(p) \/ exec(p) \/ sendCmd(p) \/ Disconnected(p) \/ Answered(p)
  PROVE  IInv'
<1> USE DEF IInv, PCs, startVars, askVars, socketVars, daemonVars
<1>1. PICK where \in {"exec", "done", "unlink", "ask", "loop", "await", "answered", "spawn"} :
        /\ Go(p, where) /\ pc[p] \in {"gate", "exec", "ask", "await", "answered"}
        /\ where = "unlink" => detached[p]
  BY DEF gate, exec, sendCmd, Disconnected, Answered, TypeOK
<1>2. /\ UNCHANGED <<option, detached, socketVars, daemonVars>>
      /\ installed' \in BOOLEAN
      /\ met' \in [Processes -> Processes \cup {Nobody}]
      /\ peer' \in [Processes -> Processes \cup {Nobody}]
      /\ reply' \in [Processes -> {"none", "true", "false", "lost"}]
  <2>1. CASE gate(p)
    BY <2>1 DEF gate, TypeOK
  <2>2. CASE exec(p)
    BY <2>2 DEF exec, TypeOK
  <2>3. CASE sendCmd(p)
    BY <2>3 DEF sendCmd, TypeOK
  <2>4. CASE Disconnected(p) \/ Answered(p)
    BY <2>4 DEF Disconnected, Answered, TypeOK
  <2>5. QED
    BY <2>1, <2>2, <2>3, <2>4
<1>3. /\ pc' \in [Processes -> PCs] /\ pc'[p] = where
      /\ \A q \in Processes : q # p => pc'[q] = pc[q]
  BY <1>1, GoFacts DEF TypeOK
<1>4. p \notin owns /\ p \notin bound /\ port # p
  <2>1. p # Nobody
    BY ProcessesAssumption DEF Nobody
  <2>2. QED
    BY <1>1, <2>1 DEF OwnersDetached, PortHeldByLoop
<1>5. TypeOK'
  BY <1>2, <1>3 DEF TypeOK
<1>6. PathLeadsToOwner' /\ PortHeldByLoop' /\ OwnersDetached'
  BY <1>1, <1>2, <1>3, <1>4 DEF PathLeadsToOwner, PortHeldByLoop, OwnersDetached, TypeOK
<1>7. QED
  BY <1>5, <1>6

(* A process that is started has no socket and no port yet. *)
LEMMA LaunchIInv ==
  ASSUME IInv, NEW p \in Processes, startDetached(p) \/ \E opt \in Options : Run(p, opt)
  PROVE  IInv'
<1> USE DEF IInv, PCs, askVars, socketVars, daemonVars
<1>1. PICK q \in Processes, opt \in AllOptions, d \in BOOLEAN :
        /\ Launch(q, opt, d)
        /\ \/ pc' = [pc EXCEPT ![q] = "gate"]
           \/ pc[p] = "spawn" /\ pc' = [pc EXCEPT ![p] = "done", ![q] = "gate"]
        /\ UNCHANGED <<met, askVars, socketVars, daemonVars, installed>>
  BY OptionsAssumption DEF startDetached, Run, Go, AllOptions, Commands
<1>2. /\ pc[q] = "unused" /\ option' = [option EXCEPT ![q] = opt]
      /\ detached' = [detached EXCEPT ![q] = d]
  BY <1>1 DEF Launch
<1>3. TypeOK'
  BY <1>1, <1>2 DEF TypeOK
<1>4. q \notin owns /\ q \notin bound /\ port # q /\ (pc[p] = "spawn" => p \notin owns /\ port # p)
  <2>1. p # Nobody /\ q # Nobody
    BY ProcessesAssumption DEF Nobody
  <2>2. QED
    BY <1>2, <2>1 DEF OwnersDetached, PortHeldByLoop
<1>5. PathLeadsToOwner' /\ PortHeldByLoop' /\ OwnersDetached'
  BY <1>1, <1>2, <1>4 DEF PathLeadsToOwner, PortHeldByLoop, OwnersDetached, TypeOK
<1>6. QED
  BY <1>3, <1>5

(* The service from its socket to its end, and the process that is killed. *)
LEMMA DaemonIInv ==
  ASSUME IInv, NEW p \in Processes,
         \/ sysSetPath(p) \/ bindSocket(p) \/ start(p) \/ slotReady(p) \/ quit(p)
         \/ Leave(p) \/ sysCleanup(p) \/ removePath(p) \/ Die(p)
  PROVE  IInv'
<1> USE DEF IInv, PCs, startVars, askVars, socketVars, daemonVars, TypeOK, PathLeadsToOwner,
            PortHeldByLoop, OwnersDetached, Go
<1>0. p # Nobody /\ Nobody \notin Processes
  BY ProcessesAssumption DEF Nobody
<1>1. CASE sysSetPath(p)
  BY <1>1 DEF sysSetPath
<1>2. CASE bindSocket(p)
  <2>1. CASE path = Nobody
    BY <1>0, <1>2, <2>1 DEF bindSocket
  <2>2. CASE path # Nobody
    <3>1. /\ pc[p] = "bind" /\ pc' = [pc EXCEPT ![p] = "loop"]
          /\ UNCHANGED <<option, detached, met, peer, reply, path, bound, owns, port, begun,
                         quitting, installed>>
      BY <1>2, <2>2 DEF bindSocket
    <3>2. p \notin owns /\ p \notin bound /\ port # p
      BY <1>0, <3>1
    <3>3. TypeOK'
      BY <3>1
    <3>4. PathLeadsToOwner' /\ PortHeldByLoop'
      BY <2>2, <3>1, <3>2
    <3>5. OwnersDetached'
      BY <3>1, <3>2
    <3>6. QED
      BY <3>3, <3>4, <3>5
  <2>3. QED
    BY <2>1, <2>2
<1>3. CASE start(p)
  <2>1. /\ pc[p] = "loop" /\ begun' = [begun EXCEPT ![p] = TRUE]
        /\ port' = port \/ (port = Nobody /\ port' = p)
        /\ UNCHANGED <<pc, option, detached, met, peer, reply, path, bound, owns, installed>>
    BY <1>3 DEF start
  <2>2. quitting' \in [Processes -> BOOLEAN]
    BY <1>3 DEF start
  <2>3. TypeOK'
    BY <2>1, <2>2
  <2>4. PathLeadsToOwner' /\ OwnersDetached'
    BY <2>1
  <2>5. PortHeldByLoop'
    BY <2>1
  <2>6. QED
    BY <2>3, <2>4, <2>5
<1>4. CASE slotReady(p)
  BY <1>4 DEF slotReady
<1>5. CASE quit(p)
  BY <1>5 DEF quit
<1>6. CASE Leave(p)
  BY <1>6 DEF Leave
<1>7. CASE sysCleanup(p)
  BY <1>7 DEF sysCleanup
<1>8. CASE removePath(p)
  BY <1>8 DEF removePath
<1>9. CASE Die(p)
  BY <1>9 DEF Die, Alive, Over
<1>10. QED
  BY <1>1, <1>2, <1>3, <1>4, <1>5, <1>6, <1>7, <1>8, <1>9

(* However the processes of the program overlap, the invariant always holds. *)
THEOREM Invariance == Spec => []IInv
<1>1. ASSUME IInv, [Next]_vars PROVE IInv'
  <2>1. CASE Next
    BY <1>1, <2>1, AskingIInv, LaunchIInv, DaemonIInv DEF Next, Step
  <2>2. CASE UNCHANGED vars
    BY <1>1, <2>2 DEF vars, IInv, TypeOK, PathLeadsToOwner, PortHeldByLoop, OwnersDetached
  <2>3. QED
    BY <1>1, <2>1, <2>2
<1>2. QED
  BY InitIInv, <1>1, PTL DEF Spec

(* No service that ended by itself leaves its file name behind. *)
THEOREM PathOwned == Spec => []PathLeadsToOwner
<1>1. IInv => PathLeadsToOwner
  BY DEF IInv
<1>2. QED
  BY Invariance, <1>1, PTL

-----------------------------------------------------------------------------
(* Without overlaps *)

(* While a process is past isRunning() and not settled, no other service goes on. *)
LEMMA NoOtherDaemon ==
  ASSUME ReachIInv, NEW p \in Processes, ~Settled(p), pc[p] # "gate", NEW s \in Processes, s # p
  PROVE  ~(detached[s] /\ pc[s] = "loop" /\ ~quitting[s])
<1> SUFFICES ASSUME detached[s], pc[s] = "loop", ~quitting[s] PROVE FALSE
  OBVIOUS
<1>1. Settled(s)
  BY DEF ReachIInv, OneAtATime
<1>2. begun[s]
  BY <1>1 DEF Settled, Alive, Over
<1>3. Serving(s)
  BY <1>2 DEF Serving, ReachIInv, BegunServes
<1>4. QED
  BY <1>3 DEF ReachIInv, NoOtherService

(* A step of the one process that is not settled keeps all others settled. *)
LEMMA StaysAlone ==
  ASSUME ReachIInv, NEW p \in Processes, ~Settled(p),
         \A q \in Processes : q # p => pc'[q] = pc[q] /\ begun'[q] = begun[q]
                                      /\ quitting'[q] = quitting[q]
  PROVE  /\ \A q \in Processes : q # p => Settled(q) /\ Settled(q)'
         /\ OneAtATime'
<1>1. \A q \in Processes : q # p => Settled(q)
  BY DEF ReachIInv, OneAtATime
<1>2. \A q \in Processes : q # p => Settled(q)'
  BY <1>1 DEF Settled, Alive
<1>3. QED
  BY <1>1, <1>2 DEF OneAtATime

LEMMA InitReach == Init => ReachIInv
<1> SUFFICES ASSUME Init PROVE ReachIInv
  OBVIOUS
<1>1. \A p \in Processes : Settled(p) /\ pc[p] = "unused" /\ ~begun[p] /\ ~detached[p]
  BY DEF Init, Settled, Alive, Over
<1>2. QED
  BY <1>1 DEF ReachIInv, Course, OneAtATime, BegunServes, NoOtherService, NameFree, DaemonsReachable

(* Up to the bind only the process itself moves; past isRunning() there is no service. *)
LEMMA AskingReach ==
  ASSUME IInv, ReachIInv, NEW p \in Processes,
         gate(p) \/ exec(p) \/ sendCmd(p) \/ Disconnected(p) \/ Answered(p)
  PROVE  ReachIInv'
<1> USE DEF PCs, startVars, askVars, socketVars, daemonVars
<1>1. PICK where \in {"exec", "done", "unlink", "ask", "loop", "await", "answered", "spawn"} :
        /\ Go(p, where) /\ pc[p] \in {"gate", "exec", "ask", "await", "answered"}
        /\ where = "ask" => option[p] \in DOMAIN Commands
        /\ where = "await" => pc[p] = "ask"
        /\ where = "loop" => option[p] = "e"
        /\ pc[p] = "gate" /\ where # "done" => ~\E q \in Processes : Reachable(q)
  BY DEF gate, exec, sendCmd, Disconnected, Answered
<1>2. UNCHANGED <<option, detached, path, bound, owns, port, begun, quitting>>
  BY DEF gate, exec, sendCmd, Disconnected, Answered
<1>3. /\ pc' \in [Processes -> PCs] /\ pc'[p] = where
      /\ \A q \in Processes : q # p => pc'[q] = pc[q]
  BY <1>1, GoFacts DEF IInv, TypeOK
<1>4. ~Settled(p) /\ ~begun[p] /\ begun' = begun
  BY <1>1, <1>2 DEF Settled, Alive, Over, ReachIInv, Course
<1>5. /\ \A q \in Processes : q # p => Settled(q) /\ Settled(q)'
      /\ OneAtATime'
  BY <1>2, <1>3, <1>4, StaysAlone
<1>6. Course'
  BY <1>1, <1>2, <1>3, <1>4 DEF ReachIInv, Course
<1>7. BegunServes'
  BY <1>2, <1>3, <1>4 DEF ReachIInv, BegunServes
<1>8. NameFree'
  BY <1>1, <1>2, <1>3 DEF ReachIInv, NameFree
<1>9. detached[p] => where # "loop"
  BY <1>1 DEF ReachIInv, Course
<1>10. DaemonsReachable'
  BY <1>2, <1>3, <1>9 DEF ReachIInv, DaemonsReachable, Reachable
<1>11. NoOtherService'
  <2> SUFFICES ASSUME NEW q \in Processes, NEW s \in Processes, ~Settled(q)', s # q,
                      Serving(s)', detached'[s]
               PROVE  FALSE
    BY DEF NoOtherService
  <2>1. q = p /\ where # "done"
    BY <1>3, <1>5 DEF Settled, Alive, Over
  <2>2. Serving(s)
    BY <1>2, <1>3, <2>1 DEF Serving
  <2>3. CASE pc[p] = "gate"
    BY <1>1, <1>2, <2>1, <2>2, <2>3 DEF Serving, ReachIInv, DaemonsReachable
  <2>4. CASE pc[p] # "gate"
    BY <1>2, <1>4, <2>1, <2>2, <2>4 DEF ReachIInv, NoOtherService
  <2>5. QED
    BY <2>3, <2>4
<1>12. QED
  BY <1>5, <1>6, <1>7, <1>8, <1>10, <1>11 DEF ReachIInv

(* A process is started when all are settled, or by the one that is not. *)
LEMMA LaunchReach ==
  ASSUME ~Overlap, IInv, ReachIInv, NEW p \in Processes,
         startDetached(p) \/ \E opt \in Options : Run(p, opt)
  PROVE  ReachIInv'
<1> USE DEF askVars, socketVars, daemonVars
<1>1. PICK q \in Processes, opt \in AllOptions, d \in BOOLEAN :
        /\ Launch(q, opt, d)
        /\ d => opt = "none"
        /\ \/ /\ pc' = [pc EXCEPT ![q] = "gate"]
              /\ \A s \in Processes : Settled(s)
           \/ pc[p] = "spawn" /\ pc' = [pc EXCEPT ![p] = "done", ![q] = "gate"]
        /\ UNCHANGED <<met, askVars, socketVars, daemonVars, installed>>
  BY OptionsAssumption DEF startDetached, Run, Quiet, Go, AllOptions, Commands
<1>2. pc[q] = "unused" /\ option'[q] = opt /\ detached'[q] = d
  BY <1>1 DEF Launch, IInv, TypeOK
<1>3. /\ pc' \in [Processes -> PCs] /\ pc'[q] = "gate"
      /\ \A s \in Processes : s # q => \/ pc'[s] = pc[s]
                                       \/ s = p /\ pc[s] = "spawn" /\ pc'[s] = "done"
      /\ \A s \in Processes : s # q => option'[s] = option[s] /\ detached'[s] = detached[s]
  BY <1>1, <1>2 DEF Launch, IInv, TypeOK, PCs
<1>4. UNCHANGED <<path, bound, owns, port, begun, quitting>>
  BY <1>1
<1>5. \A s \in Processes : s # q => Settled(s)'
  <2> SUFFICES ASSUME NEW s \in Processes, s # q PROVE Settled(s)'
    OBVIOUS
  <2>1. CASE \A r \in Processes : Settled(r)
    BY <1>3, <1>4, <2>1 DEF Settled, Alive, Over
  <2>2. CASE pc[p] = "spawn" /\ pc' = [pc EXCEPT ![p] = "done", ![q] = "gate"]
    <3>1. ~Settled(p)
      BY <2>2 DEF Settled, Alive, Over
    <3>2. s # p => Settled(s)
      BY <3>1 DEF ReachIInv, OneAtATime
    <3>3. pc'[p] = "done"
      BY <1>2, <2>2 DEF IInv, TypeOK
    <3>4. QED
      BY <1>3, <1>4, <3>2, <3>3 DEF Settled, Alive, Over
  <2>3. QED
    BY <1>1, <2>1, <2>2
<1>6. OneAtATime' /\ NoOtherService'
  BY <1>3, <1>5 DEF OneAtATime, NoOtherService
<1>7. Course'
  BY <1>1, <1>2, <1>3, <1>4 DEF ReachIInv, Course
<1>8. BegunServes' /\ NameFree'
  BY <1>3, <1>4 DEF ReachIInv, BegunServes, NameFree
<1>9. DaemonsReachable'
  BY <1>3, <1>4 DEF ReachIInv, DaemonsReachable, Reachable
<1>10. QED
  BY <1>6, <1>7, <1>8, <1>9 DEF ReachIInv

(* The file name changes hands only while no other service is there to be reached. *)
LEMMA SocketReach ==
  ASSUME IInv, ReachIInv, NEW p \in Processes,
         sysSetPath(p) \/ bindSocket(p) \/ sysCleanup(p) \/ removePath(p)
  PROVE  ReachIInv'
<1> USE DEF startVars, askVars, socketVars, daemonVars
<1>1. PICK where \in {"bind", "loop", "cleanup", "done"} :
        /\ Go(p, where) /\ pc[p] \in {"unlink", "bind", "close", "cleanup"}
        /\ where = "bind" => path' = Nobody
        /\ where = "loop" => pc[p] = "bind"
        /\ begun[p] => where # "bind" /\ where # "loop"
        /\ where # "bind" /\ where # "loop" => pc[p] \in {"close", "cleanup"}
  BY DEF sysSetPath, bindSocket, sysCleanup, removePath, ReachIInv, Course
<1>2. UNCHANGED <<option, detached, port, begun, quitting>>
  BY DEF sysSetPath, bindSocket, sysCleanup, removePath
<1>3. /\ pc' \in [Processes -> PCs] /\ pc'[p] = where
      /\ \A q \in Processes : q # p => pc'[q] = pc[q]
  BY <1>1, GoFacts DEF IInv, TypeOK, PCs
<1>4. ~Settled(p) /\ pc[p] # "gate"
  BY <1>1 DEF Settled, Alive, Over
<1>5. /\ \A q \in Processes : q # p => Settled(q) /\ Settled(q)'
      /\ OneAtATime'
  BY <1>2, <1>3, <1>4, StaysAlone
<1>6. \A s \in Processes : s # p => ~(detached[s] /\ pc[s] = "loop" /\ ~quitting[s])
  BY <1>4, NoOtherDaemon
<1>7. Course'
  BY <1>1, <1>2, <1>3 DEF ReachIInv, Course
<1>8. BegunServes'
  BY <1>1, <1>2, <1>3 DEF ReachIInv, BegunServes
<1>9. NoOtherService'
  BY <1>2, <1>3, <1>5, <1>6 DEF NoOtherService, Serving
<1>10. NameFree'
  <2> SUFFICES ASSUME NEW s \in Processes, pc'[s] = "bind" PROVE path' = Nobody
    BY DEF NameFree
  <2>1. s = p
    BY <1>5 DEF Settled, Alive, Over
  <2>2. QED
    BY <1>1, <1>3, <2>1
<1>11. DaemonsReachable'
  <2> SUFFICES ASSUME NEW s \in Processes, detached'[s], pc'[s] = "loop", ~quitting'[s]
               PROVE  Reachable(s)'
    BY DEF DaemonsReachable
  <2>1. s = p /\ pc[p] = "bind"
    BY <1>1, <1>2, <1>3, <1>6
  <2>2. path = Nobody /\ bindSocket(p)
    BY <2>1 DEF ReachIInv, NameFree, sysSetPath, bindSocket, sysCleanup, removePath
  <2>3. QED
    BY <2>1, <2>2 DEF bindSocket, Reachable
<1>12. QED
  BY <1>5, <1>7, <1>8, <1>9, <1>10, <1>11 DEF ReachIInv

(* A daemon that begins gets the port, or quits: another one in the loop has it. *)
LEMMA StartReach ==
  ASSUME IInv, ReachIInv, NEW p \in Processes, start(p)
  PROVE  ReachIInv'
<1> USE DEF startVars, askVars, socketVars, daemonVars
<1>1. /\ pc[p] = "loop" /\ ~begun[p]
      /\ begun'[p] /\ \A q \in Processes : q # p => begun'[q] = begun[q]
      /\ \A q \in Processes : q # p => quitting'[q] = quitting[q]
      /\ UNCHANGED <<pc, option, detached, path, bound, owns>>
  BY DEF start, IInv, TypeOK
<1>2. \/ port = Nobody /\ port' = p /\ quitting' = quitting
      \/ port # Nobody /\ port' = port /\ quitting'[p]
  BY DEF start, IInv, TypeOK
<1>3. ~Settled(p) /\ pc[p] # "gate"
  BY <1>1 DEF Settled, Alive, Over
<1>4. /\ \A q \in Processes : q # p => Settled(q) /\ Settled(q)'
      /\ OneAtATime'
  BY <1>1, <1>3, StaysAlone
<1>5. \A s \in Processes : s # p => ~(detached[s] /\ pc[s] = "loop" /\ ~quitting[s])
  BY <1>3, NoOtherDaemon
<1>6. Course'
  BY <1>1 DEF ReachIInv, Course
<1>7. BegunServes'
  <2> SUFFICES ASSUME NEW q \in Processes, pc'[q] = "loop", begun'[q], ~quitting'[q]
               PROVE  port' = q
    BY DEF BegunServes
  <2>1. CASE q = p
    BY <1>2, <2>1
  <2>2. CASE q # p
    <3>1. port = q
      BY <1>1, <2>2 DEF ReachIInv, BegunServes
    <3>2. q # Nobody
      BY ProcessesAssumption DEF Nobody
    <3>3. QED
      BY <1>2, <3>1, <3>2
  <2>3. QED
    BY <2>1, <2>2
<1>8. NoOtherService'
  BY <1>1, <1>4, <1>5 DEF NoOtherService, Serving
<1>9. NameFree'
  BY <1>1 DEF ReachIInv, NameFree
<1>10. DaemonsReachable'
  <2>1. \A s \in Processes : ~quitting'[s] => ~quitting[s]
    BY <1>1, <1>2
  <2>2. QED
    BY <1>1, <2>1 DEF ReachIInv, DaemonsReachable, Reachable
<1>11. QED
  BY <1>4, <1>6, <1>7, <1>8, <1>9, <1>10 DEF ReachIInv

(* A command changes nothing but the one who waits for the answer. *)
LEMMA ReplyReach ==
  ASSUME IInv, ReachIInv, NEW d \in Processes, slotReady(d)
  PROVE  ReachIInv'
<1> USE DEF startVars, askVars, socketVars, daemonVars
<1>1. PICK p \in Processes :
        /\ pc[p] = "await" /\ Go(p, "answered")
        /\ quitting' = [quitting EXCEPT ![d] = @ \/ Commands[option[p]] = "stop"]
        /\ UNCHANGED <<option, detached, path, bound, owns, port, begun>>
  BY DEF slotReady
<1>2. option[p] \in {"none", "t", "p", "r", "c"}
  BY <1>1 DEF ReachIInv, Course, Commands
<1>3. Commands[option[p]] # "stop"
  BY <1>2 DEF Commands
<1>4. \A q \in Processes : quitting'[q] = quitting[q]
  BY <1>1, <1>3 DEF IInv, TypeOK
<1>5. /\ pc' \in [Processes -> PCs] /\ pc'[p] = "answered"
      /\ \A q \in Processes : q # p => pc'[q] = pc[q]
  BY <1>1, GoFacts DEF IInv, TypeOK, PCs
<1>6. ~Settled(p) /\ pc[p] # "gate"
  BY <1>1 DEF Settled, Alive, Over
<1>7. /\ \A q \in Processes : q # p => Settled(q) /\ Settled(q)'
      /\ OneAtATime'
  BY <1>1, <1>4, <1>5, <1>6, StaysAlone
<1>8. \A s \in Processes : s # p => ~(detached[s] /\ pc[s] = "loop" /\ ~quitting[s])
  BY <1>6, NoOtherDaemon
<1>9. Course'
  BY <1>1, <1>5 DEF ReachIInv, Course
<1>10. BegunServes'
  BY <1>1, <1>4, <1>5 DEF ReachIInv, BegunServes
<1>11. NoOtherService'
  BY <1>1, <1>4, <1>5, <1>7, <1>8 DEF NoOtherService, Serving
<1>12. NameFree' /\ DaemonsReachable'
  BY <1>1, <1>4, <1>5 DEF ReachIInv, NameFree, DaemonsReachable, Reachable
<1>13. QED
  BY <1>7, <1>9, <1>10, <1>11, <1>12 DEF ReachIInv

(* A service that ends had the port, if it was not on its way down already. *)
LEMMA EndReach ==
  ASSUME ~Overlap, IInv, ReachIInv, NEW p \in Processes, quit(p) \/ Leave(p) \/ Die(p)
  PROVE  ReachIInv'
<1> USE DEF startVars, askVars, socketVars, daemonVars
<1>1. CASE quit(p)
  <2>1. /\ pc[p] = "loop" /\ begun[p] /\ ~quitting[p]
        /\ \A q \in Processes : Settled(q)
        /\ quitting'[p] /\ \A q \in Processes : q # p => quitting'[q] = quitting[q]
        /\ UNCHANGED <<pc, option, detached, path, bound, owns, port, begun>>
    BY <1>1 DEF quit, Quiet, IInv, TypeOK
  <2>2. \A q \in Processes : q # p => Settled(q)'
    BY <2>1 DEF Settled, Alive
  <2>3. OneAtATime'
    BY <2>2 DEF OneAtATime
  <2>4. port = p
    BY <2>1 DEF ReachIInv, BegunServes
  <2>5. NoOtherService'
    BY <2>1, <2>2, <2>4 DEF NoOtherService, Serving
  <2>6. Course' /\ BegunServes' /\ NameFree'
    BY <2>1 DEF ReachIInv, Course, BegunServes, NameFree
  <2>7. DaemonsReachable'
    BY <2>1 DEF ReachIInv, DaemonsReachable, Reachable
  <2>8. QED
    BY <2>3, <2>5, <2>6, <2>7 DEF ReachIInv
<1>2. CASE Leave(p) \/ Die(p)
  <2>1. PICK where \in {"close", "done", "killed"} :
          /\ Go(p, where)
          /\ where # "killed" => pc[p] = "loop" /\ quitting[p]
    BY <1>2 DEF Leave, Die
  <2>2. /\ port' = IF port = p THEN Nobody ELSE port
        /\ bound' = bound \/ bound' = bound \ {p}
        /\ UNCHANGED <<option, detached, path, owns, begun, quitting>>
    BY <1>2 DEF Leave, Die
  <2>3. /\ pc' \in [Processes -> PCs] /\ pc'[p] = where
        /\ \A q \in Processes : q # p => pc'[q] = pc[q]
    BY <2>1, GoFacts DEF IInv, TypeOK, PCs
  <2>4. \A q \in Processes : ~Settled(q)' => ~Settled(q)
    BY <2>1, <2>2, <2>3 DEF Settled, Alive, Over
  <2>5. OneAtATime'
    BY <2>4 DEF ReachIInv, OneAtATime
  <2>6. Course' /\ BegunServes' /\ NameFree'
    BY <2>1, <2>2, <2>3 DEF ReachIInv, Course, BegunServes, NameFree
  <2>7. NoOtherService'
    <3> SUFFICES ASSUME NEW q \in Processes, NEW s \in Processes, ~Settled(q)', pc'[q] # "gate",
                        s # q, Serving(s)'
                 PROVE  ~detached'[s]
      BY DEF NoOtherService
    <3>1. ~Settled(q) /\ pc[q] # "gate"
      BY <2>1, <2>3, <2>4 DEF Settled, Alive, Over
    <3>2. Serving(s)
      <4>1. s # Nobody
        BY ProcessesAssumption DEF Nobody
      <4>2. QED
        BY <2>1, <2>2, <2>3, <4>1 DEF Serving
    <3>3. QED
      BY <2>2, <3>1, <3>2 DEF ReachIInv, NoOtherService
  <2>8. DaemonsReachable'
    BY <2>2, <2>3 DEF ReachIInv, DaemonsReachable, Reachable
  <2>9. QED
    BY <2>5, <2>6, <2>7, <2>8 DEF ReachIInv
<1>3. QED
  BY <1>1, <1>2

(* As long as the program is not run while a process of it starts or stops, a service that *)
(* serves is reached by its controller, even after others were killed or gave up.          *)
THEOREM SequentialReach == ASSUME ~Overlap PROVE Spec => []ServiceReachable
<1>1. ASSUME IInv, ReachIInv, [Next]_vars PROVE ReachIInv'
  <2>1. ASSUME NEW p \in Processes,
               Step(p) \/ slotReady(p) \/ quit(p) \/ Die(p) \/ \E opt \in Options : Run(p, opt)
        PROVE  ReachIInv'
    BY <1>1, <2>1, AskingReach, LaunchReach, SocketReach, StartReach, ReplyReach, EndReach DEF Step
  <2>2. CASE UNCHANGED vars
    BY <1>1, <2>2 DEF vars, ReachIInv, Course, OneAtATime, BegunServes, NoOtherService, NameFree,
       DaemonsReachable, Settled, Alive, Serving, Reachable
  <2>3. QED
    BY <1>1, <2>1, <2>2 DEF Next
<1>2. ReachIInv => ServiceReachable
  BY DEF ReachIInv, DaemonsReachable, ServiceReachable, Serving
<1>3. QED
  BY InitReach, Invariance, <1>1, <1>2, PTL DEF Spec
=============================================================================
