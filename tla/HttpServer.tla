----------------------------- MODULE HttpServer -----------------------------
(***************************************************************************)
(* CHttpServer (src/src/httpio/http_server.cpp), the event it posts for    *)
(* every request, and the four event filters that answer it                *)
(* (src/src/netresponse).                                                  *)
(*                                                                         *)
(* Everything runs in one thread, but not one request after the other:     *)
(* readClient() posts its request and then runs the event loop until the   *)
(* request is answered, and the relay does the same for the event it posts *)
(* in turn.  Either of them can be interrupted there by the readClient()   *)
(* of another connection, by a client that hangs up, or by the deletion of *)
(* a socket.  The call stack of those handlers is a variable.              *)
(***************************************************************************)
EXTENDS Naturals, Sequences, FiniteSets, EventQueue

CONSTANTS
  Clients,      \* each client opens one connection
  Impatient,    \* the clients that may hang up before they are answered
  Stalling,     \* the clients that may leave unread what they are sent
  Asks,         \* what the clients ask for, a subset of AllAsks
  MaxRequests,  \* bound: requests a client sends on its connection
  Pausable,     \* whether anything calls pause() and resume()
  DatabaseFails \* whether the database can become unreachable

(***************************************************************************)
(* The classes of input that the code tells apart.                         *)
(*   fragment   the start of a request, without an end of line yet         *)
(*   garbled    a first line that CHttpHeader::read() refuses              *)
(*   favicon, root, escaped   what readClient() answers by itself          *)
(*   bare       a path with no part at all, such as that of "HEAD /"       *)
(*   huge       a page, in a request of 1 MB or more                       *)
(* The others name the branch of CResponseRelay::requestFilter() they take. *)
(***************************************************************************)
AllAsks == {"fragment", "garbled", "favicon", "root", "escaped", "bare", "stylesheet",
            "download", "page", "filepage", "missing", "huge"}

ASSUME ClientsAssumption == 
  IsFiniteSet(Clients) /\ Impatient \subseteq Clients /\ Stalling \subseteq Clients
ASSUME AsksAssumption == Asks \subseteq AllAsks /\ "fragment" \in Asks
ASSUME BoundAssumption == MaxRequests \in Nat \ {0}
ASSUME SwitchAssumption == Pausable \in BOOLEAN /\ DatabaseFails \in BOOLEAN

Nothing == "nothing"

VARIABLES
  conn,      \* the state of each connection, as the server holds it
  wire,      \* the bytes of a client that the server has not read
  gone,      \* the clients that have hung up
  sent,      \* the number of requests each client has sent
  stalled,   \* the clients that do not read, so that no more output can be sent to them
  answers,   \* what the server has written on each connection
  unsent,    \* the connections with written bytes still in the socket
  paused,    \* CHttpServer::m_paused
  quitting,  \* QCoreApplication::quit() has been called
  stack,     \* the event loops that are running, innermost last
  posted,    \* the posted events
  mark       \* how many of them the running pass may still send

vars == <<conn, wire, gone, sent, stalled, answers, unsent, paused, quitting, stack, posted, mark>>
clientVars == <<wire, gone, sent, stalled>>
serverVars == <<answers, unsent>>
queueVars == <<posted, mark>>

ConnStates == {"idle",         \* the client has not connected yet
               "backlog",      \* the kernel has, the server has not accepted
               "ignored",      \* accepted while paused: no socket object
               "connected",    \* a QTcpSocket, in ConnectedState
               "closing",      \* close() called, output still to be flushed
               "unconnected",  \* closed by either side, the object still there
               "destroyed"}    \* the QTcpSocket is deleted

Answers == {"favicon", "moved", "css", "image", "bad request", "article", "file page"}

(* An event names the socket that its answer goes to, or that is to be deleted. *)
Event == [type : RequestTypes \cup {"DeferredDelete"}, sock : Clients, asks : AllAsks,
          level : Nat]

(***************************************************************************)
(* A frame is one event loop: that of main(), or the pass that readClient() *)
(* or the relay makes for a socket.  A pass sends posted events, polls the *)
(* sockets, and handles those of "todo" that were ready.                   *)
(***************************************************************************)
Frame == [kind : {"exec", "readClient", "relay"}, sock : Clients \cup {Nothing},
          phase : {"send", "poll"}, todo : SUBSET Clients]

Pass(k, c) == [kind |-> k, sock |-> c, phase |-> "send", todo |-> {}]

Running == stack # <<>>
Depth == Len(stack)
Top == stack[Depth]
Pop == SubSeq(stack, 1, Depth - 1)
Entered(frames) == {frames[i].sock : i \in {j \in DOMAIN frames : frames[j].kind = "readClient"}}
InReadClient(c) == c \in Entered(stack)

-----------------------------------------------------------------------------
(* The clients *)

Connect(c) ==
  /\ conn[c] = "idle"
  /\ conn' = [conn EXCEPT ![c] = "backlog"]
  /\ UNCHANGED <<clientVars, serverVars, queueVars, paused, quitting, stack>>

(* A request arrives, or the rest of one of which a part has arrived. *)
Send(c, a) ==
  /\ conn[c] \in {"backlog", "connected"} /\ ~gone[c]
  /\ \/ wire[c] = Nothing /\ sent[c] < MaxRequests
        /\ sent' = [sent EXCEPT ![c] = @ + 1]
     \/ wire[c] = "fragment" /\ a # "fragment"
        /\ UNCHANGED sent
  /\ wire' = [wire EXCEPT ![c] = a]
  /\ UNCHANGED <<conn, gone, stalled, serverVars, queueVars, paused, quitting, stack>>

HangUp(c) ==
  /\ c \in Impatient /\ ~gone[c] /\ conn[c] \in {"backlog", "connected", "closing"}
  /\ gone' = [gone EXCEPT ![c] = TRUE]
  /\ UNCHANGED <<conn, wire, sent, stalled, serverVars, queueVars, paused, quitting, stack>>

(* A client leaves unread what there is for it, or reads on. *)
Stall(c) ==
  /\ c \in Stalling /\ ~gone[c] /\ unsent[c]
  /\ stalled' = [stalled EXCEPT ![c] = ~@]
  /\ UNCHANGED <<conn, wire, gone, sent, serverVars, queueVars, paused, quitting, stack>>

-----------------------------------------------------------------------------
(* CHttpServer::pause() and resume() *)

SetPaused(p) ==
  /\ Pausable /\ paused # p
  /\ paused' = p
  /\ UNCHANGED <<conn, clientVars, serverVars, queueVars, quitting, stack>>

-----------------------------------------------------------------------------
(* Sockets.  Write() goes to the socket's buffer, and only while it is connected. *)

Write(c, a) ==
  IF conn[c] = "connected"
    THEN /\ answers' = [answers EXCEPT ![c] = Append(@, a)]
         /\ unsent' = [unsent EXCEPT ![c] = TRUE]
    ELSE UNCHANGED serverVars

(* Variant: nothing asks for the socket to be deleted. *)
discardNothing(c) ==
  /\ conn' = [conn EXCEPT ![c] = "unconnected"]
  /\ UNCHANGED queueVars

(* discardClient(): the slot of disconnected() asks for the socket to be deleted *)
(* when the handlers that are running now have returned.                         *)
discardClient(c) ==
  /\ conn' = [conn EXCEPT ![c] = "unconnected"]
  /\ posted' = Post(posted, mark, [type |-> "DeferredDelete", sock |-> c,
                                         asks |-> "fragment", level |-> Depth + 1])
  /\ UNCHANGED mark

(* Variants: deleteLater() in the place of delete; a connection kept alive. *)
DeleteLaterAgain(c, pending) ==
  IF conn[c] = "connected" /\ pending
    THEN conn' = [conn EXCEPT ![c] = "closing"] /\ UNCHANGED queueVars
    ELSE discardClient(c)

KeepAlive(c, pending) == UNCHANGED <<conn, queueVars>>

(* The end of readClient(): close what is open, delete what is unconnected. *)
(* (It runs while sockets are polled, so no event counts for the running pass.)  *)
CloseOrDelete(c, pending) ==
  IF conn[c] = "connected" /\ pending
    THEN /\ conn' = [conn EXCEPT ![c] = "closing"]
         /\ UNCHANGED queueVars
    ELSE /\ conn' = [conn EXCEPT ![c] = "destroyed"]
         /\ posted' = Withdraw(posted, c)
         /\ UNCHANGED mark

-----------------------------------------------------------------------------
(* CHttpServer *)

incomingConnection(c) ==
  /\ conn[c] = "backlog"
  /\ conn' = [conn EXCEPT ![c] = IF paused THEN "ignored" ELSE "connected"]
  /\ UNCHANGED <<clientVars, serverVars, queueVars>>

(* The test of the size of a request, with its two bounds joined by "and". *)
Bytes(a) == CASE a = Nothing -> 0 [] a = "huge" -> 2^20 [] OTHER -> 1
IllegalSize(a) == Bytes(a) <= 0 /\ Bytes(a) >= 2^20

(* Variant: the test for a complete line is inverted. *)
RefusedLine(a) == paused \/ IllegalSize(a) \/ a # "fragment"

Refused(a) == paused \/ IllegalSize(a) \/ a = "fragment"

Immediate == [favicon |-> "favicon", root |-> "moved", escaped |-> "moved"]

(* Variant: the request is posted, and no event loop runs. *)
readClientWithoutLoop(c, below) ==
  /\ wire' = [wire EXCEPT ![c] = Nothing]
  /\ UNCHANGED <<gone, sent, stalled, serverVars>>
  /\ stack' = below
  /\ conn' = [conn EXCEPT ![c] = "unconnected"]
  /\ posted' = Post(posted, mark, [type |-> "TCPRequest", sock |-> c,
                                         asks |-> wire[c], level |-> 0])
  /\ UNCHANGED mark

(* readClient() up to the point where it hands over to the event loop.  The *)
(* loop that called it is the frame below, with its list of ready sockets.  *)
readClient(c, below) ==
  LET a == wire[c] IN
  /\ wire' = [wire EXCEPT ![c] = Nothing]
  /\ UNCHANGED <<gone, sent, stalled>>
  /\ \/ /\ Refused(a)                                    \* throw: close at once
        /\ CloseOrDelete(c, unsent[c])
        /\ stack' = below
        /\ UNCHANGED serverVars
     \/ /\ ~Refused(a) /\ a = "garbled"                  \* return: nothing is closed
        /\ stack' = below
        /\ UNCHANGED <<conn, serverVars, queueVars>>
     \/ /\ ~Refused(a) /\ a \in DOMAIN Immediate         \* write, then throw
        /\ Write(c, Immediate[a])
        /\ CloseOrDelete(c, TRUE)
        /\ stack' = below
     \/ /\ ~Refused(a) /\ a \notin {"garbled"} \cup DOMAIN Immediate
        /\ posted' = Post(posted, mark, [type |-> "TCPRequest", sock |-> c,
                                               asks |-> a, level |-> 0])
        /\ mark' = Len(posted')
        /\ stack' = Append(below, Pass("readClient", c))
        /\ UNCHANGED <<conn, serverVars>>

(* A socket that becomes readable while its own readClient() is running does *)
(* not signal again: what it brings is left in its buffer.                   *)
ReadOrBuffer(c, below) ==
  IF InReadClient(c)
    THEN /\ wire' = [wire EXCEPT ![c] = Nothing]
         /\ stack' = below
         /\ UNCHANGED <<conn, gone, sent, stalled, serverVars, queueVars>>
    ELSE readClient(c, below)

-----------------------------------------------------------------------------
(* The event loop *)

CanRead(c) == conn[c] = "connected" /\ wire[c] # Nothing
CanHangUp(c) == conn[c] = "connected" /\ wire[c] = Nothing /\ gone[c]
CanFlush(c) == conn[c] \in {"connected", "closing"} /\ unsent[c] /\ (gone[c] \/ ~stalled[c])
Ready(c) == conn[c] = "backlog" \/ CanRead(c) \/ CanHangUp(c) \/ CanFlush(c)

(* sendPostedEvents has nothing more to send: one poll of the sockets. *)
Poll ==
  /\ Running /\ Top.phase = "send" /\ mark = 0
  /\ stack' = [stack EXCEPT ![Depth].phase = "poll",
                            ![Depth].todo = {c \in Clients : Ready(c)}]
  /\ UNCHANGED <<conn, clientVars, serverVars, queueVars, paused, quitting>>

(* One of the sockets that were ready is attended to, in one of the ways *)
(* open to it now; a nested loop may have done so already.               *)
Notify(c) ==
  LET below == [stack EXCEPT ![Depth].todo = @ \ {c}] IN
  /\ Running /\ Top.phase = "poll" /\ c \in Top.todo
  /\ UNCHANGED <<paused, quitting>>
  /\ \/ /\ incomingConnection(c)
        /\ stack' = below
     \/ /\ CanRead(c)
        /\ ReadOrBuffer(c, below)
     \/ /\ CanHangUp(c)
        /\ discardClient(c)
        /\ stack' = below
        /\ UNCHANGED <<clientVars, serverVars>>
     \/ /\ CanFlush(c)
        /\ unsent' = [unsent EXCEPT ![c] = FALSE]
        /\ IF conn[c] = "closing" THEN discardClient(c) ELSE UNCHANGED <<conn, queueVars>>
        /\ stack' = below
        /\ UNCHANGED <<clientVars, answers>>
     \/ /\ ~Ready(c)
        /\ stack' = below
        /\ UNCHANGED <<conn, clientVars, serverVars, queueVars>>

(* The pass of the loop in main() is over: the next one, or the end. *)
NextTurn ==
  /\ Running /\ Top.kind = "exec" /\ Top.phase = "poll" /\ Top.todo = {}
  /\ IF quitting
       THEN stack' = <<>> /\ UNCHANGED mark
       ELSE /\ stack' = [stack EXCEPT ![Depth].phase = "send"]
            /\ mark' = Len(posted)
  /\ UNCHANGED <<conn, clientVars, serverVars, posted, paused, quitting>>

-----------------------------------------------------------------------------
(* The event filters *)

Sending == Running /\ Top.phase = "send" /\ mark > 0

Answering(type) == Sending /\ Head(posted).type = type

Forward(c, type, a) ==
  posted' = Post(Tail(posted), mark - 1, [type |-> type, sock |-> c,
                                                asks |-> a, level |-> 0])

(* A query finds what it looks for, or nothing when the database is out of reach: *)
(* QueryThread::run() then asks the application to quit.                          *)
Query(found) ==
  \/ found /\ UNCHANGED quitting
  \/ ~found /\ DatabaseFails /\ quitting' = TRUE

(* Variant: the page event of another kind, for which there is no filter. *)
TargetEdit == [download |-> "WikiDownload", page |-> "WikiEditArticle",
               huge |-> "WikiEditArticle", filepage |-> "WikiFile"]

Target == [download |-> "WikiDownload", page |-> "WikiArticle", huge |-> "WikiArticle",
           filepage |-> "WikiFile"]

(* Variant: a stylesheet is written, and looked for among the files as well. *)
RelayFallsThrough ==
  LET e == Head(posted) IN
  /\ Sending /\ e.type = "TCPRequest"
  /\ Write(e.sock, "css")
  /\ Forward(e.sock, "WikiDownload", e.asks)
  /\ stack' = Append(stack, Pass("relay", e.sock))
  /\ mark' = Len(posted')
  /\ UNCHANGED <<conn, clientVars, paused, quitting>>

(* CResponseRelay::requestFilter(): writes the answer, posts the event that will, *)
(* or does neither; then runs the event loop.                                     *)
RelayRequest ==
  LET e == Head(posted) IN
  /\ Sending /\ e.type = "TCPRequest"
  /\ \/ /\ e.asks = "stylesheet"
        /\ Write(e.sock, "css")
        /\ posted' = Tail(posted)
        /\ UNCHANGED quitting
     \/ /\ e.asks = "download"
        /\ Forward(e.sock, Target[e.asks], e.asks)
        /\ UNCHANGED <<serverVars, quitting>>
     \/ /\ e.asks \in {"page", "huge", "filepage"}
        /\ \E found \in BOOLEAN :
             /\ Query(found)
             /\ IF found THEN Forward(e.sock, Target[e.asks], e.asks)
                         ELSE posted' = Tail(posted)
        /\ UNCHANGED serverVars
     \/ /\ e.asks \in {"missing", "bare"}
        /\ posted' = Tail(posted)
        /\ UNCHANGED <<serverVars, quitting>>
  /\ stack' = Append(stack, Pass("relay", e.sock))
  /\ mark' = Len(posted')
  /\ UNCHANGED <<conn, clientVars, paused>>

(* The first part is taken from a path that has none: undefined, the process ends *)
(* (or what it finds there names no page, and the request goes on as "missing").   *)
RelayBare ==
  /\ Answering("TCPRequest") /\ Head(posted).asks = "bare"
  /\ stack' = <<>>
  /\ UNCHANGED <<conn, clientVars, serverVars, queueVars, paused, quitting>>

Handled ==
  /\ posted' = Tail(posted)
  /\ mark' = mark - 1
  /\ UNCHANGED <<conn, clientVars, paused, stack>>

(* Variant: the event filter closes the connection itself. *)
RespondAndClose ==
  LET c == Head(posted).sock IN
  /\ Answering("WikiArticle")
  /\ Write(c, "article")
  /\ conn' = [conn EXCEPT ![c] = "closing"]
  /\ posted' = Tail(posted)
  /\ mark' = mark - 1
  /\ UNCHANGED <<clientVars, paused, quitting, stack>>

(* CArticleResponse::requestFilter() *)
RespondArticle ==
  /\ Answering("WikiArticle")
  /\ Write(Head(posted).sock, "article")
  /\ Handled /\ UNCHANGED quitting

(* CFileResponse::requestFilter() *)
RespondFile ==
  /\ Answering("WikiFile")
  /\ Write(Head(posted).sock, "file page")
  /\ Handled /\ UNCHANGED quitting

(* CDownloadResponse::requestFilter() *)
RespondDownload ==
  /\ Answering("WikiDownload")
  /\ \/ Write(Head(posted).sock, "image") /\ Query(TRUE)
     \/ Write(Head(posted).sock, "bad request") /\ \E found \in BOOLEAN : Query(found)
  /\ Handled

(* The text of a page that the relay found is looked up once more, and the first *)
(* row of the result used without asking whether there is one: undefined, when   *)
(* the database went away in between.                                            *)
RespondUnfound ==
  /\ Answering("WikiArticle") /\ DatabaseFails
  /\ stack' = <<>>
  /\ UNCHANGED <<conn, clientVars, serverVars, queueVars, paused, quitting>>

(* deleteLater(): the socket is deleted, or the event is put back. *)
DeferredDelete ==
  LET e == Head(posted) IN
  /\ Sending /\ IsDelete(e)
  /\ mark' = mark - 1
  /\ IF MayDelete(e, Depth)
       THEN /\ conn' = [conn EXCEPT ![e.sock] = "destroyed"]
            /\ posted' = Tail(posted)
       ELSE /\ posted' = Post(Tail(posted), mark - 1, e)
            /\ UNCHANGED conn
  /\ UNCHANGED <<clientVars, serverVars, paused, quitting, stack>>

-----------------------------------------------------------------------------
(* The handlers return *)

PassOver(kind) == Running /\ Top.kind = kind /\ Top.phase = "poll" /\ Top.todo = {}

RelayReturns ==
  /\ PassOver("relay")
  /\ stack' = Pop
  /\ UNCHANGED <<conn, clientVars, serverVars, queueVars, paused, quitting>>

(* Variant: sender() is asked again after the event loop, for what may be *)
(* another socket than the one whose request was handled.                 *)
ReadClientReturnsSender ==
  /\ PassOver("readClient") /\ conn[Top.sock] # "destroyed"
  /\ \E c \in Clients : InReadClient(c) /\ CloseOrDelete(c, unsent[c])
  /\ stack' = Pop
  /\ UNCHANGED <<clientVars, serverVars, paused, quitting>>

ReadClientReturns ==
  /\ PassOver("readClient") /\ conn[Top.sock] # "destroyed"
  /\ CloseOrDelete(Top.sock, unsent[Top.sock])
  /\ stack' = Pop
  /\ UNCHANGED <<clientVars, serverVars, paused, quitting>>

(* The socket was deleted while the event loop ran: what readClient() does to it *)
(* is undefined; the process ends, or memory that is no longer a socket is read. *)
ReadClientReturnsStale ==
  /\ PassOver("readClient") /\ conn[Top.sock] = "destroyed"
  /\ stack' \in {<<>>, Pop}
  /\ UNCHANGED <<conn, clientVars, serverVars, queueVars, paused, quitting>>

-----------------------------------------------------------------------------
Init ==
  /\ conn = [c \in Clients |-> "idle"]
  /\ wire = [c \in Clients |-> Nothing]
  /\ gone = [c \in Clients |-> FALSE]
  /\ sent = [c \in Clients |-> 0]
  /\ stalled = [c \in Clients |-> FALSE]
  /\ answers = [c \in Clients |-> <<>>]
  /\ unsent = [c \in Clients |-> FALSE]
  /\ paused = FALSE
  /\ quitting = FALSE
  /\ stack = <<Pass("exec", Nothing)>>
  /\ posted = <<>>
  /\ mark = 0

Environment ==
  \/ \E c \in Clients : Connect(c) \/ HangUp(c) \/ Stall(c) \/ \E a \in Asks : Send(c, a)
  \/ \E p \in BOOLEAN : SetPaused(p)

Thread ==
  \/ Poll \/ NextTurn
  \/ \E c \in Clients : Notify(c)
  \/ RelayRequest \/ RelayBare \/ DeferredDelete
  \/ RespondArticle \/ RespondUnfound \/ RespondFile \/ RespondDownload
  \/ RelayReturns \/ ReadClientReturns \/ ReadClientReturnsStale

(* The process is over. *)
Ended == ~Running /\ UNCHANGED vars

Next == Environment \/ Thread \/ Ended

Spec == Init /\ [][Next]_vars

(* The thread of the server is never descheduled for good. *)
FairSpec == Spec /\ WF_vars(Thread)

-----------------------------------------------------------------------------
(* Properties *)

(* Every variable stays in its range, and the mark within the queue. *)
TypeOK ==
  /\ conn \in [Clients -> ConnStates]
  /\ wire \in [Clients -> Asks \cup {Nothing}]
  /\ gone \in [Clients -> BOOLEAN]
  /\ sent \in [Clients -> 0 .. MaxRequests]
  /\ stalled \in [Clients -> BOOLEAN]
  /\ answers \in [Clients -> Seq(Answers)]
  /\ unsent \in [Clients -> BOOLEAN]
  /\ paused \in BOOLEAN /\ quitting \in BOOLEAN
  /\ stack \in Seq(Frame)
  /\ posted \in Seq(Event)
  /\ mark \in 0 .. Len(posted)

(* However the handlers of several connections are nested, at most one answer *)
(* is ever written to a connection.                                           *)
AtMostOneAnswer == \A c \in Clients : Len(answers[c]) <= 1

(* A posted request holds a bare pointer to the socket that its answer goes to: *)
(* the socket is connected for as long as the request waits in the queue, so no *)
(* event filter writes to a deleted socket, and none finds its client gone.     *)
RequestsNameConnectedSockets ==
  \A e \in Events(posted) : IsRequest(e) => conn[e.sock] = "connected"

(* readClient() and discardClient() both delete, and between them delete once: a *)
(* socket has one deferred delete at most, only while it is unconnected.         *)
DeletedOnce ==
  /\ OneDeleteEach(posted)
  /\ \A e \in Events(posted) : IsDelete(e) => conn[e.sock] = "unconnected"

EnteredOnce(frames) ==
  \A i, j \in DOMAIN frames :
    /\ frames[i].kind = "readClient" /\ frames[j].kind = "readClient"
    /\ frames[i].sock = frames[j].sock
    => i = j

(* readClient() is never entered for a socket whose readClient() is still running: part of the *)
(* invariant below, as what is assumed of Qt is seen by it.                                     *)
NotReentered == EnteredOnce(stack)

(* A readClient() that is still to return finds its socket deleted only when the *)
(* client hung up while the request was being handled.                           *)
StaleOnlyAfterHangUp ==
  \A c \in Clients : InReadClient(c) /\ conn[c] = "destroyed" => gone[c]

(* No client that waits has its connection shut down by the handler of another one: *)
(* a connection is closed by its own readClient(), or after its client hung up.     *)
ClosedByItsOwnHandler ==
  [][\A c \in Clients :
       /\ conn[c] = "connected" /\ conn'[c] # "connected"
       /\ InReadClient(c) /\ ~gone[c]
       => Running /\ Top.kind = "readClient" /\ Top.sock = c]_vars

(***************************************************************************)
(* The inductive invariant behind these properties.  Its core is that the  *)
(* queue never holds more than one request, always within reach of the     *)
(* running pass: whoever posts a request sends it before any socket is     *)
(* polled, so nothing can happen to its socket in between.                 *)
(***************************************************************************)
FramesOK ==
  /\ \A i \in DOMAIN stack : stack[i].kind # "exec" => stack[i].sock \in Clients
  /\ Running /\ Top.phase = "poll" => mark = 0

QueueOK ==
  /\ SoleRequest(posted, mark)
  /\ \A e \in Events(posted) : IsRequest(e) =>
       /\ conn[e.sock] = "connected"
       /\ answers[e.sock] = <<>>
       /\ Running => InReadClient(e.sock)

SocketsOK ==
  \A c \in Clients :
    /\ conn[c] \in {"idle", "backlog", "ignored"} => answers[c] = <<>>
    /\ InReadClient(c) => conn[c] \in {"connected", "unconnected", "destroyed"}
    /\ InReadClient(c) /\ conn[c] # "connected" => gone[c]
    /\ Running /\ conn[c] = "connected" /\ answers[c] # <<>> => InReadClient(c)

(* All that the nesting of the handlers preserves, from which the properties above follow. *)
IInv ==
  /\ TypeOK /\ FramesOK /\ QueueOK /\ SocketsOK
  /\ AtMostOneAnswer /\ NotReentered /\ DeletedOnce

Answerable == {"favicon", "root", "escaped", "stylesheet", "download", "page", "filepage"}

(* What a connection goes through, as its client can tell: ConnectionContract. *)
PhaseOf(state) ==
  CASE state = "idle" -> "none"
    [] state = "backlog" -> "waiting"
    [] state = "ignored" -> "refused"
    [] state = "connected" -> "open"
    [] state \in {"closing", "unconnected"} -> "shut"
    [] state = "destroyed" -> "freed"

Phase == [c \in Clients |-> PhaseOf(conn[c])]

Answered == [c \in Clients |-> Len(answers[c])]

Contract == INSTANCE ConnectionContract WITH phase <- Phase, answered <- Answered

(* Whatever is nested in what, every connection goes through its phases in order, is *)
(* answered at most once, only while it is open, and freed once, after it was shut.  *)
ImplementsContract == Contract!Spec

(* A request for something that exists is answered, unless its client hangs up, *)
(* or the process ends, whatever the others do in the meantime.  (One that comes *)
(* while readClient() is busy with an earlier one of the same client is not      *)
(* read any more.)                                                               *)
EveryRequestAnswered ==
  \A c \in Clients :
    conn[c] \in {"backlog", "connected"} /\ wire[c] \in Answerable /\ ~InReadClient(c)
      ~> answers[c] # <<>> \/ gone[c] \/ ~Running \/ conn[c] = "ignored"

(* A connection that was closed by either side does not keep its socket for good, while its *)
(* client reads: nothing times out, and a socket that is closing waits for as long as its    *)
(* client leaves the answer unread.  When the client has read on for good, it is deleted.    *)
EverySocketDeleted ==
  \A c \in Clients :
    conn[c] \in {"closing", "unconnected"}
      ~> conn[c] = "destroyed" \/ ~Running \/ (conn[c] = "closing" /\ stalled[c])
=============================================================================
