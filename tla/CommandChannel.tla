--------------------------- MODULE CommandChannel ---------------------------
(***************************************************************************)
(* The local socket on which the service takes its commands, byte by byte: *)
(* QtServiceSysPrivate (src/src/service/qtservice_unix.cpp) and those that *)
(* connect to it.  What a client sends is read in whatever pieces it comes *)
(* in, kept till a line of it is there, and answered line by line.  What   *)
(* is kept is found by the address of the socket, which the next socket    *)
(* may get when this one has been deleted.                                 *)
(*                                                                         *)
(* Service.tla has the same exchange in one step for the request and one   *)
(* for the answer.                                                         *)
(***************************************************************************)
EXTENDS Naturals, Sequences

CONSTANTS
  Clients,    \* those who connect, each once
  Addresses,  \* where a QTcpSocket may be allocated
  Streams,    \* what a client may send
  Flags       \* m_serviceFlags: a subset of {"CannotBeStopped", "CanBeSuspended"}

(* Commands are made of pieces of text, within which they are not cut. *)
Stop == <<"st", "op">>
Pause == <<"pause">>
Resume == <<"resume">>
Status == <<"sta", "tus">>
Pieces == {"st", "op", "pause", "resume", "sta", "tus", "num:", "1", "terminate"}
Bytes == Pieces \cup {"CR", "LF"}

ASSUME StreamsAssumption == Streams \subseteq Seq(Bytes)
ASSUME FlagsAssumption == Flags \subseteq {"CannotBeStopped", "CanBeSuspended"}
ASSUME AddressesAssumption == "none" \notin Addresses /\ "nobody" \notin Clients

VARIABLES
  client,   \* "new", "open", "hungup", "gone" or "deleted"
  stream,   \* what each client is yet to send
  wire,     \* what is sent, and not yet read
  address,  \* of the socket of each client
  cache,    \* the text that is kept for each address
  busy,     \* the client whose slotReady() runs, or "nobody"
  answers,  \* what was written to each client
  loop,     \* "runs", "quitting" or "ended"
  rest,     \* what was in the cache for the address as the client connected
  got,      \* all that has been read from each client
  taken     \* all that was taken from the cache while it was connected

history == <<rest, got, taken>>
vars == <<client, stream, wire, address, cache, busy, answers, loop, rest, got, taken>>

Connected(c) == client[c] \in {"open", "hungup", "gone"}
Idle == busy = "nobody" /\ loop # "ended"

-----------------------------------------------------------------------------
(* The clients *)

(* Variant: the address of a socket is free when its client is gone. *)
connectEarly(c) ==
  /\ client[c] = "new" /\ Idle
  /\ \E a \in Addresses :
       /\ \A d \in Clients : client[d] \in {"open", "hungup"} => address[d] # a
       /\ address' = [address EXCEPT ![c] = a]
       /\ rest' = [rest EXCEPT ![c] = cache[a]]
  /\ client' = [client EXCEPT ![c] = "open"]
  /\ UNCHANGED <<stream, wire, cache, busy, answers, loop, got, taken>>

(* incomingConnection() *)
connect(c) ==
  /\ client[c] = "new" /\ Idle
  /\ \E a \in Addresses :
       /\ \A d \in Clients : Connected(d) => address[d] # a
       /\ address' = [address EXCEPT ![c] = a]
       /\ rest' = [rest EXCEPT ![c] = cache[a]]
  /\ client' = [client EXCEPT ![c] = "open"]
  /\ UNCHANGED <<stream, wire, cache, busy, answers, loop, got, taken>>

(* What is sent arrives in pieces of any length. *)
send(c) ==
  /\ client[c] = "open" /\ busy = "nobody"
  /\ \E n \in 1..Len(stream[c]) :
       /\ wire' = [wire EXCEPT ![c] = @ \o SubSeq(stream[c], 1, n)]
       /\ stream' = [stream EXCEPT ![c] = SubSeq(@, n + 1, Len(@))]
  /\ UNCHANGED <<client, address, cache, busy, answers, loop, history>>

hangUp(c) ==
  /\ client[c] = "open" /\ busy = "nobody"
  /\ client' = [client EXCEPT ![c] = "hungup"]
  /\ UNCHANGED <<stream, wire, address, cache, busy, answers, loop, history>>

-----------------------------------------------------------------------------
(* The service *)

(* slotReady() begins: all there is to read goes to the cache.  Variant: it takes the place of *)
(* what is there.                                                                               *)
slotReadyOver(c) ==
  /\ client[c] \in {"open", "hungup"} /\ Idle /\ wire[c] # <<>>
  /\ cache' = [cache EXCEPT ![address[c]] = wire[c]]
  /\ got' = [got EXCEPT ![c] = @ \o wire[c]]
  /\ wire' = [wire EXCEPT ![c] = <<>>]
  /\ busy' = c
  /\ UNCHANGED <<client, stream, address, answers, loop, rest, taken>>

slotReady(c) ==
  /\ client[c] \in {"open", "hungup"} /\ Idle /\ wire[c] # <<>>
  /\ cache' = [cache EXCEPT ![address[c]] = @ \o wire[c]]
  /\ got' = [got EXCEPT ![c] = @ \o wire[c]]
  /\ wire' = [wire EXCEPT ![c] = <<>>]
  /\ busy' = c
  /\ UNCHANGED <<client, stream, address, answers, loop, rest, taken>>

(* getCommand(): the first line of the cache, without its end. *)
Ends(text) == {i \in 1..Len(text) : i < Len(text) /\ text[i] = "CR" /\ text[i + 1] = "LF"}
FirstEnd(text) == CHOOSE i \in Ends(text) : \A j \in Ends(text) : i <= j
Kept == cache[address[busy]]
Line == SubSeq(Kept, 1, FirstEnd(Kept) - 1)

(* Variant: one byte is left of the end of the line. *)
TakeLineShort ==
  /\ cache' = [cache EXCEPT ![address[busy]] = SubSeq(Kept, FirstEnd(Kept) + 1, Len(Kept))]
  /\ taken' = [taken EXCEPT ![busy] = @ \o SubSeq(Kept, 1, FirstEnd(Kept) + 1)]
TakeLine ==
  /\ cache' = [cache EXCEPT ![address[busy]] = SubSeq(Kept, FirstEnd(Kept) + 2, Len(Kept))]
  /\ taken' = [taken EXCEPT ![busy] = @ \o SubSeq(Kept, 1, FirstEnd(Kept) + 1)]

(* What a command is answered: "terminate", which QtServiceController::stop() sends, is none  *)
(* that is known.                                                                             *)
Accepted(line) ==
  \/ line = Stop /\ "CannotBeStopped" \notin Flags
  \/ line \in {Pause, Resume} /\ "CanBeSuspended" \in Flags
  \/ line = Status
  \/ Len(line) > 1 /\ line[1] = "num:"

command ==
  /\ busy # "nobody" /\ Ends(Kept) # {} /\ Line # <<>>
  /\ TakeLine
  /\ answers' = [answers EXCEPT ![busy] = Append(@, Accepted(Line))]
  /\ loop' = IF Line = Stop /\ Accepted(Line) THEN "quitting" ELSE loop
  /\ UNCHANGED <<client, stream, wire, address, busy, rest, got>>

(* Variant: slotReady() ends after any of the lines. *)
slotReturnsEarly ==
  /\ busy # "nobody"
  /\ busy' = "nobody"
  /\ UNCHANGED <<client, stream, wire, address, cache, answers, loop, history>>

(* slotReady() ends with the first line that is not complete, or empty. *)
slotReturns ==
  /\ busy # "nobody"
  /\ \/ Ends(Kept) = {} /\ UNCHANGED <<cache, taken>>
     \/ Ends(Kept) # {} /\ Line = <<>> /\ TakeLine
  /\ busy' = "nobody"
  /\ UNCHANGED <<client, stream, wire, address, answers, loop, rest, got>>

(* slotClosed(), when all that was sent has been read; and the deferred delete. *)
slotClosed(c) ==
  /\ client[c] = "hungup" /\ Idle /\ wire[c] = <<>>
  /\ client' = [client EXCEPT ![c] = "gone"]
  /\ UNCHANGED <<stream, wire, address, cache, busy, answers, loop, history>>

deleted(c) ==
  /\ client[c] = "gone" /\ Idle
  /\ client' = [client EXCEPT ![c] = "deleted"]
  /\ UNCHANGED <<stream, wire, address, cache, busy, answers, loop, history>>

(* exec() returns after quit(), and closes all sockets. *)
loopEnds ==
  /\ loop = "quitting" /\ busy = "nobody"
  /\ loop' = "ended"
  /\ UNCHANGED <<client, stream, wire, address, cache, busy, answers, history>>

-----------------------------------------------------------------------------
Init ==
  /\ client = [c \in Clients |-> "new"]
  /\ stream \in [Clients -> Streams]
  /\ wire = [c \in Clients |-> <<>>]
  /\ address = [c \in Clients |-> "none"]
  /\ cache = [a \in Addresses |-> <<>>]
  /\ busy = "nobody" /\ loop = "runs"
  /\ answers = [c \in Clients |-> <<>>]
  /\ rest = [c \in Clients |-> <<>>]
  /\ got = [c \in Clients |-> <<>>]
  /\ taken = [c \in Clients |-> <<>>]

Next ==
  \/ \E c \in Clients : connect(c) \/ send(c) \/ hangUp(c)
                        \/ slotReady(c) \/ slotClosed(c) \/ deleted(c)
  \/ command \/ slotReturns \/ loopEnds

Spec == Init /\ [][Next]_vars

(* The event loop gets to every socket, and who is to send something does. *)
FairSpec ==
  /\ Spec
  /\ \A c \in Clients : WF_vars(slotReady(c)) /\ WF_vars(send(c))
  /\ WF_vars(command) /\ WF_vars(slotReturns)

-----------------------------------------------------------------------------
(* Properties *)

(* The variables stay in their ranges; who is served has a socket, and no two have the same. *)
TypeOK ==
  /\ client \in [Clients -> {"new", "open", "hungup", "gone", "deleted"}]
  /\ stream \in [Clients -> Seq(Bytes)]
  /\ wire \in [Clients -> Seq(Bytes)]
  /\ address \in [Clients -> Addresses \cup {"none"}]
  /\ cache \in [Addresses -> Seq(Bytes)]
  /\ busy \in Clients \cup {"nobody"}
  /\ answers \in [Clients -> Seq(BOOLEAN)]
  /\ loop \in {"runs", "quitting", "ended"}
  /\ rest \in [Clients -> Seq(Bytes)]
  /\ got \in [Clients -> Seq(Bytes)]
  /\ taken \in [Clients -> Seq(Bytes)]
  /\ busy # "nobody" => Connected(busy)
  /\ \A c \in Clients : Connected(c) => address[c] \in Addresses
  /\ \A c, d \in Clients : Connected(c) /\ Connected(d) /\ address[c] = address[d] => c = d

(* Nothing of what is read is lost, doubled or put in another order: what was taken, and what  *)
(* is kept, are what the address had when the client connected, and what has been read since.  *)
NothingIsLost ==
  \A c \in Clients : Connected(c) => taken[c] \o cache[address[c]] = rest[c] \o got[c]

(* A line of a text by the place of its end, and what the lines of a text are answered. *)
LineStart(text, n) ==
  LET starts == {0} \cup {i + 1 : i \in {e \in Ends(text) : e < n}}
  IN CHOOSE start \in starts : \A i \in starts : i <= start
LineAt(text, n) == SubSeq(text, LineStart(text, n) + 1, n - 1)
RepliesUpTo(text) ==
  LET replies[n \in 0..Len(text)] ==
        IF n = 0 THEN <<>>
        ELSE IF n \in Ends(text) /\ LineAt(text, n) # <<>>
        THEN Append(replies[n - 1], Accepted(LineAt(text, n)))
        ELSE replies[n - 1]
  IN replies
Replies(text) == RepliesUpTo(text)[Len(text)]
Empty(text) == \E n \in Ends(text) : LineAt(text, n) = <<>>

(* A client of a fresh address is answered for the lines that it has sent, one by one, however *)
(* they were cut into pieces; all of them, when there is nothing to do, if none was empty.      *)
AnsweredByLine ==
  \A c \in Clients : rest[c] = <<>> =>
    LET replies == Replies(got[c]) IN
    /\ Len(answers[c]) <= Len(replies)
    /\ answers[c] = SubSeq(replies, 1, Len(answers[c]))
    /\ busy # c /\ ~Empty(got[c]) => answers[c] = replies

(* Who stays connected is answered for every line that it sends, till the service ends, which  *)
(* is why the controller may wait without a timeout.                                            *)
All(c) == got[c] \o wire[c] \o stream[c]
EveryLineAnswered ==
  \A c \in Clients :
    (client[c] = "open" /\ rest[c] = <<>> /\ ~Empty(All(c)))
      ~> \/ stream[c] = <<>> /\ Len(answers[c]) = Len(Replies(All(c)))
         \/ client[c] # "open" \/ loop = "ended"
=============================================================================
