------------------------- MODULE ConnectionContract -------------------------
(***************************************************************************)
(* What CHttpServer (src/src/httpio/http_server.cpp) promises for each     *)
(* connection, without the handlers, their nesting and the event queue:    *)
(* HttpServer implements this specification.                               *)
(***************************************************************************)
EXTENDS Naturals

CONSTANT Clients

VARIABLES
  phase,     \* where each connection is in its life
  answered   \* how many answers have been written to it

contractVars == <<phase, answered>>

Phases == {"none", "waiting", "refused", "open", "shut", "freed"}

ContractTypeOK ==
  /\ phase \in [Clients -> Phases]
  /\ answered \in [Clients -> 0 .. 1]

Become(c, p) == phase' = [phase EXCEPT ![c] = p]
Count(c) == answered[c] = 0 /\ answered' = [answered EXCEPT ![c] = 1]

Arrive(c) == phase[c] = "none" /\ Become(c, "waiting") /\ UNCHANGED answered

Accept(c) == phase[c] = "waiting" /\ Become(c, "open") /\ UNCHANGED answered

Refuse(c) == phase[c] = "waiting" /\ Become(c, "refused") /\ UNCHANGED answered

Answer(c) == phase[c] = "open" /\ Count(c) /\ UNCHANGED phase

(* An answer and the end of the connection in one step: readClient() by itself. *)
AnswerAndShut(c) == phase[c] = "open" /\ Count(c) /\ Become(c, "shut")

Shut(c) == phase[c] = "open" /\ Become(c, "shut") /\ UNCHANGED answered

(* The socket is deleted, at once when there is nothing left to send. *)
Free(c) == phase[c] \in {"open", "shut"} /\ Become(c, "freed") /\ UNCHANGED answered

Init ==
  /\ phase = [c \in Clients |-> "none"]
  /\ answered = [c \in Clients |-> 0]

Next == \E c \in Clients :
  Arrive(c) \/ Accept(c) \/ Refuse(c) \/ Answer(c) \/ AnswerAndShut(c) \/ Shut(c) \/ Free(c)

Spec == Init /\ [][Next]_contractVars
=============================================================================
