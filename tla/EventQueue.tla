----------------------------- MODULE EventQueue -----------------------------
(***************************************************************************)
(* The list of posted events of Qt's main thread, as the code under        *)
(* src/httpio and src/netresponse uses it: every request is a QEvent posted *)
(* to the application object with the highest priority there is, every     *)
(* deleteLater() is an event of normal priority that remembers how deeply   *)
(* nested the handler that posted it was.                                  *)
(*                                                                         *)
(* A queue is a sequence of events and the number of them, from the head,  *)
(* that the running pass of sendPostedEvents may still send.  What is      *)
(* posted during a pass lies beyond that mark, and is left to the next     *)
(* pass (a nested one, or the one of the next turn of the loop).           *)
(***************************************************************************)
EXTENDS Naturals, Sequences, FiniteSets

RequestTypes == {"TCPRequest", "WikiArticle", "WikiFile", "WikiDownload"}

IsDelete(e) == e.type = "DeferredDelete"

(***************************************************************************)
(* postEvent: the event goes behind every event of the same priority, but  *)
(* never in front of the mark.  Behind the mark requests precede deletes,  *)
(* so that a request goes behind as many events as there are requests.     *)
(***************************************************************************)
RequestsBehind(list, mark) == {i \in mark + 1 .. Len(list) : ~IsDelete(list[i])}

InsertionPoint(list, mark, e) ==
  IF IsDelete(e) THEN Len(list) ELSE mark + Cardinality(RequestsBehind(list, mark))

Post(list, mark, e) ==
  LET n == InsertionPoint(list, mark, e)
  IN  SubSeq(list, 1, n) \o <<e>> \o SubSeq(list, n + 1, Len(list))

(***************************************************************************)
(* A deferred delete is carried out only by a pass that is less deeply     *)
(* nested than the handler that asked for it.                              *)
(***************************************************************************)
MayDelete(e, level) == e.level > level

(***************************************************************************)
(* Destroying an object removes the events whose receiver it is: for a     *)
(* socket its deferred delete, of which there is one at most.  Requests    *)
(* are posted to the application and stay, whatever becomes of the socket  *)
(* they name.                                                              *)
(***************************************************************************)
DeletesOf(list, s) == {i \in DOMAIN list : IsDelete(list[i]) /\ list[i].sock = s}

Without(list, i) == SubSeq(list, 1, i - 1) \o SubSeq(list, i + 1, Len(list))

Withdraw(list, s) ==
  IF DeletesOf(list, s) = {}
    THEN list
    ELSE Without(list, CHOOSE i \in DeletesOf(list, s) : TRUE)

-----------------------------------------------------------------------------
IsRequest(e) == ~IsDelete(e)

Events(list) == {list[i] : i \in DOMAIN list}

(* One request at most is waiting, and the running pass is to send it. *)
SoleRequest(list, mark) ==
  \A i \in DOMAIN list : IsRequest(list[i]) =>
    i <= mark /\ \A j \in DOMAIN list : IsRequest(list[j]) => i = j

OneDeleteEach(list) ==
  \A i, j \in DOMAIN list :
    IsDelete(list[i]) /\ IsDelete(list[j]) /\ list[i].sock = list[j].sock => i = j
=============================================================================
