-------------------------- MODULE HttpServer_proofs --------------------------
(***************************************************************************)
(* Proofs about HttpServer: its inductive invariant, for any number of     *)
(* clients, requests and nested handlers.                                  *)
(***************************************************************************)
EXTENDS HttpServer, SequenceTheorems, FiniteSetTheorems, TLAPS

-----------------------------------------------------------------------------
(* The event queue *)

(* Posting puts the event at one place behind the mark, and keeps the order of the rest. *)
LEMMA PostProperties ==
  ASSUME NEW list \in Seq(Event), NEW m \in 0 .. Len(list), NEW e \in Event
  PROVE  \E n \in m .. Len(list) :
           /\ Post(list, m, e) \in Seq(Event)
           /\ Len(Post(list, m, e)) = Len(list) + 1
           /\ \A i \in 1 .. n : Post(list, m, e)[i] = list[i]
           /\ Post(list, m, e)[n + 1] = e
           /\ \A i \in n + 2 .. Len(list) + 1 : Post(list, m, e)[i] = list[i - 1]
<1> DEFINE n == InsertionPoint(list, m, e)
<1>1. n \in m .. Len(list)
  <2>1. CASE IsDelete(e)
    BY <2>1 DEF InsertionPoint
  <2>2. CASE ~IsDelete(e)
    <3> DEFINE T == m + 1 .. Len(list)
    <3>0. m + 1 \in Int /\ Len(list) \in Int /\ m <= Len(list)
      OBVIOUS
    <3>1. IsFiniteSet(T) /\ Cardinality(T) = Len(list) - m
      <4>1. IsFiniteSet(T) /\ Cardinality(T) = IF m + 1 > Len(list) THEN 0
                                                                  ELSE Len(list) - (m + 1) + 1
        BY <3>0, FS_Interval
      <4> HIDE DEF T
      <4>2. QED
        BY <3>0, <4>1
    <3>2. RequestsBehind(list, m) \subseteq T
      BY DEF RequestsBehind
    <3> HIDE DEF T
    <3>3. Cardinality(RequestsBehind(list, m)) \in 0 .. Len(list) - m
      BY <3>1, <3>2, FS_Subset, FS_CardinalityType
    <3>4. QED
      BY <2>2, <3>3 DEF InsertionPoint
  <2>3. QED
    BY <2>1, <2>2
<1> HIDE DEF n
<1> DEFINE a == SubSeq(list, 1, n)
           b == SubSeq(list, n + 1, Len(list))
<1>2. /\ a \in Seq(Event) /\ Len(a) = n
      /\ \A i \in 1 .. n : a[i] = list[i]
  BY <1>1, SubSeqProperties
<1>3. /\ b \in Seq(Event) /\ Len(b) = Len(list) - n
      /\ \A i \in 1 .. Len(list) - n : b[i] = list[n + i]
  BY <1>1, SubSeqProperties
<1> DEFINE c == a \o <<e>>
<1>4. /\ c \in Seq(Event) /\ Len(c) = n + 1 /\ c[n + 1] = e
      /\ \A i \in 1 .. n : c[i] = list[i]
  BY <1>1, <1>2, ConcatProperties
<1>5. Post(list, m, e) = c \o b
  BY DEF Post, n
<1> HIDE DEF a, b, c
<1>6. /\ c \o b \in Seq(Event) /\ Len(c \o b) = Len(list) + 1
      /\ \A i \in 1 .. n + 1 : (c \o b)[i] = c[i]
      /\ \A i \in n + 2 .. Len(list) + 1 : (c \o b)[i] = b[i - (n + 1)]
  BY <1>1, <1>3, <1>4
<1>7. \A i \in n + 2 .. Len(list) + 1 : (c \o b)[i] = list[i - 1]
  BY <1>1, <1>3, <1>6
<1>8. /\ Post(list, m, e) \in Seq(Event) /\ Len(Post(list, m, e)) = Len(list) + 1
      /\ \A i \in 1 .. n : Post(list, m, e)[i] = list[i]
      /\ Post(list, m, e)[n + 1] = e
      /\ \A i \in n + 2 .. Len(list) + 1 : Post(list, m, e)[i] = list[i - 1]
  BY <1>1, <1>4, <1>5, <1>6, <1>7
<1>9. QED
  BY <1>1, <1>8

(* Destroying a socket takes its deferred delete out, and keeps the order of the rest. *)
LEMMA WithdrawProperties ==
  ASSUME NEW list \in Seq(Event), NEW s \in Clients
  PROVE  \/ /\ Withdraw(list, s) = list
            /\ \A i \in DOMAIN list : ~(IsDelete(list[i]) /\ list[i].sock = s)
         \/ \E n \in DOMAIN list :
              /\ IsDelete(list[n]) /\ list[n].sock = s
              /\ Withdraw(list, s) \in Seq(Event)
              /\ Len(Withdraw(list, s)) = Len(list) - 1
              /\ \A i \in 1 .. n - 1 : Withdraw(list, s)[i] = list[i]
              /\ \A i \in n .. Len(list) - 1 : Withdraw(list, s)[i] = list[i + 1]
<1>1. CASE DeletesOf(list, s) = {}
  BY <1>1 DEF Withdraw, DeletesOf
<1>2. CASE DeletesOf(list, s) # {}
  <2> DEFINE n == CHOOSE i \in DeletesOf(list, s) : TRUE
  <2>1. n \in 1 .. Len(list) /\ IsDelete(list[n]) /\ list[n].sock = s
    <3>1. n \in DeletesOf(list, s)
      BY <1>2
    <3>2. QED
      BY <3>1 DEF DeletesOf
  <2>2. Withdraw(list, s) = Without(list, n)
    BY <1>2 DEF Withdraw
  <2> HIDE DEF n
  <2> DEFINE a == SubSeq(list, 1, n - 1)
             b == SubSeq(list, n + 1, Len(list))
  <2>3. /\ a \in Seq(Event) /\ Len(a) = n - 1
        /\ \A i \in 1 .. n - 1 : a[i] = list[i]
    BY <2>1, SubSeqProperties
  <2>4. /\ b \in Seq(Event) /\ Len(b) = Len(list) - n
        /\ \A i \in 1 .. Len(list) - n : b[i] = list[n + i]
    BY <2>1, SubSeqProperties
  <2>5. Withdraw(list, s) = a \o b
    BY <2>2 DEF Without
  <2> HIDE DEF a, b
  <2>6. /\ a \o b \in Seq(Event) /\ Len(a \o b) = Len(list) - 1
        /\ \A i \in 1 .. n - 1 : (a \o b)[i] = a[i]
        /\ \A i \in n .. Len(list) - 1 : (a \o b)[i] = b[i - (n - 1)]
    <3>1. /\ a \o b \in Seq(Event) /\ Len(a \o b) = Len(a) + Len(b)
          /\ \A i \in 1 .. Len(a) + Len(b) :
               (a \o b)[i] = IF i <= Len(a) THEN a[i] ELSE b[i - Len(a)]
      BY <2>3, <2>4, ConcatProperties
    <3>2. Len(a) = n - 1 /\ Len(a) + Len(b) = Len(list) - 1 /\ n - 1 \in 0 .. Len(list) - 1
      BY <2>1, <2>3, <2>4
    <3>3. \A i \in 1 .. n - 1 : i \in 1 .. Len(a) + Len(b) /\ i <= Len(a)
      BY <3>2
    <3>4. \A i \in n .. Len(list) - 1 :
            i \in 1 .. Len(a) + Len(b) /\ ~(i <= Len(a)) /\ i - Len(a) = i - (n - 1)
      BY <3>2, <2>1
    <3>5. \A i \in 1 .. n - 1 : (a \o b)[i] = a[i]
      BY <3>1, <3>3
    <3>6. \A i \in n .. Len(list) - 1 : (a \o b)[i] = b[i - (n - 1)]
      BY <3>1, <3>4, <3>2
    <3>7. QED
      BY <3>1, <3>2, <3>5, <3>6
  <2>7. \A i \in n .. Len(list) - 1 : (a \o b)[i] = list[i + 1]
    BY <2>1, <2>4, <2>6
  <2>8. /\ Withdraw(list, s) \in Seq(Event) /\ Len(Withdraw(list, s)) = Len(list) - 1
        /\ \A i \in 1 .. n - 1 : Withdraw(list, s)[i] = list[i]
        /\ \A i \in n .. Len(list) - 1 : Withdraw(list, s)[i] = list[i + 1]
    BY <2>1, <2>3, <2>5, <2>6, <2>7
  <2>9. QED
    BY <2>1, <2>8
<1>3. QED
  BY <1>1, <1>2

(* A deferred delete that is posted goes last, and changes nothing for the requests. *)
LEMMA PostDelete ==
  ASSUME NEW list \in Seq(Event), NEW m \in 0 .. Len(list), NEW e \in Event, IsDelete(e),
         SoleRequest(list, m), OneDeleteEach(list),
         \A x \in Events(list) : IsDelete(x) => x.sock # e.sock
  PROVE  /\ Post(list, m, e) \in Seq(Event)
         /\ Len(Post(list, m, e)) = Len(list) + 1
         /\ SoleRequest(Post(list, m, e), m)
         /\ OneDeleteEach(Post(list, m, e))
         /\ Events(Post(list, m, e)) = Events(list) \cup {e}
<1> DEFINE L == Post(list, m, e)
<1>1. /\ L \in Seq(Event) /\ Len(L) = Len(list) + 1
      /\ \A i \in 1 .. Len(list) : L[i] = list[i]
      /\ L[Len(list) + 1] = e
  <2>1. PICK n \in m .. Len(list) :
           /\ L \in Seq(Event) /\ Len(L) = Len(list) + 1
           /\ \A i \in 1 .. n : L[i] = list[i]
           /\ L[n + 1] = e
           /\ \A i \in n + 2 .. Len(list) + 1 : L[i] = list[i - 1]
    BY PostProperties
  <2> DEFINE a == SubSeq(list, 1, Len(list))
             b == SubSeq(list, Len(list) + 1, Len(list))
  <2>2. a = list /\ b = <<>>
    BY SubSeqFull, SubSeqEmpty
  <2>3. L = (list \o <<e>>) \o <<>>
    BY <2>2 DEF Post, InsertionPoint
  <2> HIDE DEF L
  <2>4. QED
    BY <2>1, <2>3
<1> HIDE DEF L
<1>2. DOMAIN L = 1 .. Len(list) + 1 /\ DOMAIN list = 1 .. Len(list)
  BY <1>1
<1>3. SoleRequest(L, m)
  BY <1>1, <1>2 DEF SoleRequest, IsRequest
<1>4. OneDeleteEach(L)
  BY <1>1, <1>2 DEF OneDeleteEach, Events
<1>5. Events(L) = Events(list) \cup {e}
  BY <1>1, <1>2 DEF Events
<1>6. QED
  BY <1>1, <1>3, <1>4, <1>5 DEF L

(* A request that is posted while no other waits is the only one, and the next pass sends it. *)
LEMMA PostRequest ==
  ASSUME NEW list \in Seq(Event), NEW m \in 0 .. Len(list), NEW e \in Event, IsRequest(e),
         OneDeleteEach(list), \A x \in Events(list) : IsDelete(x)
  PROVE  /\ Post(list, m, e) \in Seq(Event)
         /\ SoleRequest(Post(list, m, e), Len(Post(list, m, e)))
         /\ OneDeleteEach(Post(list, m, e))
         /\ Events(Post(list, m, e)) = Events(list) \cup {e}
<1> DEFINE L == Post(list, m, e)
<1>1. PICK n \in m .. Len(list) :
         /\ L \in Seq(Event) /\ Len(L) = Len(list) + 1
         /\ \A i \in 1 .. n : L[i] = list[i]
         /\ L[n + 1] = e
         /\ \A i \in n + 2 .. Len(list) + 1 : L[i] = list[i - 1]
  BY PostProperties
<1> HIDE DEF L
<1>2. /\ DOMAIN L = 1 .. Len(list) + 1 /\ DOMAIN list = 1 .. Len(list)
      /\ n \in 0 .. Len(list) /\ Len(list) \in Nat
  BY <1>1
<1>3. \A i \in DOMAIN L : i # n + 1 =>
        \/ i \in DOMAIN list /\ i <= n /\ L[i] = list[i]
        \/ i - 1 \in DOMAIN list /\ i - 1 > n /\ L[i] = list[i - 1]
        \/ i - 1 \in DOMAIN list /\ i - 1 = n + 1 /\ L[i] = list[i - 1]
  BY <1>1, <1>2
<1>4. \A i \in DOMAIN L : i # n + 1 => L[i] \in Events(list)
  BY <1>3 DEF Events
<1>5. SoleRequest(L, Len(L))
  BY <1>1, <1>2, <1>4 DEF SoleRequest, IsRequest
<1>6. OneDeleteEach(L)
  <2> SUFFICES ASSUME NEW i \in DOMAIN L, NEW j \in DOMAIN L,
                      IsDelete(L[i]), IsDelete(L[j]), L[i].sock = L[j].sock
               PROVE  i = j
    BY DEF OneDeleteEach
  <2>1. i # n + 1 /\ j # n + 1
    BY <1>1 DEF IsRequest
  <2> DEFINE k(x) == IF x <= n THEN x ELSE x - 1
  <2>2. k(i) \in DOMAIN list /\ L[i] = list[k(i)] /\ k(j) \in DOMAIN list /\ L[j] = list[k(j)]
    BY <1>2, <1>3, <2>1
  <2>3. k(i) = k(j)
    BY <2>2 DEF OneDeleteEach
  <2>4. QED
    BY <2>1, <2>3, <1>2
<1>7. Events(L) = Events(list) \cup {e}
  <2>1. \A i \in DOMAIN list : list[i] \in Events(L)
    <3> SUFFICES ASSUME NEW i \in DOMAIN list PROVE list[i] \in Events(L)
      OBVIOUS
    <3>1. CASE i <= n
      BY <1>1, <1>2, <3>1 DEF Events
    <3>2. CASE i > n
      <4>1. i + 1 \in n + 2 .. Len(list) + 1 /\ (i + 1) - 1 = i /\ i + 1 \in DOMAIN L
        BY <1>2, <3>2
      <4>2. L[i + 1] = list[i]
        BY <1>1, <4>1
      <4>3. QED
        BY <4>1, <4>2 DEF Events
    <3>3. QED
      BY <1>2, <3>1, <3>2
  <2>2. e \in Events(L)
    BY <1>1, <1>2 DEF Events
  <2>3. Events(L) \subseteq Events(list) \cup {e}
    BY <1>1, <1>4 DEF Events
  <2>4. QED
    BY <2>1, <2>2, <2>3 DEF Events
<1>8. QED
  BY <1>1, <1>5, <1>6, <1>7 DEF L

(* Sending the first event leaves the rest as it was. *)
LEMMA SendFirst ==
  ASSUME NEW list \in Seq(Event), NEW m \in 1 .. Len(list),
         SoleRequest(list, m), OneDeleteEach(list)
  PROVE  /\ Head(list) \in Event /\ Head(list) \in Events(list)
         /\ Tail(list) \in Seq(Event) /\ Len(Tail(list)) = Len(list) - 1
         /\ m - 1 \in 0 .. Len(Tail(list))
         /\ SoleRequest(Tail(list), m - 1) /\ OneDeleteEach(Tail(list))
         /\ Events(Tail(list)) \subseteq Events(list)
         /\ IsRequest(Head(list)) => \A x \in Events(Tail(list)) : IsDelete(x)
         /\ IsDelete(Head(list)) =>
              \A x \in Events(Tail(list)) : IsDelete(x) => x.sock # Head(list).sock
<1> DEFINE T == Tail(list)
<1>1. /\ T \in Seq(Event) /\ Len(T) = Len(list) - 1 /\ Len(list) \in Nat \ {0}
      /\ \A i \in 1 .. Len(list) - 1 : T[i] = list[i + 1]
      /\ Head(list) = list[1] /\ list[1] \in Event
  OBVIOUS
<1> HIDE DEF T
<1>2. /\ DOMAIN T = 1 .. Len(list) - 1 /\ DOMAIN list = 1 .. Len(list)
      /\ \A i \in DOMAIN T : i + 1 \in DOMAIN list /\ i \in Nat /\ T[i] = list[i + 1]
  BY <1>1
<1>3. SoleRequest(T, m - 1)
  BY <1>1, <1>2 DEF SoleRequest
<1>4. OneDeleteEach(T)
  <2> SUFFICES ASSUME NEW i \in DOMAIN T, NEW j \in DOMAIN T,
                      IsDelete(T[i]), IsDelete(T[j]), T[i].sock = T[j].sock
               PROVE  i = j
    BY DEF OneDeleteEach
  <2>1. i + 1 = j + 1
    BY <1>2 DEF OneDeleteEach
  <2>2. QED
    BY <1>2, <2>1
<1>5. Events(T) \subseteq Events(list) /\ list[1] \in Events(list)
  BY <1>1, <1>2 DEF Events
<1>6. ASSUME IsRequest(list[1]), NEW x \in Events(T) PROVE IsDelete(x)
  BY <1>1, <1>2, <1>6 DEF Events, SoleRequest, IsRequest
<1>7. ASSUME IsDelete(list[1]), NEW x \in Events(T), IsDelete(x) PROVE x.sock # list[1].sock
  BY <1>1, <1>2, <1>7 DEF Events, OneDeleteEach
<1>8. QED
  BY <1>1, <1>3, <1>4, <1>5, <1>6, <1>7 DEF T

(* Destroying a socket leaves no deferred delete of it, and nothing new. *)
LEMMA WithdrawDelete ==
  ASSUME NEW list \in Seq(Event), NEW s \in Clients,
         \A x \in Events(list) : IsDelete(x), OneDeleteEach(list)
  PROVE  /\ Withdraw(list, s) \in Seq(Event)
         /\ OneDeleteEach(Withdraw(list, s))
         /\ Events(Withdraw(list, s)) \subseteq Events(list)
         /\ \A x \in Events(Withdraw(list, s)) : x.sock # s
<1> DEFINE W == Withdraw(list, s)
<1>1. CASE W = list /\ \A i \in DOMAIN list : ~(IsDelete(list[i]) /\ list[i].sock = s)
  BY <1>1 DEF Events
<1>2. ASSUME NEW n \in DOMAIN list, IsDelete(list[n]), list[n].sock = s,
             W \in Seq(Event), Len(W) = Len(list) - 1,
             \A i \in 1 .. n - 1 : W[i] = list[i],
             \A i \in n .. Len(list) - 1 : W[i] = list[i + 1]
      PROVE  /\ W \in Seq(Event) /\ OneDeleteEach(W) /\ Events(W) \subseteq Events(list)
             /\ \A x \in Events(W) : x.sock # s
  <2> HIDE DEF W
  <2> DEFINE k(x) == IF x < n THEN x ELSE x + 1
  <2>1. /\ Len(list) \in Nat /\ DOMAIN list = 1 .. Len(list) /\ DOMAIN W = 1 .. Len(list) - 1
        /\ n \in 1 .. Len(list)
    BY <1>2
  <2>2. \A i \in DOMAIN W : k(i) \in DOMAIN list /\ k(i) # n /\ W[i] = list[k(i)]
    BY <1>2, <2>1
  <2>3. \A i, j \in DOMAIN W : k(i) = k(j) => i = j
    BY <2>1
  <2> HIDE DEF k
  <2>4. OneDeleteEach(W)
    BY <2>2, <2>3 DEF OneDeleteEach
  <2>5. Events(W) \subseteq Events(list)
    BY <2>2 DEF Events
  <2>6. \A x \in Events(W) : x.sock # s
    BY <1>2, <2>2 DEF Events, OneDeleteEach
  <2>7. QED
    BY <1>2, <2>4, <2>5, <2>6
<1>3. QED
  BY <1>1, <1>2, WithdrawProperties

-----------------------------------------------------------------------------
(* The stack of event loops *)

(* Moving a frame through its pass changes nothing for who is in readClient(). *)
LEMMA SameFrames ==
  ASSUME NEW old \in Seq(Frame), NEW new \in Seq(Frame), Len(new) = Len(old),
         \A i \in DOMAIN old : new[i].kind = old[i].kind /\ new[i].sock = old[i].sock
  PROVE  /\ Entered(new) = Entered(old)
         /\ EnteredOnce(old) => EnteredOnce(new)
<1>1. DOMAIN new = DOMAIN old
  OBVIOUS
<1>2. Entered(new) = Entered(old)
  BY <1>1 DEF Entered
<1>3. QED
  BY <1>1, <1>2 DEF EnteredOnce

LEMMA PushFrame ==
  ASSUME NEW old \in Seq(Frame), NEW f \in Frame, EnteredOnce(old),
         f.kind = "readClient" => f.sock \notin Entered(old)
  PROVE  /\ Append(old, f) \in Seq(Frame)
         /\ Len(Append(old, f)) = Len(old) + 1
         /\ Append(old, f)[Len(old) + 1] = f
         /\ \A i \in 1 .. Len(old) : Append(old, f)[i] = old[i]
         /\ EnteredOnce(Append(old, f))
         /\ Entered(Append(old, f)) =
              Entered(old) \cup (IF f.kind = "readClient" THEN {f.sock} ELSE {})
<1> DEFINE new == Append(old, f)
<1>1. /\ new \in Seq(Frame) /\ Len(new) = Len(old) + 1 /\ Len(old) \in Nat
      /\ new[Len(old) + 1] = f /\ \A i \in 1 .. Len(old) : new[i] = old[i]
      /\ DOMAIN new = 1 .. Len(old) + 1 /\ DOMAIN old = 1 .. Len(old)
  OBVIOUS
<1> HIDE DEF new
<1>2. EnteredOnce(new)
  BY <1>1 DEF EnteredOnce, Entered
<1>3. Entered(new) = Entered(old) \cup (IF f.kind = "readClient" THEN {f.sock} ELSE {})
  <2>1. Entered(new) \subseteq Entered(old) \cup (IF f.kind = "readClient" THEN {f.sock} ELSE {})
    BY <1>1 DEF Entered
  <2>2. Entered(old) \subseteq Entered(new)
    BY <1>1 DEF Entered
  <2>3. f.kind = "readClient" => f.sock \in Entered(new)
    BY <1>1 DEF Entered
  <2>4. QED
    BY <2>1, <2>2, <2>3
<1>4. QED
  BY <1>1, <1>2, <1>3 DEF new

LEMMA PopFrame ==
  ASSUME NEW old \in Seq(Frame), old # <<>>, EnteredOnce(old)
  PROVE  LET new == SubSeq(old, 1, Len(old) - 1)
             top == old[Len(old)]
         IN  /\ new \in Seq(Frame)
             /\ Len(new) = Len(old) - 1
             /\ \A i \in 1 .. Len(old) - 1 : new[i] = old[i]
             /\ EnteredOnce(new)
             /\ Entered(new) =
                  Entered(old) \ (IF top.kind = "readClient" THEN {top.sock} ELSE {})
<1> DEFINE new == SubSeq(old, 1, Len(old) - 1)
           top == old[Len(old)]
<1>1. /\ new \in Seq(Frame) /\ Len(new) = Len(old) - 1 /\ Len(old) \in Nat \ {0}
      /\ \A i \in 1 .. Len(old) - 1 : new[i] = old[i]
      /\ DOMAIN new = 1 .. Len(old) - 1 /\ DOMAIN old = 1 .. Len(old)
  BY SubSeqProperties
<1> HIDE DEF new
<1>2. EnteredOnce(new)
  BY <1>1 DEF EnteredOnce
<1>3. Entered(new) = Entered(old) \ (IF top.kind = "readClient" THEN {top.sock} ELSE {})
  <2>1. ASSUME NEW c \in Entered(new)
        PROVE  c \in Entered(old) /\ (top.kind = "readClient" => c # top.sock)
    <3>1. PICK i \in 1 .. Len(old) - 1 : old[i].kind = "readClient" /\ old[i].sock = c
      BY <1>1 DEF Entered
    <3>2. QED
      BY <1>1, <3>1 DEF Entered, EnteredOnce
  <2>2. ASSUME NEW c \in Entered(old), top.kind = "readClient" => c # top.sock
        PROVE  c \in Entered(new)
    <3>1. PICK i \in 1 .. Len(old) : old[i].kind = "readClient" /\ old[i].sock = c
      BY <1>1 DEF Entered
    <3>2. i # Len(old)
      BY <2>2, <3>1
    <3>3. i \in DOMAIN new /\ new[i] = old[i]
      BY <1>1, <3>1, <3>2
    <3>4. QED
      BY <3>1, <3>3 DEF Entered
  <2>3. QED
    BY <2>1, <2>2
<1>4. QED
  BY <1>1, <1>2, <1>3 DEF new

-----------------------------------------------------------------------------
(* The inductive invariant: the initial state, the clients, the pause switch *)

LEMMA InitIInv == Init => IInv
<1> SUFFICES ASSUME Init PROVE IInv
  OBVIOUS
<1> USE ClientsAssumption, AsksAssumption, BoundAssumption
<1>1. /\ stack \in Seq(Frame) /\ Len(stack) = 1 /\ DOMAIN stack = {1}
      /\ stack[1] = Pass("exec", Nothing)
  BY DEF Init, Frame, Pass
<1>2. TypeOK
  <2>1. posted \in Seq(Event) /\ Len(posted) = 0 /\ <<>> \in Seq(Answers)
    BY DEF Init
  <2>2. /\ conn \in [Clients -> ConnStates] /\ wire \in [Clients -> Asks \cup {Nothing}]
        /\ gone \in [Clients -> BOOLEAN] /\ sent \in [Clients -> 0 .. MaxRequests]
        /\ stalled \in [Clients -> BOOLEAN] /\ unsent \in [Clients -> BOOLEAN]
    BY DEF Init, ConnStates
  <2>3. answers \in [Clients -> Seq(Answers)]
    BY <2>1 DEF Init
  <2>4. mark \in 0 .. Len(posted)
    BY <2>1 DEF Init
  <2>5. paused \in BOOLEAN /\ quitting \in BOOLEAN
    BY DEF Init
  <2>6. QED
    BY <1>1, <2>1, <2>2, <2>3, <2>4, <2>5 DEF TypeOK
<1>3. Entered(stack) = {} /\ EnteredOnce(stack)
  BY <1>1 DEF Entered, EnteredOnce, Pass
<1>4. Events(posted) = {} /\ SoleRequest(posted, mark) /\ OneDeleteEach(posted)
  BY DEF Init, Events, SoleRequest, OneDeleteEach
<1>5. FramesOK
  BY <1>1 DEF Init, FramesOK, Pass, Top, Depth
<1>6. QED
  BY <1>2, <1>3, <1>4, <1>5 DEF Init, IInv, QueueOK, SocketsOK, InReadClient, AtMostOneAnswer,
     NotReentered, DeletedOnce

LEMMA EnvironmentIInv ==
  ASSUME IInv, Environment
  PROVE  IInv'
<1> USE BoundAssumption, AsksAssumption
<1> USE DEF IInv, TypeOK, FramesOK, QueueOK, SocketsOK, AtMostOneAnswer, NotReentered, DeletedOnce,
            InReadClient, Running, Top, Depth, serverVars, queueVars, clientVars
<1>1. ASSUME NEW c \in Clients, Connect(c) PROVE IInv'
  <2>1. \A e \in Events(posted) : e.sock # c
    BY <1>1 DEF Connect, IsRequest
  <2>2. conn[c] = "idle" /\ conn' = [conn EXCEPT ![c] = "backlog"]
        /\ conn' \in [Clients -> ConnStates]
    BY <1>1 DEF Connect, ConnStates
  <2>3. TypeOK' /\ FramesOK' /\ SocketsOK' /\ AtMostOneAnswer' /\ NotReentered'
    BY <1>1, <2>2 DEF Connect
  <2>4. Events(posted') = Events(posted) /\ \A e \in Events(posted) : conn'[e.sock] = conn[e.sock]
    BY <1>1, <2>1, <2>2 DEF Connect
  <2>5. QueueOK' /\ DeletedOnce'
    BY <1>1, <2>4 DEF Connect
  <2>6. QED
    BY <2>3, <2>5
<1>2. ASSUME NEW c \in Clients, HangUp(c) PROVE IInv'
  BY <1>2 DEF HangUp
<1>3. ASSUME NEW c \in Clients, NEW a \in Asks, Send(c, a) PROVE IInv'
  <2>1. sent' \in [Clients -> 0 .. MaxRequests]
    <3>1. CASE sent[c] < MaxRequests /\ sent' = [sent EXCEPT ![c] = @ + 1]
      <4>1. sent[c] + 1 \in 0 .. MaxRequests
        BY <3>1
      <4>2. QED
        BY <3>1, <4>1
    <3>2. CASE UNCHANGED sent
      BY <3>2
    <3>3. QED
      BY <1>3, <3>1, <3>2 DEF Send
  <2>2. wire' \in [Clients -> Asks \cup {Nothing}]
    BY <1>3 DEF Send
  <2>3. QED
    BY <1>3, <2>1, <2>2 DEF Send
<1>4. ASSUME NEW p \in BOOLEAN, SetPaused(p) PROVE IInv'
  BY <1>4 DEF SetPaused
<1>5. ASSUME NEW c \in Clients, Stall(c) PROVE IInv'
  BY <1>5 DEF Stall
<1>6. QED
  BY <1>1, <1>2, <1>3, <1>4, <1>5 DEF Environment

-----------------------------------------------------------------------------
(* The inductive invariant: the event loop *)

LEMMA TopFacts ==
  ASSUME IInv, Running
  PROVE  /\ stack \in Seq(Frame) /\ Depth \in Nat \ {0} /\ DOMAIN stack = 1 .. Depth
         /\ Top \in Frame /\ Len(stack) = Depth
         /\ Top.kind = "readClient" => Top.sock \in Entered(stack) /\ Top.sock \in Clients
         /\ Top.kind # "exec" => Top.sock \in Clients
<1>1. /\ stack \in Seq(Frame) /\ Depth \in Nat \ {0} /\ DOMAIN stack = 1 .. Depth
      /\ Top = stack[Depth] /\ Len(stack) = Depth
  BY DEF IInv, TypeOK, Running, Depth, Top
<1>2. Top \in Frame
  BY <1>1
<1>3. Top.kind # "exec" => Top.sock \in Clients
  BY <1>1 DEF IInv, FramesOK
<1>4. Top.kind = "readClient" => Top.sock \in Entered(stack)
  BY <1>1 DEF Entered
<1>5. QED
  BY <1>1, <1>2, <1>3, <1>4

(* The calls on the stack are the same, whatever phase their passes are in. *)
SameCalls(new) ==
  /\ new \in Seq(Frame) /\ Len(new) = Depth /\ new # <<>>
  /\ Entered(new) = Entered(stack) /\ EnteredOnce(new)
  /\ \A i \in DOMAIN new : new[i].kind # "exec" => new[i].sock \in Clients

LEMMA TouchTop ==
  ASSUME IInv, Running,
         NEW ph \in {"send", "poll"}, NEW T \in SUBSET Clients,
         NEW new, new = [stack EXCEPT ![Depth] = [Top EXCEPT !.phase = ph, !.todo = T]]
  PROVE  /\ SameCalls(new)
         /\ new[Depth].phase = ph
<1> DEFINE f == [Top EXCEPT !.phase = ph, !.todo = T]
<1>1. f \in Frame /\ f.kind = Top.kind /\ f.sock = Top.sock /\ f.phase = ph
  BY TopFacts DEF Frame
<1> HIDE DEF f
<1>2. /\ new \in Seq(Frame) /\ Len(new) = Depth /\ new[Depth] = f /\ DOMAIN new = DOMAIN stack
      /\ \A i \in DOMAIN stack : i # Depth => new[i] = stack[i]
  BY <1>1, TopFacts DEF f
<1>3. \A i \in DOMAIN stack : new[i].kind = stack[i].kind /\ new[i].sock = stack[i].sock
  BY <1>1, <1>2, TopFacts DEF Top
<1>4. Entered(new) = Entered(stack) /\ EnteredOnce(new)
  <2>1. stack \in Seq(Frame) /\ Len(new) = Len(stack) /\ EnteredOnce(stack)
    BY <1>2, TopFacts DEF IInv, NotReentered
  <2>2. QED
    BY <1>2, <1>3, <2>1, SameFrames
<1>5. \A i \in DOMAIN new : new[i].kind # "exec" => new[i].sock \in Clients
  BY <1>2, <1>3 DEF IInv, FramesOK
<1>6. QED
  BY <1>1, <1>2, <1>4, <1>5, TopFacts DEF SameCalls

(* The two ways a pass moves on, in the form the actions have them. *)
LEMMA TouchForms ==
  ASSUME IInv, Running
  PROVE  /\ \A ph \in {"send", "poll"}, T \in SUBSET Clients :
              LET new == [stack EXCEPT ![Depth].phase = ph, ![Depth].todo = T]
              IN  SameCalls(new) /\ new[Depth].phase = ph
         /\ LET new == [stack EXCEPT ![Depth].phase = "send"]
            IN  SameCalls(new) /\ new[Depth].phase = "send"
         /\ \A c \in Clients :
              LET new == [stack EXCEPT ![Depth].todo = @ \ {c}]
              IN  SameCalls(new) /\ new[Depth].phase = Top.phase
<1>1. /\ stack \in Seq(Frame) /\ Depth \in DOMAIN stack /\ Top \in Frame /\ Top = stack[Depth]
  BY TopFacts DEF Top
<1>2. ASSUME NEW ph \in {"send", "poll"}, NEW T \in SUBSET Clients
      PROVE  [stack EXCEPT ![Depth].phase = ph, ![Depth].todo = T]
               = [stack EXCEPT ![Depth] = [Top EXCEPT !.phase = ph, !.todo = T]]
  BY <1>1
<1>3. [stack EXCEPT ![Depth].phase = "send"]
        = [stack EXCEPT ![Depth] = [Top EXCEPT !.phase = "send", !.todo = Top.todo]]
  BY <1>1 DEF Frame
<1>4. ASSUME NEW c \in Clients
      PROVE  [stack EXCEPT ![Depth].todo = @ \ {c}]
               = [stack EXCEPT ![Depth] = [Top EXCEPT !.phase = Top.phase, !.todo = Top.todo \ {c}]]
  BY <1>1 DEF Frame
<1>5. Top.todo \in SUBSET Clients /\ Top.phase \in {"send", "poll"}
  BY <1>1 DEF Frame
<1>6. ASSUME NEW ph \in {"send", "poll"}, NEW T \in SUBSET Clients
      PROVE  LET new == [stack EXCEPT ![Depth].phase = ph, ![Depth].todo = T]
             IN  SameCalls(new) /\ new[Depth].phase = ph
  <2> DEFINE new == [stack EXCEPT ![Depth].phase = ph, ![Depth].todo = T]
  <2>1. new = [stack EXCEPT ![Depth] = [Top EXCEPT !.phase = ph, !.todo = T]]
    BY <1>2
  <2> HIDE DEF new
  <2>2. SameCalls(new) /\ new[Depth].phase = ph
    BY <2>1, TouchTop
  <2>3. QED
    BY <2>2 DEF new
<1>7. LET new == [stack EXCEPT ![Depth].phase = "send"]
      IN  SameCalls(new) /\ new[Depth].phase = "send"
  BY <1>3, <1>5, TouchTop
<1>8. ASSUME NEW c \in Clients
      PROVE  LET new == [stack EXCEPT ![Depth].todo = @ \ {c}]
             IN  SameCalls(new) /\ new[Depth].phase = Top.phase
  <2> DEFINE new == [stack EXCEPT ![Depth].todo = @ \ {c}]
             T == Top.todo \ {c}
  <2>1. new = [stack EXCEPT ![Depth] = [Top EXCEPT !.phase = Top.phase, !.todo = T]]
    BY <1>4
  <2>2. T \in SUBSET Clients
    BY <1>5
  <2> HIDE DEF new, T
  <2>3. SameCalls(new) /\ new[Depth].phase = Top.phase
    BY <1>5, <2>1, <2>2, TouchTop
  <2>4. QED
    BY <2>3 DEF new
<1>9. QED
  BY <1>6, <1>7, <1>8

(* A step that leaves calls and queue alone preserves the invariant, as long as the *)
(* pass that polls has nothing left to send.                                        *)
LEMMA SameCallsIInv ==
  ASSUME IInv, Running, SameCalls(stack'), UNCHANGED <<conn, answers, gone, posted>>,
         wire' \in [Clients -> Asks \cup {Nothing}], sent' \in [Clients -> 0 .. MaxRequests],
         stalled' \in [Clients -> BOOLEAN],
         unsent' \in [Clients -> BOOLEAN], paused' \in BOOLEAN, quitting' \in BOOLEAN,
         mark' \in 0 .. Len(posted), SoleRequest(posted, mark'),
         Top'.phase = "poll" => mark' = 0
  PROVE  IInv'
<1>1. TypeOK'
  BY DEF IInv, TypeOK, SameCalls
<1>2. FramesOK'
  BY DEF FramesOK, SameCalls
<1>3. Running' /\ Entered(stack') = Entered(stack) /\ EnteredOnce(stack')
  BY DEF SameCalls, Running
<1>4. QueueOK' /\ SocketsOK' /\ AtMostOneAnswer' /\ NotReentered' /\ DeletedOnce'
  BY <1>3 DEF IInv, QueueOK, SocketsOK, AtMostOneAnswer, NotReentered, DeletedOnce, InReadClient
<1>5. QED
  BY <1>1, <1>2, <1>4 DEF IInv

LEMMA PollIInv ==
  ASSUME IInv, Poll
  PROVE  IInv'
<1> DEFINE T == {c \in Clients : Ready(c)}
           new == [stack EXCEPT ![Depth].phase = "poll", ![Depth].todo = T]
<1>1. SameCalls(stack')
  <2>1. T \in SUBSET Clients /\ stack' = new /\ Running
    BY DEF Poll
  <2>2. SameCalls(new)
    <3> HIDE DEF T
    <3>1. QED
      BY <2>1, TouchForms
  <2> HIDE DEF new
  <2>3. QED
    BY <2>1, <2>2
<1>2. QED
  BY <1>1, SameCallsIInv DEF Poll, IInv, TypeOK, QueueOK, clientVars, serverVars, queueVars, Running

(* With no request waiting, a pass that starts may send whatever there is. *)
LEMMA SoleRequestMark ==
  ASSUME NEW list \in Seq(Event), SoleRequest(list, 0)
  PROVE  /\ \A x \in Events(list) : IsDelete(x)
         /\ \A m \in Nat : SoleRequest(list, m)
<1>1. \A i \in DOMAIN list : ~IsRequest(list[i])
  BY DEF SoleRequest
<1>2. QED
  BY <1>1 DEF SoleRequest, Events, IsRequest

LEMMA NextTurnIInv ==
  ASSUME IInv, NextTurn
  PROVE  IInv'
<1>1. mark = 0 /\ posted \in Seq(Event) /\ SoleRequest(posted, 0) /\ Running
  BY DEF NextTurn, IInv, FramesOK, QueueOK, TypeOK
<1>2. CASE quitting
  <2>1. stack' = <<>> /\ Entered(stack') = {} /\ EnteredOnce(stack') /\ ~Running'
    BY <1>2 DEF NextTurn, Entered, EnteredOnce, Running
  <2>2. stack' \in Seq(Frame) /\ DOMAIN stack' = {}
    BY <2>1
  <2>3. QED
    BY <1>1, <1>2, <2>1, <2>2 DEF NextTurn, IInv, TypeOK, FramesOK, QueueOK, SocketsOK,
       AtMostOneAnswer, NotReentered, DeletedOnce, InReadClient, clientVars, serverVars
<1>3. CASE ~quitting
  <2>1. SameCalls(stack') /\ stack'[Depth].phase = "send"
    BY <1>1, <1>3, TouchForms DEF NextTurn
  <2>2. Top'.phase = "send"
    BY <2>1 DEF SameCalls, Top, Depth
  <2>3. mark' = Len(posted) /\ mark' \in 0 .. Len(posted) /\ SoleRequest(posted, mark')
    BY <1>1, <1>3, SoleRequestMark DEF NextTurn
  <2>4. QED
    BY <1>1, <2>1, <2>2, <2>3, SameCallsIInv DEF NextTurn, IInv, TypeOK, clientVars, serverVars
<1>4. QED
  BY <1>2, <1>3

(* A step that leaves connections and queue alone preserves the invariant when the only *)
(* handlers it ends are those of sockets that are connected no more.                    *)
LEMMA FewerCallsIInv ==
  ASSUME IInv, UNCHANGED <<conn, wire, gone, sent, stalled, answers, unsent, posted, mark>>,
         paused' \in BOOLEAN, quitting' \in BOOLEAN,
         stack' \in Seq(Frame), EnteredOnce(stack'), FramesOK',
         Entered(stack') \subseteq Entered(stack),
         Running' => Running /\ \A c \in Entered(stack) :
                        conn[c] = "connected" => c \in Entered(stack')
  PROVE  IInv'
<1>1. TypeOK' /\ AtMostOneAnswer' /\ NotReentered' /\ DeletedOnce'
  BY DEF IInv, TypeOK, AtMostOneAnswer, NotReentered, DeletedOnce
<1>2. QueueOK'
  BY DEF IInv, QueueOK, InReadClient
<1>3. SocketsOK'
  BY DEF IInv, SocketsOK, InReadClient
<1>4. QED
  BY <1>1, <1>2, <1>3 DEF IInv

(* The process ends. *)
LEMMA StopIInv ==
  ASSUME IInv, stack' = <<>>,
         UNCHANGED <<conn, wire, gone, sent, stalled, answers, unsent, paused, quitting, posted, mark>>
  PROVE  IInv'
<1>1. stack' \in Seq(Frame) /\ DOMAIN stack' = {} /\ ~Running'
  BY DEF Running
<1>2. Entered(stack') = {} /\ EnteredOnce(stack') /\ FramesOK'
  BY <1>1 DEF Entered, EnteredOnce, FramesOK
<1>3. QED
  BY <1>1, <1>2, FewerCallsIInv DEF IInv, TypeOK

(* What is left of the stack when the innermost handler returns. *)
LEMMA PopFacts ==
  ASSUME IInv, Running, stack' = Pop, mark' = 0
  PROVE  /\ stack' \in Seq(Frame) /\ EnteredOnce(stack') /\ FramesOK'
         /\ Entered(stack') =
              Entered(stack) \ (IF Top.kind = "readClient" THEN {Top.sock} ELSE {})
<1>1. stack \in Seq(Frame) /\ stack # <<>> /\ EnteredOnce(stack)
  BY DEF IInv, TypeOK, Running, NotReentered
<1>2. /\ stack' \in Seq(Frame) /\ EnteredOnce(stack')
      /\ Entered(stack') =
           Entered(stack) \ (IF Top.kind = "readClient" THEN {Top.sock} ELSE {})
      /\ Len(stack') = Len(stack) - 1
      /\ \A i \in 1 .. Len(stack) - 1 : stack'[i] = stack[i]
  BY <1>1, PopFrame DEF Pop, Top, Depth
<1>3. \A i \in DOMAIN stack' : stack'[i] = stack[i] /\ i \in DOMAIN stack
  BY <1>1, <1>2
<1>4. FramesOK'
  BY <1>3 DEF IInv, FramesOK
<1>5. QED
  BY <1>2, <1>4

LEMMA RelayReturnsIInv ==
  ASSUME IInv, RelayReturns
  PROVE  IInv'
<1>1. Running /\ stack' = Pop /\ mark' = 0 /\ Top.kind = "relay"
  BY DEF RelayReturns, PassOver, IInv, FramesOK, queueVars
<1>2. QED
  BY <1>1, PopFacts, FewerCallsIInv
     DEF RelayReturns, clientVars, serverVars, queueVars, IInv, TypeOK

LEMMA ReadClientReturnsStaleIInv ==
  ASSUME IInv, ReadClientReturnsStale
  PROVE  IInv'
<1>1. /\ Running /\ mark' = 0 /\ Top.kind = "readClient" /\ conn[Top.sock] = "destroyed"
      /\ stack' = <<>> \/ stack' = Pop
      /\ UNCHANGED <<conn, wire, gone, sent, stalled, answers, unsent, paused, quitting, posted, mark>>
  BY DEF ReadClientReturnsStale, PassOver, IInv, FramesOK, clientVars, serverVars, queueVars
<1>2. CASE stack' = <<>>
  BY <1>1, <1>2, StopIInv
<1>3. CASE stack' = Pop
  BY <1>1, <1>3, PopFacts, FewerCallsIInv DEF IInv, TypeOK
<1>4. QED
  BY <1>1, <1>2, <1>3

-----------------------------------------------------------------------------
(* The inductive invariant: closing and deleting sockets *)

(* While sockets are polled no request waits. *)
LEMMA OnlyDeletes ==
  ASSUME IInv, mark = 0
  PROVE  /\ posted \in Seq(Event)
         /\ \A x \in Events(posted) :
              IsDelete(x) /\ x.sock \in Clients /\ conn[x.sock] = "unconnected"
<1>1. posted \in Seq(Event) /\ SoleRequest(posted, 0)
  BY DEF IInv, TypeOK, QueueOK
<1>2. \A x \in Events(posted) : IsDelete(x)
  BY <1>1, SoleRequestMark
<1>3. \A x \in Events(posted) : x \in Event
  BY <1>1 DEF Events
<1>4. QED
  BY <1>1, <1>2, <1>3 DEF IInv, DeletedOnce, Event

(* The end of readClient(), whether it has answered by itself or through the event loop: *)
(* it is then no longer on the stack, and no event names the socket.                     *)
LEMMA CloseOrDeleteIInv ==
  ASSUME IInv, mark = 0, NEW c \in Clients, NEW pending, CloseOrDelete(c, pending),
         conn[c] \in {"connected", "unconnected"},
         stack' \in Seq(Frame), EnteredOnce(stack'), FramesOK', Running,
         Entered(stack') = Entered(stack) \ {c},
         wire' \in [Clients -> Asks \cup {Nothing}], sent' \in [Clients -> 0 .. MaxRequests],
         stalled' \in [Clients -> BOOLEAN],
         unsent' \in [Clients -> BOOLEAN], UNCHANGED <<gone, paused, quitting>>,
         answers' \in [Clients -> Seq(Answers)], Len(answers'[c]) <= 1,
         \A d \in Clients : d # c => answers'[d] = answers[d]
  PROVE  IInv'
<1>1. /\ posted \in Seq(Event)
      /\ \A x \in Events(posted) :
           IsDelete(x) /\ x.sock \in Clients /\ conn[x.sock] = "unconnected"
  BY OnlyDeletes
<1>2. /\ mark' = 0 /\ OneDeleteEach(posted') /\ posted' \in Seq(Event)
      /\ \A x \in Events(posted') : IsDelete(x) /\ conn'[x.sock] = "unconnected"
  <2>1. CASE conn[c] = "connected" /\ pending
    <3>1. posted' = posted /\ mark' = mark /\ conn' = [conn EXCEPT ![c] = "closing"]
      BY <2>1 DEF CloseOrDelete, queueVars
    <3>2. \A x \in Events(posted) : x.sock # c
      BY <1>1, <2>1
    <3>3. QED
      BY <1>1, <3>1, <3>2 DEF IInv, TypeOK, DeletedOnce
  <2>2. CASE ~(conn[c] = "connected" /\ pending)
    <3>1. posted' = Withdraw(posted, c) /\ mark' = mark /\ conn' = [conn EXCEPT ![c] = "destroyed"]
      BY <2>2 DEF CloseOrDelete
    <3>2. /\ posted' \in Seq(Event) /\ OneDeleteEach(posted')
          /\ Events(posted') \subseteq Events(posted) /\ \A x \in Events(posted') : x.sock # c
      BY <1>1, <3>1, WithdrawDelete DEF IInv, DeletedOnce
    <3>3. QED
      BY <1>1, <3>1, <3>2 DEF IInv, TypeOK
  <2>3. QED
    BY <2>1, <2>2
<1>3. /\ conn' \in [Clients -> ConnStates] /\ conn'[c] \in {"closing", "destroyed"}
      /\ \A d \in Clients : d # c => conn'[d] = conn[d]
  BY DEF CloseOrDelete, IInv, TypeOK, ConnStates
<1>4. TypeOK'
  BY <1>2, <1>3 DEF IInv, TypeOK
<1>5. QueueOK' /\ DeletedOnce'
  <2>1. SoleRequest(posted', mark')
    BY <1>2 DEF SoleRequest, IsRequest, Events
  <2>2. QED
    BY <1>2, <2>1 DEF QueueOK, DeletedOnce, IsRequest
<1>6. SocketsOK'
  BY <1>3 DEF IInv, SocketsOK, InReadClient
<1>7. AtMostOneAnswer' /\ NotReentered'
  BY <1>3 DEF IInv, AtMostOneAnswer, NotReentered
<1>8. QED
  BY <1>4, <1>5, <1>6, <1>7 DEF IInv

LEMMA ReadClientReturnsIInv ==
  ASSUME IInv, ReadClientReturns
  PROVE  IInv'
<1> DEFINE c == Top.sock
<1>1. /\ Running /\ mark = 0 /\ stack' = Pop /\ Top.kind = "readClient" /\ conn[c] # "destroyed"
      /\ CloseOrDelete(c, unsent[c])
      /\ UNCHANGED <<wire, gone, sent, stalled, answers, unsent, paused, quitting>>
  BY DEF ReadClientReturns, PassOver, IInv, FramesOK, clientVars, serverVars
<1>2. c \in Clients /\ c \in Entered(stack)
  BY <1>1, TopFacts
<1>3. conn[c] \in {"connected", "unconnected"}
  BY <1>1, <1>2 DEF IInv, SocketsOK, InReadClient
<1>4. mark' = 0
  BY <1>1 DEF CloseOrDelete, queueVars
<1>5. stack' \in Seq(Frame) /\ EnteredOnce(stack') /\ FramesOK' /\ Entered(stack') = Entered(stack) \ {c}
  BY <1>1, <1>4, PopFacts
<1>6. Len(answers'[c]) <= 1
  BY <1>1, <1>2 DEF IInv, AtMostOneAnswer
<1> HIDE DEF c
<1>7. QED
  BY <1>1, <1>2, <1>3, <1>5, <1>6, CloseOrDeleteIInv DEF IInv, TypeOK

(* The slot of disconnected(): the socket is unconnected from now on, and gets its one *)
(* deferred delete.                                                                    *)
LEMMA DiscardIInv ==
  ASSUME IInv, Running, mark = 0, SameCalls(stack'), NEW c \in Clients, discardClient(c),
         conn[c] \in {"connected", "closing"}, InReadClient(c) => gone[c],
         unsent' \in [Clients -> BOOLEAN],
         UNCHANGED <<wire, gone, sent, stalled, answers, paused, quitting>>
  PROVE  IInv'
<1> DEFINE e == [type |-> "DeferredDelete", sock |-> c, asks |-> "fragment", level |-> Depth + 1]
<1>1. /\ posted \in Seq(Event) /\ mark \in 0 .. Len(posted)
      /\ \A x \in Events(posted) :
           IsDelete(x) /\ x.sock \in Clients /\ conn[x.sock] = "unconnected" /\ x.sock # c
  BY OnlyDeletes DEF IInv, TypeOK
<1>2. e \in Event /\ IsDelete(e) /\ e.sock = c
  BY TopFacts DEF Event, AllAsks, IsDelete
<1>4. /\ posted' = Post(posted, mark, e) /\ mark' = mark
      /\ conn' = [conn EXCEPT ![c] = "unconnected"]
  BY DEF discardClient
<1> HIDE DEF e
<1>5. /\ posted' \in Seq(Event) /\ Len(posted') = Len(posted) + 1
      /\ SoleRequest(posted', mark') /\ OneDeleteEach(posted')
      /\ Events(posted') = Events(posted) \cup {e}
  BY <1>1, <1>2, <1>4, PostDelete DEF IInv, QueueOK, DeletedOnce
<1>6. /\ conn' \in [Clients -> ConnStates] /\ conn'[c] = "unconnected"
      /\ \A d \in Clients : d # c => conn'[d] = conn[d]
  BY <1>4 DEF IInv, TypeOK, ConnStates
<1>7. /\ Entered(stack') = Entered(stack) /\ EnteredOnce(stack') /\ stack' \in Seq(Frame)
      /\ FramesOK'
  BY <1>4 DEF SameCalls, FramesOK
<1>8. TypeOK'
  <2>1. mark' \in 0 .. Len(posted')
    BY <1>4, <1>5
  <2>2. QED
    BY <1>5, <1>6, <1>7, <2>1 DEF IInv, TypeOK
<1>9. QueueOK' /\ DeletedOnce'
  BY <1>1, <1>2, <1>5, <1>6 DEF QueueOK, DeletedOnce, IsRequest
<1>10. SocketsOK' /\ AtMostOneAnswer' /\ NotReentered'
  BY <1>6, <1>7 DEF IInv, SocketsOK, InReadClient, AtMostOneAnswer, NotReentered, Running
<1>11. QED
  BY <1>7, <1>8, <1>9, <1>10 DEF IInv

-----------------------------------------------------------------------------
(* The inductive invariant: a socket that is ready *)

LEMMA AcceptIInv ==
  ASSUME IInv, Running, mark = 0, SameCalls(stack'), NEW c \in Clients, incomingConnection(c),
         UNCHANGED <<paused, quitting>>
  PROVE  IInv'
<1>1. /\ conn[c] = "backlog" /\ conn'[c] \in {"ignored", "connected"}
      /\ conn' \in [Clients -> ConnStates]
      /\ \A d \in Clients : d # c => conn'[d] = conn[d]
      /\ UNCHANGED <<wire, gone, sent, stalled, answers, unsent, posted, mark>>
  BY DEF incomingConnection, IInv, TypeOK, ConnStates, clientVars, serverVars, queueVars
<1>2. \A x \in Events(posted) :
        IsDelete(x) /\ x.sock \in Clients /\ conn[x.sock] = "unconnected" /\ x.sock # c
  BY <1>1, OnlyDeletes
<1>3. c \notin Entered(stack) /\ answers[c] = <<>>
  BY <1>1 DEF IInv, SocketsOK, InReadClient
<1>4. /\ Entered(stack') = Entered(stack) /\ EnteredOnce(stack') /\ stack' \in Seq(Frame)
      /\ FramesOK' /\ Running'
  BY <1>1 DEF SameCalls, FramesOK, Running
<1>5. TypeOK'
  BY <1>1, <1>4 DEF IInv, TypeOK
<1>6. QueueOK' /\ DeletedOnce'
  BY <1>1, <1>2 DEF IInv, QueueOK, DeletedOnce, IsRequest
<1>7. SocketsOK' /\ AtMostOneAnswer' /\ NotReentered'
  BY <1>1, <1>3, <1>4 DEF IInv, SocketsOK, InReadClient, AtMostOneAnswer, NotReentered
<1>8. QED
  BY <1>4, <1>5, <1>6, <1>7 DEF IInv

(* What Write() appends is the first answer. *)
LEMMA WriteFirst ==
  ASSUME IInv, NEW c \in Clients, NEW a \in Answers, Write(c, a), answers[c] = <<>>
  PROVE  /\ answers' \in [Clients -> Seq(Answers)] /\ unsent' \in [Clients -> BOOLEAN]
         /\ Len(answers'[c]) <= 1 /\ (conn[c] = "connected" => Len(answers'[c]) = 1)
         /\ \A d \in Clients : d # c => answers'[d] = answers[d]
<1>1. CASE conn[c] = "connected"
  <2> DEFINE one == Append(answers[c], a)
  <2>1. one \in Seq(Answers) /\ Len(one) = 1
    OBVIOUS
  <2> HIDE DEF one
  <2>2. answers' = [answers EXCEPT ![c] = one] /\ unsent' = [unsent EXCEPT ![c] = TRUE]
    BY <1>1 DEF Write, one
  <2>3. answers \in [Clients -> Seq(Answers)] /\ unsent \in [Clients -> BOOLEAN]
    BY DEF IInv, TypeOK
  <2>4. answers' \in [Clients -> Seq(Answers)] /\ unsent' \in [Clients -> BOOLEAN]
    BY <2>1, <2>2, <2>3
  <2>5. answers'[c] = one /\ \A d \in Clients : d # c => answers'[d] = answers[d]
    BY <2>2, <2>3
  <2>6. Len(answers'[c]) = 1
    BY <2>1, <2>5, Zenon
  <2>7. QED
    BY <2>4, <2>5, <2>6
<1>2. CASE conn[c] # "connected"
  BY <1>2 DEF Write, serverVars, IInv, TypeOK, AtMostOneAnswer
<1>3. QED
  BY <1>1, <1>2

(* readClient() posts its request and starts a pass, which is to send it first. *)
LEMMA HandOverIInv ==
  ASSUME IInv, Running, mark = 0, NEW c \in Clients, NEW a \in AllAsks,
         NEW below, SameCalls(below), conn[c] = "connected", ~InReadClient(c),
         stack' = Append(below, Pass("readClient", c)),
         posted' = Post(posted, mark, [type |-> "TCPRequest", sock |-> c,
                                             asks |-> a, level |-> 0]),
         mark' = Len(posted'),
         wire' \in [Clients -> Asks \cup {Nothing}],
         UNCHANGED <<conn, gone, sent, stalled, answers, unsent, paused, quitting>>
  PROVE  IInv'
<1> DEFINE e == [type |-> "TCPRequest", sock |-> c, asks |-> a, level |-> 0]
           f == Pass("readClient", c)
<1>1. e \in Event /\ IsRequest(e) /\ e.sock = c
  BY DEF Event, RequestTypes, IsRequest, IsDelete
<1>2. f \in Frame /\ f.kind = "readClient" /\ f.sock = c /\ f.phase = "send"
  BY DEF Frame, Pass
<1>3. /\ posted \in Seq(Event) /\ mark \in 0 .. Len(posted) /\ OneDeleteEach(posted)
      /\ \A x \in Events(posted) :
           IsDelete(x) /\ x.sock \in Clients /\ conn[x.sock] = "unconnected" /\ x.sock # c
  BY OnlyDeletes DEF IInv, TypeOK, DeletedOnce
<1> HIDE DEF e, f
<1>4. posted' = Post(posted, mark, e) /\ stack' = Append(below, f)
  BY DEF e, f
<1>5. /\ posted' \in Seq(Event) /\ SoleRequest(posted', mark') /\ OneDeleteEach(posted')
      /\ Events(posted') = Events(posted) \cup {e}
  BY <1>1, <1>3, <1>4, PostRequest
<1>6. /\ below \in Seq(Frame) /\ EnteredOnce(below) /\ Entered(below) = Entered(stack)
      /\ \A i \in DOMAIN below : below[i].kind # "exec" => below[i].sock \in Clients
  BY DEF SameCalls
<1>7. /\ stack' \in Seq(Frame) /\ Len(stack') = Len(below) + 1 /\ stack'[Len(below) + 1] = f
      /\ \A i \in 1 .. Len(below) : stack'[i] = below[i]
      /\ EnteredOnce(stack') /\ Entered(stack') = Entered(stack) \cup {c}
  BY <1>2, <1>4, <1>6, PushFrame DEF InReadClient
<1>8. FramesOK' /\ Running'
  <2>1. Depth' = Len(below) + 1 /\ Top' = f /\ DOMAIN stack' = 1 .. Len(below) + 1
        /\ DOMAIN below = 1 .. Len(below) /\ Len(below) \in Nat
    BY <1>6, <1>7 DEF Depth, Top
  <2>2. QED
    BY <1>2, <1>6, <1>7, <2>1 DEF FramesOK, Running
<1>9. TypeOK'
  <2>1. mark' \in 0 .. Len(posted')
    BY <1>5
  <2>2. QED
    BY <1>5, <1>7, <2>1 DEF IInv, TypeOK
<1>10. QueueOK'
  <2>1. answers[c] = <<>>
    BY DEF IInv, SocketsOK
  <2>2. \A x \in Events(posted') : IsRequest(x) => x.sock = c
    BY <1>1, <1>3, <1>5 DEF IsRequest
  <2>3. QED
    BY <1>5, <1>7, <2>1, <2>2 DEF QueueOK, InReadClient
<1>11. DeletedOnce'
  BY <1>1, <1>3, <1>5 DEF DeletedOnce, IsRequest
<1>12. SocketsOK' /\ AtMostOneAnswer' /\ NotReentered'
  BY <1>7, <1>8 DEF IInv, SocketsOK, InReadClient, AtMostOneAnswer, NotReentered
<1>13. QED
  BY <1>8, <1>9, <1>10, <1>11, <1>12 DEF IInv

LEMMA ImmediateAnswers == \A a \in DOMAIN Immediate : Immediate[a] \in Answers
<1> SUFFICES ASSUME NEW a \in DOMAIN Immediate PROVE Immediate[a] \in Answers
  OBVIOUS
<1>1. a = "favicon" \/ a = "root" \/ a = "escaped"
  BY DEF Immediate
<1>2. /\ Immediate["favicon"] = "favicon" /\ Immediate["root"] = "moved"
      /\ Immediate["escaped"] = "moved"
  BY DEF Immediate
<1>3. QED
  BY <1>1, <1>2 DEF Answers

LEMMA ReadClientIInv ==
  ASSUME IInv, Running, mark = 0, NEW c \in Clients, CanRead(c), ~InReadClient(c),
         NEW below, SameCalls(below), below[Depth].phase = "poll", readClient(c, below),
         UNCHANGED <<paused, quitting>>
  PROVE  IInv'
<1> DEFINE a == wire[c]
<1>1. /\ conn[c] = "connected" /\ a # Nothing /\ a \in AllAsks /\ answers[c] = <<>>
      /\ wire' \in [Clients -> Asks \cup {Nothing}]
      /\ UNCHANGED <<gone, sent, stalled>>
  BY AsksAssumption DEF CanRead, readClient, IInv, TypeOK, SocketsOK
<1>2. ASSUME stack' = below
      PROVE  /\ SameCalls(stack') /\ stack' \in Seq(Frame) /\ EnteredOnce(stack')
             /\ Entered(stack') = Entered(stack) \ {c}
             /\ \A i \in DOMAIN stack' : stack'[i].kind # "exec" => stack'[i].sock \in Clients
  BY <1>2 DEF SameCalls, InReadClient
<1>3. CASE Refused(a) /\ CloseOrDelete(c, unsent[c]) /\ stack' = below /\ UNCHANGED serverVars
  <2>1. mark' = 0 /\ FramesOK'
    BY <1>2, <1>3 DEF CloseOrDelete, queueVars, FramesOK
  <2>2. QED
    BY <1>1, <1>2, <1>3, <2>1, CloseOrDeleteIInv DEF serverVars, IInv, TypeOK, AtMostOneAnswer
<1>4. CASE /\ ~Refused(a) /\ a = "garbled" /\ stack' = below
           /\ UNCHANGED <<conn, serverVars, queueVars>>
  BY <1>1, <1>2, <1>4, SameCallsIInv DEF serverVars, queueVars, IInv, TypeOK, QueueOK
<1>5. CASE /\ ~Refused(a) /\ a \in DOMAIN Immediate /\ Write(c, Immediate[a])
           /\ CloseOrDelete(c, TRUE) /\ stack' = below
  <2>1. mark' = 0 /\ FramesOK'
    BY <1>2, <1>5 DEF CloseOrDelete, queueVars, FramesOK
  <2>2. Immediate[a] \in Answers
    BY <1>5, ImmediateAnswers
  <2>3. /\ answers' \in [Clients -> Seq(Answers)] /\ unsent' \in [Clients -> BOOLEAN]
        /\ Len(answers'[c]) <= 1 /\ \A d \in Clients : d # c => answers'[d] = answers[d]
    BY <1>1, <1>5, <2>2, WriteFirst
  <2>4. QED
    BY <1>1, <1>2, <1>5, <2>1, <2>3, CloseOrDeleteIInv DEF IInv, TypeOK
<1>6. CASE /\ posted' = Post(posted, mark, [type |-> "TCPRequest", sock |-> c,
                                                  asks |-> a, level |-> 0])
           /\ mark' = Len(posted') /\ stack' = Append(below, Pass("readClient", c))
           /\ UNCHANGED <<conn, serverVars>>
  BY <1>1, <1>6, HandOverIInv DEF serverVars
<1>7. QED
  BY <1>3, <1>4, <1>5, <1>6 DEF readClient

LEMMA NotifyIInv ==
  ASSUME IInv, NEW c \in Clients, Notify(c)
  PROVE  IInv'
<1> DEFINE below == [stack EXCEPT ![Depth].todo = @ \ {c}]
<1>1. Running /\ Top.phase = "poll" /\ mark = 0 /\ UNCHANGED <<paused, quitting>>
  BY DEF Notify, IInv, FramesOK
<1>2. SameCalls(below) /\ below[Depth].phase = "poll"
  BY <1>1, TouchForms
<1>3. \/ incomingConnection(c) /\ stack' = below
      \/ CanRead(c) /\ ReadOrBuffer(c, below)
      \/ CanHangUp(c) /\ discardClient(c) /\ stack' = below /\ UNCHANGED <<clientVars, serverVars>>
      \/ /\ CanFlush(c) /\ unsent' = [unsent EXCEPT ![c] = FALSE]
         /\ IF conn[c] = "closing" THEN discardClient(c) ELSE UNCHANGED <<conn, queueVars>>
         /\ stack' = below /\ UNCHANGED <<clientVars, answers>>
      \/ stack' = below /\ UNCHANGED <<conn, clientVars, serverVars, queueVars>>
  BY DEF Notify
<1> HIDE DEF below
<1>4. CASE incomingConnection(c) /\ stack' = below
  BY <1>1, <1>2, <1>4, AcceptIInv
<1>5. CASE CanRead(c) /\ ReadOrBuffer(c, below)
  <2>1. CASE InReadClient(c)
    <3>1. /\ stack' = below /\ UNCHANGED <<conn, gone, sent, stalled, serverVars, queueVars>>
          /\ wire' \in [Clients -> Asks \cup {Nothing}]
      BY <1>5, <2>1 DEF ReadOrBuffer, IInv, TypeOK
    <3>2. QED
      BY <1>1, <1>2, <3>1, SameCallsIInv DEF serverVars, queueVars, IInv, TypeOK, QueueOK
  <2>2. CASE ~InReadClient(c)
    BY <1>1, <1>2, <1>5, <2>2, ReadClientIInv DEF ReadOrBuffer
  <2>3. QED
    BY <2>1, <2>2
<1>6. CASE CanHangUp(c) /\ discardClient(c) /\ stack' = below /\ UNCHANGED <<clientVars, serverVars>>
  BY <1>1, <1>2, <1>6, DiscardIInv DEF CanHangUp, clientVars, serverVars, IInv, TypeOK
<1>7. CASE /\ CanFlush(c) /\ unsent' = [unsent EXCEPT ![c] = FALSE]
           /\ IF conn[c] = "closing" THEN discardClient(c) ELSE UNCHANGED <<conn, queueVars>>
           /\ stack' = below /\ UNCHANGED <<clientVars, answers>>
  <2>1. unsent' \in [Clients -> BOOLEAN]
    BY <1>7 DEF IInv, TypeOK
  <2>2. CASE conn[c] = "closing"
    <3>1. ~InReadClient(c)
      BY <2>2 DEF IInv, SocketsOK
    <3>2. QED
      BY <1>1, <1>2, <1>7, <2>1, <2>2, <3>1, DiscardIInv DEF clientVars
  <2>3. CASE conn[c] # "closing"
    BY <1>1, <1>2, <1>7, <2>1, <2>3, SameCallsIInv DEF clientVars, queueVars, IInv, TypeOK, QueueOK
  <2>4. QED
    BY <2>2, <2>3
<1>8. CASE stack' = below /\ UNCHANGED <<conn, clientVars, serverVars, queueVars>>
  BY <1>1, <1>2, <1>8, SameCallsIInv DEF clientVars, serverVars, queueVars, IInv, TypeOK, QueueOK
<1>9. QED
  BY <1>3, <1>4, <1>5, <1>6, <1>7, <1>8

-----------------------------------------------------------------------------
(* The inductive invariant: sending a posted event *)

(* What is known of the event that is sent. *)
LEMMA SendingFacts ==
  ASSUME IInv, Sending
  PROVE  LET e == Head(posted)
             rest == Tail(posted)
         IN  /\ Running /\ mark - 1 \in 0 .. Len(rest)
             /\ e \in Event /\ e.sock \in Clients /\ e.asks \in AllAsks /\ rest \in Seq(Event)
             /\ SoleRequest(rest, mark - 1) /\ OneDeleteEach(rest)
             /\ \A x \in Events(rest) : x.sock \in Clients
             /\ \A x \in Events(rest) : IsDelete(x) => conn[x.sock] = "unconnected"
             /\ IsRequest(e) => /\ \A x \in Events(rest) : IsDelete(x)
                                /\ conn[e.sock] = "connected" /\ answers[e.sock] = <<>>
                                /\ e.sock \in Entered(stack)
             /\ IsDelete(e) => /\ conn[e.sock] = "unconnected"
                               /\ \A x \in Events(rest) : IsDelete(x) => x.sock # e.sock
                               /\ \A x \in Events(rest) : IsRequest(x) =>
                                    /\ conn[x.sock] = "connected" /\ answers[x.sock] = <<>>
                                    /\ x.sock \in Entered(stack)
<1> DEFINE e == Head(posted)
           rest == Tail(posted)
<1>1. posted \in Seq(Event) /\ mark \in 1 .. Len(posted) /\ Running
  BY DEF Sending, IInv, TypeOK
<1>2. SoleRequest(posted, mark) /\ OneDeleteEach(posted)
  BY DEF IInv, QueueOK, DeletedOnce
<1>3. /\ e \in Event /\ e \in Events(posted) /\ rest \in Seq(Event)
      /\ mark - 1 \in 0 .. Len(rest)
      /\ SoleRequest(rest, mark - 1) /\ OneDeleteEach(rest) /\ Events(rest) \subseteq Events(posted)
      /\ IsRequest(e) => \A x \in Events(rest) : IsDelete(x)
      /\ IsDelete(e) => \A x \in Events(rest) : IsDelete(x) => x.sock # e.sock
  BY <1>1, <1>2, SendFirst
<1> HIDE DEF e, rest
<1>4. \A x \in Events(posted) : x \in Event
  BY <1>1 DEF Events
<1>5. \A x \in Event : x.sock \in Clients /\ x.asks \in AllAsks
  BY DEF Event
<1>6. \A x \in Events(posted) : IsDelete(x) => conn[x.sock] = "unconnected"
  BY DEF IInv, DeletedOnce
<1>7. \A x \in Events(posted) : IsRequest(x) =>
        conn[x.sock] = "connected" /\ answers[x.sock] = <<>> /\ x.sock \in Entered(stack)
  BY <1>1 DEF IInv, QueueOK, InReadClient
<1>8. QED
  BY <1>1, <1>3, <1>4, <1>5, <1>6, <1>7 DEF e, rest

(* A request is answered by the one that takes it from the queue: no other waits. *)
LEMMA HandledIInv ==
  ASSUME IInv, Sending, IsRequest(Head(posted)), NEW a \in Answers,
         Write(Head(posted).sock, a), Handled, quitting' \in BOOLEAN
  PROVE  IInv'
<1> DEFINE e == Head(posted)
           rest == Tail(posted)
           c == e.sock
<1>1. /\ Running /\ mark - 1 \in 0 .. Len(rest) /\ c \in Clients /\ rest \in Seq(Event)
      /\ SoleRequest(rest, mark - 1) /\ OneDeleteEach(rest)
      /\ conn[c] = "connected" /\ answers[c] = <<>> /\ c \in Entered(stack)
      /\ \A x \in Events(rest) : IsDelete(x) /\ conn[x.sock] = "unconnected"
  BY SendingFacts
<1>2. /\ posted' = rest /\ mark' = mark - 1
      /\ UNCHANGED <<conn, wire, gone, sent, stalled, paused, stack>>
  BY DEF Handled, clientVars
<1>3. /\ answers' \in [Clients -> Seq(Answers)] /\ unsent' \in [Clients -> BOOLEAN]
      /\ Len(answers'[c]) <= 1 /\ \A d \in Clients : d # c => answers'[d] = answers[d]
  BY <1>1, WriteFirst
<1> HIDE DEF e, rest, c
<1>4. TypeOK'
  BY <1>1, <1>2, <1>3 DEF IInv, TypeOK
<1>5. FramesOK'
  <2>1. Top.phase = "send"
    BY DEF Sending
  <2>2. QED
    BY <1>2, <2>1 DEF IInv, FramesOK, Running, Top, Depth
<1>6. QueueOK' /\ DeletedOnce'
  BY <1>1, <1>2 DEF QueueOK, DeletedOnce, IsRequest
<1>7. SocketsOK' /\ AtMostOneAnswer' /\ NotReentered'
  BY <1>1, <1>2, <1>3 DEF IInv, SocketsOK, InReadClient, AtMostOneAnswer, NotReentered, Running
<1>8. QED
  BY <1>4, <1>5, <1>6, <1>7 DEF IInv

(* The relay runs an event loop, whether it has posted another request or none. *)
LEMMA RelayRequestIInv ==
  ASSUME IInv, RelayRequest
  PROVE  IInv'
<1> DEFINE e == Head(posted)
           rest == Tail(posted)
           c == e.sock
           f == Pass("relay", c)
           next(type) == [type |-> type, sock |-> c, asks |-> e.asks, level |-> 0]
<1>1. /\ Sending /\ e.type = "TCPRequest" /\ IsRequest(e)
      /\ stack' = Append(stack, f) /\ mark' = Len(posted')
      /\ UNCHANGED <<conn, wire, gone, sent, stalled, paused>>
  BY DEF RelayRequest, IsRequest, IsDelete, clientVars
<1>2. /\ Running /\ mark - 1 \in 0 .. Len(rest) /\ c \in Clients /\ rest \in Seq(Event)
      /\ e.asks \in AllAsks /\ SoleRequest(rest, mark - 1) /\ OneDeleteEach(rest)
      /\ conn[c] = "connected" /\ answers[c] = <<>> /\ c \in Entered(stack)
      /\ \A x \in Events(rest) : IsDelete(x) /\ conn[x.sock] = "unconnected"
  BY <1>1, SendingFacts
<1>3. f \in Frame /\ f.kind = "relay" /\ f.sock = c /\ f.phase = "send"
  BY <1>2 DEF Frame, Pass
<1>4. quitting' \in BOOLEAN
  BY DEF RelayRequest, Query, IInv, TypeOK
<1>5. \/ /\ posted' = rest
         /\ Write(c, "css") \/ UNCHANGED serverVars
      \/ /\ \E type \in RequestTypes : posted' = Post(rest, mark - 1, next(type))
         /\ UNCHANGED serverVars
  <2>1. CASE e.asks = "stylesheet" /\ Write(c, "css") /\ posted' = rest
    BY <2>1
  <2>2. CASE e.asks = "download" /\ Forward(c, Target[e.asks], e.asks) /\ UNCHANGED serverVars
    BY <2>2 DEF Forward, Target, RequestTypes
  <2>3. CASE /\ e.asks \in {"page", "huge", "filepage"}
             /\ \E found \in BOOLEAN :
                  IF found THEN Forward(c, Target[e.asks], e.asks) ELSE posted' = rest
             /\ UNCHANGED serverVars
    BY <2>3 DEF Forward, Target, RequestTypes
  <2>4. CASE posted' = rest /\ UNCHANGED serverVars
    BY <2>4
  <2>5. QED
    BY <2>1, <2>2, <2>3, <2>4 DEF RelayRequest
<1> HIDE DEF e, rest, c, f
<1>6. /\ posted' \in Seq(Event) /\ SoleRequest(posted', mark') /\ OneDeleteEach(posted')
      /\ \A x \in Events(posted') :
           \/ IsDelete(x) /\ conn[x.sock] = "unconnected"
           \/ IsRequest(x) /\ x.sock = c /\ answers' = answers
  <2>1. CASE posted' = rest
    <3>1. \A x \in Events(rest) : IsDelete(x)
      BY <1>2
    <3>2. SoleRequest(rest, Len(rest))
      BY <3>1 DEF SoleRequest, IsRequest, Events
    <3>3. QED
      BY <1>1, <1>2, <2>1, <3>2
  <2>2. ASSUME NEW type \in RequestTypes, posted' = Post(rest, mark - 1, next(type)),
               UNCHANGED serverVars
        PROVE  /\ posted' \in Seq(Event) /\ SoleRequest(posted', mark') /\ OneDeleteEach(posted')
               /\ \A x \in Events(posted') :
                    \/ IsDelete(x) /\ conn[x.sock] = "unconnected"
                    \/ IsRequest(x) /\ x.sock = c /\ answers' = answers
    <3> DEFINE n == next(type)
    <3>1. n \in Event /\ IsRequest(n) /\ n.sock = c
      BY <1>2 DEF Event, RequestTypes, IsRequest, IsDelete
    <3>2. posted' = Post(rest, mark - 1, n)
      BY <2>2
    <3> HIDE DEF n, next
    <3>3. /\ posted' \in Seq(Event) /\ SoleRequest(posted', Len(posted')) /\ OneDeleteEach(posted')
          /\ Events(posted') = Events(rest) \cup {n}
      BY <1>2, <3>1, <3>2, PostRequest
    <3>4. QED
      BY <1>1, <1>2, <2>2, <3>1, <3>3 DEF serverVars
  <2>3. QED
    BY <1>5, <2>1, <2>2
<1>7. /\ answers' \in [Clients -> Seq(Answers)] /\ unsent' \in [Clients -> BOOLEAN]
      /\ Len(answers'[c]) <= 1 /\ \A d \in Clients : d # c => answers'[d] = answers[d]
  <2>1. CASE Write(c, "css")
    BY <1>2, <2>1, WriteFirst DEF Answers
  <2>2. CASE UNCHANGED serverVars
    BY <1>2, <2>2 DEF serverVars, IInv, TypeOK, AtMostOneAnswer
  <2>3. QED
    BY <1>5, <2>1, <2>2
<1>8. /\ stack' \in Seq(Frame) /\ Len(stack') = Len(stack) + 1 /\ stack'[Len(stack) + 1] = f
      /\ \A i \in 1 .. Len(stack) : stack'[i] = stack[i]
      /\ EnteredOnce(stack') /\ Entered(stack') = Entered(stack)
  <2>1. stack \in Seq(Frame) /\ EnteredOnce(stack)
    BY DEF IInv, TypeOK, NotReentered
  <2>2. f \in Frame /\ f.kind # "readClient" /\ stack' = Append(stack, f)
    BY <1>1, <1>3
  <2> HIDE DEF f
  <2> DEFINE new == Append(stack, f)
  <2>3. /\ new \in Seq(Frame) /\ Len(new) = Len(stack) + 1 /\ new[Len(stack) + 1] = f
        /\ \A i \in 1 .. Len(stack) : new[i] = stack[i]
        /\ EnteredOnce(new)
        /\ Entered(new) = Entered(stack) \cup (IF f.kind = "readClient" THEN {f.sock} ELSE {})
    BY <2>1, <2>2, PushFrame
  <2>4. Entered(new) = Entered(stack)
    BY <2>2, <2>3
  <2> HIDE DEF new
  <2>5. stack' = new
    BY <2>2 DEF new
  <2>6. QED
    BY <2>3, <2>4, <2>5
<1>9. FramesOK' /\ Running'
  <2>1. Depth' = Len(stack) + 1 /\ Top' = f /\ DOMAIN stack' = 1 .. Len(stack) + 1
        /\ DOMAIN stack = 1 .. Len(stack) /\ Len(stack) \in Nat
    BY <1>8 DEF Depth, Top, IInv, TypeOK
  <2>2. QED
    BY <1>2, <1>3, <1>8, <2>1 DEF IInv, FramesOK, Running
<1>10. TypeOK'
  <2>1. mark' \in 0 .. Len(posted')
    BY <1>1, <1>6
  <2>2. QED
    BY <1>1, <1>4, <1>6, <1>7, <1>8, <2>1 DEF IInv, TypeOK
<1>11. QueueOK' /\ DeletedOnce'
  BY <1>1, <1>2, <1>6, <1>8 DEF QueueOK, DeletedOnce, IsRequest, InReadClient
<1>12. SocketsOK' /\ AtMostOneAnswer' /\ NotReentered'
  BY <1>1, <1>2, <1>7, <1>8 DEF IInv, SocketsOK, InReadClient, AtMostOneAnswer, NotReentered, Running
<1>13. QED
  BY <1>9, <1>10, <1>11, <1>12 DEF IInv

(* A deferred delete is carried out, or goes to the end of the queue. *)
LEMMA DeferredDeleteIInv ==
  ASSUME IInv, DeferredDelete
  PROVE  IInv'
<1> DEFINE e == Head(posted)
           rest == Tail(posted)
           c == e.sock
<1>1. /\ Sending /\ IsDelete(e) /\ mark' = mark - 1
      /\ UNCHANGED <<wire, gone, sent, stalled, answers, unsent, paused, quitting, stack>>
      /\ \/ conn' = [conn EXCEPT ![c] = "destroyed"] /\ posted' = rest
         \/ posted' = Post(rest, mark - 1, e) /\ UNCHANGED conn
  BY DEF DeferredDelete, clientVars, serverVars
<1>2. /\ Running /\ mark - 1 \in 0 .. Len(rest)
      /\ e \in Event /\ c \in Clients /\ rest \in Seq(Event)
      /\ SoleRequest(rest, mark - 1) /\ OneDeleteEach(rest)
      /\ conn[c] = "unconnected"
      /\ \A x \in Events(rest) :
           x.sock \in Clients /\ (IsDelete(x) => x.sock # c /\ conn[x.sock] = "unconnected")
      /\ \A x \in Events(rest) : IsRequest(x) =>
           conn[x.sock] = "connected" /\ answers[x.sock] = <<>> /\ x.sock \in Entered(stack)
  BY <1>1, SendingFacts
<1> HIDE DEF e, rest
<1>4. /\ posted' \in Seq(Event) /\ mark' \in 0 .. Len(posted')
      /\ SoleRequest(posted', mark') /\ OneDeleteEach(posted')
      /\ \A x \in Events(posted') : x \in Events(rest) \/ (x = e /\ conn' = conn)
  <2>1. CASE posted' = rest
    BY <1>1, <1>2, <2>1
  <2>2. CASE posted' = Post(rest, mark - 1, e) /\ UNCHANGED conn
    <3>1. /\ posted' \in Seq(Event) /\ Len(posted') = Len(rest) + 1
          /\ SoleRequest(posted', mark - 1) /\ OneDeleteEach(posted')
          /\ Events(posted') = Events(rest) \cup {e}
      BY <1>1, <1>2, <2>2, PostDelete
    <3>2. QED
      BY <1>1, <1>2, <2>2, <3>1
  <2>3. QED
    BY <1>1, <2>1, <2>2
<1>5. /\ conn' \in [Clients -> ConnStates] /\ conn'[c] \in {"unconnected", "destroyed"}
      /\ \A d \in Clients : d # c => conn'[d] = conn[d]
  BY <1>1, <1>2 DEF IInv, TypeOK, ConnStates
<1>6. TypeOK'
  BY <1>1, <1>4, <1>5 DEF IInv, TypeOK
<1>7. FramesOK'
  <2>1. Top.phase = "send"
    BY <1>1 DEF Sending
  <2>2. QED
    BY <1>1, <2>1 DEF IInv, FramesOK, Running, Top, Depth
<1>8. QueueOK'
  BY <1>1, <1>2, <1>4, <1>5 DEF QueueOK, IsRequest, InReadClient
<1>9. DeletedOnce'
  BY <1>1, <1>2, <1>4, <1>5 DEF DeletedOnce, IsRequest
<1>10. SocketsOK' /\ AtMostOneAnswer' /\ NotReentered'
  BY <1>1, <1>2, <1>5 DEF IInv, SocketsOK, InReadClient, AtMostOneAnswer, NotReentered, Running
<1>11. QED
  BY <1>6, <1>7, <1>8, <1>9, <1>10 DEF IInv

-----------------------------------------------------------------------------
(* The theorems *)

(* Each step of each handler preserves the inductive invariant. *)
LEMMA NextIInv ==
  ASSUME IInv, [Next]_vars
  PROVE  IInv'
<1>1. CASE Environment
  BY <1>1, EnvironmentIInv
<1>2. CASE Thread
  <2>1. CASE Poll
    BY <2>1, PollIInv
  <2>2. CASE NextTurn
    BY <2>2, NextTurnIInv
  <2>3. CASE \E c \in Clients : Notify(c)
    BY <2>3, NotifyIInv
  <2>4. CASE RelayRequest
    BY <2>4, RelayRequestIInv
  <2>5. CASE RelayBare \/ RespondUnfound
    BY <2>5, StopIInv DEF RelayBare, RespondUnfound, clientVars, serverVars, queueVars
  <2>6. CASE DeferredDelete
    BY <2>6, DeferredDeleteIInv
  <2>7. CASE RespondArticle \/ RespondFile \/ RespondDownload
    <3>1. Sending /\ IsRequest(Head(posted)) /\ Handled
      BY <2>7 DEF RespondArticle, RespondFile, RespondDownload, Answering, IsRequest, IsDelete
    <3>2. \E a \in Answers : Write(Head(posted).sock, a)
      BY <2>7 DEF RespondArticle, RespondFile, RespondDownload, Answers
    <3>3. quitting' \in BOOLEAN
      BY <2>7 DEF RespondArticle, RespondFile, RespondDownload, Query, IInv, TypeOK
    <3>4. QED
      BY <3>1, <3>2, <3>3, HandledIInv
  <2>8. CASE RelayReturns
    BY <2>8, RelayReturnsIInv
  <2>9. CASE ReadClientReturns
    BY <2>9, ReadClientReturnsIInv
  <2>10. CASE ReadClientReturnsStale
    BY <2>10, ReadClientReturnsStaleIInv
  <2>11. QED
    BY <1>2, <2>1, <2>2, <2>3, <2>4, <2>5, <2>6, <2>7, <2>8, <2>9, <2>10 DEF Thread
<1>3. CASE UNCHANGED vars
  <2>1. UNCHANGED <<conn, wire, gone, sent, stalled, answers, unsent, paused, quitting, stack, posted, mark>>
    BY <1>3 DEF vars
  <2>2. QED
    BY <2>1 DEF IInv, TypeOK, FramesOK, QueueOK, SocketsOK, AtMostOneAnswer, NotReentered,
       DeletedOnce, InReadClient, Running, Top, Depth
<1>4. QED
  BY <1>1, <1>2, <1>3 DEF Next, Ended

(* However the handlers are nested, and whatever the clients do: the invariant of the *)
(* call stack, the event queue and the sockets always holds.                          *)
THEOREM Invariance == Spec => []IInv
<1>1. IInv /\ [Next]_vars => IInv'
  BY NextIInv
<1>2. QED
  BY InitIInv, <1>1, PTL DEF Spec

(* Every variable stays in its range. *)
THEOREM TypeCorrect == Spec => []TypeOK
<1>1. IInv => TypeOK
  BY DEF IInv
<1>2. QED
  BY Invariance, <1>1, PTL

(* No connection is ever answered twice. *)
THEOREM OneAnswer == Spec => []AtMostOneAnswer
<1>1. IInv => AtMostOneAnswer
  BY DEF IInv
<1>2. QED
  BY Invariance, <1>1, PTL

(* No event filter is ever handed a request whose socket has gone. *)
THEOREM RequestsSafe == Spec => []RequestsNameConnectedSockets
<1>1. IInv => RequestsNameConnectedSockets
  BY DEF IInv, QueueOK, RequestsNameConnectedSockets
<1>2. QED
  BY Invariance, <1>1, PTL

(* readClient() and discardClient() do not delete a socket twice. *)
THEOREM OneDelete == Spec => []DeletedOnce
<1>1. IInv => DeletedOnce
  BY DEF IInv
<1>2. QED
  BY Invariance, <1>1, PTL

(* Only the socket of a client that has hung up is deleted under its own readClient(). *)
THEOREM StaleBounded == Spec => []StaleOnlyAfterHangUp
<1>1. IInv => StaleOnlyAfterHangUp
  BY DEF IInv, SocketsOK, StaleOnlyAfterHangUp
<1>2. QED
  BY Invariance, <1>1, PTL

-----------------------------------------------------------------------------
(* Who closes a connection *)

(* In every step a connection is left as it is, or closed by one of the four that may. *)
LEMMA WhoCloses ==
  ASSUME IInv, [Next]_vars, NEW c \in Clients, conn[c] = "connected", conn'[c] # "connected",
         InReadClient(c), ~gone[c]
  PROVE  Running /\ Top.kind = "readClient" /\ Top.sock = c
<1>1. conn \in [Clients -> ConnStates]
  BY DEF IInv, TypeOK
<1>2. CASE Environment
  BY <1>1, <1>2 DEF Environment, Connect, HangUp, Stall, Send, SetPaused
<1>3. ASSUME NEW d \in Clients, Notify(d) PROVE FALSE
  <2> DEFINE below == [stack EXCEPT ![Depth].todo = @ \ {d}]
  <2> HIDE DEF below
  <2>1. CASE incomingConnection(d)
    BY <1>1, <2>1 DEF incomingConnection
  <2>2. CASE CanRead(d) /\ ReadOrBuffer(d, below)
    <3>1. CASE InReadClient(d)
      BY <2>2, <3>1 DEF ReadOrBuffer
    <3>2. CASE ~InReadClient(d)
      BY <1>1, <2>2, <3>2 DEF ReadOrBuffer, readClient, CloseOrDelete, serverVars
    <3>3. QED
      BY <3>1, <3>2
  <2>3. CASE CanHangUp(d) /\ discardClient(d)
    BY <1>1, <2>3 DEF CanHangUp, discardClient
  <2>4. CASE IF conn[d] = "closing" THEN discardClient(d) ELSE UNCHANGED <<conn, queueVars>>
    BY <1>1, <2>4 DEF discardClient
  <2>5. CASE UNCHANGED <<conn, clientVars, serverVars, queueVars>>
    BY <2>5
  <2>6. QED
    BY <1>3, <2>1, <2>2, <2>3, <2>4, <2>5 DEF Notify, below
<1>4. CASE DeferredDelete
  <2>1. conn[Head(posted).sock] # "connected"
    BY <1>4, SendingFacts DEF DeferredDelete
  <2>2. QED
    BY <1>1, <1>4, <2>1 DEF DeferredDelete
<1>5. CASE ReadClientReturns
  BY <1>1, <1>5 DEF ReadClientReturns, PassOver, CloseOrDelete
<1>6. CASE \/ Poll \/ NextTurn \/ RelayRequest \/ RelayBare \/ RespondArticle \/ RespondUnfound
           \/ RespondFile \/ RespondDownload \/ RelayReturns \/ ReadClientReturnsStale
  BY <1>6 DEF Poll, NextTurn, RelayRequest, RelayBare, RespondArticle, RespondUnfound, RespondFile,
     RespondDownload, Handled, RelayReturns, ReadClientReturnsStale
<1>7. CASE UNCHANGED vars
  BY <1>7 DEF vars
<1>8. QED
  BY <1>2, <1>3, <1>4, <1>5, <1>6, <1>7 DEF Next, Thread, Ended

(* A client that waits is not cut off by the handler of another connection. *)
THEOREM ClosedByOwner == Spec => ClosedByItsOwnHandler
<1> DEFINE A == \A c \in Clients :
                  /\ conn[c] = "connected" /\ conn'[c] # "connected"
                  /\ InReadClient(c) /\ ~gone[c]
                  => Running /\ Top.kind = "readClient" /\ Top.sock = c
<1>1. IInv /\ [Next]_vars => [A]_vars
  BY WhoCloses
<1>2. ClosedByItsOwnHandler <=> [][A]_vars
  BY PTL DEF ClosedByItsOwnHandler
<1> HIDE DEF A
<1>3. QED
  BY Invariance, <1>1, <1>2, PTL DEF Spec

-----------------------------------------------------------------------------
(* The server keeps the contract of a connection *)

(* The ways in which one step changes what a connection is, or what was written to it. *)
Moves(c) ==
  \/ /\ answers'[c] = answers[c]
     /\ \/ conn'[c] = conn[c]
        \/ conn[c] = "idle" /\ conn'[c] = "backlog"
        \/ conn[c] = "backlog" /\ conn'[c] \in {"ignored", "connected"}
        \/ conn[c] = "connected" /\ conn'[c] \in {"closing", "unconnected", "destroyed"}
        \/ conn[c] = "closing" /\ conn'[c] = "unconnected"
        \/ conn[c] = "unconnected" /\ conn'[c] = "destroyed"
  \/ /\ conn[c] = "connected" /\ conn'[c] \in {"connected", "closing"}
     /\ answers[c] = <<>> /\ Len(answers'[c]) = 1

OthersStay(c) == \A d \in Clients : d # c => conn'[d] = conn[d] /\ answers'[d] = answers[d]

LEMMA MovesKeepContract ==
  ASSUME IInv, IInv', NEW c \in Clients, Moves(c), OthersStay(c)
  PROVE  [Contract!Next]_<<Phase, Answered>>
<1> DEFINE p == PhaseOf(conn'[c])
           n == Len(answers'[c])
<1>1. /\ Phase = [d \in Clients |-> Phase[d]] /\ Answered = [d \in Clients |-> Answered[d]]
      /\ Phase[c] = PhaseOf(conn[c]) /\ Answered[c] = Len(answers[c])
  BY DEF Phase, Answered
<1>2. Phase' = [Phase EXCEPT ![c] = p] /\ Answered' = [Answered EXCEPT ![c] = n]
  BY <1>1 DEF OthersStay, Phase, Answered
<1> HIDE DEF p, n
<1>3. CASE answers'[c] = answers[c]
  <2>1. Answered' = Answered
    BY <1>1, <1>2, <1>3 DEF n
  <2>2. \/ p = Phase[c]
        \/ Phase[c] = "none" /\ p = "waiting"
        \/ Phase[c] = "waiting" /\ p = "refused"
        \/ Phase[c] = "waiting" /\ p = "open"
        \/ Phase[c] = "open" /\ p = "shut"
        \/ Phase[c] \in {"open", "shut"} /\ p = "freed"
    BY <1>1, <1>3 DEF Moves, PhaseOf, p
  <2>3. CASE p = Phase[c]
    BY <1>1, <1>2, <2>1, <2>3
  <2>4. CASE p # Phase[c]
    BY <1>2, <2>1, <2>2, <2>4 DEF Contract!Next, Contract!Arrive, Contract!Refuse, Contract!Accept,
       Contract!Shut, Contract!Free, Contract!Become
  <2>5. QED
    BY <2>3, <2>4
<1>4. CASE /\ conn[c] = "connected" /\ conn'[c] \in {"connected", "closing"}
           /\ answers[c] = <<>> /\ Len(answers'[c]) = 1
  <2>1. Contract!Count(c)
    BY <1>1, <1>2, <1>4 DEF Contract!Count, n
  <2>2. Phase[c] = "open" /\ (p = "open" \/ p = "shut")
    BY <1>1, <1>4 DEF PhaseOf, p
  <2>3. CASE p = "open"
    <3>1. Phase' = Phase
      BY <1>1, <1>2, <2>2, <2>3
    <3>2. QED
      BY <2>1, <2>2, <3>1 DEF Contract!Next, Contract!Answer
  <2>4. CASE p = "shut"
    BY <1>2, <2>1, <2>2, <2>4 DEF Contract!Next, Contract!AnswerAndShut, Contract!Become
  <2>5. QED
    BY <2>2, <2>3, <2>4
<1>5. QED
  BY <1>3, <1>4 DEF Moves

LEMMA CloseOrDeleteMoves ==
  ASSUME IInv, NEW c \in Clients, NEW pending, CloseOrDelete(c, pending),
         conn[c] \in {"connected", "unconnected"}
  PROVE  /\ \A d \in Clients : d # c => conn'[d] = conn[d]
         /\ conn'[c] \in {"closing", "destroyed"}
         /\ conn'[c] = "closing" <=> conn[c] = "connected" /\ pending
<1>1. conn \in [Clients -> ConnStates]
  BY DEF IInv, TypeOK
<1>2. CASE conn[c] = "connected" /\ pending
  BY <1>1, <1>2 DEF CloseOrDelete
<1>3. CASE ~(conn[c] = "connected" /\ pending)
  BY <1>1, <1>3 DEF CloseOrDelete
<1>4. QED
  BY <1>2, <1>3

(* What a socket that is ready can go through. *)
LEMMA NotifyMoves ==
  ASSUME IInv, NEW c \in Clients, Notify(c)
  PROVE  Moves(c) /\ OthersStay(c)
<1> USE DEF Moves, OthersStay
<1> DEFINE below == [stack EXCEPT ![Depth].todo = @ \ {c}]
<1> HIDE DEF below
<1>1. conn \in [Clients -> ConnStates]
  BY DEF IInv, TypeOK
<1>2. CASE incomingConnection(c)
  BY <1>1, <1>2 DEF incomingConnection, serverVars
<1>3. CASE CanRead(c) /\ ReadOrBuffer(c, below)
  <2>1. CASE InReadClient(c)
    BY <1>3, <2>1 DEF ReadOrBuffer, serverVars
  <2>2. CASE ~InReadClient(c)
    <3>1. conn[c] = "connected" /\ answers[c] = <<>> /\ readClient(c, below)
      BY <1>3, <2>2 DEF ReadOrBuffer, CanRead, IInv, SocketsOK, Notify
    <3>2. CASE CloseOrDelete(c, unsent[c]) /\ UNCHANGED serverVars
      BY <3>1, <3>2, CloseOrDeleteMoves DEF serverVars
    <3>3. CASE wire[c] \in DOMAIN Immediate /\ Write(c, Immediate[wire[c]]) /\ CloseOrDelete(c, TRUE)
      <4>1. Immediate[wire[c]] \in Answers
        BY <3>3, ImmediateAnswers
      <4>2. Len(answers'[c]) = 1 /\ \A d \in Clients : d # c => answers'[d] = answers[d]
        BY <3>1, <3>3, <4>1, WriteFirst
      <4>3. QED
        BY <3>1, <3>3, <4>2, CloseOrDeleteMoves
    <3>4. CASE UNCHANGED <<conn, serverVars>>
      BY <3>4 DEF serverVars
    <3>5. QED
      BY <3>1, <3>2, <3>3, <3>4 DEF readClient
  <2>3. QED
    BY <2>1, <2>2
<1>4. CASE CanHangUp(c) /\ discardClient(c) /\ UNCHANGED serverVars
  BY <1>1, <1>4 DEF CanHangUp, discardClient, serverVars
<1>5. CASE /\ IF conn[c] = "closing" THEN discardClient(c) ELSE UNCHANGED <<conn, queueVars>>
           /\ UNCHANGED answers
  BY <1>1, <1>5 DEF discardClient
<1>6. CASE UNCHANGED <<conn, serverVars>>
  BY <1>6 DEF serverVars
<1>7. QED
  BY <1>2, <1>3, <1>4, <1>5, <1>6 DEF Notify, below

(* What a connection goes through when its answer is written, or its socket deleted. *)
LEMMA SendingMoves ==
  ASSUME IInv, NEW a \in Answers, Sending, IsRequest(Head(posted)),
         Write(Head(posted).sock, a), UNCHANGED conn
  PROVE  Head(posted).sock \in Clients /\ Moves(Head(posted).sock) /\ OthersStay(Head(posted).sock)
<1> DEFINE c == Head(posted).sock
<1>1. c \in Clients /\ conn[c] = "connected" /\ answers[c] = <<>>
  BY SendingFacts
<1> HIDE DEF c
<1>2. Write(c, a) 
  BY DEF c
<1>3. Len(answers'[c]) = 1 /\ \A d \in Clients : d # c => answers'[d] = answers[d]
  BY <1>1, <1>2, WriteFirst
<1>4. Moves(c) /\ OthersStay(c)
  BY <1>1, <1>3 DEF Moves, OthersStay
<1>5. QED
  BY <1>1, <1>4 DEF c

(* Every step of the server is a step of the contract, or none of its business. *)
LEMMA NextKeepsContract ==
  ASSUME IInv, IInv', [Next]_vars
  PROVE  [Contract!Next]_<<Phase, Answered>>
<1>1. conn \in [Clients -> ConnStates]
  BY DEF IInv, TypeOK
<1>2. ASSUME UNCHANGED <<conn, answers>> PROVE [Contract!Next]_<<Phase, Answered>>
  BY <1>2 DEF Phase, Answered
<1>3. ASSUME NEW c \in Clients, Connect(c) PROVE Moves(c) /\ OthersStay(c)
  BY <1>1, <1>3 DEF Connect, Moves, OthersStay, serverVars
<1>4. CASE Environment
  BY <1>2, <1>3, <1>4, MovesKeepContract DEF Environment, HangUp, Stall, Send, SetPaused, serverVars
<1>5. CASE \E c \in Clients : Notify(c)
  BY <1>5, NotifyMoves, MovesKeepContract
<1>6. CASE RelayRequest
  <2>1. Sending /\ IsRequest(Head(posted)) /\ UNCHANGED conn
    BY <1>6 DEF RelayRequest, IsRequest, IsDelete
  <2>2. Write(Head(posted).sock, "css") \/ UNCHANGED answers
    BY <1>6 DEF RelayRequest, serverVars
  <2>3. QED
    BY <1>2, <2>1, <2>2, SendingMoves, MovesKeepContract DEF Answers
<1>7. CASE RespondArticle \/ RespondFile \/ RespondDownload
  <2>1. Sending /\ IsRequest(Head(posted)) /\ UNCHANGED conn
    BY <1>7 DEF RespondArticle, RespondFile, RespondDownload, Answering, Handled, IsRequest, IsDelete
  <2>2. \E a \in Answers : Write(Head(posted).sock, a)
    BY <1>7 DEF RespondArticle, RespondFile, RespondDownload, Answers
  <2>3. QED
    BY <2>1, <2>2, SendingMoves, MovesKeepContract
<1>8. CASE DeferredDelete
  <2> DEFINE c == Head(posted).sock
  <2>1. c \in Clients /\ conn[c] = "unconnected"
    BY <1>8, SendingFacts DEF DeferredDelete
  <2>2. Moves(c) /\ OthersStay(c)
    BY <1>1, <1>8, <2>1 DEF DeferredDelete, Moves, OthersStay, serverVars
  <2>3. QED
    BY <2>1, <2>2, MovesKeepContract
<1>9. CASE ReadClientReturns
  <2> DEFINE c == Top.sock
  <2>1. c \in Clients /\ conn[c] \in {"connected", "unconnected"}
    BY <1>9, TopFacts DEF ReadClientReturns, PassOver, IInv, SocketsOK, InReadClient
  <2>2. CloseOrDelete(c, unsent[c]) /\ UNCHANGED answers
    BY <1>9 DEF ReadClientReturns, serverVars
  <2> HIDE DEF c
  <2>3. Moves(c) /\ OthersStay(c)
    BY <2>1, <2>2, CloseOrDeleteMoves DEF Moves, OthersStay
  <2>4. QED
    BY <2>1, <2>3, MovesKeepContract
<1>10. CASE \/ Poll \/ NextTurn \/ RelayBare \/ RespondUnfound \/ RelayReturns
            \/ ReadClientReturnsStale \/ UNCHANGED vars
  BY <1>2, <1>10 DEF Poll, NextTurn, RelayBare, RespondUnfound, RelayReturns,
     ReadClientReturnsStale, serverVars, vars
<1>11. QED
  BY <1>4, <1>5, <1>6, <1>7, <1>8, <1>9, <1>10 DEF Next, Thread, Ended

(* The server implements the contract of its connections. *)
THEOREM Refinement == Spec => ImplementsContract
<1>1. Init => Contract!Init
  BY DEF Init, Contract!Init, Phase, Answered, PhaseOf
<1>2. IInv /\ IInv' /\ [Next]_vars => [Contract!Next]_<<Phase, Answered>>
  BY NextKeepsContract
<1>3. QED
  BY Invariance, <1>1, <1>2, PTL DEF Spec, ImplementsContract, Contract!Spec, Contract!contractVars
=============================================================================
