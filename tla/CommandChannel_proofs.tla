----------------------- MODULE CommandChannel_proofs -----------------------
(***************************************************************************)
(* Proofs about CommandChannel, for any clients, any addresses, and any    *)
(* streams of commands: that nothing of what is read is lost.              *)
(***************************************************************************)
EXTENDS CommandChannel, NumberFacts, SequenceTheorems, TLAPS

-----------------------------------------------------------------------------
(* Lines and pieces of text *)

LEMMA FirstEndFacts ==
  ASSUME NEW t \in Seq(Bytes), Ends(t) # {}
  PROVE  FirstEnd(t) \in 1..(Len(t) - 1)
<1>1. Ends(t) \subseteq Nat
  BY DEF Ends
<1>2. FirstEnd(t) \in Ends(t)
  BY <1>1, LeastNumber DEF FirstEnd
<1>3. QED
  BY <1>2 DEF Ends

(* What is taken off the front and what is left are the whole. *)
LEMMA CutInTwo ==
  ASSUME NEW t \in Seq(Bytes), NEW k \in 0..Len(t)
  PROVE  /\ SubSeq(t, 1, k) \in Seq(Bytes) /\ SubSeq(t, k + 1, Len(t)) \in Seq(Bytes)
         /\ SubSeq(t, 1, k) \o SubSeq(t, k + 1, Len(t)) = t
<1>1. SubSeq(t, 1, k) \in Seq(Bytes) /\ SubSeq(t, k + 1, Len(t)) \in Seq(Bytes)
  OBVIOUS
<1>2. SubSeq(t, 1, k) \o SubSeq(t, k + 1, Len(t)) = SubSeq(t, 1, Len(t))
  <2>1. 1 \in 1..(Len(t) + 1) /\ k \in (1 - 1)..Len(t) /\ Len(t) \in k..Len(t)
    OBVIOUS
  <2>2. QED
    BY <2>1, ConcatAdjacentSubSeq, Zenon
<1>3. QED
  BY <1>1, <1>2, SubSeqFull

LEMMA ConcatType ==
  ASSUME NEW s \in Seq(Bytes), NEW t \in Seq(Bytes)
  PROVE  s \o t \in Seq(Bytes)
OBVIOUS

LEMMA ConcatItems ==
  ASSUME NEW s \in Seq(Bytes), NEW t \in Seq(Bytes)
  PROVE  /\ s \o t \in Seq(Bytes) /\ Len(s \o t) = Len(s) + Len(t)
         /\ \A i \in 1..(Len(s) + Len(t)) :
              (s \o t)[i] = IF i <= Len(s) THEN s[i] ELSE t[i - Len(s)]
OBVIOUS

LEMMA Associative ==
  ASSUME NEW s \in Seq(Bytes), NEW t \in Seq(Bytes), NEW u \in Seq(Bytes)
  PROVE  (s \o t) \o u = s \o (t \o u)
<1> DEFINE st == s \o t
           tu == t \o u
           l == st \o u
           r == s \o tu
<1>1. /\ st \in Seq(Bytes) /\ Len(st) = Len(s) + Len(t)
      /\ \A i \in 1..(Len(s) + Len(t)) : st[i] = IF i <= Len(s) THEN s[i] ELSE t[i - Len(s)]
  BY ConcatItems
<1>2. /\ tu \in Seq(Bytes) /\ Len(tu) = Len(t) + Len(u)
      /\ \A i \in 1..(Len(t) + Len(u)) : tu[i] = IF i <= Len(t) THEN t[i] ELSE u[i - Len(t)]
  BY ConcatItems
<1> HIDE DEF st, tu
<1>3. /\ l \in Seq(Bytes) /\ Len(l) = Len(st) + Len(u)
      /\ \A i \in 1..(Len(st) + Len(u)) : l[i] = IF i <= Len(st) THEN st[i] ELSE u[i - Len(st)]
  BY <1>1, ConcatItems, Zenon
<1>4. /\ r \in Seq(Bytes) /\ Len(r) = Len(s) + Len(tu)
      /\ \A i \in 1..(Len(s) + Len(tu)) : r[i] = IF i <= Len(s) THEN s[i] ELSE tu[i - Len(s)]
  BY <1>2, ConcatItems, Zenon
<1> HIDE DEF l, r
<1>5. Len(s) \in Nat /\ Len(t) \in Nat /\ Len(u) \in Nat
  OBVIOUS
<1>6. Len(l) = Len(s) + Len(t) + Len(u) /\ Len(r) = Len(l)
  BY <1>1, <1>2, <1>3, <1>4, <1>5
<1>7. ASSUME NEW i \in 1..Len(l) PROVE l[i] = r[i]
  <2>1. CASE i <= Len(s)
    <3>1. i \in 1..(Len(st) + Len(u)) /\ i <= Len(st) /\ i \in 1..(Len(s) + Len(t))
      BY <1>1, <1>5, <1>6, <2>1
    <3>2. l[i] = st[i] /\ st[i] = s[i]
      BY <1>1, <1>3, <2>1, <3>1
    <3>3. i \in 1..(Len(s) + Len(tu))
      BY <1>2, <1>5, <1>6
    <3>4. r[i] = s[i]
      BY <1>4, <2>1, <3>3
    <3>5. QED
      BY <3>2, <3>4
  <2>2. CASE i > Len(s) /\ i <= Len(s) + Len(t)
    <3>1. l[i] = t[i - Len(s)]
      BY <1>1, <1>3, <1>5, <1>6, <2>2
    <3>2. r[i] = tu[i - Len(s)] /\ i - Len(s) \in 1..Len(t)
      BY <1>2, <1>4, <1>5, <1>6, <2>2
    <3>3. tu[i - Len(s)] = t[i - Len(s)]
      <4>1. \A j \in 1..Len(t) : tu[j] = t[j]
        BY <1>2, <1>5
      <4>2. QED
        BY <3>2, <4>1
    <3>4. QED
      BY <3>1, <3>2, <3>3
  <2>3. CASE i > Len(s) + Len(t)
    <3>1. l[i] = u[i - (Len(s) + Len(t))]
      BY <1>1, <1>3, <1>5, <1>6, <2>3
    <3>2. /\ r[i] = tu[i - Len(s)]
          /\ i - Len(s) \in 1..(Len(t) + Len(u)) /\ i - Len(s) > Len(t)
      BY <1>2, <1>4, <1>5, <1>6, <2>3
    <3>3. tu[i - Len(s)] = u[(i - Len(s)) - Len(t)]
      BY <1>2, <1>5, <3>2
    <3>4. (i - Len(s)) - Len(t) = i - (Len(s) + Len(t))
      BY <1>5, <1>6
    <3>5. QED
      BY <3>1, <3>2, <3>3, <3>4
  <2>4. QED
    BY <1>5, <1>6, <2>1, <2>2, <2>3
<1>8. l = r
  BY <1>3, <1>4, <1>6, <1>7
<1>9. QED
  BY <1>8 DEF l, r, st, tu

-----------------------------------------------------------------------------
(* The replies to a text *)

LEMMA LineType ==
  ASSUME NEW t \in Seq(Bytes), NEW n \in 1..Len(t)
  PROVE  Accepted(LineAt(t, n)) \in BOOLEAN
BY DEF Accepted

LEMMA RepliesEquation ==
  ASSUME NEW t \in Seq(Bytes)
  PROVE  /\ RepliesUpTo(t) \in [0..Len(t) -> Seq(BOOLEAN)]
         /\ RepliesUpTo(t)[0] = <<>>
         /\ \A n \in 1..Len(t) :
              RepliesUpTo(t)[n] = IF n \in Ends(t) /\ LineAt(t, n) # <<>>
                                  THEN Append(RepliesUpTo(t)[n - 1], Accepted(LineAt(t, n)))
                                  ELSE RepliesUpTo(t)[n - 1]
<1> DEFINE X == Seq(BOOLEAN)
           next(n, x) == IF n \in Ends(t) /\ LineAt(t, n) # <<>>
                         THEN Append(x, Accepted(LineAt(t, n))) ELSE x
           step == [n \in 1..Len(t) |-> [x \in X |-> next(n, x)]]
           up == RepliesUpTo(t)
<1>1. Len(t) \in Nat
  OBVIOUS
<1>2. \A n \in 1..Len(t), x \in X : next(n, x) \in X
  <2> TAKE n \in 1..Len(t), x \in X
  <2>1. Accepted(LineAt(t, n)) \in BOOLEAN
    BY LineType
  <2>2. Append(x, Accepted(LineAt(t, n))) \in X
    BY <2>1
  <2>3. QED
    BY <2>2
<1>3. <<>> \in X
  OBVIOUS
<1> HIDE DEF X, next
<1>4. step \in Steps(X, Len(t))
  BY <1>2 DEF Steps
<1>5. \A n \in 1..Len(t), x \in X : step[n][x] = next(n, x)
  OBVIOUS
<1> HIDE DEF step
<1>6. PICK f : Recursive(f, X, <<>>, Len(t), step)
  BY <1>1, <1>3, <1>4, Recursion, Zenon
<1>7. f \in [0..Len(t) -> X] /\ f[0] = <<>> /\ \A n \in 1..Len(t) : f[n - 1] \in X /\ f[n] = next(n, f[n - 1])
  BY <1>1, <1>5, <1>6 DEF Recursive
<1>8. f = [n \in 0..Len(t) |-> IF n = 0 THEN <<>> ELSE next(n, f[n - 1])]
  <2>1. \A n \in 0..Len(t) : n # 0 => n \in 1..Len(t)
    BY <1>1
  <2>2. \A n \in 0..Len(t) : f[n] = IF n = 0 THEN <<>> ELSE next(n, f[n - 1])
    BY <1>7, <2>1
  <2>3. QED
    BY <1>7, <2>2
<1>9. up = [n \in 0..Len(t) |-> IF n = 0 THEN <<>> ELSE next(n, up[n - 1])]
  BY <1>8, Zenon DEF RepliesUpTo, next
<1> HIDE DEF up
<1>10. up[0] = <<>> /\ \A n \in 1..Len(t) : up[n] = next(n, up[n - 1])
  BY <1>1, <1>9
<1>11. \A n \in 0..Len(t) : up[n] \in X
  <2> DEFINE P == {n \in 0..Len(t) : up[n] \in X}
  <2>1. 0 \in P
    BY <1>1, <1>3, <1>10
  <2>2. ASSUME NEW n \in 0..(Len(t) - 1), n \in P PROVE n + 1 \in P
    BY <1>1, <1>2, <1>10, <2>2
  <2> HIDE DEF P
  <2>3. \A n \in 0..Len(t) : n \in P
    BY <1>1, <2>1, <2>2, Upwards
  <2>4. QED
    BY <2>3 DEF P
<1>12. up \in [0..Len(t) -> X]
  BY <1>9, <1>11
<1>13. QED
  BY <1>10, <1>12 DEF up, X, next

(* A line starts behind the last end before its own. *)
LEMMA LineStartFacts ==
  ASSUME NEW t \in Seq(Bytes), NEW n \in 1..Len(t)
  PROVE  /\ LineStart(t, n) \in 0..n
         /\ LineStart(t, n) = 0 \/ \E e \in Ends(t) : e < n /\ LineStart(t, n) = e + 1
         /\ \A e \in Ends(t) : e < n => e + 1 <= LineStart(t, n)
<1> DEFINE starts == {0} \cup {i + 1 : i \in {e \in Ends(t) : e < n}}
<1>1. starts \subseteq 0..n /\ starts # {}
  BY DEF Ends
<1> HIDE DEF starts
<1>2. \E start \in starts : \A i \in starts : i <= start
  <2>1. n \in Nat
    OBVIOUS
  <2>2. QED
    BY <1>1, <2>1, GreatestNumber, Zenon
<1>3. LineStart(t, n) \in starts /\ \A i \in starts : i <= LineStart(t, n)
  BY <1>2 DEF LineStart, starts
<1>4. QED
  BY <1>1, <1>3 DEF starts

LEMMA LineStartIs ==
  ASSUME NEW t \in Seq(Bytes), NEW n \in 1..Len(t), NEW b \in 0..n,
         b = 0 \/ (b - 1 \in Ends(t) /\ b - 1 < n),
         \A e \in Ends(t) : e < n => e + 1 <= b
  PROVE  LineStart(t, n) = b
<1>1. /\ LineStart(t, n) \in 0..n
      /\ LineStart(t, n) = 0 \/ \E e \in Ends(t) : e < n /\ LineStart(t, n) = e + 1
      /\ \A e \in Ends(t) : e < n => e + 1 <= LineStart(t, n)
  BY LineStartFacts
<1>2. LineStart(t, n) <= b
  BY <1>1
<1>3. b <= LineStart(t, n)
  BY <1>1
<1>4. QED
  BY <1>1, <1>2, <1>3

(* Texts that are the same up to a place have the same lines there, and the same replies. *)
LEMMA SameUpTo ==
  ASSUME NEW t \in Seq(Bytes), NEW u \in Seq(Bytes), NEW k \in 0..Len(t), k <= Len(u),
         \A i \in 1..k : t[i] = u[i] /\ (i \in Ends(t) <=> i \in Ends(u))
  PROVE  /\ \A n \in 1..k : LineAt(t, n) = LineAt(u, n)
         /\ \A n \in 0..k : RepliesUpTo(t)[n] = RepliesUpTo(u)[n]
<1>1. k \in Nat /\ k \in 0..Len(u) /\ Len(t) \in Nat /\ Len(u) \in Nat
  OBVIOUS
<1>2. ASSUME NEW n \in 1..k PROVE LineAt(t, n) = LineAt(u, n)
  <2>1. n \in 1..Len(t) /\ n \in 1..Len(u)
    BY <1>1
  <2>2. {e \in Ends(t) : e < n} = {e \in Ends(u) : e < n}
    BY <1>1 DEF Ends
  <2>3. LineStart(t, n) = LineStart(u, n) /\ LineStart(t, n) \in 0..n
    BY <2>1, <2>2, LineStartFacts DEF LineStart
  <2>4. \A i \in (LineStart(t, n) + 1)..(n - 1) : i \in 1..k
    BY <1>1, <2>3
  <2>5. SubSeq(t, LineStart(t, n) + 1, n - 1) = SubSeq(u, LineStart(t, n) + 1, n - 1)
    BY <2>3, <2>4
  <2>6. QED
    BY <2>3, <2>5 DEF LineAt
<1>3. \A n \in 0..k : RepliesUpTo(t)[n] = RepliesUpTo(u)[n]
  <2> DEFINE P == {n \in 0..k : RepliesUpTo(t)[n] = RepliesUpTo(u)[n]}
  <2>1. 0 \in P
    BY <1>1, RepliesEquation
  <2>2. ASSUME NEW n \in 0..(k - 1), n \in P PROVE n + 1 \in P
    <3>1. n + 1 \in 1..k /\ n + 1 \in 1..Len(t) /\ n + 1 \in 1..Len(u) /\ (n + 1) - 1 = n
      BY <1>1
    <3>2. (n + 1 \in Ends(t) <=> n + 1 \in Ends(u)) /\ LineAt(t, n + 1) = LineAt(u, n + 1)
      BY <1>2, <3>1
    <3>3. RepliesUpTo(t)[n + 1] = IF n + 1 \in Ends(t) /\ LineAt(t, n + 1) # <<>>
                                  THEN Append(RepliesUpTo(t)[n], Accepted(LineAt(t, n + 1)))
                                  ELSE RepliesUpTo(t)[n]
      BY <3>1, RepliesEquation
    <3>4. RepliesUpTo(u)[n + 1] = IF n + 1 \in Ends(u) /\ LineAt(u, n + 1) # <<>>
                                  THEN Append(RepliesUpTo(u)[n], Accepted(LineAt(u, n + 1)))
                                  ELSE RepliesUpTo(u)[n]
      BY <3>1, RepliesEquation
    <3>5. RepliesUpTo(t)[n + 1] = RepliesUpTo(u)[n + 1]
      BY <2>2, <3>2, <3>3, <3>4
    <3>6. QED
      BY <3>1, <3>5
  <2> HIDE DEF P
  <2>3. \A n \in 0..k : n \in P
    BY <1>1, <2>1, <2>2, Upwards
  <2>4. QED
    BY <2>3 DEF P
<1>4. QED
  BY <1>2, <1>3

(* Replies are only added to. *)
Begins(s, t) == Len(s) <= Len(t) /\ \A i \in 1..Len(s) : s[i] = t[i]

LEMMA BeginsAppend ==
  ASSUME NEW s \in Seq(BOOLEAN), NEW t \in Seq(BOOLEAN), Begins(s, t), NEW b \in BOOLEAN
  PROVE  Begins(s, Append(t, b))
BY DEF Begins

LEMMA RepliesGrow ==
  ASSUME NEW t \in Seq(Bytes), NEW k \in 0..Len(t), NEW m \in k..Len(t)
  PROVE  /\ Begins(RepliesUpTo(t)[k], RepliesUpTo(t)[m])
         /\ (\A e \in Ends(t) : e <= k \/ e > m) => RepliesUpTo(t)[m] = RepliesUpTo(t)[k]
<1> DEFINE r(n) == RepliesUpTo(t)[k + n]
           more == m - k
           P == {n \in 0..more : /\ Begins(r(0), r(n))
                                 /\ (\A e \in Ends(t) : e <= k \/ e > m) => r(n) = r(0)}
<1>1. more \in Nat /\ k \in Nat /\ \A n \in 0..more : k + n \in 0..Len(t) /\ k + n <= m
  OBVIOUS
<1>2. \A n \in 0..more : r(n) \in Seq(BOOLEAN)
  BY <1>1, RepliesEquation
<1>3. 0 \in P
  BY <1>1 DEF Begins
<1>4. ASSUME NEW n \in 0..(more - 1), n \in P PROVE n + 1 \in P
  <2>1. k + (n + 1) \in 1..Len(t) /\ k + (n + 1) - 1 = k + n /\ n + 1 \in 0..more /\ n \in 0..more /\ 0 \in 0..more
    BY <1>1
  <2>2. r(n + 1) = IF k + (n + 1) \in Ends(t) /\ LineAt(t, k + (n + 1)) # <<>>
                   THEN Append(r(n), Accepted(LineAt(t, k + (n + 1)))) ELSE r(n)
    BY <2>1, RepliesEquation
  <2>3. r(n) \in Seq(BOOLEAN) /\ r(0) \in Seq(BOOLEAN) /\ Accepted(LineAt(t, k + (n + 1))) \in BOOLEAN
    BY <1>2, <2>1, LineType
  <2>4. Begins(r(0), r(n))
    BY <1>4
  <2> HIDE DEF r
  <2>5. Begins(r(0), r(n + 1))
    BY <2>2, <2>3, <2>4, BeginsAppend, Zenon
  <2>6. (\A e \in Ends(t) : e <= k \/ e > m) => r(n + 1) = r(0)
    <3>1. (\A e \in Ends(t) : e <= k \/ e > m) => k + (n + 1) \notin Ends(t)
      BY <1>1, <2>1
    <3>2. QED
      BY <1>4, <2>2, <3>1
  <2>7. QED
    BY <2>1, <2>5, <2>6
<1> HIDE DEF P, more
<1>5. more \in P
  <2>1. \A n \in 0..more : n \in P
    BY <1>1, <1>3, <1>4, Upwards
  <2>2. QED
    BY <1>1, <2>1
<1>6. r(more) = RepliesUpTo(t)[m] /\ r(0) = RepliesUpTo(t)[k]
  BY <1>1 DEF more
<1>7. QED
  BY <1>5, <1>6 DEF P

(* A text that ends with a line may be followed by any other: its ends stay, and so do its *)
(* lines and replies.                                                                      *)
Cut(t) == t = <<>> \/ Len(t) - 1 \in Ends(t)

LEMMA CutEnds ==
  ASSUME NEW a \in Seq(Bytes), NEW b \in Seq(Bytes), Cut(a)
  PROVE  /\ \A i \in 1..Len(a) : (a \o b)[i] = a[i] /\ (i \in Ends(a) <=> i \in Ends(a \o b))
         /\ \A i \in 1..Len(b) : (a \o b)[Len(a) + i] = b[i] /\ (i \in Ends(b) <=> Len(a) + i \in Ends(a \o b))
<1> DEFINE ab == a \o b
<1>1. /\ ab \in Seq(Bytes) /\ Len(ab) = Len(a) + Len(b) /\ Len(a) \in Nat /\ Len(b) \in Nat
      /\ \A i \in 1..(Len(a) + Len(b)) : ab[i] = IF i <= Len(a) THEN a[i] ELSE b[i - Len(a)]
  BY ConcatItems
<1> HIDE DEF ab
<1>2. \A i \in 1..Len(a) : ab[i] = a[i]
  BY <1>1
<1>3. \A i \in 1..Len(b) : ab[Len(a) + i] = b[i]
  <2> TAKE i \in 1..Len(b)
  <2>1. Len(a) + i \in 1..(Len(a) + Len(b)) /\ ~(Len(a) + i <= Len(a)) /\ (Len(a) + i) - Len(a) = i
    BY <1>1
  <2>2. QED
    BY <1>1, <2>1
<1>4. ASSUME NEW i \in 1..Len(a) PROVE i \in Ends(a) <=> i \in Ends(ab)
  <2>1. CASE i < Len(a)
    <3>1. i + 1 \in 1..Len(a)
      BY <1>1, <2>1
    <3>2. QED
      BY <1>1, <1>2, <2>1, <3>1 DEF Ends
  <2>2. CASE i = Len(a)
    <3>1. a # <<>>
      BY <1>1, <2>2
    <3>2. a[Len(a)] = "LF"
      BY <1>1, <3>1 DEF Cut, Ends
    <3>3. QED
      BY <1>2, <2>2, <3>2 DEF Ends
  <2>3. QED
    BY <1>1, <2>1, <2>2
<1>5. ASSUME NEW i \in 1..Len(b) PROVE i \in Ends(b) <=> Len(a) + i \in Ends(ab)
  <2>1. /\ Len(a) + i \in 1..Len(ab) /\ (i < Len(b) <=> Len(a) + i < Len(ab))
        /\ (Len(a) + i) + 1 = Len(a) + (i + 1) /\ (i < Len(b) => i + 1 \in 1..Len(b))
    BY <1>1
  <2>2. QED
    BY <1>3, <2>1 DEF Ends
<1>6. QED
  BY <1>2, <1>3, <1>4, <1>5 DEF ab

LEMMA CutReplies ==
  ASSUME NEW a \in Seq(Bytes), NEW b \in Seq(Bytes), Cut(a)
  PROVE  /\ RepliesUpTo(a \o b)[Len(a)] = Replies(a)
         /\ Begins(Replies(a), Replies(a \o b))
         /\ Ends(b) = {} => Replies(a \o b) = Replies(a)
         /\ Empty(a) => Empty(a \o b)
<1> DEFINE ab == a \o b
<1>1. ab \in Seq(Bytes) /\ Len(ab) = Len(a) + Len(b) /\ Len(a) \in Nat /\ Len(b) \in Nat
  BY ConcatItems
<1>2. /\ \A i \in 1..Len(a) : a[i] = ab[i] /\ (i \in Ends(a) <=> i \in Ends(ab))
      /\ \A i \in 1..Len(b) : i \in Ends(b) <=> Len(a) + i \in Ends(ab)
  BY CutEnds
<1> HIDE DEF ab
<1>3. /\ \A n \in 1..Len(a) : LineAt(a, n) = LineAt(ab, n)
      /\ \A n \in 0..Len(a) : RepliesUpTo(a)[n] = RepliesUpTo(ab)[n]
  <2>1. Len(a) \in 0..Len(a) /\ Len(a) <= Len(ab)
    BY <1>1
  <2>2. QED
    BY <1>1, <1>2, <2>1, SameUpTo
<1>4. RepliesUpTo(ab)[Len(a)] = Replies(a)
  BY <1>1, <1>3 DEF Replies
<1>5. /\ Begins(RepliesUpTo(ab)[Len(a)], RepliesUpTo(ab)[Len(ab)])
      /\ (\A e \in Ends(ab) : e <= Len(a) \/ e > Len(ab)) =>
           RepliesUpTo(ab)[Len(ab)] = RepliesUpTo(ab)[Len(a)]
  <2>1. Len(a) \in 0..Len(ab) /\ Len(ab) \in Len(a)..Len(ab)
    BY <1>1
  <2>2. QED
    BY <1>1, <2>1, RepliesGrow
<1>6. ASSUME Ends(b) = {}, NEW e \in Ends(ab) PROVE e <= Len(a)
  <2>1. e \in Int /\ 1 <= e /\ e <= Len(a) + Len(b)
    BY <1>1 DEF Ends
  <2>2. e - Len(a) \in 1..Len(b) => e - Len(a) \in Ends(b)
    <3>1. Len(a) + (e - Len(a)) = e
      BY <1>1, <2>1
    <3>2. QED
      BY <1>2, <3>1
  <2>3. QED
    BY <1>1, <1>6, <2>1, <2>2
<1>7. Empty(a) => Empty(ab)
  BY <1>2, <1>3 DEF Empty, Ends
<1>8. QED
  BY <1>4, <1>5, <1>6, <1>7 DEF ab, Replies

LEMMA OneMoreLine ==
  ASSUME NEW a \in Seq(Bytes), NEW b \in Seq(Bytes), Cut(a), Ends(b) = {Len(b) - 1}
  PROVE  LET line == SubSeq(b, 1, Len(b) - 2) IN
         /\ Cut(a \o b)
         /\ Replies(a \o b) = IF line = <<>> THEN Replies(a) ELSE Append(Replies(a), Accepted(line))
         /\ line = <<>> => Empty(a \o b)
<1> DEFINE ab == a \o b
           line == SubSeq(b, 1, Len(b) - 2)
           n == Len(a) + (Len(b) - 1)
<1>1. ab \in Seq(Bytes) /\ Len(ab) = Len(a) + Len(b) /\ Len(a) \in Nat /\ Len(b) \in Nat
  BY ConcatItems
<1>2. /\ \A i \in 1..Len(a) : a[i] = ab[i] /\ (i \in Ends(a) <=> i \in Ends(ab))
      /\ \A i \in 1..Len(b) : ab[Len(a) + i] = b[i] /\ (i \in Ends(b) <=> Len(a) + i \in Ends(ab))
  BY CutEnds
<1> HIDE DEF ab
<1>3. Len(b) - 1 \in 1..Len(b) /\ Len(b) - 1 < Len(b)
  BY DEF Ends
<1>4. n \in Ends(ab) /\ n \in 1..Len(ab) /\ n = Len(ab) - 1
  BY <1>1, <1>2, <1>3
<1>5. ASSUME NEW e \in Ends(ab), e # n PROVE e \in Ends(a) /\ e + 1 <= Len(a)
  <2>1. e \in Int /\ 1 <= e /\ e <= Len(a) + Len(b)
    BY <1>1 DEF Ends
  <2>2. e <= Len(a)
    <3>1. SUFFICES ASSUME e > Len(a) PROVE FALSE
      BY <1>1, <2>1
    <3>2. e - Len(a) \in 1..Len(b) /\ Len(a) + (e - Len(a)) = e
      BY <1>1, <2>1, <3>1
    <3>3. e - Len(a) \in Ends(b)
      BY <1>2, <3>2
    <3>4. QED
      BY <1>1, <1>5, <2>1, <3>3
  <2>3. e \in Ends(a)
    BY <1>2, <2>1, <2>2
  <2>4. QED
    BY <1>1, <2>3 DEF Ends
<1>6. LineStart(ab, n) = Len(a)
  <2>1. Len(a) = 0 \/ (Len(a) - 1 \in Ends(ab) /\ Len(a) - 1 < n)
    <3>1. CASE a = <<>>
      BY <3>1
    <3>2. CASE Len(a) - 1 \in Ends(a)
      <4>1. Len(a) - 1 \in 1..Len(a)
        BY <3>2 DEF Ends
      <4>2. QED
        BY <1>1, <1>2, <1>3, <3>2, <4>1
    <3>3. QED
      BY <3>1, <3>2 DEF Cut
  <2>2. Len(a) \in 0..n /\ \A e \in Ends(ab) : e < n => e + 1 <= Len(a)
    BY <1>1, <1>3, <1>4, <1>5
  <2>3. QED
    BY <1>1, <1>4, <2>1, <2>2, LineStartIs
<1>7. LineAt(ab, n) = line
  <2>1. \A i \in 1..(Len(b) - 2) : ab[Len(a) + i] = b[i]
    BY <1>1, <1>2
  <2>2. (n - 1) - (Len(a) + 1) + 1 = Len(b) - 2
    BY <1>1
  <2>3. SubSeq(ab, Len(a) + 1, n - 1) = SubSeq(b, 1, Len(b) - 2)
    BY <1>1, <1>3, <2>1, <2>2
  <2>4. QED
    BY <1>6, <2>3 DEF LineAt
<1>8. Cut(ab)
  BY <1>1, <1>4 DEF Cut
<1>9. line = <<>> => Empty(ab)
  BY <1>4, <1>7 DEF Empty
<1> HIDE DEF line
<1>10. RepliesUpTo(ab)[n - 1] = Replies(a)
  <2>1. Len(a) \in 0..Len(ab) /\ n - 1 \in Len(a)..Len(ab)
    BY <1>1, <1>3, <1>4
  <2>2. \A e \in Ends(ab) : e <= Len(a) \/ e > n - 1
    BY <1>1, <1>4, <1>5, <1>3 DEF Ends
  <2>3. RepliesUpTo(ab)[n - 1] = RepliesUpTo(ab)[Len(a)]
    BY <1>1, <2>1, <2>2, RepliesGrow
  <2>4. QED
    BY <2>3, CutReplies DEF ab
<1>11. RepliesUpTo(ab)[n] = IF line = <<>> THEN Replies(a) ELSE Append(Replies(a), Accepted(line))
  BY <1>1, <1>4, <1>7, <1>10, RepliesEquation
<1>12. Replies(ab) = RepliesUpTo(ab)[n]
  <2>1. n \in 0..Len(ab) /\ Len(ab) \in n..Len(ab)
    BY <1>1, <1>4
  <2>2. \A e \in Ends(ab) : e <= n \/ e > Len(ab)
    BY <1>1, <1>4, <1>5, <1>3 DEF Ends
  <2>3. QED
    BY <1>1, <2>1, <2>2, RepliesGrow DEF Replies
<1>13. QED
  BY <1>8, <1>9, <1>11, <1>12 DEF ab, line

-----------------------------------------------------------------------------
(* The inductive invariant: before a client connects nothing was read of it. *)

Fresh == \A c \in Clients : client[c] = "new" => got[c] = <<>> /\ taken[c] = <<>>
Inv == TypeOK /\ Fresh /\ NothingIsLost

LEMMA InitInv == Init => Inv
BY StreamsAssumption DEF Init, Inv, TypeOK, Fresh, NothingIsLost, Connected

LEMMA ConnectInv ==
  ASSUME Inv, NEW c \in Clients, connect(c)
  PROVE  Inv'
<1> USE DEF Inv, TypeOK, Fresh
<1>1. PICK a \in Addresses :
        /\ \A d \in Clients : Connected(d) => address[d] # a
        /\ address' = [address EXCEPT ![c] = a]
        /\ rest' = [rest EXCEPT ![c] = cache[a]]
  BY DEF connect
<1>2. TypeOK'
  BY <1>1, AddressesAssumption DEF connect, Connected
<1>3. Fresh'
  BY DEF connect
<1>4. NothingIsLost'
  <2>1. SUFFICES ASSUME NEW d \in Clients, Connected(d)'
                 PROVE  taken'[d] \o cache'[address'[d]] = rest'[d] \o got'[d]
    BY DEF NothingIsLost
  <2>2. taken' = taken /\ got' = got /\ cache' = cache
    BY DEF connect
  <2>3. CASE d = c
    <3>1. got[c] = <<>> /\ taken[c] = <<>>
      BY DEF connect
    <3>2. rest'[c] = cache[a] /\ address'[c] = a /\ cache[a] \in Seq(Bytes)
      BY <1>1
    <3>3. <<>> \o cache[a] = cache[a] \o <<>>
      BY <3>2, ConcatEmptySeq
    <3>4. QED
      BY <2>2, <2>3, <3>1, <3>2, <3>3
  <2>4. CASE d # c
    <3>1. Connected(d) /\ rest'[d] = rest[d] /\ address'[d] = address[d]
      BY <1>1, <2>1, <2>4 DEF connect, Connected
    <3>2. QED
      BY <2>2, <3>1 DEF NothingIsLost
  <2>5. QED
    BY <2>3, <2>4
<1>5. QED
  BY <1>2, <1>3, <1>4

LEMMA ClientInv ==
  ASSUME Inv, NEW c \in Clients, send(c) \/ hangUp(c) \/ slotClosed(c) \/ deleted(c)
  PROVE  Inv'
<1> USE DEF Inv, TypeOK, Fresh
<1>1. UNCHANGED <<address, cache, busy, answers, loop, rest, got, taken>>
  BY DEF send, hangUp, slotClosed, deleted, history
<1>2. stream' \in [Clients -> Seq(Bytes)] /\ wire' \in [Clients -> Seq(Bytes)]
  <2>1. CASE send(c)
    <3>1. PICK n \in 1..Len(stream[c]) :
            /\ wire' = [wire EXCEPT ![c] = @ \o SubSeq(stream[c], 1, n)]
            /\ stream' = [stream EXCEPT ![c] = SubSeq(@, n + 1, Len(@))]
      BY <2>1 DEF send
    <3>2. /\ SubSeq(stream[c], 1, n) \in Seq(Bytes)
          /\ SubSeq(stream[c], n + 1, Len(stream[c])) \in Seq(Bytes)
      BY CutInTwo
    <3>3. wire[c] \o SubSeq(stream[c], 1, n) \in Seq(Bytes)
      BY <3>2, ConcatType
    <3>4. QED
      BY <3>1, <3>2, <3>3
  <2>2. CASE ~send(c)
    BY <2>2 DEF hangUp, slotClosed, deleted
  <2>3. QED
    BY <2>1, <2>2
<1>3. /\ client' \in [Clients -> {"new", "open", "hungup", "gone", "deleted"}]
      /\ \A d \in Clients : /\ Connected(d)' => Connected(d)
                            /\ client'[d] = "new" => client[d] = "new"
                            /\ Connected(d) /\ ~Connected(d)' => busy = "nobody"
  BY DEF send, hangUp, slotClosed, deleted, Connected, Idle
<1>4. TypeOK'
  BY <1>1, <1>2, <1>3
<1>5. Fresh'
  BY <1>1, <1>3
<1>6. NothingIsLost'
  BY <1>1, <1>3 DEF NothingIsLost
<1>7. QED
  BY <1>4, <1>5, <1>6

(* What is read goes to the end of what is kept at the address, where no other client is. *)
LEMMA ReadyInv ==
  ASSUME Inv, NEW c \in Clients, slotReady(c)
  PROVE  Inv'
<1> USE DEF Inv, TypeOK, Fresh
<1> DEFINE a == address[c]
<1>1. /\ UNCHANGED <<client, stream, address, answers, loop, rest, taken>>
      /\ cache' = [cache EXCEPT ![a] = @ \o wire[c]]
      /\ got' = [got EXCEPT ![c] = @ \o wire[c]]
      /\ wire' = [wire EXCEPT ![c] = <<>>]
      /\ busy' = c
  BY DEF slotReady
<1>2. Connected(c) /\ a \in Addresses
  BY DEF slotReady, Connected
<1>3. cache[a] \o wire[c] \in Seq(Bytes) /\ got[c] \o wire[c] \in Seq(Bytes)
  BY <1>2, ConcatType
<1>4. TypeOK'
  BY <1>1, <1>2, <1>3 DEF Connected
<1>5. Fresh'
  BY <1>1, <1>2 DEF Connected
<1>6. NothingIsLost'
  <2>1. SUFFICES ASSUME NEW d \in Clients, Connected(d)
                 PROVE  taken[d] \o cache'[address[d]] = rest[d] \o got'[d]
    BY <1>1 DEF NothingIsLost, Connected
  <2>2. CASE d = c
    <3>1. cache'[a] = cache[a] \o wire[c] /\ got'[c] = got[c] \o wire[c]
      BY <1>1, <1>2
    <3>2. taken[c] \o (cache[a] \o wire[c]) = (taken[c] \o cache[a]) \o wire[c]
      <4>1. taken[c] \in Seq(Bytes) /\ cache[a] \in Seq(Bytes) /\ wire[c] \in Seq(Bytes)
        BY <1>2
      <4>2. QED
        BY <4>1, Associative
    <3>3. (rest[c] \o got[c]) \o wire[c] = rest[c] \o (got[c] \o wire[c])
      <4>1. rest[c] \in Seq(Bytes) /\ got[c] \in Seq(Bytes) /\ wire[c] \in Seq(Bytes)
        OBVIOUS
      <4>2. QED
        BY <4>1, Associative
    <3>4. taken[c] \o cache[a] = rest[c] \o got[c]
      BY <1>2 DEF NothingIsLost
    <3>5. QED
      BY <2>2, <3>1, <3>2, <3>3, <3>4
  <2>3. CASE d # c
    <3>1. address[d] # a
      BY <1>2, <2>1, <2>3
    <3>2. cache'[address[d]] = cache[address[d]] /\ got'[d] = got[d]
      BY <1>1, <2>1, <2>3, <3>1
    <3>3. QED
      BY <2>1, <3>2 DEF NothingIsLost
  <2>4. QED
    BY <2>2, <2>3
<1>7. QED
  BY <1>4, <1>5, <1>6

(* To take a line off moves it from what is kept to what was taken. *)
LEMMA TakeLineInv ==
  ASSUME Inv, busy # "nobody", Ends(Kept) # {}, TakeLine,
         UNCHANGED <<client, stream, wire, address, rest, got>>,
         busy' \in {busy, "nobody"},
         answers' \in [Clients -> Seq(BOOLEAN)], loop' \in {"runs", "quitting", "ended"}
  PROVE  Inv'
<1> USE DEF Inv, TypeOK, Fresh
<1> DEFINE a == address[busy]
           k == FirstEnd(Kept) + 1
           front == SubSeq(Kept, 1, k)
           back == SubSeq(Kept, k + 1, Len(Kept))
<1>1. /\ busy \in Clients /\ Connected(busy) /\ a \in Addresses
      /\ Kept = cache[a] /\ Kept \in Seq(Bytes)
  BY DEF Kept
<1>2. k \in 0..Len(Kept) /\ FirstEnd(Kept) + 2 = k + 1
  <2>1. FirstEnd(Kept) \in 1..(Len(Kept) - 1) /\ Len(Kept) \in Nat
    BY <1>1, FirstEndFacts
  <2>2. QED
    BY <2>1
<1>3. front \in Seq(Bytes) /\ back \in Seq(Bytes) /\ front \o back = cache[a]
  BY <1>1, <1>2, CutInTwo
<1>4. /\ cache' = [cache EXCEPT ![a] = back]
      /\ taken' = [taken EXCEPT ![busy] = @ \o front]
  BY <1>2 DEF TakeLine
<1> HIDE DEF front, back
<1>5. taken[busy] \o front \in Seq(Bytes)
  BY <1>1, <1>3, ConcatType
<1>6. TypeOK'
  BY <1>1, <1>3, <1>4, <1>5 DEF Connected
<1>7. Fresh'
  BY <1>1, <1>4 DEF Connected
<1>8. NothingIsLost'
  <2>1. SUFFICES ASSUME NEW d \in Clients, Connected(d)
                 PROVE  taken'[d] \o cache'[address[d]] = rest[d] \o got[d]
    BY DEF NothingIsLost, Connected
  <2>2. CASE d = busy
    <3>1. cache'[a] = back /\ taken'[busy] = taken[busy] \o front
      BY <1>1, <1>4
    <3>2. (taken[busy] \o front) \o back = taken[busy] \o (front \o back)
      <4>1. taken[busy] \in Seq(Bytes)
        BY <1>1
      <4>2. QED
        BY <1>3, <4>1, Associative
    <3>3. QED
      BY <1>1, <1>3, <2>2, <3>1, <3>2 DEF NothingIsLost
  <2>3. CASE d # busy
    <3>1. address[d] # a
      BY <1>1, <2>1, <2>3
    <3>2. cache'[address[d]] = cache[address[d]] /\ taken'[d] = taken[d]
      BY <1>1, <1>4, <2>1, <2>3, <3>1
    <3>3. QED
      BY <2>1, <3>2 DEF NothingIsLost
  <2>4. QED
    BY <2>2, <2>3
<1>9. QED
  BY <1>6, <1>7, <1>8

LEMMA KeptInv ==
  ASSUME Inv, UNCHANGED <<client, stream, wire, address, cache, answers, rest, got, taken>>,
         busy' \in {busy, "nobody"}, loop' \in {"runs", "quitting", "ended"}
  PROVE  Inv'
BY DEF Inv, TypeOK, Fresh, NothingIsLost, Connected

LEMMA ServiceInv ==
  ASSUME Inv, command \/ slotReturns \/ loopEnds
  PROVE  Inv'
<1>1. CASE command
  <2>1. answers' \in [Clients -> Seq(BOOLEAN)]
    <3>1. busy \in Clients /\ Accepted(Line) \in BOOLEAN
      BY <1>1 DEF command, Inv, TypeOK, Accepted
    <3>2. Append(answers[busy], Accepted(Line)) \in Seq(BOOLEAN)
      BY <3>1 DEF Inv, TypeOK
    <3>3. QED
      BY <1>1, <3>1, <3>2 DEF command, Inv, TypeOK
  <2>2. loop' \in {"runs", "quitting", "ended"}
    BY <1>1 DEF command, Inv, TypeOK
  <2>3. QED
    BY <1>1, <2>1, <2>2, TakeLineInv DEF command
<1>2. CASE slotReturns
  <2>1. answers' \in [Clients -> Seq(BOOLEAN)] /\ loop' \in {"runs", "quitting", "ended"}
    BY <1>2 DEF slotReturns, Inv, TypeOK
  <2>2. CASE UNCHANGED <<cache, taken>>
    BY <1>2, <2>1, <2>2, KeptInv DEF slotReturns
  <2>3. CASE Ends(Kept) # {} /\ TakeLine
    BY <1>2, <2>1, <2>3, TakeLineInv DEF slotReturns
  <2>4. QED
    BY <1>2, <2>2, <2>3 DEF slotReturns
<1>3. CASE loopEnds
  BY <1>3, KeptInv DEF loopEnds, history
<1>4. QED
  BY <1>1, <1>2, <1>3

LEMMA Invariance == Spec => []Inv
<1>1. Inv /\ UNCHANGED vars => Inv'
  BY KeptInv DEF vars, history, Inv, TypeOK
<1>2. Inv /\ [Next]_vars => Inv'
  BY <1>1, ConnectInv, ClientInv, ReadyInv, ServiceInv DEF Next
<1>3. QED
  BY InitInv, <1>2, PTL DEF Spec

(* Who is served has a socket, no two clients have the same, and all variables stay in their  *)
(* ranges, whatever the clients send and in whatever pieces it comes.                           *)
THEOREM TypeCorrect == Spec => []TypeOK
BY Invariance, PTL DEF Inv

(* What was taken from the cache for a client, and what is still kept, are what its address    *)
(* had when it connected and all that was read since, in that order.                            *)
THEOREM ReadIsKeptOrTaken == Spec => []NothingIsLost
BY Invariance, PTL DEF Inv

-----------------------------------------------------------------------------
(* Answers: a client is answered for what was taken from the cache for it, which are whole      *)
(* lines; and if it has a fresh address, what is read of it and not taken has no line any more, *)
(* unless the client is being served, or has sent an empty line.                                 *)

Left(c, kept) ==
  /\ got[c] = taken[c] \o kept
  /\ Connected(c) => kept = cache[address[c]]
  /\ busy # c /\ ~Empty(got[c]) => Ends(kept) = {}
AnswersOK ==
  \A c \in Clients :
    /\ Cut(taken[c]) /\ answers[c] = Replies(taken[c])
    /\ rest[c] = <<>> => \E kept \in Seq(Bytes) : Left(c, kept)

LEMMA NoReplies == Replies(<<>>) = <<>> /\ Cut(<<>>) /\ Ends(<<>>) = {} /\ <<>> \o <<>> = <<>>
<1>1. <<>> \in Seq(Bytes) /\ Len(<<>>) = 0
  OBVIOUS
<1>2. RepliesUpTo(<<>>)[0] = <<>>
  BY <1>1, RepliesEquation
<1>3. QED
  BY <1>1, <1>2, ConcatEmptySeq DEF Replies, Cut, Ends

LEMMA InitAnswers == Init => AnswersOK
<1> SUFFICES ASSUME Init PROVE AnswersOK
  OBVIOUS
<1>1. \A c \in Clients : taken[c] = <<>> /\ got[c] = <<>> /\ answers[c] = <<>> /\ ~Connected(c)
  BY DEF Init, Connected
<1>2. \A c \in Clients : Left(c, <<>>)
  BY <1>1, NoReplies DEF Left
<1>3. <<>> \in Seq(Bytes)
  OBVIOUS
<1>4. QED
  BY <1>1, <1>2, <1>3, NoReplies DEF AnswersOK

(* What concerns a client is as it was. *)
LEMMA SameForClient ==
  ASSUME AnswersOK, NEW c \in Clients,
         taken'[c] = taken[c], got'[c] = got[c], answers'[c] = answers[c], rest'[c] = rest[c],
         Connected(c)' => Connected(c) /\ cache'[address'[c]] = cache[address[c]],
         busy' # c => busy # c \/ Ends(cache[address[c]]) = {},
         busy = c => Connected(c)
  PROVE  /\ Cut(taken[c])' /\ answers'[c] = Replies(taken[c])'
         /\ rest'[c] = <<>> => \E kept \in Seq(Bytes) : Left(c, kept)'
<1>1. Cut(taken[c])' /\ answers'[c] = Replies(taken[c])'
  BY DEF AnswersOK
<1>2. ASSUME rest[c] = <<>> PROVE \E kept \in Seq(Bytes) : Left(c, kept)'
  <2>1. PICK kept \in Seq(Bytes) : Left(c, kept)
    BY <1>2 DEF AnswersOK
  <2>2. Left(c, kept)'
    BY <2>1 DEF Left
  <2>3. QED
    BY <2>2
<1>3. QED
  BY <1>1, <1>2

LEMMA ConnectAnswers ==
  ASSUME Inv, AnswersOK, NEW c \in Clients, connect(c)
  PROVE  AnswersOK'
<1> USE DEF Inv, TypeOK, Fresh
<1>1. PICK a \in Addresses :
        /\ address' = [address EXCEPT ![c] = a]
        /\ rest' = [rest EXCEPT ![c] = cache[a]]
  BY DEF connect
<1>2. /\ client' = [client EXCEPT ![c] = "open"] /\ client[c] = "new"
      /\ UNCHANGED <<cache, busy, answers, got, taken>>
  BY DEF connect
<1>3. ASSUME NEW d \in Clients, d # c
      PROVE  /\ Cut(taken[d])' /\ answers'[d] = Replies(taken[d])'
             /\ rest'[d] = <<>> => \E kept \in Seq(Bytes) : Left(d, kept)'
  <2>1. rest'[d] = rest[d] /\ address'[d] = address[d] /\ (Connected(d)' <=> Connected(d))
    BY <1>1, <1>2, <1>3 DEF Connected
  <2>2. busy = d => Connected(d)
    BY AddressesAssumption
  <2>3. QED
    BY <1>2, <2>1, <2>2, SameForClient
<1>4. /\ Cut(taken[c])' /\ answers'[c] = Replies(taken[c])'
      /\ rest'[c] = <<>> => \E kept \in Seq(Bytes) : Left(c, kept)'
  <2>1. Cut(taken[c])' /\ answers'[c] = Replies(taken[c])'
    BY <1>2 DEF AnswersOK
  <2>2. ASSUME rest'[c] = <<>> PROVE Left(c, <<>>)'
    <3>1. cache'[address'[c]] = <<>>
      BY <1>1, <1>2, <2>2
    <3>2. got'[c] = <<>> /\ taken'[c] = <<>>
      BY <1>2
    <3>3. QED
      BY <3>1, <3>2, NoReplies DEF Left
  <2>3. <<>> \in Seq(Bytes)
    OBVIOUS
  <2>4. QED
    BY <2>1, <2>2, <2>3
<1>5. QED
  BY <1>3, <1>4 DEF AnswersOK

LEMMA ClientAnswers ==
  ASSUME Inv, AnswersOK, NEW c \in Clients, send(c) \/ hangUp(c) \/ slotClosed(c) \/ deleted(c)
  PROVE  AnswersOK'
<1>1. UNCHANGED <<address, cache, busy, answers, rest, got, taken>>
  BY DEF send, hangUp, slotClosed, deleted, history
<1>2. \A d \in Clients : Connected(d)' => Connected(d)
  BY DEF send, hangUp, slotClosed, deleted, Connected, Inv, TypeOK
<1>3. \A d \in Clients : busy = d => Connected(d)
  BY AddressesAssumption DEF Inv, TypeOK
<1>4. QED
  BY <1>1, <1>2, <1>3, SameForClient DEF AnswersOK

LEMMA ReadyAnswers ==
  ASSUME Inv, AnswersOK, NEW c \in Clients, slotReady(c)
  PROVE  AnswersOK'
<1> USE DEF Inv, TypeOK
<1> DEFINE a == address[c]
<1>1. /\ UNCHANGED <<client, address, answers, rest, taken>>
      /\ cache' = [cache EXCEPT ![a] = @ \o wire[c]]
      /\ got' = [got EXCEPT ![c] = @ \o wire[c]]
      /\ busy' = c /\ busy = "nobody"
  BY DEF slotReady, Idle
<1>2. Connected(c) /\ a \in Addresses /\ (\A d \in Clients : Connected(d)' <=> Connected(d))
  BY <1>1 DEF slotReady, Connected
<1>3. ASSUME NEW d \in Clients, d # c
      PROVE  /\ Cut(taken[d])' /\ answers'[d] = Replies(taken[d])'
             /\ rest'[d] = <<>> => \E kept \in Seq(Bytes) : Left(d, kept)'
  <2>1. Connected(d) => address[d] \in Addresses /\ address[d] # a
    BY <1>2, <1>3
  <2>2. Connected(d) => cache'[address[d]] = cache[address[d]]
    BY <1>1, <2>1
  <2>3. got'[d] = got[d] /\ busy # d
    BY <1>1, <1>3, AddressesAssumption
  <2>4. QED
    BY <1>1, <1>2, <2>2, <2>3, SameForClient
<1>4. /\ Cut(taken[c])' /\ answers'[c] = Replies(taken[c])'
      /\ rest'[c] = <<>> => \E kept \in Seq(Bytes) : Left(c, kept)'
  <2>1. Cut(taken[c])' /\ answers'[c] = Replies(taken[c])'
    BY <1>1 DEF AnswersOK
  <2>2. PICK all \in Seq(Bytes) : all = cache[a] \o wire[c]
    <3>1. cache[a] \in Seq(Bytes) /\ wire[c] \in Seq(Bytes)
      BY <1>2
    <3>2. cache[a] \o wire[c] \in Seq(Bytes)
      BY <3>1, ConcatType
    <3>3. QED
      BY <3>2
  <2>3. ASSUME rest'[c] = <<>> PROVE Left(c, all)'
    <3>1. got[c] = taken[c] \o cache[a]
      <4>1. PICK kept \in Seq(Bytes) : Left(c, kept)
        BY <1>1, <2>3 DEF AnswersOK
      <4>2. QED
        BY <1>2, <4>1 DEF Left
    <3>2. (taken[c] \o cache[a]) \o wire[c] = taken[c] \o (cache[a] \o wire[c])
      <4>1. taken[c] \in Seq(Bytes) /\ cache[a] \in Seq(Bytes) /\ wire[c] \in Seq(Bytes)
        BY <1>2
      <4>2. QED
        BY <4>1, Associative
    <3>3. cache'[address'[c]] = all /\ got'[c] = got[c] \o wire[c] /\ taken'[c] = taken[c]
      BY <1>1, <1>2, <2>2
    <3>4. got'[c] = taken'[c] \o all
      BY <2>2, <3>1, <3>2, <3>3
    <3>5. QED
      BY <1>1, <3>3, <3>4 DEF Left
  <2>4. QED
    BY <2>1, <2>3
<1>5. QED
  BY <1>3, <1>4 DEF AnswersOK

(* What is cut from a text behind its first end of a line is one line. *)
LEMMA FirstLine ==
  ASSUME NEW t \in Seq(Bytes), Ends(t) # {}
  PROVE  LET k == FirstEnd(t) + 1
             front == SubSeq(t, 1, k)
         IN /\ k \in 0..Len(t) /\ k >= 2 /\ FirstEnd(t) + 2 = k + 1
            /\ Len(front) = k /\ Ends(front) = {k - 1}
            /\ SubSeq(t, 1, FirstEnd(t) - 1) = SubSeq(front, 1, k - 2)
<1> DEFINE e == FirstEnd(t)
<1>0. PICK k, front : k = e + 1 /\ front = SubSeq(t, 1, k)
  OBVIOUS
<1>1. Len(t) \in Nat /\ e \in 1..(Len(t) - 1)
  BY FirstEndFacts
<1>2. e \in Ends(t) /\ \A d \in Ends(t) : e <= d
  <2>1. Ends(t) \subseteq Nat
    BY DEF Ends
  <2>2. QED
    BY <2>1, LeastNumber DEF FirstEnd
<1> HIDE DEF e
<1>3. k = e + 1 /\ front = SubSeq(t, 1, k)
  BY <1>0
<1>4. k \in 0..Len(t) /\ k \in 2..Len(t) /\ e + 2 = k + 1 /\ e - 1 = k - 2 /\ k - 1 = e
  BY <1>1, <1>3
<1>5. Len(front) = k /\ \A i \in 1..k : front[i] = t[i]
  BY <1>1, <1>3, <1>4
<1>6. Ends(front) = {k - 1}
  <2>1. ASSUME NEW d \in Ends(front) PROVE d = k - 1
    <3>1. d \in 1..k /\ d < k /\ front[d] = "CR" /\ front[d + 1] = "LF"
      BY <1>5, <2>1 DEF Ends
    <3>2. d \in 1..Len(t) /\ d < Len(t) /\ d + 1 \in 1..k
      BY <1>1, <1>4, <3>1
    <3>3. d \in Ends(t)
      BY <1>5, <3>1, <3>2 DEF Ends
    <3>4. QED
      BY <1>1, <1>2, <1>4, <3>1, <3>3
  <2>2. k - 1 \in Ends(front)
    <3>1. k - 1 \in 1..k /\ k \in 1..k /\ (k - 1) + 1 = k /\ k - 1 < k
      BY <1>4
    <3>2. t[k - 1] = "CR" /\ t[k] = "LF"
      BY <1>2, <1>4, <3>1 DEF Ends
    <3>3. QED
      BY <1>5, <3>1, <3>2 DEF Ends
  <2>3. QED
    BY <2>1, <2>2
<1>7. SubSeq(t, 1, k - 2) = SubSeq(front, 1, k - 2)
  <2>1. k - 2 \in 0..Len(t) /\ k - 2 \in 0..Len(front) /\ \A i \in 1..(k - 2) : i \in 1..k
    BY <1>4, <1>5
  <2>2. \A i \in 1..(k - 2) : t[i] = front[i]
    BY <1>5, <2>1
  <2>3. front \in Seq(Bytes)
    BY <1>1, <1>3, <1>4
  <2>4. QED
    BY <2>1, <2>2, <2>3
<1>8. QED
  BY <1>3, <1>4, <1>5, <1>6, <1>7 DEF e

(* A line that is taken off is answered, if it is not empty; and the turn ends only when there *)
(* is no line, or an empty one.                                                                *)
LEMMA TakeLineAnswers ==
  ASSUME Inv, AnswersOK, busy # "nobody", Ends(Kept) # {}, TakeLine,
         UNCHANGED <<client, address, rest, got>>,
         \/ busy' = busy /\ Line # <<>> /\ answers' = [answers EXCEPT ![busy] = Append(@, Accepted(Line))]
         \/ busy' = "nobody" /\ Line = <<>> /\ answers' = answers
  PROVE  AnswersOK'
<1> USE DEF Inv, TypeOK
<1>0. PICK c \in Clients : c = busy
  OBVIOUS
<1> DEFINE a == address[c]
<1>1. /\ Connected(c) /\ a \in Addresses
      /\ Kept = cache[a] /\ Kept \in Seq(Bytes) /\ (\A d \in Clients : Connected(d)' <=> Connected(d))
  BY <1>0 DEF Kept, Connected
<1>2. PICK k : k = FirstEnd(Kept) + 1
  OBVIOUS
<1>3. k \in 0..Len(Kept) /\ FirstEnd(Kept) + 2 = k + 1
  BY <1>1, <1>2, FirstLine
<1>4. PICK front \in Seq(Bytes), back \in Seq(Bytes) :
        /\ front = SubSeq(Kept, 1, k) /\ back = SubSeq(Kept, k + 1, Len(Kept))
        /\ front \o back = cache[a]
  BY <1>1, <1>3, CutInTwo
<1>5. /\ cache' = [cache EXCEPT ![a] = back]
      /\ taken' = [taken EXCEPT ![c] = @ \o front]
  BY <1>0, <1>2, <1>3, <1>4 DEF TakeLine
<1>6. Len(front) = k /\ Ends(front) = {Len(front) - 1} /\ Line = SubSeq(front, 1, Len(front) - 2)
  <2>1. /\ Len(front) = k /\ Ends(front) = {k - 1}
        /\ SubSeq(Kept, 1, FirstEnd(Kept) - 1) = SubSeq(front, 1, k - 2)
    <3>1. Kept \in Seq(Bytes) /\ Ends(Kept) # {} /\ k = FirstEnd(Kept) + 1 /\ front = SubSeq(Kept, 1, k)
      BY <1>1, <1>2, <1>4
    <3>2. QED
      BY <3>1, FirstLine, Zenon
  <2>2. QED
    BY <2>1 DEF Line
<1>7. /\ Cut(taken[c] \o front)
      /\ Replies(taken[c] \o front) = IF Line = <<>> THEN answers[c] ELSE Append(answers[c], Accepted(Line))
      /\ Line = <<>> => Empty(taken[c] \o front)
      /\ taken[c] \in Seq(Bytes) /\ taken[c] \o front \in Seq(Bytes)
  <2>1. taken[c] \in Seq(Bytes) /\ Cut(taken[c]) /\ answers[c] = Replies(taken[c])
    BY <1>1 DEF AnswersOK
  <2>2. taken[c] \o front \in Seq(Bytes)
    BY <2>1, ConcatType
  <2>3. QED
    BY <1>6, <2>1, <2>2, OneMoreLine
<1>8. taken'[c] = taken[c] \o front
  BY <1>1, <1>5
<1>9. Cut(taken[c])' /\ answers'[c] = Replies(taken[c])'
  <2>1. Cut(taken'[c]) /\ answers'[c] = Replies(taken'[c])
    BY <1>0, <1>1, <1>7, <1>8
  <2>2. QED
    BY <2>1
<1>10. ASSUME rest'[c] = <<>> PROVE Left(c, back)'
  <2>1. got[c] = taken[c] \o (front \o back)
    <3>1. PICK kept \in Seq(Bytes) : Left(c, kept)
      BY <1>10 DEF AnswersOK
    <3>2. QED
      BY <1>1, <1>4, <3>1 DEF Left
  <2>2. got'[c] = taken'[c] \o back
    <3>1. (taken[c] \o front) \o back = taken[c] \o (front \o back)
      BY <1>7, Associative
    <3>2. QED
      BY <1>8, <2>1, <3>1
  <2>3. cache'[address'[c]] = back
    BY <1>1, <1>5
  <2>4. busy' # c => Empty(got[c])
    <3>1. SUFFICES ASSUME busy' # c PROVE Empty(got[c])
      OBVIOUS
    <3>2. Empty(taken[c] \o front)
      BY <1>0, <1>7, <3>1
    <3>3. Empty((taken[c] \o front) \o back)
      BY <1>7, <3>2, CutReplies
    <3>4. QED
      BY <1>8, <2>2, <3>3
  <2>5. QED
    BY <2>2, <2>3, <2>4 DEF Left
<1>11. ASSUME NEW d \in Clients, d # c
       PROVE  /\ Cut(taken[d])' /\ answers'[d] = Replies(taken[d])'
              /\ rest'[d] = <<>> => \E kept \in Seq(Bytes) : Left(d, kept)'
  <2>1. Connected(d) => address[d] \in Addresses /\ address[d] # a
    BY <1>1, <1>11
  <2>2. Connected(d)' => Connected(d) /\ cache'[address'[d]] = cache[address[d]]
    BY <1>1, <1>5, <2>1
  <2>3. taken'[d] = taken[d] /\ answers'[d] = answers[d] /\ busy # d
    BY <1>0, <1>5, <1>11
  <2>4. QED
    BY <2>2, <2>3, SameForClient
<1>12. QED
  BY <1>9, <1>10, <1>11 DEF AnswersOK

LEMMA KeptAnswers ==
  ASSUME Inv, AnswersOK, UNCHANGED <<client, address, cache, answers, rest, got, taken>>,
         busy' = busy \/ (busy' = "nobody" /\ busy # "nobody" /\ Ends(Kept) = {})
  PROVE  AnswersOK'
<1>1. \A d \in Clients : busy = d => Connected(d)
  BY AddressesAssumption DEF Inv, TypeOK
<1>2. \A d \in Clients : Connected(d)' => Connected(d)
  BY DEF Connected
<1>4. \A d \in Clients : busy' # d => busy # d \/ Ends(cache[address[d]]) = {}
  BY DEF Kept
<1>5. QED
  BY <1>1, <1>2, <1>4, SameForClient DEF AnswersOK

LEMMA ServiceAnswers ==
  ASSUME Inv, AnswersOK, command \/ slotReturns \/ loopEnds
  PROVE  AnswersOK'
<1>1. CASE command
  BY <1>1, TakeLineAnswers DEF command
<1>2. CASE slotReturns
  <2>1. CASE Ends(Kept) = {} /\ UNCHANGED <<cache, taken>>
    BY <1>2, <2>1, KeptAnswers DEF slotReturns
  <2>2. CASE Ends(Kept) # {} /\ Line = <<>> /\ TakeLine
    BY <1>2, <2>2, TakeLineAnswers DEF slotReturns
  <2>3. QED
    BY <1>2, <2>1, <2>2 DEF slotReturns
<1>4. CASE loopEnds
  BY <1>4, KeptAnswers DEF loopEnds, history
<1>5. QED
  BY <1>1, <1>2, <1>4

LEMMA AnswersOnLine ==
  ASSUME Inv, AnswersOK
  PROVE  AnsweredByLine
<1> SUFFICES ASSUME NEW c \in Clients, rest[c] = <<>>
             PROVE  /\ Len(answers[c]) <= Len(Replies(got[c]))
                    /\ answers[c] = SubSeq(Replies(got[c]), 1, Len(answers[c]))
                    /\ busy # c /\ ~Empty(got[c]) => answers[c] = Replies(got[c])
  BY DEF AnsweredByLine
<1>1. PICK kept \in Seq(Bytes) : Left(c, kept)
  BY DEF AnswersOK
<1>2. /\ taken[c] \in Seq(Bytes) /\ Cut(taken[c]) /\ answers[c] = Replies(taken[c])
      /\ got[c] = taken[c] \o kept /\ got[c] \in Seq(Bytes) /\ answers[c] \in Seq(BOOLEAN)
  BY <1>1 DEF AnswersOK, Left, Inv, TypeOK
<1>4. Begins(answers[c], Replies(got[c])) /\ (Ends(kept) = {} => Replies(got[c]) = answers[c])
  BY <1>2, CutReplies
<1>5. Replies(got[c]) \in Seq(BOOLEAN)
  <2>1. Len(got[c]) \in 0..Len(got[c])
    BY <1>2
  <2>2. QED
    BY <1>2, <2>1, RepliesEquation DEF Replies
<1>6. answers[c] = SubSeq(Replies(got[c]), 1, Len(answers[c]))
  BY <1>2, <1>4, <1>5 DEF Begins
<1>7. QED
  BY <1>1, <1>4, <1>6 DEF Begins, Left

(* Whoever has a fresh address is answered for just the lines that it has sent, one by one and  *)
(* in their order, however they were cut into pieces and whoever else was served in between; and *)
(* when its turn is over, for all of them, if none was empty.                                     *)
THEOREM AnswersAreByLine == Spec => []AnsweredByLine
<1>1. Inv /\ AnswersOK /\ [Next]_vars => AnswersOK'
  <2> SUFFICES ASSUME Inv, AnswersOK, [Next]_vars PROVE AnswersOK'
    OBVIOUS
  <2>1. CASE UNCHANGED vars
    BY <2>1, KeptAnswers DEF vars, history
  <2>2. CASE Next
    BY <2>2, ConnectAnswers, ClientAnswers, ReadyAnswers, ServiceAnswers DEF Next
  <2>3. QED
    BY <2>1, <2>2
<1>2. Inv /\ AnswersOK => AnsweredByLine
  BY AnswersOnLine
<1>3. QED
  BY InitAnswers, Invariance, <1>1, <1>2, PTL DEF Spec
=============================================================================
