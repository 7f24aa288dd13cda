---------------------------- MODULE NumberFacts ----------------------------
(***************************************************************************)
(* The least and the greatest of a set of numbers, which the models choose *)
(* where the code looks for the first or the last of something; induction  *)
(* over numbers up to a bound, and functions that are defined by recursion *)
(* over them.                                                              *)
(***************************************************************************)
EXTENDS Integers, WellFoundedInduction, TLAPS

(* Of any numbers, one is the least. *)
LEMMA LeastNumber ==
  ASSUME NEW S, S \subseteq Nat, S # {}
  PROVE  \E i \in S : \A j \in S : i <= j
<1> DEFINE R == OpToRel(<, Nat)
<1>1. IsWellFoundedOn(R, Nat)
  BY NatLessThanWellFounded
<1>2. \A i, j \in Nat : j < i => <<j, i>> \in R
  BY DEF OpToRel
<1> HIDE DEF R
<1>3. PICK i \in S : \A j \in S : ~(<<j, i>> \in R)
  BY <1>1, WFMin
<1>4. \A j \in S : ~(j < i)
  BY <1>2, <1>3
<1>5. QED
  BY <1>4

(* Of numbers up to a bound, one is the greatest. *)
LEMMA GreatestNumber ==
  ASSUME NEW n \in Nat, NEW S, S \subseteq 0..n, S # {}
  PROVE  \E i \in S : \A j \in S : j <= i
<1> DEFINE T == {n - i : i \in S}
<1>1. T \subseteq Nat /\ T # {}
  <2>1. \A i \in S : n - i \in Nat
    OBVIOUS
  <2>2. PICK i \in S : TRUE
    OBVIOUS
  <2>3. n - i \in T
    OBVIOUS
  <2>4. QED
    BY <2>1, <2>3
<1>2. PICK t \in T : \A u \in T : t <= u
  BY <1>1, LeastNumber
<1>3. PICK i \in S : t = n - i
  OBVIOUS
<1>4. ASSUME NEW j \in S PROVE j <= i
  <2>1. n - j \in T /\ i \in 0..n /\ j \in 0..n
    OBVIOUS
  <2>2. n - i <= n - j
    BY <1>2, <1>3, <2>1
  <2>3. QED
    BY <2>1, <2>2
<1>5. QED
  BY <1>4

(* What holds of 0, and of every number behind one of which it holds, holds of all up to a bound. *)
LEMMA Upwards ==
  ASSUME NEW n \in Nat, NEW P, 0 \in P, \A i \in 0..(n - 1) : i \in P => i + 1 \in P
  PROVE  \A i \in 0..n : i \in P
<1> DEFINE S == {i \in 0..n : i \notin P}
<1>1. SUFFICES ASSUME S # {} PROVE FALSE
  OBVIOUS
<1>2. PICK i \in S : \A j \in S : i <= j
  <2>1. S \subseteq Nat
    OBVIOUS
  <2>2. QED
    BY <1>1, <2>1, LeastNumber, Zenon
<1>3. i # 0 /\ i - 1 \in 0..(n - 1) /\ i - 1 \notin S
  BY <1>2
<1>4. QED
  BY <1>2, <1>3

(* Induction in the form in which recursive functions are written. *)
LEMMA Onwards ==
  ASSUME NEW n \in Nat, NEW P, 0 \in P, \A i \in 1..n : i - 1 \in P => i \in P
  PROVE  \A i \in 0..n : i \in P
<1>1. ASSUME NEW i \in 0..(n - 1), i \in P PROVE i + 1 \in P
  <2>1. i + 1 \in 1..n /\ i + 1 - 1 = i
    OBVIOUS
  <2>2. QED
    BY <1>1, <2>1
<1>2. QED
  BY <1>1, Upwards

(* A function of numbers up to a bound may be given by its first value and by how each value *)
(* comes of the one before.                                                                   *)
Steps(X, n) == [1..n -> [X -> X]]
Recursive(f, X, x, n, step) ==
  f \in [0..n -> X] /\ f[0] = x /\ \A i \in 1..n : f[i] = step[i][f[i - 1]]

LEMMA Recursion ==
  ASSUME NEW X, NEW x \in X, NEW n \in Nat, NEW step \in Steps(X, n)
  PROVE  \E f : Recursive(f, X, x, n, step)
<1> DEFINE P == {i \in 0..n : \E f : Recursive(f, X, x, i, step)}
<1>1. 0 \in P
  <2>1. Recursive([j \in 0..0 |-> x], X, x, 0, step)
    BY DEF Recursive
  <2>2. QED
    BY <2>1
<1>2. ASSUME NEW i \in 0..(n - 1), i \in P PROVE i + 1 \in P
  <2>1. PICK f : Recursive(f, X, x, i, step)
    BY <1>2
  <2>2. f[i] \in X /\ step[i + 1] \in [X -> X]
    BY <2>1 DEF Recursive, Steps
  <2>3. step[i + 1][f[i]] \in X
    BY <2>2
  <2> DEFINE g == [j \in 0..(i + 1) |-> IF j <= i THEN f[j] ELSE step[i + 1][f[i]]]
  <2>4. g \in [0..(i + 1) -> X] /\ g[0] = x
    BY <2>1, <2>3 DEF Recursive
  <2>5. ASSUME NEW j \in 1..(i + 1) PROVE g[j] = step[j][g[j - 1]]
    <3>1. CASE j \in 1..i
      BY <2>1, <3>1 DEF Recursive
    <3>2. CASE j = i + 1
      BY <3>2
    <3>3. QED
      BY <3>1, <3>2
  <2> HIDE DEF g
  <2>6. Recursive(g, X, x, i + 1, step)
    BY <2>4, <2>5 DEF Recursive
  <2>7. QED
    BY <2>6
<1> HIDE DEF P
<1>3. n \in P
  BY <1>1, <1>2, Upwards
<1>4. QED
  BY <1>3 DEF P

(* A function of numbers may also be given by its values at some of them and, at any other, by how *)
(* its value comes of the one at a later number.                                                    *)
Linked(f, X, a, b, last, base, next, step) ==
  /\ f \in [a..b -> X]
  /\ \A q \in a..b : f[q] = IF q \in last THEN base[q] ELSE step[q][f[next[q]]]

LEMMA LinkedRecursion ==
  ASSUME NEW X, NEW a \in Int, NEW b \in Int, a <= b, NEW last, NEW base \in [a..b -> X],
         NEW next, \A q \in a..b : q \notin last => next[q] \in (q + 1)..b,
         NEW step \in [a..b -> [X -> X]]
  PROVE  \E f : Linked(f, X, a, b, last, base, next, step)
<1> DEFINE n == b - a
           P == {i \in 0..n : \E f : Linked(f, X, b - i, b, last, base, next, step)}
<1>0. n \in Nat
  OBVIOUS
<1>1. 0 \in P
  <2>1. b \in last /\ base[b] \in X
    OBVIOUS
  <2>2. Linked([q \in b..b |-> base[b]], X, b, b, last, base, next, step)
    BY <2>1 DEF Linked
  <2>3. b - 0 = b /\ 0 \in 0..n
    BY <1>0
  <2>4. QED
    BY <2>2, <2>3
<1>2. ASSUME NEW i \in 0..(n - 1), i \in P PROVE i + 1 \in P
  <2> DEFINE c == b - i
             d == b - (i + 1)
  <2>1. PICK f : Linked(f, X, c, b, last, base, next, step)
    BY <1>2
  <2>2. c \in Int /\ d \in a..b /\ c = d + 1 /\ c <= b /\ i + 1 \in 0..n
    BY <1>0
  <2> DEFINE v == IF d \in last THEN base[d] ELSE step[d][f[next[d]]]
             g == [q \in d..b |-> IF q = d THEN v ELSE f[q]]
  <2>3. v \in X
    <3>1. CASE d \in last
      BY <2>2, <3>1
    <3>2. CASE d \notin last
      <4>1. next[d] \in c..b
        BY <2>2, <3>2
      <4>2. f[next[d]] \in X
        BY <2>1, <4>1 DEF Linked
      <4>3. step[d] \in [X -> X]
        BY <2>2
      <4>4. QED
        BY <3>2, <4>2, <4>3
    <3>3. QED
      BY <3>1, <3>2
  <2> HIDE DEF c, d, v
  <2>4. \A q \in d..b : q = d \/ q \in c..b
    BY <2>2
  <2>5. g \in [d..b -> X]
    BY <2>1, <2>3, <2>4 DEF Linked
  <2>6. \A q \in c..b : q \in d..b /\ q # d
    BY <2>2
  <2>7. ASSUME NEW q \in d..b PROVE g[q] = IF q \in last THEN base[q] ELSE step[q][g[next[q]]]
    <3>1. CASE q \in last
      <4>1. CASE q = d
        BY <3>1, <4>1 DEF v
      <4>2. CASE q \in c..b
        BY <2>1, <2>6, <3>1, <4>2 DEF Linked
      <4>3. QED
        BY <2>4, <4>1, <4>2
    <3>2. CASE q \notin last
      <4>1. next[q] \in c..b
        BY <2>2, <3>2
      <4>2. g[next[q]] = f[next[q]]
        BY <2>6, <4>1
      <4>3. CASE q = d
        BY <3>2, <4>2, <4>3 DEF v
      <4>4. CASE q \in c..b
        BY <2>1, <2>6, <3>2, <4>2, <4>4 DEF Linked
      <4>5. QED
        BY <2>4, <4>3, <4>4
    <3>3. QED
      BY <3>1, <3>2
  <2> HIDE DEF g
  <2>8. Linked(g, X, d, b, last, base, next, step)
    BY <2>5, <2>7 DEF Linked
  <2>9. QED
    BY <2>2, <2>8 DEF d
<1>4. b - n = a
  OBVIOUS
<1> HIDE DEF n, P
<1>3. \A i \in 0..(n - 1) : i \in P => i + 1 \in P
  BY <1>2
<1>6. \A i \in 0..n : i \in P
  BY <1>0, <1>1, <1>3, Upwards, Zenon
<1>7. n \in 0..n
  BY <1>0
<1>5. QED
  BY <1>4, <1>6, <1>7 DEF P
=============================================================================
