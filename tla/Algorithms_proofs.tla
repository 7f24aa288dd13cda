-------------------------- MODULE Algorithms_proofs --------------------------
(***************************************************************************)
(* Proofs about the algorithms that MCAlgorithms calls, for texts of any   *)
(* length and images of any size.                                          *)
(***************************************************************************)
EXTENDS MCAlgorithms, NumberFacts, SequenceTheorems, FiniteSetTheorems, TLAPS

Inputs(in) ==
  \/ in \in Pages
  \/ in \in Images
  \/ in \in Headers
  \/ in \in Cells
  \/ in \in Tags
  \/ in \in Forms
  \/ in \in Requests
Inv == Inputs(input) /\ (output = None \/ \E r \in Results(input) : output = <<r>>)

(* What has been returned is one of the results for an input. *)
THEOREM Invariance == Spec => []Inv
<1>1. Init => Inv
  BY DEF Init, Inv, Inputs
<1>2. Inv /\ [Next]_vars => Inv'
  BY DEF Inv, Inputs, Next, Call, vars
<1>3. QED
  BY <1>1, <1>2, PTL DEF Spec

LEMMA Kinds_ ==
  /\ \A in \in Pages : in.kind = "page"
  /\ \A in \in Images : in.kind = "image"
  /\ \A in \in Headers : in.kind = "header"
  /\ \A in \in Cells : in.kind = "cell"
  /\ \A in \in Tags : in.kind = "tag"
  /\ \A in \in Forms : in.kind = "form"
  /\ \A in \in Requests : in.kind = "request"
<1>1. \A in \in Pages : in.kind = "page"
  BY DEF Pages
<1>2. \A in \in Images : in.kind = "image"
  BY DEF Images
<1>3. \A in \in Headers : in.kind = "header"
  BY DEF Headers
<1>4. \A in \in Cells : in.kind = "cell"
  BY DEF Cells
<1>5. \A in \in Tags : in.kind = "tag"
  BY DEF Tags
<1>6. \A in \in Forms : in.kind = "form"
  BY DEF Forms
<1>7. \A in \in Requests : in.kind = "request"
  BY DEF Requests
<1>8. QED
  BY <1>1, <1>2, <1>3, <1>4, <1>5, <1>6, <1>7

-----------------------------------------------------------------------------
(* Images *)

LEMMA Divided ==
  ASSUME NEW a \in Nat, NEW w \in Nat \ {0}
  PROVE  /\ a \div w \in Nat
         /\ (a \div w) * w <= a
         /\ a < (a \div w) * w + w
OBVIOUS

LEMMA Product == ASSUME NEW a \in Nat, NEW b \in Nat PROVE a * b \in Nat
OBVIOUS

(* One size is given and the other is computed of it. *)
LEMMA HeightOfWidth ==
  ASSUME NEW a \in Nat, NEW w \in Nat \ {0}, NEW h \in Nat
  PROVE  LET off == a * h - ((a * h) \div w) * w IN 0 <= off /\ off < w
<1> DEFINE x == a * h
           y == (x \div w) * w
<1>1. x \in Nat
  BY Product
<1> HIDE DEF x
<1>2. y \in Nat /\ y <= x /\ x < y + w
  BY <1>1, Divided, Product
<1> HIDE DEF y
<1>3. 0 <= x - y /\ x - y < w
  BY <1>1, <1>2
<1>4. QED
  BY <1>3 DEF x, y

LEMMA WidthOfHeight ==
  ASSUME NEW b \in Nat, NEW w \in Nat, NEW h \in Nat \ {0}
  PROVE  LET off == ((b * w) \div h) * h - b * w IN -h < off /\ off <= 0
<1> DEFINE x == b * w
           y == (x \div h) * h
<1>1. x \in Nat
  BY Product
<1> HIDE DEF x
<1>2. y \in Nat /\ y <= x /\ x < y + h
  BY <1>1, Divided, Product
<1> HIDE DEF y
<1>3. -h < y - x /\ y - x <= 0
  BY <1>1, <1>2
<1>4. QED
  BY <1>3 DEF x, y

LEMMA SizeInProportion ==
  ASSUME NEW asked, asked.width \in Nat, asked.height \in Nat, asked.framed \in BOOLEAN,
         asked.scale \in Nat, NEW w \in Nat, NEW h \in Nat
  PROVE  InProportion(asked, w, h, Size(asked, w, h))
<1> DEFINE size == Size(asked, w, h)
           thumbnail == (thumbnail_size * asked.scale) \div 2
           off == size.width * h - size.height * w
<1> SUFFICES ASSUME w > 0, h > 0, size # Undefined
             PROVE  /\ asked.width # 0 => size.width = asked.width
                    /\ asked.height # 0 => size.height = asked.height
                    /\ asked.width = 0 \/ asked.height = 0 =>
                         IF asked.height # 0 THEN -h < off /\ off <= 0 ELSE 0 <= off /\ off < w
  BY DEF InProportion
<1>1. CASE asked.width = 0 /\ asked.height = 0 /\ asked.framed
  <2>1. size = [width |-> thumbnail, height |-> (thumbnail * h) \div w]
    BY <1>1 DEF Size
  <2>2. thumbnail \in Nat
    BY IntsAssumption
  <2> HIDE DEF thumbnail
  <2>3. 0 <= off /\ off < w
    BY <2>1, <2>2, HeightOfWidth
  <2>4. QED
    BY <1>1, <2>3
<1>2. CASE asked.width = 0 /\ asked.height = 0 /\ ~asked.framed
  <2>1. size = [width |-> w, height |-> h]
    BY <1>2 DEF Size
  <2>2. off = 0
    BY <2>1
  <2>3. QED
    BY <1>2, <2>2
<1>3. CASE asked.width = 0 /\ asked.height # 0
  <2>1. size = [width |-> (asked.height * w) \div h, height |-> asked.height]
    BY <1>3 DEF Size
  <2>2. -h < off /\ off <= 0
    <3>1. off = ((asked.height * w) \div h) * h - asked.height * w
      BY <2>1
    <3>2. h \in Nat \ {0}
      OBVIOUS
    <3> DEFINE known == ((asked.height * w) \div h) * h - asked.height * w
    <3>3. -h < known /\ known <= 0
      BY <3>2, WidthOfHeight, Zenon
    <3>4. QED
      BY <3>1, <3>3, Zenon
  <2>3. QED
    BY <1>3, <2>1, <2>2
<1>4. CASE asked.width # 0 /\ asked.height = 0
  <2>1. size = [width |-> asked.width, height |-> (asked.width * h) \div w]
    BY <1>4 DEF Size
  <2>2. 0 <= off /\ off < w
    <3>1. off = asked.width * h - ((asked.width * h) \div w) * w
      BY <2>1
    <3>2. w \in Nat \ {0}
      OBVIOUS
    <3> DEFINE known == asked.width * h - ((asked.width * h) \div w) * w
    <3>3. 0 <= known /\ known < w
      BY <3>2, HeightOfWidth, Zenon
    <3>4. QED
      BY <3>1, <3>3, Zenon
  <2>3. QED
    BY <1>4, <2>1, <2>2
<1>5. CASE asked.width # 0 /\ asked.height # 0
  <2>1. size = [width |-> asked.width, height |-> asked.height]
    BY <1>5 DEF Size
  <2>2. QED
    BY <1>5, <2>1
<1>6. QED
  BY <1>1, <1>2, <1>3, <1>4, <1>5

(* Whatever sizes an image is asked for and has, and whatever the greatest int is, it is shown *)
(* in its proportions, up to the rounding of the one size that is computed, wherever that is    *)
(* an int and needs no division by 0.                                                           *)
THEOREM ProportionsKept == Spec => []KeepsProportions
<1>1. Inv => KeepsProportions
  <2> SUFFICES ASSUME Inv, output # None, input.kind = "image"
               PROVE  InProportion(input.asked, input.w, input.h, output[1])
    BY DEF KeepsProportions, Called
  <2>1. input \in Images
    BY Kinds_ DEF Inv, Inputs
  <2>2. /\ input.asked.width \in Nat /\ input.asked.height \in Nat
        /\ input.asked.framed \in BOOLEAN /\ input.asked.scale \in Nat
        /\ input.w \in Nat /\ input.h \in Nat
    <3>1. PICK a \in Sizes \cup {0}, b \in Sizes \cup {0}, f \in BOOLEAN, s \in 1..3,
               w \in Sizes \cup {0}, h \in Sizes \cup {0} :
            input = [kind |-> "image", asked |-> [width |-> a, height |-> b, framed |-> f, scale |-> s],
                     w |-> w, h |-> h]
      BY <2>1 DEF Images
    <3>2. Sizes \cup {0} \subseteq Nat /\ 1..3 \subseteq Nat
      BY SizesAssumption
    <3>3. QED
      BY <3>1, <3>2
  <2>3. output[1] = Size(input.asked, input.w, input.h)
    BY DEF Inv, Results
  <2>4. QED
    BY <2>2, <2>3, SizeInProportion
<1>2. QED
  BY <1>1, Invariance, PTL

-----------------------------------------------------------------------------
(* The style of a table's cell *)

LEMMA StyleFound ==
  ASSUME NEW S, NEW text \in Seq(S)
  PROVE  /\ in_table_cell_style(text, 1) => HasStyle(text)
         /\ "open bracket" \notin {text[i] : i \in 1..Len(text)} =>
              (in_table_cell_style(text, 1) <=> HasStyle(text))
<1> DEFINE open(i) == \E k \in 2..(i - 1) : text[k] = "open bracket"
           stop(i) == text[i] = "line" \/ (~open(i) /\ BeginsCell(text, i))
           stops == {i \in 2..Len(text) : stop(i)}
           first == CHOOSE i \in stops : \A j \in stops : i <= j
<1>1. in_table_cell_style(text, 1) <=>
        stops # {} /\ text[first] = "pipe" /\ Char(text, first + 1) # "pipe"
  BY DEF in_table_cell_style, BeginsCell
<1>3. Len(text) \in Nat /\ stops \subseteq 2..Len(text) /\ stops \subseteq Nat
  <2>1. stops \subseteq 2..Len(text)
    BY Zenon
  <2> HIDE DEF stops
  <2>2. QED
    BY <2>1
<1>0. \A i : i \in stops <=> i \in 2..Len(text) /\ (text[i] = "line" \/ (~open(i) /\ BeginsCell(text, i)))
  BY Zenon DEF BeginsCell
<1>4. stops # {} => first \in stops /\ \A j \in stops : first <= j
  <2> HIDE DEF stops
  <2>1. QED
    BY <1>3, LeastNumber
<1>5. ASSUME NEW i \in 2..Len(text), ~open(i), text[i] # "open bracket"
      PROVE  Outside(text, i)
  <2>1. ASSUME NEW j \in 2..i PROVE text[j] # "open bracket"
    <3>1. j = i \/ j \in 2..(i - 1)
      OBVIOUS
    <3>2. QED
      BY <1>5, <3>1
  <2>2. QED
    BY <2>1 DEF Outside
<1> HIDE DEF open, stop, stops
<1>6. ASSUME in_table_cell_style(text, 1) PROVE HasStyle(text)
  <2>1. /\ first \in stops /\ (\A j \in stops : first <= j)
        /\ text[first] = "pipe" /\ Char(text, first + 1) # "pipe"
    BY <1>1, <1>4, <1>6
  <2> HIDE DEF first
  <2>2. first \in 2..Len(text) /\ ~open(first) /\ Outside(text, first)
    <3>1. first \in 2..Len(text) /\ ~open(first) /\ text[first] # "open bracket"
      BY <1>0, <2>1
    <3>2. QED
      BY <1>5, <3>1
  <2>3. ASSUME NEW k \in 2..(first - 1) PROVE text[k] # "line" /\ ~BeginsCell(text, k)
    <3>1. k \in 2..Len(text) /\ k \notin stops
      BY <1>3, <2>1, <2>2
    <3>2. ~open(k)
      <4>1. \A j \in 2..(k - 1) : j \in 2..(first - 1)
        BY <1>3, <2>2
      <4>2. QED
        BY <2>2, <4>1 DEF open
    <3>3. QED
      BY <1>0, <3>1, <3>2
  <2>4. EndsStyle(text, first)
    BY <2>1, <2>2, <2>3 DEF EndsStyle
  <2>5. QED
    BY <2>2, <2>4 DEF HasStyle
<1>7. ASSUME "open bracket" \notin {text[i] : i \in 1..Len(text)}, HasStyle(text)
      PROVE  in_table_cell_style(text, 1)
  <2>1. PICK i \in 2..Len(text) : EndsStyle(text, i)
    BY <1>7 DEF HasStyle
  <2>2. ASSUME NEW k \in 2..Len(text) PROVE text[k] # "open bracket"
    <3>1. k \in 1..Len(text)
      BY <1>3
    <3>2. QED
      BY <1>7, <3>1
  <2>3. ASSUME NEW k \in 2..Len(text) PROVE ~open(k) /\ Outside(text, k)
    <3>1. \A j \in 2..(k - 1) : j \in 2..Len(text)
      BY <1>3
    <3>2. ~open(k)
      BY <2>2, <3>1 DEF open
    <3>3. QED
      BY <1>5, <2>2, <3>2
  <2>4. /\ text[i] = "pipe" /\ Char(text, i + 1) # "pipe"
        /\ \A k \in 2..(i - 1) : text[k] # "line" /\ (Outside(text, k) => ~BeginsCell(text, k))
    BY <2>1 DEF EndsStyle
  <2>5. i \in stops
    BY <1>0, <2>3, <2>4 DEF BeginsCell
  <2>6. first \in stops /\ \A j \in stops : first <= j
    BY <1>4, <2>5
  <2> HIDE DEF first
  <2>7. first = i
    <3>1. first <= i /\ first \in 2..Len(text)
      BY <1>3, <2>5, <2>6
    <3>2. CASE first < i
      <4>1. first \in 2..(i - 1)
        BY <3>1, <3>2
      <4>2. QED
        BY <1>0, <2>3, <2>4, <2>6, <3>1, <4>1
    <3>3. QED
      BY <3>1, <3>2
  <2>8. QED
    BY <1>1, <2>4, <2>5, <2>7 DEF first
<1>8. QED
  BY <1>6, <1>7

LEMMA Texts ==
  ASSUME NEW S, NEW n, NEW t \in Upto(S, n)
  PROVE  t \in Seq(S)
BY DEF Upto

(* What is taken for the style of a cell is one, however long and nested the text is; and in a *)
(* text without brackets every style is found.                                                  *)
THEOREM StylesStandAlone == Spec => []StyleStandsAlone
<1>1. Inv => StyleStandsAlone
  <2> SUFFICES ASSUME Inv, output # None, input.kind = "cell"
               PROVE  /\ output[1] => HasStyle(input.text)
                      /\ "open bracket" \notin {input.text[i] : i \in 1..Len(input.text)} =>
                           (output[1] <=> HasStyle(input.text))
    BY DEF StyleStandsAlone, Called
  <2>1. input \in Cells
    BY Kinds_ DEF Inv, Inputs
  <2> DEFINE T == {"pipe", "line", "!", "open bracket", "close bracket"}
             S == {"a"} \cup T
  <2>2. input.text \in Seq(S)
    <3>1. PICK t \in CellTexts : input.text = <<"a">> \o t
      BY <2>1 DEF Cells
    <3>2. t \in Seq(T)
      BY Texts, Zenon DEF CellTexts
    <3> HIDE DEF T
    <3>3. t \in Seq(S) /\ <<"a">> \in Seq(S)
      BY <3>2
    <3> HIDE DEF S
    <3>4. QED
      BY <3>1, <3>3
  <2>3. output[1] = in_table_cell_style(input.text, 1)
    BY DEF Inv, Results
  <2> HIDE DEF S
  <2>4. QED
    BY <2>2, <2>3, StyleFound
<1>2. QED
  BY <1>1, Invariance, PTL

-----------------------------------------------------------------------------
(* Headers *)

LEMMA CharFacts ==
  ASSUME NEW text, NEW i
  PROVE  /\ i \in 1..Len(text) => Char(text, i) = text[i]
         /\ i \notin 1..Len(text) => Char(text, i) = "zero"
BY DEF Char

(* The end of a run of signs is where one sign ends it. *)
LEMMA RunEndIs ==
  ASSUME NEW S, NEW text \in Seq(S), NEW from \in 1..Len(text), NEW e \in from..Len(text),
         \A k \in from..e : text[k] = "sign", Char(text, e + 1) # "sign"
  PROVE  RunEnd(text, from) = e
<1> DEFINE ends == {j \in from..Len(text) : /\ \A k \in from..j : text[k] = "sign"
                                            /\ Char(text, j + 1) # "sign"}
<1>1. Len(text) \in Nat
  OBVIOUS
<1>2. e \in ends
  OBVIOUS
<1>3. ASSUME NEW j \in ends PROVE j = e
  <2>1. j \in from..Len(text) /\ (\A k \in from..j : text[k] = "sign") /\ Char(text, j + 1) # "sign"
    OBVIOUS
  <2>2. CASE j < e
    <3>1. j + 1 \in from..e /\ j + 1 \in 1..Len(text)
      BY <1>1, <2>1, <2>2
    <3>2. QED
      BY <2>1, <3>1, CharFacts
  <2>3. CASE e < j
    <3>1. e + 1 \in from..j /\ e + 1 \in 1..Len(text)
      BY <1>1, <2>1, <2>3
    <3>2. QED
      BY <2>1, <3>1, CharFacts
  <2>4. QED
    BY <2>1, <2>2, <2>3
<1>4. LET r == RunEnd(text, from)
      IN r \in from..Len(text) /\ (\A k \in from..r : text[k] = "sign") /\ Char(text, r + 1) # "sign"
  <2>1. \E j \in from..Len(text) : (\A k \in from..j : text[k] = "sign") /\ Char(text, j + 1) # "sign"
    BY <1>2
  <2>2. QED
    BY <2>1, Zenon DEF RunEnd
<1>5. QED
  BY <1>3, <1>4

LEMMA LineEndIs ==
  ASSUME NEW S, NEW text \in Seq(S)
  PROVE  /\ LineEnd(text) \in 1..(Len(text) + 1)
         /\ LineEnd(text) <= Len(text) => text[LineEnd(text)] = "line"
<1> DEFINE lines == {i \in 1..Len(text) : text[i] = "line"}
           least == CHOOSE i \in lines : \A j \in lines : i <= j
<1>1. Len(text) \in Nat
  OBVIOUS
<1>2. LineEnd(text) = IF lines = {} THEN Len(text) + 1 ELSE least
  BY Zenon DEF LineEnd
<1>3. lines # {} => least \in lines
  <2>1. lines \subseteq Nat
    OBVIOUS
  <2> HIDE DEF lines
  <2>2. QED
    BY <2>1, LeastNumber
<1>4. least \in lines => least \in 1..Len(text) /\ text[least] = "line"
  BY Zenon
<1> HIDE DEF lines, least
<1>5. CASE lines = {}
  <2>1. LineEnd(text) = Len(text) + 1
    BY <1>2, <1>5
  <2>2. QED
    BY <1>1, <2>1
<1>6. CASE lines # {}
  <2>1. LineEnd(text) = least
    BY <1>2, <1>6
  <2>2. QED
    BY <1>1, <1>3, <1>4, <1>6, <2>1
<1>7. QED
  BY <1>5, <1>6

(* A number that is least is the one that is chosen. *)
LEMMA LeastIs ==
  ASSUME NEW T, T \subseteq Nat, NEW e \in T, \A j \in T : e <= j
  PROVE  (CHOOSE i \in T : \A j \in T : i <= j) = e
<1> DEFINE l == CHOOSE i \in T : \A j \in T : i <= j
<1>1. l \in T /\ \A j \in T : l <= j
  BY Zenon
<1> HIDE DEF l
<1>2. l = e
  BY <1>1
<1>3. QED
  BY <1>2 DEF l

(* There is one match for a line that is closed as it is opened. *)
LEMMA MatchIs ==
  ASSUME NEW S, NEW text \in Seq(S), NEW n \in 1..Len(text), WellFormed(text, n), NEW m_end
  PROVE  find_match(text, 1, m_end) = {[start |-> n, end |-> LineEnd(text) - n, depth |-> n]}
<1> DEFINE end == LineEnd(text) - 1
           e == LineEnd(text) - n
           ends == {i \in (n + 2)..Len(text) : text[i] = "sign"}
<1>1. Len(text) \in Nat /\ LineEnd(text) \in 1..(Len(text) + 1) /\ end \in 0..Len(text) /\ end >= 2 * n + 1
  BY LineEndIs DEF WellFormed
<1>2. /\ \A i \in 1..n : text[i] = "sign" /\ text[end + 1 - i] = "sign"
      /\ \A i \in (n + 1)..(end - n) : text[i] # "sign"
  BY DEF WellFormed
<1>3. e = end + 1 - n /\ e \in (n + 2)..Len(text) /\ e <= end
  BY <1>1
<1>4. Char(text, end + 1) # "sign"
  <2>1. CASE LineEnd(text) <= Len(text)
    BY <1>1, <2>1, LineEndIs, CharFacts
  <2>2. CASE ~(LineEnd(text) <= Len(text))
    <3>1. end + 1 \notin 1..Len(text)
      BY <1>1, <2>2
    <3>2. QED
      BY <3>1, CharFacts
  <2>3. QED
    BY <2>1, <2>2
<1>5. RunEnd(text, 1) = n
  <2>1. n + 1 \in (n + 1)..(end - n) /\ n + 1 \in 1..Len(text)
    BY <1>1
  <2>2. Char(text, n + 1) # "sign"
    BY <1>2, <2>1, CharFacts
  <2>3. 1 \in 1..Len(text) /\ n \in 1..Len(text) /\ \A k \in 1..n : text[k] = "sign"
    BY <1>1, <1>2
  <2>4. QED
    BY <2>2, <2>3, RunEndIs
<1>6. \A k \in e..end : text[k] = "sign"
  <2> SUFFICES ASSUME NEW k \in e..end PROVE text[k] = "sign"
    OBVIOUS
  <2>1. end + 1 - k \in 1..n /\ end + 1 - (end + 1 - k) = k
    BY <1>1, <1>3
  <2> HIDE DEF end
  <2>2. QED
    BY <1>2, <2>1
<1>7. RunEnd(text, e) = end
  <2>1. e \in 1..Len(text) /\ end \in e..Len(text)
    BY <1>1, <1>3
  <2> HIDE DEF e, end
  <2>2. QED
    BY <1>4, <1>6, <2>1, RunEndIs
<1>8. e \in ends
  <2>1. e \in e..end
    BY <1>1, <1>3
  <2>2. QED
    BY <1>3, <1>6, <2>1
<1>9. \A j \in ends : e <= j
  <2> SUFFICES ASSUME NEW j \in ends, j < e PROVE FALSE
    BY <1>1
  <2>1. j \in (n + 1)..(end - n) /\ text[j] = "sign"
    BY <1>1, <1>3
  <2>2. QED
    BY <1>2, <2>1
<1>10. (CHOOSE i \in ends : \A j \in ends : i <= j) = e
  <2>1. ends \subseteq Nat
    BY <1>1
  <2> HIDE DEF ends, e
  <2>2. QED
    BY <1>8, <1>9, <2>1, LeastIs
<1>11. n - 1 + 1 = n /\ end - e + 1 = n
  BY <1>1, <1>3
<1> HIDE DEF e, end, ends
<1>12. ends # {} /\ ends = {i \in (n + 2)..Len(text) : text[i] = "sign"}
  BY <1>8 DEF ends
<1>13. find_match(text, 1, m_end) = {[start |-> n, end |-> e, depth |-> n]}
  BY <1>5, <1>7, <1>10, <1>11, <1>12 DEF find_match
<1>14. QED
  BY <1>13 DEF e

(* What follows the line, up to any place. *)
LEMMA LineAndRest ==
  ASSUME NEW S, NEW text \in Seq(S), NEW l \in 1..Len(text), text[l] = "line",
         NEW u \in 0..(Len(text) - l)
  PROVE  SubSeq(text, l, l + u) = <<"line">> \o SubSeq(SubSeq(text, l + 1, Len(text)), 1, u)
<1> DEFINE rest == SubSeq(text, l + 1, Len(text))
           a == SubSeq(text, l, l + u)
           b == SubSeq(rest, 1, u)
           c == <<"line">> \o b
<1>1. rest \in Seq(S) /\ Len(rest) = Len(text) - l /\ \A i \in 1..Len(rest) : rest[i] = text[l + i]
  OBVIOUS
<1>2. a \in Seq(S) /\ Len(a) = u + 1 /\ \A i \in 1..(u + 1) : a[i] = text[l + i - 1]
  OBVIOUS
<1> HIDE DEF rest, a
<1>3. b \in Seq(S) /\ Len(b) = u /\ \A i \in 1..u : b[i] = rest[i]
  BY <1>1
<1> HIDE DEF b
<1>4. "line" \in S
  OBVIOUS
<1>5. c \in Seq(S) /\ Len(c) = u + 1 /\ c[1] = "line" /\ \A i \in 2..(u + 1) : c[i] = b[i - 1]
  BY <1>3, <1>4
<1> HIDE DEF c
<1>6. ASSUME NEW i \in 1..(u + 1) PROVE a[i] = c[i]
  <2>1. CASE i = 1
    BY <1>2, <1>5, <2>1
  <2>2. CASE i # 1
    <3>1. i - 1 \in 1..u /\ i - 1 \in 1..Len(rest) /\ i \in 2..(u + 1)
      BY <1>1, <2>2
    <3>2. c[i] = rest[i - 1] /\ rest[i - 1] = text[l + (i - 1)]
      BY <1>1, <1>3, <1>5, <3>1
    <3>3. l + (i - 1) = l + i - 1
      OBVIOUS
    <3>4. QED
      BY <1>2, <3>2, <3>3
  <2>3. QED
    BY <2>1, <2>2
<1>7. a = c
  BY <1>2, <1>5, <1>6, SeqEqual
<1>8. QED
  BY <1>7 DEF a, b, c, rest

(* What is edited as the section of a header is what follows its line, up to the next header. *)
LEMMA SectionIs ==
  ASSUME NEW S, NEW text \in Seq(S), NEW l, l = LineEnd(text), l > 1
  PROVE  extractSection(text, l - 1) =
           IF l > Len(text) \/ UpToStart(Rest(text)) < 0 THEN <<>>
           ELSE <<"line">> \o SubSeq(Rest(text), 1, UpToStart(Rest(text)))
<1> DEFINE rest == Rest(text)
           starts == Starts(rest)
           start == CHOOSE i \in starts : \A j \in starts : i <= j
           upTo == UpToStart(rest)
           ends == {i \in l..Len(text) : text[i] = "line" /\ Char(text, i + 1) = "sign"}
           end == IF ends = {} THEN Len(text) + 1 ELSE CHOOSE i \in ends : \A j \in ends : i <= j
<1>1. Len(text) \in Nat /\ l \in 1..(Len(text) + 1) /\ (l <= Len(text) => text[l] = "line")
  BY LineEndIs
<1>2. extractSection(text, l - 1) = SubSeq(text, l, end - 1)
  <2>1. l - 1 + 1 = l
    BY <1>1
  <2>2. extractSection(text, l - 1) = Section(text, l)
    BY <2>1, Zenon DEF extractSection
  <2>3. Section(text, l) = SubSeq(text, l, end - 1)
    BY Zenon DEF Section
  <2>4. QED
    BY <2>2, <2>3
<1>5. upTo = IF starts = {} THEN Len(rest) ELSE start - 2
  BY Zenon DEF UpToStart
<1>6. rest = SubSeq(text, l + 1, Len(text))
  BY DEF Rest
<1> HIDE DEF rest, upTo
<1>3. CASE l > Len(text)
  <2>1. l = Len(text) + 1
    BY <1>1, <1>3
  <2>2. ends = {}
    BY <1>1, <1>3
  <2>3. SubSeq(text, l, end - 1) = <<>>
    BY <1>1, <2>1, <2>2
  <2>4. QED
    BY <1>2, <1>3, <2>3
<1>4. CASE l <= Len(text)
  <2>1. l \in 1..Len(text) /\ text[l] = "line"
    BY <1>1, <1>4
  <2>2. rest \in Seq(S) /\ Len(rest) = Len(text) - l /\ \A i \in 1..Len(rest) : rest[i] = text[l + i]
    BY <1>6, <2>1
  <2>3. \A i : i \in starts <=> i \in 1..(Len(text) - l) /\ text[l + i] = "sign" /\ text[l + i - 1] = "line"
    <3>1. ASSUME NEW i \in 1..(Len(text) - l)
          PROVE  rest[i] = "sign" /\ (i = 1 \/ rest[i - 1] = "line")
                   <=> text[l + i] = "sign" /\ text[l + i - 1] = "line"
      <4>1. rest[i] = text[l + i]
        BY <2>2
      <4>2. CASE i = 1
        BY <2>1, <4>1, <4>2
      <4>3. CASE i # 1
        <5>1. i - 1 \in 1..Len(rest) /\ l + (i - 1) = l + i - 1
          BY <1>1, <2>2, <4>3
        <5>2. rest[i - 1] = text[l + i - 1]
          BY <2>2, <5>1
        <5>3. QED
          BY <4>1, <4>3, <5>2
      <4>4. QED
        BY <4>2, <4>3
    <3>2. \A i : i \in starts <=> i \in 1..(Len(text) - l) /\ rest[i] = "sign" /\ (i = 1 \/ rest[i - 1] = "line")
      BY <2>2 DEF Starts
    <3>3. QED
      BY <3>1, <3>2
  <2>4. \A j : j \in ends <=> j \in l..(Len(text) - 1) /\ text[j] = "line" /\ text[j + 1] = "sign"
    <3>1. ASSUME NEW j \in l..Len(text)
          PROVE  Char(text, j + 1) = "sign" <=> j <= Len(text) - 1 /\ text[j + 1] = "sign"
      <4>1. CASE j <= Len(text) - 1
        BY <1>1, <4>1, CharFacts
      <4>2. CASE ~(j <= Len(text) - 1)
        <5>1. j + 1 \notin 1..Len(text)
          BY <1>1, <4>2
        <5>2. QED
          BY <4>2, <5>1, CharFacts
      <4>3. QED
        BY <4>1, <4>2
    <3>2. QED
      BY <1>1, <3>1
  <2>5. starts \subseteq Nat /\ ends \subseteq Nat
    BY <1>1, <2>3, <2>4
  <2> HIDE DEF starts, ends
  <2>6. \A i \in Nat : i \in starts <=> l + i - 1 \in ends
    <3> SUFFICES ASSUME NEW i \in Nat PROVE i \in starts <=> l + i - 1 \in ends
      OBVIOUS
    <3>1. l + i - 1 + 1 = l + i /\ (l + i - 1 \in l..(Len(text) - 1) <=> i \in 1..(Len(text) - l))
      BY <1>1
    <3>2. QED
      BY <2>3, <2>4, <3>1
  <2>7. CASE starts = {}
    <3>1. ends = {}
      <4> SUFFICES ASSUME NEW j \in ends PROVE FALSE
        OBVIOUS
      <4>1. j - l + 1 \in Nat /\ l + (j - l + 1) - 1 = j
        BY <1>1, <2>4
      <4>2. QED
        BY <2>6, <2>7, <4>1
    <3>2. upTo = Len(text) - l /\ end - 1 = l + upTo
      BY <1>1, <1>5, <2>2, <2>7, <3>1
    <3>0. upTo = Len(text) - l
      BY <3>2
    <3>3. upTo \in 0..(Len(text) - l)
      BY <1>1, <2>1, <3>0
    <3> HIDE DEF end
    <3>4. SubSeq(text, l, l + upTo) = <<"line">> \o SubSeq(rest, 1, upTo)
      BY <1>6, <2>1, <3>3, LineAndRest
    <3>5. ~(l > Len(text) \/ upTo < 0)
      BY <1>1, <2>1, <3>3
    <3>6. extractSection(text, l - 1) = <<"line">> \o SubSeq(rest, 1, upTo)
      BY <1>2, <3>2, <3>4
    <3>7. QED
      BY <3>5, <3>6, Zenon DEF upTo, rest
  <2>8. CASE starts # {}
    <3>1. start \in starts /\ \A j \in starts : start <= j
      BY <2>5, <2>8, LeastNumber
    <3>2. start \in 1..(Len(text) - l)
      BY <2>3, <3>1
    <3> HIDE DEF start
    <3>3. l + start - 1 \in ends
      BY <2>5, <2>6, <3>1
    <3>4. \A j \in ends : l + start - 1 <= j
      <4> SUFFICES ASSUME NEW j \in ends PROVE l + start - 1 <= j
        OBVIOUS
      <4>1. j \in l..(Len(text) - 1) /\ j - l + 1 \in Nat /\ l + (j - l + 1) - 1 = j
        BY <1>1, <2>4
      <4>2. j - l + 1 \in starts
        BY <2>6, <4>1
      <4>3. start <= j - l + 1
        BY <3>1, <4>2
      <4>4. QED
        BY <1>1, <3>2, <4>1, <4>3
    <3>5. (CHOOSE i \in ends : \A j \in ends : i <= j) = l + start - 1
      BY <2>5, <3>3, <3>4, LeastIs
    <3>6. end = l + start - 1 /\ upTo = start - 2
      BY <1>5, <2>8, <3>3, <3>5 DEF start
    <3> HIDE DEF end
    <3>7. CASE start = 1
      <4>1. SubSeq(text, l, end - 1) = <<>>
        BY <1>1, <3>6, <3>7
      <4>2. upTo < 0
        BY <3>6, <3>7
      <4>3. extractSection(text, l - 1) = <<>>
        BY <1>2, <4>1
      <4>4. QED
        BY <4>2, <4>3, Zenon DEF upTo, rest
    <3>8. CASE start # 1
      <4>1. upTo \in 0..(Len(text) - l) /\ end - 1 = l + upTo
        BY <1>1, <3>2, <3>6, <3>8
      <4>2. SubSeq(text, l, l + upTo) = <<"line">> \o SubSeq(rest, 1, upTo)
        BY <1>6, <2>1, <4>1, LineAndRest
      <4>3. ~(l > Len(text) \/ upTo < 0)
        BY <1>1, <2>1, <4>1
      <4>4. extractSection(text, l - 1) = <<"line">> \o SubSeq(rest, 1, upTo)
        BY <1>2, <4>1, <4>2
      <4>5. QED
        BY <4>3, <4>4, Zenon DEF upTo, rest
    <3>9. QED
      BY <3>7, <3>8
  <2>9. QED
    BY <2>7, <2>8
<1>7. QED
  BY <1>1, <1>3, <1>4

LEMMA LineTaken ==
  ASSUME NEW S, NEW text \in Seq(S), NEW n \in 1..Len(text), WellFormed(text, n), NEW m_end,
         NEW match \in find_match(text, 1, m_end)
  PROVE  TakesItsLine(text, n, match)
<1> DEFINE l == LineEnd(text)
<1>1. match = [start |-> n, end |-> l - n, depth |-> n]
  BY MatchIs
<1>2. Len(text) \in Nat /\ l \in 1..(Len(text) + 1) /\ l - 1 >= 2 * n + 1
  BY LineEndIs DEF WellFormed
<1> DEFINE first == IF n = 1 THEN 1 + 2 ELSE n + 1
<1> HIDE DEF l
<1>3. l - n >= first
  BY <1>2
<1>4. Header(text, 1, match) = [title |-> SubSeq(text, first, l - n - 1), at |-> l - n + n - 1]
  BY <1>1, <1>3 DEF Header
<1>5. l - n - 1 = l - 1 - n /\ l - n + n - 1 = l - 1 /\ first = IF n = 1 THEN 3 ELSE n + 1
  BY <1>2
<1> HIDE DEF first
<1>6. Header(text, 1, match).title = SubSeq(text, IF n = 1 THEN 3 ELSE n + 1, l - 1 - n)
  BY <1>4, <1>5
<1>7. Header(text, 1, match).at = l - 1
  BY <1>4, <1>5
<1>8. match.depth = n
  BY <1>1
<1>9. extractSection(text, l - 1) =
        IF l > Len(text) \/ UpToStart(Rest(text)) < 0 THEN <<>>
        ELSE <<"line">> \o SubSeq(Rest(text), 1, UpToStart(Rest(text)))
  <2>1. l > 1 /\ l = LineEnd(text)
    BY <1>2 DEF l
  <2>2. QED
    BY <2>1, SectionIs, Zenon
<1>10. QED
  BY <1>6, <1>7, <1>8, <1>9 DEF TakesItsLine, l

(* A header that is closed as it is opened takes just its line, in a text of any length and      *)
(* whatever the match before it has left behind; and its section is edited up to the next one.  *)
THEOREM HeadersTakeTheirLines == Spec => []HeaderTakesItsLine
<1>1. Inv => HeaderTakesItsLine
  <2> SUFFICES ASSUME Inv, output # None, input.kind = "header",
                      NEW n \in 1..Len(input.text), WellFormed(input.text, n)
               PROVE  TakesItsLine(input.text, n, output[1])
    BY DEF HeaderTakesItsLine, Called
  <2>1. input \in Headers
    BY Kinds_ DEF Inv, Inputs
  <2>2. input.text \in Seq({"sign", "line", "a"})
    <3>1. PICK t \in Upto({"sign", "line", "a"}, MaxText), e \in {0, 2, MaxText} :
            input = [kind |-> "header", text |-> <<"sign">> \o t, m_end |-> e]
      BY <2>1 DEF Headers
    <3>2. t \in Seq({"sign", "line", "a"})
      BY Texts, Zenon
    <3>3. QED
      BY <3>1, <3>2
  <2>3. output[1] \in find_match(input.text, 1, input.m_end)
    BY DEF Inv, Results
  <2>4. QED
    BY <2>2, <2>3, LineTaken
<1>2. QED
  BY <1>1, Invariance, PTL


-----------------------------------------------------------------------------
(* Tags *)

(* The signs that are between the words of a tag, and those that its brackets begin with. *)
Signs == {":", " ", "line", "|", "=", ",", "zero"}
ClosingHeads == {"]", ">", "}", "-"}
OpeningHeads == {"[", "<", "{"}
Filled(s) == Len(s) \in Nat /\ Len(s) >= 1
IsTagger(t) ==
  /\ Filled(t.closer) /\ t.closer[1] \in ClosingHeads
  /\ Filled(t.opener) /\ Head(t.opener) \in OpeningHeads
  /\ t.ns_delim \in Signs /\ t.delims \subseteq Signs
  /\ t.attr_delims \subseteq Signs /\ t.attr_value_delim \in {"zero", "="}
  /\ t.attr_value_delim = "=" => t.can_abort /\ "=" \notin t.attr_delims

LEMMA Zero == "zero" # " " /\ "zero" # "line"
OBVIOUS

LEMMA HeadsAndSigns ==
  /\ \A c \in ClosingHeads : c \notin Signs /\ c \notin OpeningHeads
  /\ \A c \in OpeningHeads : c \notin Signs
  /\ " " \in Signs /\ "line" \in Signs /\ "zero" \in Signs /\ "=" \in Signs /\ ":" \in Signs
BY DEF ClosingHeads, OpeningHeads, Signs

LEMMA BracketFacts ==
  \A a, b, c, e :
    /\ Filled(<<a>>) /\ Filled(<<a, b>>) /\ Filled(<<a, b, c>>) /\ Filled(<<a, b, c, e>>)
    /\ Head(<<a>>) = a /\ Head(<<a, b>>) = a /\ Head(<<a, b, c>>) = a
    /\ Head(<<a, b, c, e>>) = a
BY DEF Filled

LEMMA TaggerFacts ==
  /\ DOMAIN taggers = 1..7
  /\ \A id \in 1..7 : IsTagger(taggers[id])
  /\ \A id \in 1..7 : id # 7 => taggers[id].can_abort
  /\ taggers[1].opener = taggers[2].opener /\ taggers[1].closer = taggers[2].closer
<1>0. DOMAIN taggers = 1..7
  BY DEF taggers
<1>1. IsTagger(taggers[1]) /\ taggers[1].can_abort
  <2>1. taggers[1].opener = <<"[">> /\ taggers[1].closer = <<"]">>
    BY DEF taggers, Tagger
  <2>2. /\ Filled(taggers[1].closer) /\ Filled(taggers[1].opener)
        /\ Head(taggers[1].opener) = "["
    BY <2>1, BracketFacts, Zenon
  <2>3. QED
    BY <2>2 DEF taggers, Tagger, IsTagger, OpeningHeads, ClosingHeads, Signs
<1>2. IsTagger(taggers[2]) /\ taggers[2].can_abort
  <2>1. taggers[2].opener = <<"[">> /\ taggers[2].closer = <<"]">>
    BY DEF taggers, Tagger
  <2>2. /\ Filled(taggers[2].closer) /\ Filled(taggers[2].opener)
        /\ Head(taggers[2].opener) = "["
    BY <2>1, BracketFacts, Zenon
  <2>3. QED
    BY <2>2 DEF taggers, Tagger, IsTagger, OpeningHeads, ClosingHeads, Signs
<1>3. IsTagger(taggers[3]) /\ taggers[3].can_abort
  <2>1. taggers[3].opener = <<"<">> /\ taggers[3].closer = <<">">>
    BY DEF taggers, Tagger
  <2>2. /\ Filled(taggers[3].closer) /\ Filled(taggers[3].opener)
        /\ Head(taggers[3].opener) = "<"
    BY <2>1, BracketFacts, Zenon
  <2>3. QED
    BY <2>2 DEF taggers, Tagger, IsTagger, OpeningHeads, ClosingHeads, Signs
<1>4. IsTagger(taggers[4]) /\ taggers[4].can_abort
  <2>1. taggers[4].opener = <<"[", "[">> /\ taggers[4].closer = <<"]", "]">>
    BY DEF taggers, Tagger
  <2>2. /\ Filled(taggers[4].closer) /\ Filled(taggers[4].opener)
        /\ Head(taggers[4].opener) = "["
    BY <2>1, BracketFacts, Zenon
  <2>3. QED
    BY <2>2 DEF taggers, Tagger, IsTagger, OpeningHeads, ClosingHeads, Signs
<1>5. IsTagger(taggers[5]) /\ taggers[5].can_abort
  <2>1. taggers[5].opener = <<"{", "{">> /\ taggers[5].closer = <<"}", "}">>
    BY DEF taggers, Tagger
  <2>2. /\ Filled(taggers[5].closer) /\ Filled(taggers[5].opener)
        /\ Head(taggers[5].opener) = "{"
    BY <2>1, BracketFacts, Zenon
  <2>3. QED
    BY <2>2 DEF taggers, Tagger, IsTagger, OpeningHeads, ClosingHeads, Signs
<1>6. IsTagger(taggers[6]) /\ taggers[6].can_abort
  <2>1. taggers[6].opener = <<"{", "{", "{">> /\ taggers[6].closer = <<"}", "}", "}">>
    BY DEF taggers, Tagger
  <2>2. /\ Filled(taggers[6].closer) /\ Filled(taggers[6].opener)
        /\ Head(taggers[6].opener) = "{"
    <3>1. \A x : Filled(<<x, x, x>>) /\ Head(<<x, x, x>>) = x
      BY DEF Filled
    <3>2. /\ Filled(<<"}", "}", "}">>) /\ Filled(<<"{", "{", "{">>)
          /\ Head(<<"{", "{", "{">>) = "{"
      BY <3>1, Zenon
    <3>3. QED
      BY <2>1, <3>2, Zenon
  <2>3. QED
    BY <2>2 DEF taggers, Tagger, IsTagger, OpeningHeads, ClosingHeads, Signs
<1>7. IsTagger(taggers[7])
  <2>1. taggers[7].opener = <<"<", "!", "-", "-">> /\ taggers[7].closer = <<"-", "-", ">">>
    BY DEF taggers, Tagger
  <2>2. /\ Filled(taggers[7].closer) /\ Filled(taggers[7].opener)
        /\ Head(taggers[7].opener) = "<"
    <3>1. Filled(taggers[7].closer) /\ Filled(taggers[7].opener)
      BY <2>1 DEF Filled
    <3>2. Head(taggers[7].opener) = "<"
      BY <2>1
    <3>3. QED
      BY <3>1, <3>2
  <2>3. QED
    BY <2>2 DEF taggers, Tagger, IsTagger, OpeningHeads, ClosingHeads, Signs
<1>8. taggers[1].opener = taggers[2].opener /\ taggers[1].closer = taggers[2].closer
  BY DEF taggers, Tagger
<1>9. \A id \in 1..7 : id \in {1, 2, 3, 4, 5, 6, 7}
  OBVIOUS
<1>10. QED
  BY <1>0, <1>1, <1>2, <1>3, <1>4, <1>5, <1>6, <1>7, <1>8, <1>9

(* A text has no zero in it. *)
IsText_(d) == \E S : d.text \in Seq(S) /\ \A i \in 1..Len(d.text) : d.text[i] # "zero"
Place(p) == p \in Nat /\ p >= 1
Clear(d, a, b, t) == \A k \in a..(b - 1) : ~Has(d, k, t.closer)
(* From one place to a later one that is not beyond the zero, unless the first is. *)
Moves(d, p, q) == Place(q) /\ p <= q /\ (q = p \/ q <= Len(d.text) + 1)
Inside(word, a, b) ==
  word.from \in Nat /\ word.to \in Nat /\ a <= word.from /\ word.from <= word.to /\ word.to <= b

LEMMA TextFacts ==
  ASSUME NEW d, IsText_(d), NEW p, Place(p)
  PROVE  /\ Len(d.text) \in Nat
         /\ atEnd(d, p) <=> p > Len(d.text)
         /\ p <= Len(d.text) => Char_(d, p) = d.text[p] /\ Char_(d, p) # "zero"
         /\ p = Len(d.text) + 1 => Char_(d, p) = "zero"
<1>1. Len(d.text) \in Nat
  BY DEF IsText_
<1>2. QED
  BY <1>1 DEF IsText_, atEnd, Char_, Place

(* Brackets that close are within the text, and none of them begins with a sign. *)
LEMMA HasFacts ==
  ASSUME NEW d, IsText_(d), NEW p, Place(p), NEW t, IsTagger(t), Has(d, p, t.closer)
  PROVE  p <= Len(d.text) /\ Char_(d, p) \in ClosingHeads
<1> DEFINE c == t.closer
           s == SubSeq(d.text, p, p + Len(c) - 1)
<1>1. PICK S : d.text \in Seq(S)
  BY DEF IsText_
<1>2. Len(d.text) \in Nat /\ p \in Nat /\ p >= 1
  BY <1>1 DEF Place
<1>3. Len(c) \in Nat /\ Len(c) >= 1 /\ c[1] \in ClosingHeads
  BY DEF IsTagger, Filled
<1>4. p + Len(c) <= Len(d.text) + 1 /\ s = c
  BY DEF Has
<1> HIDE DEF c
<1>5. p <= Len(d.text) /\ p + Len(c) - 1 <= Len(d.text) /\ p + Len(c) - 1 >= p
  BY <1>2, <1>3, <1>4
<1>6. s[1] = d.text[p]
  BY <1>1, <1>2, <1>5
<1>7. Char_(d, p) = d.text[p]
  BY <1>2, <1>5, TextFacts
<1>8. QED
  BY <1>3, <1>4, <1>5, <1>6, <1>7

LEMMA NoCloser ==
  ASSUME NEW d, IsText_(d), NEW p, Place(p), NEW t, IsTagger(t),
         p > Len(d.text) \/ Char_(d, p) \in Signs \cup OpeningHeads
  PROVE  ~Has(d, p, t.closer)
<1> SUFFICES ASSUME Has(d, p, t.closer) PROVE FALSE
  OBVIOUS
<1>1. p <= Len(d.text) /\ Char_(d, p) \in ClosingHeads
  BY HasFacts
<1>2. ~(p > Len(d.text))
  BY <1>1, TextFacts DEF Place
<1>3. QED
  BY <1>1, <1>2, HeadsAndSigns

LEMMA ClearOn ==
  ASSUME NEW d, NEW a, NEW b, NEW c, NEW t, Place(a), Place(b), Place(c),
         Clear(d, a, b, t), Clear(d, b, c, t)
  PROVE  Clear(d, a, c, t)
BY DEF Clear, Place

LEMMA ClearNext ==
  ASSUME NEW d, NEW a, NEW b, NEW t, Place(a), Place(b), Clear(d, a, b, t), ~Has(d, b, t.closer)
  PROVE  Clear(d, a, b + 1, t)
BY DEF Clear, Place

LEMMA ClearHere ==
  ASSUME NEW d, NEW a, NEW t, Place(a)
  PROVE  Clear(d, a, a, t)
BY DEF Clear, Place

(* Until(): up to a character that it stops at, with no brackets that close on the way. *)
LEMMA UntilFacts ==
  ASSUME NEW d, IsText_(d), NEW p, Place(p), NEW t, NEW stops
  PROVE  LET q == Until(d, p, t, stops) IN
         /\ Moves(d, p, q) /\ Clear(d, p, q, t)
         /\ q > Len(d.text) \/ Char_(d, q) \in stops \/ ~no_abort(d, q, t)
<1> DEFINE N == Len(d.text)
           stop(q) == atEnd(d, q) \/ Char_(d, q) \in stops \/ ~no_abort(d, q, t)
           stopped == {q \in p..(N + 1) : stop(q)}
<1>1. N \in Nat /\ p \in Nat /\ p >= 1 /\ (atEnd(d, p) <=> p > N)
  BY TextFacts DEF Place
<1>2. CASE p > N
  <2>1. Until(d, p, t, stops) = p
    BY <1>1, <1>2 DEF Until
  <2>2. Moves(d, p, p)
    BY <1>1 DEF Moves, Place
  <2>3. QED
    BY <1>2, <2>1, <2>2, ClearHere
<1>3. CASE p <= N
  <2>1. stopped \subseteq Nat /\ N + 1 \in stopped
    BY <1>1, <1>3, TextFacts DEF Place
  <2>2. PICK q \in stopped : \A j \in stopped : q <= j
    <3> HIDE DEF stopped
    <3>1. QED
      BY <2>1, LeastNumber
  <2>3. q \in p..(N + 1) /\ stop(q)
    OBVIOUS
  <2>4. ASSUME NEW k \in p..(q - 1) PROVE Char_(d, k) \notin stops /\ no_abort(d, k, t)
    <3>1. k \in p..(N + 1) /\ k \notin stopped
      BY <1>1, <2>2, <2>3
    <3>2. QED
      BY <3>1
  <2> DEFINE r == Until(d, p, t, stops)
  <2>5. \E x \in p..(N + 1) :
          /\ atEnd(d, x) \/ Char_(d, x) \in stops \/ ~no_abort(d, x, t)
          /\ \A k \in p..(x - 1) : Char_(d, k) \notin stops /\ no_abort(d, k, t)
    BY <2>3, <2>4
  <2>6. /\ r \in p..(N + 1)
        /\ atEnd(d, r) \/ Char_(d, r) \in stops \/ ~no_abort(d, r, t)
        /\ \A k \in p..(r - 1) : Char_(d, k) \notin stops /\ no_abort(d, k, t)
    <3>1. ~atEnd(d, p)
      BY <1>1, <1>3
    <3>2. QED
      BY <2>5, <3>1, Zenon DEF Until
  <2> HIDE DEF r
  <2>7. Clear(d, p, r, t)
    BY <2>6 DEF Clear, no_abort
  <2>8. Moves(d, p, r) /\ Place(r)
    BY <1>1, <2>6 DEF Moves, Place
  <2>9. atEnd(d, r) => r > N
    BY <2>8, TextFacts
  <2>10. QED
    BY <2>6, <2>7, <2>8, <2>9 DEF r
<1>4. QED
  BY <1>1, <1>2, <1>3

LEMMA SkipFacts ==
  ASSUME NEW d, IsText_(d), NEW p, Place(p), NEW t, IsTagger(t)
  PROVE  LET q == SkipSpace(d, p) IN Moves(d, p, q) /\ Clear(d, p, q, t)
<1> DEFINE N == Len(d.text)
           stopped == {q \in p..(N + 1) : ~Space(Char_(d, q))}
<1>1. N \in Nat /\ p \in Nat /\ p >= 1 /\ (atEnd(d, p) <=> p > N)
  BY TextFacts DEF Place
<1>2. CASE p > N
  <2>1. SkipSpace(d, p) = p
    BY <1>1, <1>2 DEF SkipSpace
  <2>2. Moves(d, p, p)
    BY <1>1 DEF Moves, Place
  <2>3. QED
    BY <1>2, <2>1, <2>2, ClearHere
<1>3. CASE p <= N
  <2>1. stopped \subseteq Nat /\ N + 1 \in stopped
    <3>1. Char_(d, N + 1) = "zero"
      BY <1>1, TextFacts DEF Place
    <3>2. ~Space(Char_(d, N + 1))
      BY <3>1, Zero DEF Space
    <3>3. N + 1 \in p..(N + 1) /\ \A q \in p..(N + 1) : q \in Nat
      BY <1>1, <1>3
    <3>4. QED
      BY <3>2, <3>3
  <2>2. PICK q \in stopped : \A j \in stopped : q <= j
    <3> HIDE DEF stopped
    <3>1. QED
      BY <2>1, LeastNumber
  <2>3. q \in p..(N + 1) /\ ~Space(Char_(d, q))
    OBVIOUS
  <2>4. ASSUME NEW k \in p..(q - 1) PROVE Space(Char_(d, k))
    <3>1. k \in p..(N + 1) /\ k \notin stopped
      BY <1>1, <2>2, <2>3
    <3>2. QED
      BY <3>1
  <2> DEFINE r == SkipSpace(d, p)
  <2>5. \E x \in p..(N + 1) : /\ ~Space(Char_(d, x))
                              /\ \A k \in p..(x - 1) : Space(Char_(d, k))
    BY <2>3, <2>4
  <2>6. r \in p..(N + 1) /\ \A k \in p..(r - 1) : Space(Char_(d, k))
    <3>1. ~atEnd(d, p)
      BY <1>1, <1>3
    <3>2. QED
      BY <2>5, <3>1, Zenon DEF SkipSpace
  <2> HIDE DEF r
  <2>7. ASSUME NEW k \in p..(r - 1) PROVE ~Has(d, k, t.closer)
    <3>1. Space(Char_(d, k)) /\ Place(k)
      BY <1>1, <2>6 DEF Place
    <3>2. Char_(d, k) \in Signs
      BY <3>1, HeadsAndSigns DEF Space
    <3>3. QED
      BY <3>1, <3>2, NoCloser
  <2>8. Moves(d, p, r)
    BY <1>1, <2>6 DEF Moves, Place
  <2>9. QED
    BY <2>7, <2>8 DEF r, Clear
<1>4. QED
  BY <1>1, <1>2, <1>3

LEMMA MovesOn ==
  ASSUME NEW d, NEW p, NEW q, NEW r, Place(p), Moves(d, p, q), Moves(d, q, r)
  PROVE  Moves(d, p, r)
BY DEF Moves, Place

(* One attribute ends where another may follow, at the end of the text, or where the tag may end. *)
LEMMA AttributeFacts ==
  ASSUME NEW d, IsText_(d), NEW p, Place(p), NEW t, IsTagger(t)
  PROVE  LET a == Attribute(d, p, t) IN
         /\ Moves(d, p, a.end) /\ Clear(d, p, a.end, t)
         /\ a.delimited \in BOOLEAN
         /\ a.delimited => a.end <= Len(d.text) /\ Char_(d, a.end) \in Signs
         /\ ~a.delimited => a.end > Len(d.text) \/ ~no_abort(d, a.end, t)
         /\ a.words \in [name : [from : Nat, to : Nat], value : [from : Nat, to : Nat]]
         /\ a.end <= Len(d.text) => Inside(a.words.name, p, a.end) /\ Inside(a.words.value, p, a.end)
<1> DEFINE N == Len(d.text)
           start == SkipSpace(d, p)
           name_end == Until(d, start, t, t.attr_delims \cup {t.attr_value_delim})
           valued == Char_(d, name_end) = t.attr_value_delim
           end == IF valued THEN Until(d, name_end, t, t.attr_delims) ELSE name_end
           words == IF valued THEN [name |-> Word(start, name_end), value |-> Word(name_end + 1, end)]
                    ELSE [name |-> Word(start, start), value |-> Word(start, end)]
           delimited == ~atEnd(d, end) /\ Char_(d, end) \in t.attr_delims
           a == Attribute(d, p, t)
<1>1. a = [words |-> words, end |-> end, delimited |-> delimited]
  BY Zenon DEF Attribute
<1>2. Moves(d, p, start) /\ Clear(d, p, start, t) /\ Place(start)
  BY SkipFacts DEF Moves
<1> HIDE DEF start
<1>3. /\ Moves(d, start, name_end) /\ Clear(d, start, name_end, t) /\ Place(name_end)
      /\ \/ name_end > N
         \/ Char_(d, name_end) \in t.attr_delims \cup {t.attr_value_delim}
         \/ ~no_abort(d, name_end, t)
  BY <1>2, UntilFacts DEF Moves
<1> HIDE DEF name_end
<1>4. valued => /\ Moves(d, name_end, end) /\ Clear(d, name_end, end, t)
                /\ end > N \/ Char_(d, end) \in t.attr_delims \/ ~no_abort(d, end, t)
  BY <1>3, UntilFacts
<1>5. ~valued => /\ end = name_end /\ Moves(d, name_end, end) /\ Clear(d, name_end, end, t)
                 /\ end > N \/ Char_(d, end) \in t.attr_delims \/ ~no_abort(d, end, t)
  BY <1>3, ClearHere DEF Moves, Place
<1>6. N \in Nat
  BY TextFacts
<1>7. valued /\ end <= N => name_end + 1 <= end
  <2> SUFFICES ASSUME valued, end <= N PROVE name_end + 1 <= end
    OBVIOUS
  <2>1. name_end <= N /\ name_end \in Nat /\ end \in Nat /\ name_end <= end
    BY <1>3, <1>4, <1>6 DEF Moves, Place
  <2>2. Char_(d, name_end) # "zero"
    BY <1>3, <2>1, TextFacts
  <2>3. t.attr_value_delim = "=" /\ t.can_abort /\ Char_(d, name_end) = "="
    BY <2>2 DEF IsTagger
  <2>4. ~Has(d, name_end, t.closer)
    BY <1>3, <2>3, NoCloser, HeadsAndSigns
  <2>5. Char_(d, name_end) # Head(t.opener)
    BY <2>3, HeadsAndSigns DEF IsTagger
  <2>6. no_abort(d, name_end, t)
    BY <2>3, <2>4, <2>5 DEF no_abort
  <2>7. CASE end = name_end
    <3>1. Char_(d, name_end) \in t.attr_delims
      BY <1>4, <2>1, <2>6, <2>7, <1>6
    <3>2. QED
      BY <2>3, <3>1 DEF IsTagger
  <2>8. QED
    BY <2>1, <2>7
<1> HIDE DEF valued, end
<1>8. Moves(d, p, end) /\ Clear(d, p, end, t) /\ Place(end)
  BY <1>2, <1>3, <1>4, <1>5, MovesOn, ClearOn DEF Moves
<1>9. delimited \in BOOLEAN
  OBVIOUS
<1>10. delimited => end <= N /\ Char_(d, end) \in Signs
  BY <1>6, <1>8, TextFacts DEF IsTagger, Place
<1>11. ~delimited => end > N \/ ~no_abort(d, end, t)
  BY <1>4, <1>5, <1>8, TextFacts
<1>12. words \in [name : [from : Nat, to : Nat], value : [from : Nat, to : Nat]]
  BY <1>2, <1>3, <1>8 DEF Word, Place
<1>13. end <= N => Inside(words.name, p, end) /\ Inside(words.value, p, end)
  <2>1. p \in Nat /\ start \in Nat /\ name_end \in Nat /\ end \in Nat
        /\ p <= start /\ start <= name_end /\ name_end <= end
    BY <1>2, <1>3, <1>4, <1>5, <1>8 DEF Moves, Place
  <2>2. QED
    BY <1>7, <2>1 DEF Word, Inside
<1> HIDE DEF words, delimited
<1>14. QED
  BY <1>1, <1>8, <1>9, <1>10, <1>11, <1>12, <1>13

(* The attributes from each place on come of those from a later one, or there is just one. *)
AttributeWords == [name : [from : Nat, to : Nat], value : [from : Nat, to : Nat]]
Goes(d, q, t) == Attribute(d, q, t).delimited /\ Char_(d, Attribute(d, q, t).end + 1) # "zero"
Longer(d, q, t, rest) ==
  [attributes |-> <<Attribute(d, q, t).words>> \o rest.attributes, at |-> rest.at]
Shortest(d, q, t) ==
  [attributes |-> <<Attribute(d, q, t).words>>,
   at |-> IF Attribute(d, q, t).delimited THEN Attribute(d, q, t).end + 1 ELSE Attribute(d, q, t).end]

Equates(d, p, t, f) ==
  /\ Attributes(d, p, t) = f[p]
  /\ \A q \in p..(Len(d.text) + 3) :
       /\ f[q].attributes \in Seq(AttributeWords) /\ f[q].at \in Nat
       /\ f[q] = IF Goes(d, q, t) THEN Longer(d, q, t, f[Attribute(d, q, t).end + 1])
                 ELSE Shortest(d, q, t)

LEMMA AttributesEquation ==
  ASSUME NEW d, IsText_(d), NEW p, Place(p), p <= Len(d.text) + 3, NEW t, IsTagger(t)
  PROVE  \E f : Equates(d, p, t, f)
<1> DEFINE b == Len(d.text) + 3
           X == [attributes : Seq(AttributeWords), at : Nat]
           next == [q \in p..b |-> Attribute(d, q, t).end + 1]
           last == {q \in p..b : ~Goes(d, q, t)}
           base == [q \in p..b |-> Shortest(d, q, t)]
           step == [q \in p..b |-> [r \in X |-> Longer(d, q, t, r)]]
<1>1. Len(d.text) \in Nat /\ p \in Int /\ b \in Int /\ p <= b
  BY TextFacts DEF Place
<1>2. ASSUME NEW q \in p..b
      PROVE  /\ Attribute(d, q, t).words \in AttributeWords
             /\ Attribute(d, q, t).end \in Nat
             /\ Goes(d, q, t) => Attribute(d, q, t).end + 1 \in (q + 1)..b
  <2>1. Place(q)
    BY <1>1 DEF Place
  <2>2. /\ Moves(d, q, Attribute(d, q, t).end)
        /\ Attribute(d, q, t).delimited => Attribute(d, q, t).end <= Len(d.text)
        /\ Attribute(d, q, t).words \in AttributeWords
    BY <2>1, AttributeFacts, Zenon DEF AttributeWords
  <2>3. QED
    BY <1>1, <2>1, <2>2 DEF Moves, Place, Goes
<1>3. base \in [p..b -> X]
  BY <1>2 DEF Shortest
<1>4. step \in [p..b -> [X -> X]]
  <2>1. ASSUME NEW q \in p..b, NEW r \in X PROVE Longer(d, q, t, r) \in X
    <3> DEFINE w == Attribute(d, q, t).words
    <3>1. w \in AttributeWords
      BY <1>2
    <3> HIDE DEF w
    <3>2. <<w>> \in Seq(AttributeWords)
      BY <3>1
    <3>3. <<w>> \o r.attributes \in Seq(AttributeWords)
      BY <3>2, ConcatProperties
    <3>4. QED
      BY <3>3 DEF Longer, w
  <2> HIDE DEF X
  <2>2. QED
    BY <2>1
<1>5. \A q \in p..b : q \notin last => next[q] \in (q + 1)..b
  BY <1>2
<1>6. \A q \in p..b : base[q] = Shortest(d, q, t) /\ next[q] = Attribute(d, q, t).end + 1
  OBVIOUS
<1>7. \A q \in p..b, r \in X : step[q][r] = Longer(d, q, t, r)
  OBVIOUS
<1>8. \A q \in p..b : q \in last <=> ~Goes(d, q, t)
  OBVIOUS
<1> HIDE DEF base, step, next, last
<1>9. PICK f : Linked(f, X, p, b, last, base, next, step)
  <2> HIDE DEF X, b
  <2>1. QED
    BY <1>1, <1>3, <1>4, <1>5, LinkedRecursion, Zenon
<1>10. ASSUME NEW q \in p..b
       PROVE  f[q] = IF Goes(d, q, t) THEN Longer(d, q, t, f[Attribute(d, q, t).end + 1])
                     ELSE Shortest(d, q, t)
  <2> HIDE DEF X, b
  <2>1. f[q] = IF q \in last THEN base[q] ELSE step[q][f[next[q]]]
    BY <1>9 DEF Linked
  <2>2. CASE ~Goes(d, q, t)
    BY <1>6, <1>8, <2>1, <2>2
  <2>3. CASE Goes(d, q, t)
    <3>1. Attribute(d, q, t).end + 1 \in p..b
      BY <1>1, <1>2, <2>3
    <3>2. f[Attribute(d, q, t).end + 1] \in X
      BY <1>9, <3>1 DEF Linked
    <3>3. QED
      BY <1>6, <1>7, <1>8, <2>1, <2>3, <3>2
  <2>4. QED
    BY <2>2, <2>3
<1>11. f \in [p..b -> X]
  BY <1>9, Zenon DEF Linked
<1> DEFINE value(g, q) == IF Goes(d, q, t) THEN Longer(d, q, t, g[Attribute(d, q, t).end + 1])
                          ELSE Shortest(d, q, t)
           from == CHOOSE g : g = [q \in p..b |-> value(g, q)]
<1>12. f = [q \in p..b |-> value(f, q)]
  BY <1>10, <1>11
<1>13. from = [q \in p..b |-> value(from, q)]
  BY <1>12, Zenon
<1>14. Attributes(d, p, t) = from[p]
  BY Zenon DEF Attributes, Goes, Longer, Shortest
<1>15. \A q \in p..b : f[q].attributes \in Seq(AttributeWords) /\ f[q].at \in Nat
  BY <1>11
<1> HIDE DEF from
<1>16. \A q \in p..b : from[q] = f[q]
  <2> DEFINE S == {q \in p..b : from[q] # f[q]}
  <2>1. SUFFICES ASSUME S # {} PROVE FALSE
    OBVIOUS
  <2>2. PICK q \in S : \A j \in S : j <= q
    <3>1. S \subseteq 0..b /\ b \in Nat
      BY <1>1 DEF Place
    <3> HIDE DEF S, b
    <3>2. QED
      BY <2>1, <3>1, GreatestNumber, Zenon
  <2>3. q \in p..b /\ from[q] # f[q]
    OBVIOUS
  <2>4. from[q] = value(from, q) /\ f[q] = value(f, q)
    BY <1>12, <1>13, <2>3
  <2>5. Goes(d, q, t) => from[Attribute(d, q, t).end + 1] = f[Attribute(d, q, t).end + 1]
    <3> DEFINE n == Attribute(d, q, t).end + 1
    <3>1. Goes(d, q, t) => n \in p..b /\ n > q
      BY <1>1, <1>2, <2>3
    <3>2. Goes(d, q, t) => n \notin S
      BY <1>1, <2>2, <2>3, <3>1
    <3>3. QED
      BY <3>1, <3>2
  <2>6. QED
    BY <2>3, <2>4, <2>5
<1>17. Attributes(d, p, t) = f[p]
  BY <1>1, <1>14, <1>16
<1>18. QED
  BY <1>10, <1>15, <1>17 DEF Equates

(* What Attributes() returns, when its stream is still in the text: only brackets that close, or *)
(* a character that may not be in a tag, have stopped it.                                          *)
Attributed(d, p, t, r) ==
  /\ Place(r.at) /\ p <= r.at
  /\ r.at <= Len(d.text) =>
       /\ Clear(d, p, r.at, t) /\ ~no_abort(d, r.at, t)
       /\ \A i \in DOMAIN r.attributes :
            Inside(r.attributes[i].name, p, r.at) /\ Inside(r.attributes[i].value, p, r.at)

LEMMA ShortestFacts ==
  ASSUME NEW d, IsText_(d), NEW p, Place(p), NEW t, IsTagger(t), ~Goes(d, p, t)
  PROVE  Attributed(d, p, t, Shortest(d, p, t))
<1> DEFINE a == Attribute(d, p, t)
           r == Shortest(d, p, t)
<1>1. /\ Moves(d, p, a.end) /\ Clear(d, p, a.end, t)
      /\ a.delimited => a.end <= Len(d.text)
      /\ ~a.delimited => a.end > Len(d.text) \/ ~no_abort(d, a.end, t)
      /\ a.end <= Len(d.text) => Inside(a.words.name, p, a.end) /\ Inside(a.words.value, p, a.end)
  BY AttributeFacts
<1>2. r.attributes = <<a.words>> /\ r.at = IF a.delimited THEN a.end + 1 ELSE a.end
  BY DEF Shortest
<1>3. a.delimited => Char_(d, a.end + 1) = "zero"
  BY DEF Goes
<1> HIDE DEF a, r
<1>4. Place(a.end) /\ p \in Nat /\ a.end \in Nat /\ p <= a.end /\ Len(d.text) \in Nat
  BY <1>1, TextFacts DEF Moves, Place
<1>5. CASE a.delimited
  <2>1. r.at = a.end + 1 /\ Place(r.at)
    BY <1>2, <1>4, <1>5 DEF Place
  <2>2. r.at > Len(d.text)
    BY <1>3, <1>4, <1>5, <2>1, TextFacts
  <2>3. QED
    BY <1>4, <2>1, <2>2 DEF Attributed, r
<1>6. CASE ~a.delimited
  <2>1. r.at = a.end /\ DOMAIN r.attributes = {1} /\ r.attributes[1] = a.words
    BY <1>2, <1>6
  <2>2. QED
    BY <1>1, <1>4, <1>6, <2>1 DEF Attributed, r
<1>7. QED
  BY <1>5, <1>6 DEF r

LEMMA LongerFacts ==
  ASSUME NEW d, IsText_(d), NEW p, Place(p), NEW t, IsTagger(t), Goes(d, p, t),
         NEW rest, rest.attributes \in Seq(AttributeWords),
         Attributed(d, Attribute(d, p, t).end + 1, t, rest)
  PROVE  Attributed(d, p, t, Longer(d, p, t, rest))
<1> DEFINE a == Attribute(d, p, t)
           r == Longer(d, p, t, rest)
           b == a.end + 1
<1>1. /\ Moves(d, p, a.end) /\ Clear(d, p, a.end, t)
      /\ a.end <= Len(d.text) /\ Char_(d, a.end) \in Signs
      /\ Inside(a.words.name, p, a.end) /\ Inside(a.words.value, p, a.end)
      /\ a.words \in AttributeWords
  BY AttributeFacts DEF Goes, AttributeWords
<1>2. r.attributes = <<a.words>> \o rest.attributes /\ r.at = rest.at
  BY DEF Longer
<1>3. Attributed(d, b, t, rest)
  OBVIOUS
<1> HIDE DEF a, r
<1>4. Place(a.end) /\ Place(b) /\ p \in Nat /\ a.end \in Nat /\ p <= a.end
  BY <1>1 DEF Moves, Place
<1>5. Clear(d, p, b, t)
  <2>1. ~Has(d, a.end, t.closer)
    BY <1>1, <1>4, NoCloser
  <2>2. QED
    BY <1>1, <1>4, <2>1, ClearNext
<1> HIDE DEF b
<1>6. Place(r.at) /\ b <= r.at /\ a.end <= r.at
  BY <1>2, <1>3, <1>4 DEF Attributed, Place, b
<1>7. ASSUME r.at <= Len(d.text)
      PROVE  /\ Clear(d, p, r.at, t) /\ ~no_abort(d, r.at, t)
             /\ \A i \in DOMAIN r.attributes :
                  Inside(r.attributes[i].name, p, r.at) /\ Inside(r.attributes[i].value, p, r.at)
  <2>1. /\ Clear(d, b, r.at, t) /\ ~no_abort(d, r.at, t)
        /\ \A i \in DOMAIN rest.attributes :
             Inside(rest.attributes[i].name, b, r.at) /\ Inside(rest.attributes[i].value, b, r.at)
    BY <1>2, <1>3, <1>7 DEF Attributed
  <2>2. Clear(d, p, r.at, t)
    BY <1>4, <1>5, <1>6, <2>1, ClearOn
  <2>3. \A w : Inside(w, b, r.at) => Inside(w, p, r.at)
    BY <1>4 DEF Inside, b
  <2>4. \A w : Inside(w, p, a.end) => Inside(w, p, r.at)
    BY <1>4, <1>6 DEF Inside, Place
  <2>5. ASSUME NEW i \in DOMAIN r.attributes
        PROVE  Inside(r.attributes[i].name, p, r.at) /\ Inside(r.attributes[i].value, p, r.at)
    <3>1. \/ r.attributes[i] = a.words
          \/ i - 1 \in DOMAIN rest.attributes /\ r.attributes[i] = rest.attributes[i - 1]
      <4>1. <<a.words>> \in Seq(AttributeWords) /\ Len(<<a.words>>) = 1 /\ <<a.words>>[1] = a.words
        BY <1>1
      <4> DEFINE one == <<a.words>>
      <4> HIDE DEF one
      <4>2. one \in Seq(AttributeWords) /\ Len(one) = 1 /\ one[1] = a.words
        BY <4>1 DEF one
      <4>3. r.attributes = one \o rest.attributes
        BY <1>2 DEF one
      <4>4. /\ Len(r.attributes) = 1 + Len(rest.attributes)
            /\ i \in 1..Len(r.attributes)
            /\ r.attributes[i] = IF i <= 1 THEN one[i] ELSE rest.attributes[i - 1]
        <5> DEFINE more == rest.attributes
        <5> HIDE DEF more
        <5>1. more \in Seq(AttributeWords) /\ r.attributes = one \o more
          BY <4>3 DEF more
        <5>2. /\ Len(one \o more) = Len(one) + Len(more)
              /\ \A j \in 1..(Len(one) + Len(more)) :
                   (one \o more)[j] = IF j <= Len(one) THEN one[j] ELSE more[j - Len(one)]
          BY <4>2, <5>1, ConcatProperties, Zenon
        <5>3. r.attributes \in Seq(AttributeWords)
          BY <4>2, <5>1, ConcatProperties
        <5>4. i \in 1..Len(r.attributes)
          BY <5>3
        <5>5. QED
          BY <4>2, <5>1, <5>2, <5>4 DEF more
      <4>5. QED
        BY <4>2, <4>4
    <3>2. CASE r.attributes[i] = a.words
      BY <1>1, <2>4, <3>2 DEF AttributeWords
    <3>3. CASE i - 1 \in DOMAIN rest.attributes /\ r.attributes[i] = rest.attributes[i - 1]
      <4>1. rest.attributes[i - 1] \in AttributeWords
        BY <3>3
      <4>2. QED
        BY <2>1, <2>3, <3>3, <4>1 DEF AttributeWords
    <3>4. QED
      BY <3>1, <3>2, <3>3
  <2>6. QED
    BY <2>1, <2>2, <2>5
<1>8. p <= r.at
  BY <1>4, <1>6 DEF Place
<1>9. QED
  BY <1>6, <1>7, <1>8 DEF Attributed, r

LEMMA AttributesFacts ==
  ASSUME NEW d, IsText_(d), NEW p, Place(p), p <= Len(d.text) + 3, NEW t, IsTagger(t)
  PROVE  Attributed(d, p, t, Attributes(d, p, t))
<1> DEFINE b == Len(d.text) + 3
<1>0. PICK f : Equates(d, p, t, f)
  BY AttributesEquation, Zenon
<1>1. /\ Attributes(d, p, t) = f[p]
      /\ \A q \in p..b :
           /\ f[q].attributes \in Seq(AttributeWords) /\ f[q].at \in Nat
           /\ f[q] = IF Goes(d, q, t) THEN Longer(d, q, t, f[Attribute(d, q, t).end + 1])
                     ELSE Shortest(d, q, t)
  BY <1>0, Zenon DEF Equates
<1> DEFINE S == {q \in p..b : ~Attributed(d, q, t, f[q])}
<1>2. Len(d.text) \in Nat /\ p \in Nat /\ p >= 1 /\ b \in Nat /\ p \in p..b
  BY TextFacts DEF Place
<1>3. ASSUME S # {} PROVE FALSE
  <2>1. PICK q \in S : \A j \in S : j <= q
    <3>1. S \subseteq 0..b
      BY <1>2
    <3> HIDE DEF S, b
    <3>2. QED
      BY <1>2, <1>3, <3>1, GreatestNumber, Zenon
  <2>2. q \in p..b /\ ~Attributed(d, q, t, f[q]) /\ Place(q)
    BY <1>2 DEF Place
  <2>3. CASE ~Goes(d, q, t)
    BY <1>1, <2>2, <2>3, ShortestFacts
  <2>4. CASE Goes(d, q, t)
    <3> DEFINE n == Attribute(d, q, t).end + 1
    <3>1. n \in p..b /\ n > q
      <4>1. Moves(d, q, Attribute(d, q, t).end) /\ Attribute(d, q, t).end <= Len(d.text)
        BY <2>2, <2>4, AttributeFacts DEF Goes
      <4>2. QED
        BY <1>2, <2>2, <4>1 DEF Moves, Place
    <3>2. n \notin S
      BY <1>2, <2>1, <2>2, <3>1
    <3>3. Attributed(d, n, t, f[n]) /\ f[n].attributes \in Seq(AttributeWords)
      BY <1>1, <3>1, <3>2
    <3>4. f[q] = Longer(d, q, t, f[n])
      BY <1>1, <2>2, <2>4
    <3>5. Attributed(d, q, t, Longer(d, q, t, f[n]))
      BY <2>2, <2>4, <3>3, LongerFacts
    <3>6. QED
      BY <2>2, <3>4, <3>5
  <2>5. QED
    BY <2>3, <2>4
<1>4. QED
  BY <1>1, <1>2, <1>3

(* Behind the name, if the stream is still in the text: it is where it was, or only brackets that *)
(* close, or a character that may not be in a tag, have stopped it.                                *)
LEMMA TailFacts ==
  ASSUME NEW d, IsText_(d), NEW p, Place(p), p <= Len(d.text) + 2, NEW t, IsTagger(t)
  PROVE  LET r == TagTail(d, p, t) IN
         /\ Place(r.at) /\ p <= r.at
         /\ r.at <= Len(d.text) =>
              /\ Clear(d, p, r.at, t)
              /\ ~no_abort(d, r.at, t) \/ (r.at = p /\ Char_(d, p) \notin t.delims)
              /\ \A i \in DOMAIN r.attributes :
                   Inside(r.attributes[i].name, p, r.at) /\ Inside(r.attributes[i].value, p, r.at)
<1> DEFINE more == Char_(d, p) \in t.delims
           r == TagTail(d, p, t)
<1>1. Len(d.text) \in Nat /\ p \in Nat /\ p >= 1 /\ Place(p + 1)
  BY TextFacts DEF Place
<1>2. CASE more /\ Char_(d, p + 1) # "zero"
  <2>1. r = Attributes(d, p + 1, t)
    BY <1>2 DEF TagTail
  <2>2. Attributed(d, p + 1, t, r)
    BY <1>1, <2>1, AttributesFacts
  <2> HIDE DEF r
  <2>3. Place(r.at) /\ p + 1 <= r.at /\ r.at \in Nat
    BY <2>2 DEF Attributed, Place
  <2>4. ASSUME r.at <= Len(d.text)
        PROVE  /\ Clear(d, p, r.at, t) /\ ~no_abort(d, r.at, t)
               /\ \A i \in DOMAIN r.attributes :
                    Inside(r.attributes[i].name, p, r.at) /\ Inside(r.attributes[i].value, p, r.at)
    <3>1. /\ Clear(d, p + 1, r.at, t) /\ ~no_abort(d, r.at, t)
          /\ \A i \in DOMAIN r.attributes :
               /\ Inside(r.attributes[i].name, p + 1, r.at)
               /\ Inside(r.attributes[i].value, p + 1, r.at)
      BY <2>2, <2>4 DEF Attributed
    <3>2. ~Has(d, p, t.closer)
      <4>1. Char_(d, p) \in Signs
        BY <1>2 DEF IsTagger
      <4>2. QED
        BY <4>1, NoCloser
    <3>3. Clear(d, p, r.at, t)
      BY <1>1, <3>1, <3>2 DEF Clear
    <3>4. \A w : Inside(w, p + 1, r.at) => Inside(w, p, r.at)
      BY <1>1 DEF Inside
    <3>5. QED
      BY <3>1, <3>3, <3>4
  <2>5. QED
    BY <1>1, <2>3, <2>4 DEF r
<1>3. CASE more /\ Char_(d, p + 1) = "zero"
  <2>1. r.attributes = <<>> /\ r.at = p + 1
    BY <1>3 DEF TagTail
  <2>2. r.at > Len(d.text)
    BY <1>1, <1>3, <2>1, TextFacts
  <2> HIDE DEF r
  <2>3. QED
    BY <1>1, <2>1, <2>2 DEF r
<1>4. CASE ~more
  <2>1. r.attributes = <<>> /\ r.at = p
    BY <1>4 DEF TagTail
  <2>2. Clear(d, p, p, t)
    BY ClearHere
  <2> HIDE DEF r
  <2>3. DOMAIN r.attributes = {}
    BY <2>1
  <2>4. QED
    BY <1>1, <1>4, <2>1, <2>2, <2>3 DEF r
<1>5. QED
  BY <1>2, <1>3, <1>4

(* The name: no brackets close before it ends, and what stops it is no bracket or stops the tag. *)
Stopped(d, p, t) ==
  p > Len(d.text) \/ Char_(d, p) \in {t.ns_delim} \cup t.delims \/ ~no_abort(d, p, t)
Named(d, p, opened, names) ==
  LET t == taggers[names.id]
      to == names.name.to
  IN /\ names.id = opened \/ (names.id = 1 /\ opened = 2)
     /\ Place(to) /\ p <= to /\ to <= Len(d.text) + 2
     /\ Clear(d, p, to, t) /\ Stopped(d, to, t)
     /\ Inside(names.interwiki, p, to) /\ Inside(names.namespace, p, to) /\ Inside(names.name, p, to)

LEMMA NamesFacts ==
  ASSUME NEW d, IsText_(d), NEW p, Place(p), p <= Len(d.text) + 1, NEW opened \in 1..7
  PROVE  Named(d, p, opened, Names(d, p, opened))
<1> DEFINE N == Len(d.text)
           stops(tagger) == {tagger.ns_delim} \cup tagger.delims
           first == Until(d, p, taggers[opened], stops(taggers[opened]))
           spaced == Char_(d, first) = taggers[opened].ns_delim
           id == IF ~spaced /\ opened = SingleBracketWikiLink THEN SingleBracketBBCode ELSE opened
           t == taggers[id]
           start == IF spaced THEN first + 1 ELSE p
           second == Until(d, start, t, stops(t))
           again == ~atEnd(d, second) /\ Char_(d, second) = t.ns_delim
           third == IF again THEN Until(d, second + 1, t, stops(t)) ELSE second
           nothing == Word(p, p)
           names == [id |-> id,
                     interwiki |-> IF again /\ spaced THEN Word(p, first) ELSE nothing,
                     namespace |-> IF again THEN Word(start, second)
                                   ELSE IF spaced THEN Word(p, first) ELSE nothing,
                     name |-> Word(IF again THEN second + 1 ELSE start, third)]
<1>1. Names(d, p, opened) = names
  BY Zenon DEF Names
<1>2. /\ id = opened \/ (id = 1 /\ opened = 2)
      /\ id \in 1..7 /\ t.closer = taggers[opened].closer /\ IsTagger(t) /\ IsTagger(taggers[opened])
  BY TaggerFacts DEF SingleBracketWikiLink, SingleBracketBBCode
<1>3. N \in Nat /\ p \in Nat /\ p >= 1
  BY TextFacts DEF Place
<1>4. Moves(d, p, first) /\ Clear(d, p, first, taggers[opened])
  BY <1>2, UntilFacts
<1> HIDE DEF first
<1>5. first \in Nat /\ p <= first /\ first <= N + 1 /\ Place(first)
  BY <1>3, <1>4 DEF Moves, Place
<1> HIDE DEF id
<1>6. Clear(d, p, first, t)
  BY <1>2, <1>4 DEF Clear
<1>7. spaced => ~Has(d, first, t.closer)
  <2>1. spaced => Char_(d, first) \in Signs
    BY <1>2 DEF IsTagger
  <2>2. QED
    BY <1>2, <1>5, <2>1, NoCloser
<1>8. /\ start \in Nat /\ Place(start) /\ p <= start /\ start <= N + 2 /\ Clear(d, p, start, t)
      /\ spaced => start = first + 1
      /\ ~spaced => start = p
  <2>1. CASE spaced
    BY <1>3, <1>5, <1>6, <1>7, <2>1, ClearNext DEF Place
  <2>2. CASE ~spaced
    BY <1>3, <2>2, ClearHere
  <2>3. QED
    BY <2>1, <2>2
<1> HIDE DEF spaced, start, t
<1>9. Moves(d, start, second) /\ Clear(d, start, second, t) /\ Stopped(d, second, t)
  BY <1>8, UntilFacts DEF Stopped
<1> HIDE DEF second
<1>10. second \in Nat /\ start <= second /\ second <= N + 2 /\ Place(second) /\ Clear(d, p, second, t)
  <2>1. second \in Nat /\ start <= second /\ second <= N + 2 /\ Place(second)
    BY <1>3, <1>8, <1>9 DEF Moves, Place
  <2>2. QED
    BY <1>8, <1>9, <2>1, ClearOn
<1>11. again => /\ Clear(d, p, second + 1, t)
                /\ second + 1 \in Nat /\ Place(second + 1) /\ second + 1 <= N + 1
  <2> SUFFICES ASSUME again
               PROVE  /\ Clear(d, p, second + 1, t)
                      /\ second + 1 \in Nat /\ Place(second + 1) /\ second + 1 <= N + 1
    OBVIOUS
  <2>1. second <= N
    BY <1>3, <1>10, TextFacts
  <2>2. Char_(d, second) \in Signs
    BY <1>2 DEF IsTagger
  <2>3. ~Has(d, second, t.closer)
    BY <1>2, <1>10, <2>2, NoCloser
  <2>4. QED
    BY <1>3, <1>10, <2>1, <2>3, ClearNext DEF Place
<1>12. /\ third \in Nat /\ Place(third) /\ second <= third /\ third <= N + 2
       /\ Clear(d, p, third, t) /\ Stopped(d, third, t)
       /\ again => second + 1 <= third
  <2>1. CASE again
    <3>1. third = Until(d, second + 1, t, stops(t))
      BY <2>1
    <3>2. Moves(d, second + 1, third) /\ Clear(d, second + 1, third, t) /\ Stopped(d, third, t)
      BY <1>11, <2>1, <3>1, UntilFacts DEF Stopped
    <3> HIDE DEF third
    <3>3. third \in Nat /\ Place(third) /\ second + 1 <= third /\ third <= N + 2
      BY <1>3, <1>11, <2>1, <3>2 DEF Moves, Place
    <3>4. Clear(d, p, third, t)
      BY <1>11, <2>1, <3>2, <3>3, ClearOn
    <3>5. QED
      BY <1>10, <3>2, <3>3, <3>4
  <2>2. CASE ~again
    BY <1>9, <1>10, <2>2
  <2>3. QED
    BY <2>1, <2>2
<1> HIDE DEF again, third
<1>13. names.name.to = third /\ names.id = id
  BY DEF Word
<1>14. /\ Inside(names.interwiki, p, third)
       /\ Inside(names.namespace, p, third)
       /\ Inside(names.name, p, third)
  BY <1>3, <1>5, <1>8, <1>10, <1>12 DEF Word, Inside
<1> HIDE DEF names, N
<1>15. Named(d, p, opened, names)
  BY <1>2, <1>3, <1>5, <1>8, <1>10, <1>12, <1>13, <1>14 DEF Named, t, N
<1>16. QED
  BY <1>1, <1>15

(* The last of the kinds of brackets that are found somewhere. *)
LEMMA KindFacts ==
  ASSUME NEW d, NEW p, NEW side, Kinds(d, p, side) # {}
  PROVE  /\ id_tag(d, p, side) \in 1..7
         /\ Has(d, p, taggers[id_tag(d, p, side)][side])
<1> DEFINE K == Kinds(d, p, side)
<1>1. K \subseteq 0..7 /\ K \subseteq 1..7
  BY TaggerFacts DEF Kinds
<1> HIDE DEF K
<1>2. PICK k \in K : \A j \in K : j <= k
  <2>1. K # {}
    BY DEF K
  <2>2. QED
    BY <1>1, <2>1, GreatestNumber
<1>3. id_tag(d, p, side) \in K
  <2>1. \E id \in K : \A j \in K : j <= id
    BY <1>2
  <2>2. QED
    BY <2>1, Zenon DEF id_tag, K
<1>4. Has(d, p, taggers[id_tag(d, p, side)][side])
  BY <1>3, Zenon DEF K, Kinds
<1>5. QED
  BY <1>1, <1>3, <1>4

(* Where brackets close that are of the tag's kind or of a later one, those of the tag close. *)
LEMMA CloserFound ==
  ASSUME NEW d, IsText_(d), NEW p, Place(p), NEW id \in 1..7,
         Kinds(d, p, "closer") # {}, id <= id_tag(d, p, "closer")
  PROVE  /\ p <= Len(d.text) /\ Char_(d, p) \in ClosingHeads
         /\ ~no_abort(d, p, taggers[id]) => Has(d, p, taggers[id].closer)
<1> DEFINE k == id_tag(d, p, "closer")
<1>1. k \in 1..7 /\ Has(d, p, taggers[k].closer)
  BY KindFacts
<1> HIDE DEF k
<1>2. IsTagger(taggers[k]) /\ IsTagger(taggers[id])
  BY <1>1, TaggerFacts
<1>3. p <= Len(d.text) /\ Char_(d, p) \in ClosingHeads
  BY <1>1, <1>2, HasFacts
<1>4. Char_(d, p) # Head(taggers[id].opener)
  BY <1>2, <1>3, HeadsAndSigns DEF IsTagger
<1>5. CASE taggers[id].can_abort
  BY <1>3, <1>4, <1>5 DEF no_abort
<1>6. CASE ~taggers[id].can_abort
  <2>1. id = 7
    BY <1>6, TaggerFacts
  <2>2. k = 7
    BY <1>1, <2>1 DEF k
  <2>3. QED
    BY <1>1, <1>3, <2>1, <2>2
<1>7. QED
  BY <1>5, <1>6

(* A tag that is named and closed is one: b is behind the brackets that open it. *)
LEMMA ClosedWhole ==
  ASSUME NEW d, IsText_(d), NEW pos, Place(pos), NEW opened \in 1..7, NEW p, NEW b, NEW names,
         Has(d, pos, taggers[opened].opener), b = pos + Len(taggers[opened].opener),
         Place(b), Place(p), b <= p, Clear(d, b, p, taggers[opened]),
         Named(d, p, opened, names)
  PROVE  Whole(d, pos, TagNamed(d, pos, names))
<1> DEFINE t == taggers[names.id]
           to == names.name.to
           tail == TagTail(d, to, t)
           tag == TagClosed(d, pos, names, tail)
           inside(word) == /\ pos + Len(t.opener) <= word.from
                           /\ word.from <= word.to /\ word.to <= tail.at
<1>1. TagNamed(d, pos, names) = tag
  BY DEF TagNamed
<1>2. /\ names.id = opened \/ (names.id = 1 /\ opened = 2)
      /\ Place(to) /\ p <= to /\ to <= Len(d.text) + 2
      /\ Clear(d, p, to, t) /\ Stopped(d, to, t)
      /\ Inside(names.interwiki, p, to) /\ Inside(names.namespace, p, to) /\ Inside(names.name, p, to)
  BY Zenon DEF Named
<1>3. /\ names.id \in 1..7 /\ IsTagger(t)
      /\ t.opener = taggers[opened].opener /\ t.closer = taggers[opened].closer
  BY <1>2, TaggerFacts
<1> HIDE DEF to, t
<1>4. /\ Place(tail.at) /\ to <= tail.at
      /\ tail.at <= Len(d.text) =>
           /\ Clear(d, to, tail.at, t)
           /\ ~no_abort(d, tail.at, t) \/ (tail.at = to /\ Char_(d, to) \notin t.delims)
           /\ \A i \in DOMAIN tail.attributes :
                Inside(tail.attributes[i].name, to, tail.at) /\ Inside(tail.attributes[i].value, to, tail.at)
  BY <1>2, <1>3, TailFacts
<1> HIDE DEF tail
<1> DEFINE open == Kinds(d, tail.at, "closer") = {} \/ names.id > id_tag(d, tail.at, "closer")
<1>5. CASE open
  <2>1. tag = [ok |-> FALSE, at |-> pos]
    BY <1>5 DEF TagClosed
  <2> HIDE DEF tag
  <2>2. ~tag.ok /\ tag.at = pos
    BY <2>1
  <2>3. QED
    BY <1>1, <2>2 DEF Whole
<1>6. CASE ~open
  <2>1. Kinds(d, tail.at, "closer") # {} /\ names.id <= id_tag(d, tail.at, "closer")
    BY <1>3, <1>6, KindFacts
  <2>2. /\ tail.at <= Len(d.text) /\ Char_(d, tail.at) \in ClosingHeads
        /\ ~no_abort(d, tail.at, t) => Has(d, tail.at, t.closer)
    BY <1>3, <1>4, <2>1, CloserFound DEF t
  <2>3. Has(d, tail.at, t.closer)
    <3>1. CASE tail.at = to /\ Char_(d, to) \notin t.delims
      <4>1. Char_(d, to) # t.ns_delim
        BY <1>3, <2>2, <3>1, HeadsAndSigns DEF IsTagger
      <4>2. ~(to > Len(d.text))
        BY <2>2, <3>1, <1>2, TextFacts DEF Place
      <4>3. QED
        BY <1>2, <2>2, <3>1, <4>1, <4>2 DEF Stopped
    <3>2. QED
      BY <1>4, <2>2, <3>1
  <2>4. tag = [ok |-> TRUE, at |-> TagEnd(tail.at, t), id |-> names.id,
               words |-> <<names.interwiki, names.namespace, names.name>>,
               attributes |-> tail.attributes]
    BY <1>6 DEF TagClosed, t
  <2> HIDE DEF tag, open
  <2>5. /\ pos \in Nat /\ b \in Nat /\ p \in Nat /\ to \in Nat /\ tail.at \in Nat
        /\ b <= p /\ p <= to /\ to <= tail.at
        /\ b = pos + Len(t.opener) /\ Len(t.opener) \in Nat /\ Len(t.closer) \in Nat
    BY <1>2, <1>3, <1>4 DEF Place, IsTagger, Filled
  <2>6. tag.at - Len(t.closer) + 1 = tail.at
    <3>1. tag.at = TagEnd(tail.at, t)
      BY <2>4
    <3>2. \A x \in Nat, l \in Nat : x + l - 1 - l + 1 = x
      OBVIOUS
    <3>3. tag.at = tail.at + Len(t.closer) - 1
      BY <3>1, Zenon DEF TagEnd
    <3> DEFINE x == tail.at
               l == Len(t.closer)
    <3>4. x \in Nat /\ l \in Nat
      BY <2>5
    <3> HIDE DEF x, l
    <3>5. tag.at - l + 1 = x
      BY <3>2, <3>3, <3>4 DEF x, l
    <3>6. QED
      BY <3>5 DEF x, l
  <2>7. Clear(d, b, tail.at, t)
    <3>1. Clear(d, b, p, t)
      BY <1>3 DEF Clear
    <3>2. QED
      BY <1>2, <1>4, <2>2, <2>5, <3>1 DEF Clear
  <2>8. \A w : Inside(w, p, to) \/ Inside(w, to, tail.at) => inside(w)
    BY <2>5 DEF Inside
  <2> HIDE DEF inside
  <2>9. \A i \in DOMAIN tag.words : inside(tag.words[i])
    <3>1. inside(names.interwiki) /\ inside(names.namespace) /\ inside(names.name)
      BY <1>2, <2>8
    <3>2. tag.words = <<names.interwiki, names.namespace, names.name>>
      BY <2>4
    <3>3. QED
      BY <3>1, <3>2
  <2>10. \A i \in DOMAIN tag.attributes :
           inside(tag.attributes[i].name) /\ inside(tag.attributes[i].value)
    <3>1. tag.attributes = tail.attributes
      BY <2>4
    <3>2. QED
      BY <1>4, <2>2, <2>8, <3>1
  <2>11. Has(d, pos, t.opener)
    BY <1>3
  <2>12. tag.ok /\ tag.id = names.id
    BY <2>4
  <2>13. /\ Has(d, pos, t.opener) /\ Has(d, tail.at, t.closer)
         /\ pos + Len(t.opener) <= tail.at
         /\ \A q \in (pos + Len(t.opener))..(tail.at - 1) : ~Has(d, q, t.closer)
    BY <2>3, <2>5, <2>7, <2>11 DEF Clear
  <2>14. Whole(d, pos, tag)
    BY <2>6, <2>9, <2>10, <2>12, <2>13, Zenon DEF Whole, t, inside
  <2>15. QED
    BY <1>1, <2>14 DEF tag
<1>7. QED
  BY <1>5, <1>6

LEMMA ReadWhole ==
  ASSUME NEW d, IsText_(d), NEW pos, Place(pos)
  PROVE  Whole(d, pos, readTag(d, pos))
<1> DEFINE opened == id_tag(d, pos, "opener")
           b == pos + Len(taggers[opened].opener)
           ns_opener == Char_(d, b) = ":"
           p == IF ns_opener THEN b + 1 ELSE b
           names == Names(d, p, opened)
<1>1. CASE Kinds(d, pos, "opener") = {}
  <2>1. readTag(d, pos) = [ok |-> FALSE, at |-> pos]
    BY <1>1 DEF readTag
  <2>2. QED
    BY <2>1 DEF Whole
<1>2. CASE Kinds(d, pos, "opener") # {}
  <2>1. opened \in 1..7 /\ Has(d, pos, taggers[opened].opener)
    BY <1>2, KindFacts
  <2>2. readTag(d, pos) = TagNamed(d, pos, names)
    BY <1>2, Zenon DEF readTag
  <2> HIDE DEF opened
  <2>3. IsTagger(taggers[opened])
    BY <2>1, TaggerFacts
  <2>4. Len(taggers[opened].opener) \in Nat /\ Len(d.text) \in Nat /\ pos \in Nat /\ pos >= 1
    BY <2>3, TextFacts DEF IsTagger, Filled, Place
  <2>5. Place(b) /\ b <= Len(d.text) + 1
    BY <2>1, <2>4 DEF Place, Has
  <2> HIDE DEF b
  <2>6. Place(p) /\ b <= p /\ p <= Len(d.text) + 1 /\ Clear(d, b, p, taggers[opened])
    <3>1. CASE ns_opener
      <4>1. Char_(d, b) \in Signs /\ Char_(d, b) # "zero"
        BY <3>1, HeadsAndSigns
      <4>2. ~Has(d, b, taggers[opened].closer)
        BY <2>3, <2>5, <4>1, NoCloser
      <4>3. b # Len(d.text) + 1
        BY <2>5, <4>1, TextFacts
      <4>4. Clear(d, b, b + 1, taggers[opened])
        BY <2>5, <4>2, ClearHere, ClearNext
      <4>5. p = b + 1
        BY <3>1
      <4>6. QED
        BY <2>4, <2>5, <4>3, <4>4, <4>5 DEF Place
    <3>2. CASE ~ns_opener
      BY <2>5, <3>2, ClearHere DEF Place
    <3>3. QED
      BY <3>1, <3>2
  <2> HIDE DEF p
  <2>7. Named(d, p, opened, names)
    BY <2>1, <2>6, NamesFacts
  <2> HIDE DEF names
  <2>8. b = pos + Len(taggers[opened].opener)
    BY DEF b
  <2>9. Whole(d, pos, TagNamed(d, pos, names))
    BY <2>1, <2>5, <2>6, <2>7, <2>8, ClosedWhole
  <2>10. QED
    BY <2>2, <2>9
<1>3. QED
  BY <1>1, <1>2

(* The texts that tags are made of have no zero. *)
LEMMA TagTextFacts ==
  ASSUME NEW in \in Tags
  PROVE  IsText_(in)
<1> DEFINE S == {"a", ":", " ", "line", "=", ",", "|", "!", "-", "[", "]", "<", ">", "{", "}"}
<1>1. ASSUME NEW w \in Openings PROVE w.opener \in Seq(S) /\ w.behind \subseteq S
  <2> DEFINE fine(x) == x.opener \in Seq(S) /\ x.behind \subseteq S
  <2>1. {"a", ":", " ", "=", ",", "]", "["} \subseteq S
    BY Zenon
  <2>2. {"a", ":", " ", "line", "=", ">", "<"} \subseteq S
    BY Zenon
  <2>3. {"a", ":", "|", "=", "]"} \subseteq S
    BY Zenon
  <2>4. {"a", ":", "|", "=", "}", "{"} \subseteq S
    BY Zenon
  <2>5. {"a", "-", ">"} \subseteq S
    BY Zenon
  <2>6. "[" \in S /\ "<" \in S /\ "{" \in S /\ "!" \in S /\ "-" \in S
    BY Zenon
  <2> HIDE DEF S
  <2>7. \A x, y, z, u \in S : <<x>> \in Seq(S) /\ <<x, y>> \in Seq(S) /\ <<x, y, z, u>> \in Seq(S)
    OBVIOUS
  <2>8. /\ <<"[">> \in Seq(S) /\ <<"<">> \in Seq(S) /\ <<"[", "[">> \in Seq(S)
        /\ <<"{", "{">> \in Seq(S) /\ <<"<", "!", "-", "-">> \in Seq(S)
    BY <2>6, <2>7, Zenon
  <2>9. \A o \in Seq(S) : \A b : b \subseteq S => fine(Opening(o, b))
    BY DEF Opening
  <2> HIDE DEF fine
  <2>10. fine(w)
    BY <2>1, <2>2, <2>3, <2>4, <2>5, <2>8, <2>9, Zenon DEF Openings
  <2>11. QED
    BY <2>10 DEF fine
<1>2. PICK t \in TagTexts : in.text = t
  BY DEF Tags
<1>3. PICK w \in Openings : \E u \in Upto(w.behind, MaxTag) : t = w.opener \o u
  BY DEF TagTexts
<1>4. PICK u \in Upto(w.behind, MaxTag) : t = w.opener \o u
  BY <1>3
<1>5. PICK k \in 0..MaxTag : u \in [1..k -> w.behind]
  BY DEF Upto
<1>6. k \in Nat
  BY BoundsAssumption
<1>7. \A x \in S : x # "zero"
  BY Zenon
<1> HIDE DEF S
<1>8. u \in Seq(S)
  BY <1>1, <1>5, <1>6
<1>9. t \in Seq(S)
  BY <1>1, <1>4, <1>8, ConcatProperties
<1>10. QED
  BY <1>2, <1>7, <1>9 DEF IsText_

(* A tag of any length is what is between its brackets and the first that close it, and has no   *)
(* word from elsewhere: readTag() steps beyond the zero at the end of its text only where it      *)
(* then finds no tag.                                                                             *)
THEOREM TagsAreWhole == Spec => []TagIsWhole
<1>1. Inv => TagIsWhole
  <2> SUFFICES ASSUME Inv, Called("tag") PROVE Whole(input, 1, output[1])
    BY DEF TagIsWhole
  <2>1. input \in Tags /\ \E r \in Results(input) : output = <<r>>
    BY Kinds_ DEF Inv, Inputs, Called
  <2>2. PICK r \in Results(input) : output = <<r>>
    BY <2>1
  <2>3. r = readTag(input, 1)
    BY DEF Called, Results
  <2>4. IsText_(input) /\ Place(1)
    BY <2>1, TagTextFacts DEF Place
  <2>5. QED
    BY <2>2, <2>3, <2>4, ReadWhole
<1>2. QED
  BY <1>1, Invariance, PTL

-----------------------------------------------------------------------------
(* The table of contents *)

(* What is selected of a sequence grows with it. *)
LEMMA SelectedToEquation ==
  ASSUME NEW s, NEW S, Len(s) \in Nat
  PROVE  /\ SelectedTo(s, S, 0) = <<>>
         /\ \A n \in 1..Len(s) :
              SelectedTo(s, S, n) =
                IF s[n] \in S THEN Append(SelectedTo(s, S, n - 1), s[n]) ELSE SelectedTo(s, S, n - 1)
<1> DEFINE N == Len(s)
<1>n. N = Len(s) /\ N \in Nat
  OBVIOUS
<1> HIDE DEF N
<1> DEFINE value(f, i) == IF i = 0 THEN <<>>
                          ELSE IF s[i] \in S THEN Append(f[i - 1], s[i]) ELSE f[i - 1]
           Is(f, n) == f = [i \in 0..n |-> value(f, i)]
           P == {n \in 0..N : \E f : Is(f, n)}
<1>1. 0 \in P
  <2>1. Is([i \in 0..0 |-> <<>>], 0)
    OBVIOUS
  <2> HIDE DEF Is
  <2>2. QED
    BY <1>n, <2>1
<1>2. ASSUME NEW n \in 0..(N - 1), n \in P PROVE n + 1 \in P
  <2>1. PICK f : Is(f, n)
    BY <1>2
  <2> DEFINE g == [i \in 0..(n + 1) |-> IF i <= n THEN f[i] ELSE value(f, n + 1)]
  <2>2. \A i \in 0..(n + 1) : g[i] = value(g, i)
    <3>1. ASSUME NEW i \in 0..(n + 1) PROVE value(g, i) = value(f, i)
      <4>1. i = 0 \/ (i - 1 \in 0..n /\ i - 1 \in 0..(n + 1))
        OBVIOUS
      <4>2. i = 0 \/ g[i - 1] = f[i - 1]
        BY <4>1
      <4>3. QED
        BY <4>2
    <3>2. ASSUME NEW i \in 0..n PROVE f[i] = value(f, i)
      BY <2>1
    <3>3. ASSUME NEW i \in 0..(n + 1) PROVE g[i] = value(f, i)
      <4>1. CASE i \in 0..n
        <5>1. g[i] = f[i]
          BY <4>1
        <5>2. QED
          BY <3>2, <4>1, <5>1
      <4>2. CASE i = n + 1
        BY <4>2
      <4>3. QED
        BY <4>1, <4>2
    <3>4. QED
      BY <3>1, <3>3
  <2>3. Is(g, n + 1)
    <3> HIDE DEF value
    <3>1. g = [i \in 0..(n + 1) |-> g[i]]
      OBVIOUS
    <3> HIDE DEF g
    <3>2. QED
      BY <2>2, <3>1
  <2> HIDE DEF g, Is
  <2>4. QED
    BY <1>n, <2>3
<1> HIDE DEF P
<1>3. N \in P
  BY <1>n, <1>1, <1>2, Upwards
<1> DEFINE to == CHOOSE f : f = [i \in 0..Len(s) |->
                   IF i = 0 THEN <<>>
                   ELSE IF s[i] \in S THEN Append(f[i - 1], s[i]) ELSE f[i - 1]]
<1>4. to = [i \in 0..Len(s) |->
              IF i = 0 THEN <<>>
              ELSE IF s[i] \in S THEN Append(to[i - 1], s[i]) ELSE to[i - 1]]
  <2>1. \E f : f = [i \in 0..Len(s) |->
                      IF i = 0 THEN <<>>
                      ELSE IF s[i] \in S THEN Append(f[i - 1], s[i]) ELSE f[i - 1]]
    BY <1>3, <1>n DEF P
  <2>2. QED
    BY <2>1, Zenon
<1>5. \A n \in 0..Len(s) : SelectedTo(s, S, n) = to[n]
  BY Zenon DEF SelectedTo
<1> HIDE DEF to
<1>6. to[0] = <<>> /\ \A n \in 1..Len(s) : to[n] = IF s[n] \in S THEN Append(to[n - 1], s[n]) ELSE to[n - 1]
  <2>1. ASSUME NEW i \in 0..Len(s)
        PROVE to[i] = IF i = 0 THEN <<>>
                      ELSE IF s[i] \in S THEN Append(to[i - 1], s[i]) ELSE to[i - 1]
    BY <1>4, Zenon
  <2>2. QED
    BY <2>1
<1>7. SelectedTo(s, S, 0) = <<>>
  <2>1. 0 \in 0..Len(s)
    OBVIOUS
  <2>2. QED
    BY <1>5, <1>6, <2>1, Zenon
<1>8. ASSUME NEW n \in 1..Len(s)
      PROVE  SelectedTo(s, S, n) =
               IF s[n] \in S THEN Append(SelectedTo(s, S, n - 1), s[n]) ELSE SelectedTo(s, S, n - 1)
  <2>1. n \in 0..Len(s) /\ n - 1 \in 0..Len(s)
    OBVIOUS
  <2>2. SelectedTo(s, S, n) = to[n] /\ SelectedTo(s, S, n - 1) = to[n - 1]
    BY <1>5, <2>1, Zenon
  <2>3. QED
    BY <1>6, <2>2, Zenon
<1>9. QED
  BY <1>7, <1>8, Zenon

(* How many levels there are from the one that a pass is at. *)
StepsTo(pass, level) == IF pass.depth < level THEN level - pass.depth ELSE pass.depth - level
Walks(at, pass, level, max) ==
  /\ ToLevel(pass, level, max) = at[StepsTo(pass, level)]
  /\ at[0] = pass
  /\ \A n \in 1..StepsTo(pass, level) :
       at[n] = IF pass.depth < level THEN Deeper(at[n - 1], level, max) ELSE Higher(at[n - 1], max)
LEMMA ToLevelEquation ==
  ASSUME NEW pass, NEW level, NEW max, StepsTo(pass, level) \in Nat
  PROVE  \E at : Walks(at, pass, level, max)
<1> DEFINE N == StepsTo(pass, level)
<1>n. N = StepsTo(pass, level) /\ N \in Nat
  OBVIOUS
<1> HIDE DEF N
<1> DEFINE value(f, i) == IF i = 0 THEN pass
                          ELSE IF pass.depth < level THEN Deeper(f[i - 1], level, max) ELSE Higher(f[i - 1], max)
           Is(f, n) == f = [i \in 0..n |-> value(f, i)]
           P == {n \in 0..N : \E f : Is(f, n)}
<1>1. 0 \in P
  <2>1. Is([i \in 0..0 |-> pass], 0)
    OBVIOUS
  <2> HIDE DEF Is
  <2>2. QED
    BY <1>n, <2>1
<1>2. ASSUME NEW n \in 0..(N - 1), n \in P PROVE n + 1 \in P
  <2>1. PICK f : Is(f, n)
    BY <1>2
  <2> DEFINE g == [i \in 0..(n + 1) |-> IF i <= n THEN f[i] ELSE value(f, n + 1)]
  <2>2. \A i \in 0..(n + 1) : g[i] = value(g, i)
    <3>1. ASSUME NEW i \in 0..(n + 1) PROVE value(g, i) = value(f, i)
      <4>1. i = 0 \/ (i - 1 \in 0..n /\ i - 1 \in 0..(n + 1))
        OBVIOUS
      <4>2. i = 0 \/ g[i - 1] = f[i - 1]
        BY <4>1
      <4>3. QED
        BY <4>2
    <3>2. ASSUME NEW i \in 0..n PROVE f[i] = value(f, i)
      BY <2>1
    <3>3. ASSUME NEW i \in 0..(n + 1) PROVE g[i] = value(f, i)
      <4>1. CASE i \in 0..n
        <5>1. g[i] = f[i]
          BY <4>1
        <5>2. QED
          BY <3>2, <4>1, <5>1
      <4>2. CASE i = n + 1
        BY <4>2
      <4>3. QED
        BY <4>1, <4>2
    <3>4. QED
      BY <3>1, <3>3
  <2>3. Is(g, n + 1)
    <3> HIDE DEF value
    <3>1. g = [i \in 0..(n + 1) |-> g[i]]
      OBVIOUS
    <3> HIDE DEF g
    <3>2. QED
      BY <2>2, <3>1
  <2> HIDE DEF g, Is
  <2>4. QED
    BY <1>n, <2>3
<1> HIDE DEF P
<1>3. N \in P
  BY <1>n, <1>1, <1>2, Upwards
<1> DEFINE to == CHOOSE f : f = [i \in 0..StepsTo(pass, level) |->
                   IF i = 0 THEN pass
                   ELSE IF pass.depth < level THEN Deeper(f[i - 1], level, max) ELSE Higher(f[i - 1], max)]
<1>4. to = [i \in 0..StepsTo(pass, level) |->
              IF i = 0 THEN pass
              ELSE IF pass.depth < level THEN Deeper(to[i - 1], level, max) ELSE Higher(to[i - 1], max)]
  <2>1. \E f : f = [i \in 0..StepsTo(pass, level) |->
                      IF i = 0 THEN pass
                      ELSE IF pass.depth < level THEN Deeper(f[i - 1], level, max) ELSE Higher(f[i - 1], max)]
    BY <1>3, <1>n DEF P
  <2>2. QED
    BY <2>1, Zenon
<1>5. ToLevel(pass, level, max) = to[StepsTo(pass, level)]
  BY Zenon DEF ToLevel, StepsTo
<1> HIDE DEF to
<1>6. to[0] = pass /\ \A n \in 1..StepsTo(pass, level) : to[n] = IF pass.depth < level THEN Deeper(to[n - 1], level, max) ELSE Higher(to[n - 1], max)
  <2>1. ASSUME NEW i \in 0..StepsTo(pass, level)
        PROVE to[i] = IF i = 0 THEN pass
                      ELSE IF pass.depth < level THEN Deeper(to[i - 1], level, max) ELSE Higher(to[i - 1], max)
    BY <1>4, Zenon
  <2>2. QED
    BY <2>1
<1>7. Walks(to, pass, level, max)
  BY <1>5, <1>6, Zenon DEF Walks
<1>8. QED
  BY <1>7, Zenon

Renders(pass, levels, max) ==
  /\ pass[0] = Pass(levels)
  /\ \A n \in 1..Len(levels) : pass[n] = Rendered(pass[n - 1], levels[n], max)
LEMMA RenderEquation ==
  ASSUME NEW all, NEW m_max_depth, Len(Levels(all)) \in Nat
  PROVE  \E pass : /\ Renders(pass, Levels(all), Levels(all)[1] - 1 + m_max_depth)
                   /\ render(all, m_max_depth) = pass[Len(Levels(all))]
<1> DEFINE levels == Levels(all)
           max == levels[1] - 1 + m_max_depth
           N == Len(levels)
<1>n. N = Len(levels) /\ N \in Nat
  OBVIOUS
<1> HIDE DEF N
<1> DEFINE value(f, i) == IF i = 0 THEN Pass(levels) ELSE Rendered(f[i - 1], levels[i], max)
           Is(f, n) == f = [i \in 0..n |-> value(f, i)]
           P == {n \in 0..N : \E f : Is(f, n)}
<1>1. 0 \in P
  <2>1. Is([i \in 0..0 |-> Pass(levels)], 0)
    OBVIOUS
  <2> HIDE DEF Is
  <2>2. QED
    BY <1>n, <2>1
<1>2. ASSUME NEW n \in 0..(N - 1), n \in P PROVE n + 1 \in P
  <2>1. PICK f : Is(f, n)
    BY <1>2
  <2> DEFINE g == [i \in 0..(n + 1) |-> IF i <= n THEN f[i] ELSE value(f, n + 1)]
  <2>2. \A i \in 0..(n + 1) : g[i] = value(g, i)
    <3>1. ASSUME NEW i \in 0..(n + 1) PROVE value(g, i) = value(f, i)
      <4>1. i = 0 \/ (i - 1 \in 0..n /\ i - 1 \in 0..(n + 1))
        OBVIOUS
      <4>2. i = 0 \/ g[i - 1] = f[i - 1]
        BY <4>1
      <4>3. QED
        BY <4>2
    <3>2. ASSUME NEW i \in 0..n PROVE f[i] = value(f, i)
      BY <2>1
    <3>3. ASSUME NEW i \in 0..(n + 1) PROVE g[i] = value(f, i)
      <4>1. CASE i \in 0..n
        <5>1. g[i] = f[i]
          BY <4>1
        <5>2. QED
          BY <3>2, <4>1, <5>1
      <4>2. CASE i = n + 1
        BY <4>2
      <4>3. QED
        BY <4>1, <4>2
    <3>4. QED
      BY <3>1, <3>3
  <2>3. Is(g, n + 1)
    <3> HIDE DEF value
    <3>1. g = [i \in 0..(n + 1) |-> g[i]]
      OBVIOUS
    <3> HIDE DEF g
    <3>2. QED
      BY <2>2, <3>1
  <2> HIDE DEF g, Is
  <2>4. QED
    BY <1>n, <2>3
<1> HIDE DEF P
<1>3. N \in P
  BY <1>n, <1>1, <1>2, Upwards
<1> DEFINE to == CHOOSE f : f = [i \in 0..Len(levels) |->
                   IF i = 0 THEN Pass(levels) ELSE Rendered(f[i - 1], levels[i], max)]
<1>4. to = [i \in 0..Len(levels) |->
              IF i = 0 THEN Pass(levels) ELSE Rendered(to[i - 1], levels[i], max)]
  <2>1. \E f : f = [i \in 0..Len(levels) |->
                      IF i = 0 THEN Pass(levels) ELSE Rendered(f[i - 1], levels[i], max)]
    BY <1>3, <1>n DEF P
  <2>2. QED
    BY <2>1, Zenon
<1>5. render(all, m_max_depth) = to[Len(levels)]
  BY Zenon DEF render
<1> HIDE DEF to
<1>6. to[0] = Pass(levels) /\ \A n \in 1..Len(levels) : to[n] = Rendered(to[n - 1], levels[n], max)
  <2>1. ASSUME NEW i \in 0..Len(levels)
        PROVE to[i] = IF i = 0 THEN Pass(levels) ELSE Rendered(to[i - 1], levels[i], max)
    BY <1>4, Zenon
  <2>2. QED
    BY <2>1
<1>7. Renders(to, levels, max)
  BY <1>6, Zenon DEF Renders
<1>8. QED
  BY <1>5, <1>7, Zenon

LEMMA SelectedOfNumbers ==
  ASSUME NEW s \in Seq(Nat), NEW S
  PROVE  \A n \in 0..Len(s) : SelectedTo(s, S, n) \in Seq(Nat)
<1> DEFINE P == {n \in 0..Len(s) : SelectedTo(s, S, n) \in Seq(Nat)}
<1>1. Len(s) \in Nat
  OBVIOUS
<1>2. /\ SelectedTo(s, S, 0) = <<>>
      /\ \A n \in 1..Len(s) :
           SelectedTo(s, S, n) =
             IF s[n] \in S THEN Append(SelectedTo(s, S, n - 1), s[n]) ELSE SelectedTo(s, S, n - 1)
  BY <1>1, SelectedToEquation
<1>3. 0 \in P
  <2>1. 0 \in 0..Len(s)
    BY <1>1
  <2>2. QED
    BY <1>2, <2>1, EmptySeq, Zenon
<1>4. ASSUME NEW n \in 1..Len(s), n - 1 \in P PROVE n \in P
  <2>1. s[n] \in Nat /\ n \in 0..Len(s)
    OBVIOUS
  <2> DEFINE t == SelectedTo(s, S, n - 1)
             u == SelectedTo(s, S, n)
  <2>2. u = IF s[n] \in S THEN Append(t, s[n]) ELSE t
    BY <1>2, Zenon
  <2>3. t \in Seq(Nat)
    BY <1>4, Zenon
  <2> HIDE DEF t, u
  <2>4. u \in Seq(Nat)
    BY <2>1, <2>2, <2>3
  <2>5. QED
    BY <2>1, <2>4 DEF u
<1> HIDE DEF P
<1>5. \A n \in 0..Len(s) : n \in P
  BY <1>1, <1>3, <1>4, Onwards
<1>6. QED
  BY <1>5 DEF P

LEMMA PositiveType ==
  ASSUME NEW s \in Seq(Nat)
  PROVE  Positive(s) \in Seq(Nat)
<1>1. Len(s) \in 0..Len(s)
  OBVIOUS
<1>2. QED
  BY <1>1, SelectedOfNumbers, Zenon DEF Positive

(* Where only the first counts are zero, the others are the numbers. *)
LEMMA PositiveOf ==
  ASSUME NEW s \in Seq(Nat), NEW b \in Nat \ {0},
         \A i \in 1..Len(s) : s[i] = 0 <=> i < b
  PROVE  /\ Len(Positive(s)) = IF Len(s) < b THEN 0 ELSE Len(s) - b + 1
         /\ \A j \in 1..(Len(s) - b + 1) : Positive(s)[j] = s[b + j - 1]
<1> DEFINE S == Nat \ {0}
           Right(t, n) == /\ t \in Seq(Nat)
                          /\ Len(t) = IF n < b THEN 0 ELSE n - b + 1
                          /\ \A j \in 1..(n - b + 1) : t[j] = s[b + j - 1]
           P == {n \in 0..Len(s) : Right(SelectedTo(s, S, n), n)}
<1>1. Len(s) \in Nat
  OBVIOUS
<1>2. /\ SelectedTo(s, S, 0) = <<>>
      /\ \A n \in 1..Len(s) :
           SelectedTo(s, S, n) =
             IF s[n] \in S THEN Append(SelectedTo(s, S, n - 1), s[n]) ELSE SelectedTo(s, S, n - 1)
  BY <1>1, SelectedToEquation, Zenon
<1>3. 0 \in P
  <2>1. 0 \in 0..Len(s)
    BY <1>1
  <2>2. Right(<<>>, 0)
    OBVIOUS
  <2> HIDE DEF Right
  <2>3. QED
    BY <1>2, <2>1, <2>2, Zenon
<1>4. ASSUME NEW n \in 1..Len(s), n - 1 \in P PROVE n \in P
  <2>1. s[n] \in Nat /\ n \in 0..Len(s)
    OBVIOUS
  <2> DEFINE t == SelectedTo(s, S, n - 1)
             u == SelectedTo(s, S, n)
  <2>2. u = IF s[n] \in S THEN Append(t, s[n]) ELSE t
    BY <1>2, Zenon
  <2>3. Right(t, n - 1)
    <3> HIDE DEF Right
    <3>1. QED
      BY <1>4, Zenon
  <2> HIDE DEF t, u
  <2>4. CASE n < b
    <3>1. s[n] = 0
      BY <2>4
    <3>2. u = t
      BY <2>2, <3>1
    <3>3. Right(u, n)
      BY <2>3, <2>4, <3>2
    <3> HIDE DEF Right
    <3>4. QED
      BY <2>1, <3>3, Zenon DEF u
  <2>5. CASE n >= b
    <3>1. s[n] \in S
      BY <2>1, <2>5
    <3>2. u = Append(t, s[n])
      BY <2>2, <3>1
    <3>3. Len(t) = n - b /\ t \in Seq(Nat)
      BY <2>3, <2>5
    <3>4. u \in Seq(Nat) /\ Len(u) = n - b + 1
      <4>1. Append(t, s[n]) \in Seq(Nat) /\ Len(Append(t, s[n])) = Len(t) + 1
        BY <2>1, <3>3, AppendProperties
      <4>2. QED
        BY <3>2, <3>3, <4>1
    <3>5. ASSUME NEW j \in 1..(n - b + 1) PROVE u[j] = s[b + j - 1]
      <4>1. CASE j \in 1..Len(t)
        <5>1. u[j] = t[j]
          BY <3>2, <3>3, <4>1
        <5>2. QED
          BY <2>3, <3>3, <4>1, <5>1
      <4>2. CASE j = Len(t) + 1
        <5>1. u[j] = s[n]
          BY <2>1, <3>2, <3>3, <4>2
        <5>2. b + j - 1 = n
          BY <3>3, <4>2
        <5>3. QED
          BY <5>1, <5>2
      <4>3. QED
        BY <3>3, <4>1, <4>2
    <3>6. Right(u, n)
      BY <2>5, <3>4, <3>5
    <3> HIDE DEF Right
    <3>7. QED
      BY <2>1, <3>6, Zenon DEF u
  <2>6. QED
    BY <2>4, <2>5
<1> HIDE DEF P
<1>5. \A n \in 0..Len(s) : n \in P
  BY <1>1, <1>3, <1>4, Onwards
<1>6. Right(Positive(s), Len(s))
  <2>1. Len(s) \in 0..Len(s)
    BY <1>1
  <2> HIDE DEF Right
  <2>2. QED
    BY <1>5, <2>1, Zenon DEF P, Positive
<1>7. QED
  BY <1>6

-----------------------------------------------------------------------------
(* Passes *)

Entries == [number : Seq(Nat), level : Int, lists : Int]
Passes == [depth : Int, numbering : Seq(Seq(Nat)), subcount : Seq(Nat), lists : Int, items : Seq(Entries)]
Cap(n, max) == IF n <= max THEN n ELSE max

LEMMA FrontOf ==
  ASSUME NEW X, NEW s \in Seq(X), Len(s) > 0
  PROVE  /\ Front(s) \in Seq(X)
         /\ Len(Front(s)) = Len(s) - 1
         /\ \A i \in 1..(Len(s) - 1) : Front(s)[i] = s[i]
<1>1. Len(s) \in Nat /\ \A i \in 1..(Len(s) - 1) : s[i] \in X
  OBVIOUS
<1> DEFINE front == SubSeq(s, 1, Len(s) - 1)
<1>2. /\ front \in Seq(X)
      /\ Len(front) = IF 1 <= Len(s) - 1 THEN Len(s) - 1 - 1 + 1 ELSE 0
      /\ \A i \in 1..(Len(s) - 1 - 1 + 1) : front[i] = s[1 + i - 1]
  BY <1>1, SubSeqProperties
<1> HIDE DEF front
<1>3. front \in Seq(X) /\ Len(front) = Len(s) - 1 /\ \A i \in 1..(Len(s) - 1) : front[i] = s[i]
  <2>1. Len(front) = Len(s) - 1
    <3>1. \A n \in Nat : n > 0 => (IF 1 <= n - 1 THEN n - 1 - 1 + 1 ELSE 0) = n - 1
      OBVIOUS
    <3>2. QED
      BY <1>1, <1>2, <3>1, Zenon
  <2>2. ASSUME NEW i \in 1..(Len(s) - 1) PROVE front[i] = s[i]
    <3>1. i \in 1..(Len(s) - 1 - 1 + 1) /\ 1 + i - 1 = i
      BY <1>1
    <3>2. QED
      BY <1>2, <3>1
  <2>3. QED
    BY <1>2, <2>1, <2>2
<1>4. QED
  BY <1>3, Zenon DEF Front, front

LEMMA Changed ==
  ASSUME NEW A, NEW B, NEW I, NEW a \in A, NEW b \in B, NEW d \in Int, NEW l \in Int,
         NEW p \in [depth : Int, numbering : A, subcount : B, lists : Int, items : I]
  PROVE  LET q == [p EXCEPT !.depth = d, !.numbering = a, !.subcount = b, !.lists = l] IN
         /\ q \in [depth : Int, numbering : A, subcount : B, lists : Int, items : I]
         /\ q.depth = d /\ q.numbering = a /\ q.subcount = b /\ q.lists = l
         /\ q.items = p.items
OBVIOUS

LEMMA Deeper_ ==
  ASSUME NEW p \in Passes, NEW level \in Nat, NEW max \in Int
  PROVE  LET q == Deeper(p, level, max) IN
         /\ q \in Passes
         /\ q.depth = p.depth + 1
         /\ q.numbering = Append(p.numbering, Positive(p.subcount))
         /\ q.subcount = Resized(p.subcount, level)
         /\ q.lists = IF Len(p.numbering) + 1 <= max THEN p.lists + 1 ELSE p.lists
         /\ q.items = p.items
<1> DEFINE numbering == Append(p.numbering, Positive(p.subcount))
           q == [p EXCEPT !.depth = p.depth + 1,
                          !.numbering = numbering,
                          !.subcount = Resized(p.subcount, level),
                          !.lists = IF Len(numbering) <= max THEN p.lists + 1 ELSE p.lists]
<1>1. Deeper(p, level, max) = q
  BY DEF Deeper
<1>2. p.numbering \in Seq(Seq(Nat)) /\ p.subcount \in Seq(Nat) /\ p.depth \in Int /\ p.lists \in Int
  BY DEF Passes
<1>3. Positive(p.subcount) \in Seq(Nat)
  BY <1>2, PositiveType
<1>4. numbering \in Seq(Seq(Nat)) /\ Len(numbering) = Len(p.numbering) + 1
  BY <1>2, <1>3
<1>5. Resized(p.subcount, level) \in Seq(Nat)
  BY <1>2 DEF Resized
<1> HIDE DEF numbering
<1>6. /\ q \in Passes
      /\ q.depth = p.depth + 1
      /\ q.numbering = numbering
      /\ q.subcount = Resized(p.subcount, level)
      /\ q.lists = IF Len(numbering) <= max THEN p.lists + 1 ELSE p.lists
      /\ q.items = p.items
  <2>1. p.depth + 1 \in Int /\ (IF Len(numbering) <= max THEN p.lists + 1 ELSE p.lists) \in Int
    BY <1>2, <1>4
  <2>2. QED
    BY <1>4, <1>5, <2>1, Changed, Zenon DEF Passes
<1> HIDE DEF q
<1>7. QED
  BY <1>1, <1>4, <1>6, Zenon DEF numbering

LEMMA Higher_ ==
  ASSUME NEW p \in Passes, NEW max \in Int, Len(p.numbering) > 0, Len(p.subcount) > 0
  PROVE  LET q == Higher(p, max) IN
         /\ q \in Passes
         /\ q.depth = p.depth - 1
         /\ q.numbering = Front(p.numbering)
         /\ q.subcount = Front(p.subcount)
         /\ q.lists = IF Len(p.numbering) - 1 < max THEN p.lists - 1 ELSE p.lists
         /\ q.items = p.items
<1> DEFINE q == [p EXCEPT !.depth = p.depth - 1,
                          !.numbering = Front(p.numbering),
                          !.subcount = Front(p.subcount),
                          !.lists = IF Len(p.numbering) - 1 < max THEN p.lists - 1 ELSE p.lists]
<1>1. Higher(p, max) = q
  BY DEF Higher
<1>2. p.numbering \in Seq(Seq(Nat)) /\ p.subcount \in Seq(Nat) /\ p.depth \in Int /\ p.lists \in Int
  BY DEF Passes
<1>3. Front(p.numbering) \in Seq(Seq(Nat))
  BY <1>2, FrontOf
<1>4. Front(p.subcount) \in Seq(Nat)
  BY <1>2, FrontOf
<1>5. /\ q \in Passes
      /\ q.depth = p.depth - 1
      /\ q.numbering = Front(p.numbering)
      /\ q.subcount = Front(p.subcount)
      /\ q.lists = IF Len(p.numbering) - 1 < max THEN p.lists - 1 ELSE p.lists
      /\ q.items = p.items
  <2>1. p.depth - 1 \in Int /\ (IF Len(p.numbering) - 1 < max THEN p.lists - 1 ELSE p.lists) \in Int
    BY <1>2
  <2>2. QED
    BY <1>3, <1>4, <2>1, Changed, Zenon DEF Passes
<1> HIDE DEF q
<1>6. QED
  BY <1>1, <1>5, Zenon

(* A pass at a level has a list of numbers for each level so far, and as many lists are open, *)
(* up to the deepest that there are.                                                          *)
Leveled(p, b, max, depth) ==
  /\ p \in Passes
  /\ p.depth = depth
  /\ Len(p.numbering) = depth - b + 1
  /\ p.lists = Cap(depth - b + 1, max)

LEMMA ResizedOf ==
  ASSUME NEW s \in Seq(Nat), NEW n \in Nat
  PROVE  /\ Resized(s, n) \in Seq(Nat)
         /\ Len(Resized(s, n)) = n
         /\ \A i \in 1..n : Resized(s, n)[i] = IF i <= Len(s) THEN s[i] ELSE 0
BY DEF Resized

LEMMA ResizedTwice ==
  ASSUME NEW s \in Seq(Nat), NEW n \in Nat
  PROVE  Resized(Resized(s, n), n) = Resized(s, n)
<1> DEFINE r == Resized(s, n)
<1>1. r \in Seq(Nat) /\ Len(r) = n
  BY ResizedOf
<1>2. r = [i \in 1..n |-> r[i]]
  BY <1>1
<1> HIDE DEF r
<1>3. Resized(r, n) = [i \in 1..n |-> r[i]]
  BY <1>1 DEF Resized
<1>4. QED
  BY <1>2, <1>3, Zenon DEF r

LEMMA WayDown ==
  ASSUME NEW p \in Passes, NEW b \in Nat \ {0}, NEW max \in Nat, NEW level \in Nat,
         Leveled(p, b, max, p.depth), b - 1 <= p.depth, p.depth < level
  PROVE  LET q == ToLevel(p, level, max) IN
         /\ Leveled(q, b, max, level)
         /\ q.items = p.items
         /\ q.subcount = Resized(p.subcount, level)
         /\ level = p.depth + 1 => q.numbering = Append(p.numbering, Positive(p.subcount))
<1> DEFINE d == p.depth
           steps == level - d
<1>1. d \in Int /\ steps \in Nat \ {0} /\ steps = StepsTo(p, level)
  BY DEF StepsTo, Passes
<1>2. PICK at : Walks(at, p, level, max)
  BY <1>1, ToLevelEquation, Zenon
<1>3. /\ ToLevel(p, level, max) = at[steps]
      /\ at[0] = p
      /\ \A n \in 1..steps : at[n] = Deeper(at[n - 1], level, max)
  <2> HIDE DEF steps
  <2>1. QED
    BY <1>1, <1>2, Zenon DEF Walks
<1>4. p.subcount \in Seq(Nat)
  BY DEF Passes
<1> DEFINE Right(q, n) == /\ Leveled(q, b, max, d + n)
                          /\ q.items = p.items
                          /\ n = 0 => q = p
                          /\ n > 0 => q.subcount = Resized(p.subcount, level)
           P == {n \in 0..steps : Right(at[n], n)}
<1> HIDE DEF steps
<1>5. 0 \in P
  <2>1. d + 0 = d /\ 0 \in 0..steps
    BY <1>1
  <2>2. Right(p, 0)
    BY <2>1
  <2> HIDE DEF Right
  <2>3. QED
    BY <1>3, <2>1, <2>2
<1>6. ASSUME NEW n \in 1..steps, n - 1 \in P PROVE n \in P
  <2> DEFINE u == at[n - 1]
             q == at[n]
  <2>1. Right(u, n - 1)
    <3> HIDE DEF Right
    <3>1. QED
      BY <1>6
  <2>2. q = Deeper(u, level, max)
    BY <1>3
  <2> HIDE DEF u, q
  <2>3. u \in Passes /\ u.depth = d + n - 1 /\ Len(u.numbering) = d + n - 1 - b + 1
        /\ u.lists = Cap(d + n - 1 - b + 1, max) /\ u.items = p.items
    BY <1>1, <2>1 DEF Leveled
  <2>4. /\ q \in Passes
        /\ q.depth = u.depth + 1
        /\ q.numbering = Append(u.numbering, Positive(u.subcount))
        /\ q.subcount = Resized(u.subcount, level)
        /\ q.lists = IF Len(u.numbering) + 1 <= max THEN u.lists + 1 ELSE u.lists
        /\ q.items = u.items
    <3>1. max \in Int
      OBVIOUS
    <3>2. QED
      BY <2>2, <2>3, <3>1, Deeper_, Zenon
  <2>5. q.depth = d + n
    BY <1>1, <2>3, <2>4
  <2>6. Len(q.numbering) = d + n - b + 1
    <3>1. u.numbering \in Seq(Seq(Nat)) /\ u.subcount \in Seq(Nat)
      BY <2>3 DEF Passes
    <3>2. Positive(u.subcount) \in Seq(Nat)
      BY <3>1, PositiveType
    <3>3. Len(q.numbering) = Len(u.numbering) + 1
      BY <2>4, <3>1, <3>2, AppendProperties
    <3>4. QED
      BY <1>1, <2>3, <3>3
  <2>7. q.lists = Cap(d + n - b + 1, max)
    <3> DEFINE k == Len(u.numbering)
    <3>1. k \in Nat /\ k = d + n - 1 - b + 1 /\ u.lists = Cap(k, max)
      BY <1>1, <2>3
    <3>2. d + n - b + 1 = k + 1
      BY <1>1, <3>1
    <3> HIDE DEF k
    <3>3. (IF k + 1 <= max THEN u.lists + 1 ELSE u.lists) = Cap(k + 1, max)
      BY <3>1 DEF Cap
    <3>4. QED
      BY <2>4, <3>2, <3>3 DEF k
  <2>8. q.subcount = Resized(p.subcount, level)
    <3>1. CASE n = 1
      BY <2>1, <2>4, <3>1
    <3>2. CASE n > 1
      <4>1. u.subcount = Resized(p.subcount, level)
        BY <2>1, <3>2
      <4>2. QED
        BY <1>4, <2>4, <4>1, ResizedTwice
    <3>3. QED
      BY <3>1, <3>2
  <2>9. Right(q, n)
    <3>0. q \in Passes
      BY <2>4
    <3> DEFINE m == d + n
    <3>1. q.depth = m /\ Len(q.numbering) = m - b + 1 /\ q.lists = Cap(m - b + 1, max)
      <4>1. d + n - b + 1 = m - b + 1
        BY <1>1
      <4>2. QED
        BY <2>5, <2>6, <2>7, <4>1
    <3> HIDE DEF m
    <3>2. Leveled(q, b, max, m)
      BY <3>0, <3>1, Zenon DEF Leveled
    <3>3. Leveled(q, b, max, d + n)
      BY <3>2 DEF m
    <3>4. q.items = p.items
      BY <2>3, <2>4, Zenon
    <3>5. QED
      BY <2>8, <3>3, <3>4
  <2> HIDE DEF Right
  <2>10. QED
    BY <2>9 DEF q
<1> HIDE DEF P
<1>7. \A n \in 0..steps : n \in P
  BY <1>1, <1>5, <1>6, Onwards
<1>8. Right(at[steps], steps) /\ d + steps = level
  <2>1. steps \in 0..steps
    BY <1>1
  <2> HIDE DEF Right
  <2>2. Right(at[steps], steps)
    BY <1>7, <2>1 DEF P
  <2>3. QED
    BY <1>1, <2>2 DEF steps
<1>9. level = d + 1 => at[steps].numbering = Append(p.numbering, Positive(p.subcount))
  <2> SUFFICES ASSUME level = d + 1
               PROVE at[steps].numbering = Append(p.numbering, Positive(p.subcount))
    OBVIOUS
  <2>1. steps = 1 /\ 1 \in 1..steps /\ 1 - 1 = 0
    BY <1>1 DEF steps
  <2>2. at[1] = Deeper(p, level, max)
    BY <1>3, <2>1
  <2>3. QED
    <3>1. max \in Int
      OBVIOUS
    <3>2. Deeper(p, level, max).numbering = Append(p.numbering, Positive(p.subcount))
      BY <3>1, Deeper_, Zenon
    <3>3. QED
      BY <2>1, <2>2, <3>2
<1>10. QED
  BY <1>1, <1>3, <1>8, <1>9

LEMMA WayUp ==
  ASSUME NEW p \in Passes, NEW b \in Nat \ {0}, NEW max \in Nat, NEW level \in Nat,
         Leveled(p, b, max, p.depth), b <= level, level <= p.depth, Len(p.subcount) = p.depth
  PROVE  LET q == ToLevel(p, level, max) IN
         /\ Leveled(q, b, max, level)
         /\ q.items = p.items
         /\ Len(q.subcount) = level
         /\ \A i \in 1..level : q.subcount[i] = p.subcount[i]
         /\ \A k \in 1..(level - b + 1) : q.numbering[k] = p.numbering[k]
<1> DEFINE d == p.depth
           steps == d - level
<1>1. d \in Int /\ steps \in Nat /\ steps = StepsTo(p, level) /\ ~(d < level)
  BY DEF StepsTo, Passes
<1>2. PICK at : Walks(at, p, level, max)
  BY <1>1, ToLevelEquation, Zenon
<1>3. /\ ToLevel(p, level, max) = at[steps]
      /\ at[0] = p
      /\ \A n \in 1..steps : at[n] = Higher(at[n - 1], max)
  <2> HIDE DEF steps
  <2>1. QED
    BY <1>1, <1>2, Zenon DEF Walks
<1> DEFINE Right(q, n) == /\ Leveled(q, b, max, d - n)
                          /\ q.items = p.items
                          /\ Len(q.subcount) = d - n
                          /\ \A i \in 1..(d - n) : q.subcount[i] = p.subcount[i]
                          /\ \A k \in 1..(d - n - b + 1) : q.numbering[k] = p.numbering[k]
           P == {n \in 0..steps : Right(at[n], n)}
<1>s. steps + level = d
  BY <1>1
<1> HIDE DEF steps
<1>5. 0 \in P
  <2>1. d - 0 = d /\ 0 \in 0..steps
    BY <1>1
  <2>2. Right(p, 0)
    BY <2>1
  <2> HIDE DEF Right
  <2>3. QED
    BY <1>3, <2>1, <2>2
<1>6. ASSUME NEW n \in 1..steps, n - 1 \in P PROVE n \in P
  <2> DEFINE u == at[n - 1]
             q == at[n]
             m == d - n
  <2>0. m \in Nat /\ m >= level /\ d - (n - 1) = m + 1
    BY <1>1, <1>s
  <2>1. Right(u, n - 1)
    <3> HIDE DEF Right
    <3>1. QED
      BY <1>6
  <2>2. q = Higher(u, max)
    BY <1>3
  <2> HIDE DEF u, q
  <2>3. /\ u \in Passes /\ u.depth = m + 1 /\ Len(u.numbering) = m - b + 2
        /\ u.lists = Cap(m - b + 2, max) /\ u.items = p.items /\ Len(u.subcount) = m + 1
        /\ \A i \in 1..(m + 1) : u.subcount[i] = p.subcount[i]
        /\ \A k \in 1..(m - b + 2) : u.numbering[k] = p.numbering[k]
    <3> DEFINE e == d - (n - 1)
    <3>1. /\ Leveled(u, b, max, e) /\ u.items = p.items /\ Len(u.subcount) = e
          /\ \A i \in 1..e : u.subcount[i] = p.subcount[i]
          /\ \A k \in 1..(e - b + 1) : u.numbering[k] = p.numbering[k]
      BY <2>1
    <3>2. e = m + 1 /\ e - b + 1 = m - b + 2
      BY <2>0
    <3> HIDE DEF m, e
    <3>3. /\ u \in Passes /\ u.depth = e /\ Len(u.numbering) = e - b + 1
          /\ u.lists = Cap(e - b + 1, max)
      BY <3>1, Zenon DEF Leveled
    <3>4. QED
      BY <3>1, <3>2, <3>3, Zenon
  <2> HIDE DEF m
  <2>4. Len(u.numbering) > 0 /\ Len(u.subcount) > 0
    BY <2>0, <2>3
  <2>5. /\ q \in Passes
        /\ q.depth = u.depth - 1
        /\ q.numbering = Front(u.numbering)
        /\ q.subcount = Front(u.subcount)
        /\ q.lists = IF Len(u.numbering) - 1 < max THEN u.lists - 1 ELSE u.lists
        /\ q.items = u.items
    <3>1. max \in Int
      OBVIOUS
    <3>2. QED
      BY <2>2, <2>3, <2>4, <3>1, Higher_, Zenon
  <2>6. u.numbering \in Seq(Seq(Nat)) /\ u.subcount \in Seq(Nat)
    BY <2>3 DEF Passes
  <2>7. /\ Len(q.numbering) = Len(u.numbering) - 1
        /\ \A i \in 1..(Len(u.numbering) - 1) : q.numbering[i] = u.numbering[i]
    BY <2>4, <2>5, <2>6, FrontOf
  <2>8. /\ Len(q.subcount) = Len(u.subcount) - 1
        /\ \A i \in 1..(Len(u.subcount) - 1) : q.subcount[i] = u.subcount[i]
    BY <2>4, <2>5, <2>6, FrontOf
  <2>9. q.depth = m /\ Len(q.numbering) = m - b + 1 /\ Len(q.subcount) = m
    BY <2>0, <2>3, <2>5, <2>7, <2>8
  <2>10. \A i \in 1..m : q.subcount[i] = p.subcount[i]
    <3> TAKE i \in 1..m
    <3>1. i \in 1..(m + 1) /\ i \in 1..(Len(u.subcount) - 1)
      BY <2>0, <2>3
    <3>2. QED
      BY <2>3, <2>8, <3>1
  <2>11. \A k \in 1..(m - b + 1) : q.numbering[k] = p.numbering[k]
    <3> TAKE k \in 1..(m - b + 1)
    <3>1. k \in 1..(m - b + 2) /\ k \in 1..(Len(u.numbering) - 1)
      BY <2>0, <2>3
    <3>2. QED
      BY <2>3, <2>7, <3>1
  <2>12. q.lists = Cap(m - b + 1, max)
    <3> DEFINE k == m - b + 1
    <3>1. k \in Nat /\ Len(u.numbering) - 1 = k /\ u.lists = Cap(k + 1, max)
      BY <2>0, <2>3
    <3> HIDE DEF k
    <3>2. (IF k < max THEN u.lists - 1 ELSE u.lists) = Cap(k, max)
      BY <3>1 DEF Cap
    <3>3. QED
      BY <2>5, <3>1, <3>2 DEF k
  <2>13. Right(q, n)
    <3>1. d - n = m
      BY DEF m
    <3>2. QED
      BY <2>3, <2>5, <2>9, <2>10, <2>11, <2>12, <3>1 DEF Leveled
  <2> HIDE DEF Right
  <2>14. QED
    BY <2>13 DEF q
<1> HIDE DEF P
<1>7. \A n \in 0..steps : n \in P
  BY <1>1, <1>5, <1>6, Onwards
<1>8. Right(at[steps], steps) /\ d - steps = level
  <2>1. steps \in 0..steps
    BY <1>1
  <2> HIDE DEF Right
  <2>2. Right(at[steps], steps)
    BY <1>7, <2>1 DEF P
  <2>3. QED
    BY <1>1, <1>s, <2>2
<1>9. QED
  BY <1>1, <1>3, <1>8

-----------------------------------------------------------------------------
(* Levels, and the headers that are counted *)

(* The first header is at the least level of all. *)
Headings(L, b) ==
  /\ L \in Seq(Nat) /\ Len(L) > 0
  /\ b \in Nat \ {0} /\ b = L[1]
  /\ \A n \in 1..Len(L) : b <= L[n]

LEMMA LevelsHead ==
  ASSUME NEW all \in Seq(Nat \ {0}), Len(all) > 0
  PROVE  Headings(Levels(all), Levels(all)[1])
<1> DEFINE S == ToSet(all)
<1>1. S \subseteq Nat \ {0} /\ S # {} /\ \A n \in 1..Len(all) : all[n] \in S
  BY DEF ToSet
<1> HIDE DEF S
<1>2. \E i \in S : \A j \in S : i <= j
  BY <1>1, LeastNumber
<1> DEFINE least == Min(S)
<1>3. least \in S /\ \A j \in S : least <= j
  BY <1>2 DEF Min
<1>4. Levels(all) = [all EXCEPT ![1] = least]
  BY Zenon DEF Levels, S
<1> HIDE DEF least
<1> DEFINE L == [all EXCEPT ![1] = least]
<1>5. least \in Nat \ {0}
  BY <1>1, <1>3
<1>6. L \in Seq(Nat) /\ Len(L) = Len(all) /\ L[1] = least
      /\ \A n \in 1..Len(all) : n # 1 => L[n] = all[n]
  BY <1>5
<1> HIDE DEF L
<1>7. \A n \in 1..Len(L) : least <= L[n]
  BY <1>1, <1>3, <1>5, <1>6
<1>8. Headings(L, L[1])
  BY <1>5, <1>6, <1>7 DEF Headings
<1>9. QED
  BY <1>4, <1>8, Zenon DEF L

CountSince(L, n, d) == Cardinality(Since(L, n, d))

LEMMA CountNat ==
  ASSUME NEW L, NEW n \in Nat, NEW d
  PROVE  IsFiniteSet(Since(L, n, d)) /\ CountSince(L, n, d) \in Nat
<1>1. IsFiniteSet(1..n)
  BY FS_Interval
<1>2. Since(L, n, d) \subseteq 1..n
  BY DEF Since
<1>3. IsFiniteSet(Since(L, n, d))
  BY <1>1, <1>2, FS_Subset
<1>4. QED
  BY <1>3, FS_CardinalityType DEF CountSince

LEMMA CountNone ==
  ASSUME NEW L, NEW d
  PROVE  CountSince(L, 0, d) = 0
<1>1. Since(L, 0, d) = {}
  BY DEF Since
<1>2. QED
  BY <1>1, FS_EmptySet DEF CountSince

LEMMA CountAbove ==
  ASSUME NEW L \in Seq(Nat), NEW n \in 1..Len(L), NEW d \in Nat, L[n] < d
  PROVE  CountSince(L, n, d) = 0
<1>1. ASSUME NEW i \in Since(L, n, d) PROVE FALSE
  <2>1. i \in 1..n /\ \A j \in i..n : L[j] >= d
    BY DEF Since
  <2>2. n \in i..n
    BY <2>1
  <2>3. L[n] \in Nat
    OBVIOUS
  <2>4. QED
    BY <2>1, <2>2, <2>3
<1>2. Since(L, n, d) = {}
  BY <1>1
<1>3. QED
  BY <1>2, FS_EmptySet DEF CountSince

LEMMA CountBelow ==
  ASSUME NEW L \in Seq(Nat), NEW n \in 1..Len(L), NEW d \in Nat, d < L[n]
  PROVE  CountSince(L, n, d) = CountSince(L, n - 1, d)
<1>0. L[n] \in Nat
  OBVIOUS
<1>1. ASSUME NEW i \in Since(L, n, d) PROVE i \in Since(L, n - 1, d)
  <2>1. i \in 1..n /\ L[i] = d /\ \A j \in i..n : L[j] >= d
    BY DEF Since
  <2>2. i # n
    BY <1>0, <2>1
  <2>3. i \in 1..(n - 1) /\ \A j \in i..(n - 1) : j \in i..n
    BY <2>1, <2>2
  <2>4. QED
    BY <2>1, <2>3 DEF Since
<1>2. ASSUME NEW i \in Since(L, n - 1, d) PROVE i \in Since(L, n, d)
  <2>1. i \in 1..(n - 1) /\ L[i] = d /\ \A j \in i..(n - 1) : L[j] >= d
    BY DEF Since
  <2>2. \A j \in i..n : j \in i..(n - 1) \/ j = n
    BY <2>1
  <2>3. \A j \in i..n : L[j] >= d
    BY <1>0, <2>1, <2>2
  <2>4. i \in 1..n
    BY <2>1
  <2>5. QED
    BY <2>1, <2>3, <2>4 DEF Since
<1>3. Since(L, n, d) = Since(L, n - 1, d)
  BY <1>1, <1>2
<1>4. QED
  BY <1>3 DEF CountSince

LEMMA CountAt ==
  ASSUME NEW L \in Seq(Nat), NEW n \in 1..Len(L)
  PROVE  CountSince(L, n, L[n]) = CountSince(L, n - 1, L[n]) + 1
<1> DEFINE d == L[n]
<1>0. d \in Nat
  OBVIOUS
<1>1. ASSUME NEW i \in Since(L, n, d), i # n PROVE i \in Since(L, n - 1, d)
  <2>1. i \in 1..n /\ L[i] = d /\ \A j \in i..n : L[j] >= d
    BY DEF Since
  <2>2. i \in 1..(n - 1) /\ \A j \in i..(n - 1) : j \in i..n
    BY <1>1, <2>1
  <2>3. QED
    BY <2>1, <2>2 DEF Since
<1>2. ASSUME NEW i \in Since(L, n - 1, d) PROVE i \in Since(L, n, d) /\ i # n
  <2>1. i \in 1..(n - 1) /\ L[i] = d /\ \A j \in i..(n - 1) : L[j] >= d
    BY DEF Since
  <2>2. \A j \in i..n : j \in i..(n - 1) \/ j = n
    BY <2>1
  <2>3. \A j \in i..n : L[j] >= d
    BY <1>0, <2>1, <2>2
  <2>4. i \in 1..n /\ i # n
    BY <2>1
  <2>5. QED
    BY <2>1, <2>3, <2>4 DEF Since
<1>3. n \in Since(L, n, d)
  <2>1. \A j \in n..n : L[j] >= d
    BY <1>0
  <2>2. QED
    BY <2>1 DEF Since
<1>4. Since(L, n, d) = Since(L, n - 1, d) \cup {n} /\ n \notin Since(L, n - 1, d)
  BY <1>1, <1>2, <1>3
<1>5. IsFiniteSet(Since(L, n - 1, d))
  <2>1. n - 1 \in Nat
    OBVIOUS
  <2>2. QED
    BY <2>1, CountNat
<1>6. Cardinality(Since(L, n, d)) = Cardinality(Since(L, n - 1, d)) + 1
  BY <1>4, <1>5, FS_AddElement
<1>7. QED
  BY <1>6 DEF CountSince

(* Where no level is left out, each level down to that of a header has had one. *)
LEMMA CountPositive ==
  ASSUME NEW L, NEW b, Headings(L, b), ~Skips(L)
  PROVE  \A n \in 1..Len(L) : \A d \in b..L[n] : CountSince(L, n, d) > 0
<1> DEFINE P == {n \in 0..Len(L) : n > 0 => \A d \in b..L[n] : CountSince(L, n, d) > 0}
<1>1. L \in Seq(Nat) /\ Len(L) \in Nat /\ b \in Nat \ {0} /\ b = L[1]
  BY DEF Headings
<1>2. 0 \in P
  BY <1>1
<1>3. ASSUME NEW n \in 1..Len(L), n - 1 \in P PROVE n \in P
  <2>1. L[n] \in Nat /\ n \in 0..Len(L) /\ n - 1 \in Nat
    BY <1>1
  <2>2. ASSUME NEW d \in b..L[n] PROVE CountSince(L, n, d) > 0
    <3>1. CASE d = L[n]
      <4>1. CountSince(L, n, d) = CountSince(L, n - 1, d) + 1
        BY <1>1, <3>1, CountAt
      <4>2. CountSince(L, n - 1, d) \in Nat
        BY <2>1, CountNat
      <4>3. QED
        BY <4>1, <4>2
    <3>2. CASE d # L[n]
      <4>1. d < L[n] /\ d \in Nat
        BY <1>1, <2>1, <3>2
      <4>2. n # 1
        BY <1>1, <4>1
      <4>3. n \in 2..Len(L) /\ n - 1 \in 1..Len(L)
        BY <4>2
      <4>4. L[n - 1] \in Nat /\ L[n] <= L[n - 1] + 1
        <5>1. L[n - 1] \in Nat
          BY <1>1, <4>3
        <5>2. ~(L[n] > L[n - 1] + 1)
          BY <4>3, Zenon DEF Skips
        <5>3. QED
          BY <2>1, <5>1, <5>2
      <4>5. d \in b..L[n - 1]
        BY <1>1, <2>1, <4>1, <4>4
      <4>6. CountSince(L, n - 1, d) > 0
        BY <1>3, <4>3, <4>5
      <4>7. QED
        BY <1>1, <4>1, <4>6, CountBelow
    <3>3. QED
      BY <3>1, <3>2
  <2>3. QED
    BY <2>1, <2>2
<1> HIDE DEF P
<1>4. \A n \in 0..Len(L) : n \in P
  BY <1>1, <1>2, <1>3, Onwards
<1>5. \A n \in 1..Len(L) : n \in 0..Len(L) /\ n > 0
  BY <1>1
<1>6. QED
  BY <1>4, <1>5 DEF P

-----------------------------------------------------------------------------
(* A header is listed *)

LEMMA Listed_ ==
  ASSUME NEW q \in Passes, NEW level \in Nat \ {0}, NEW max \in Int,
         q.depth = level, level <= max, Len(q.subcount) = level, Len(q.numbering) > 0
  PROVE  LET r == Listed(q, level, max)
             number == Append(q.numbering[Len(q.numbering)], q.subcount[level] + 1)
         IN /\ r \in Passes
            /\ r.depth = level /\ r.numbering = q.numbering /\ r.lists = q.lists
            /\ Len(r.subcount) = level
            /\ r.subcount[level] = q.subcount[level] + 1
            /\ \A i \in 1..(level - 1) : r.subcount[i] = q.subcount[i]
            /\ r.items = Append(q.items, [number |-> number, level |-> level, lists |-> q.lists])
<1> DEFINE counts == Append(Front(q.subcount), Last(q.subcount) + 1)
           number == Append(q.numbering[Len(q.numbering)], q.subcount[level] + 1)
           entry == [number |-> number, level |-> level, lists |-> q.lists]
           r == [q EXCEPT !.subcount = counts, !.items = Append(q.items, entry)]
<1>1. q.numbering \in Seq(Seq(Nat)) /\ q.subcount \in Seq(Nat) /\ q.lists \in Int /\ q.items \in Seq(Entries)
  BY DEF Passes
<1>2. q.subcount[level] \in Nat /\ Last(q.subcount) = q.subcount[level]
  BY <1>1 DEF Last
<1>3. Front(q.subcount) \in Seq(Nat) /\ Len(Front(q.subcount)) = level - 1
      /\ \A i \in 1..(level - 1) : Front(q.subcount)[i] = q.subcount[i]
  <2>1. Len(q.subcount) > 0
    OBVIOUS
  <2>2. /\ Front(q.subcount) \in Seq(Nat)
        /\ Len(Front(q.subcount)) = Len(q.subcount) - 1
        /\ \A i \in 1..(Len(q.subcount) - 1) : Front(q.subcount)[i] = q.subcount[i]
    BY <1>1, <2>1, FrontOf, Zenon
  <2>3. QED
    BY <2>2, Zenon
<1>4. /\ counts \in Seq(Nat) /\ Len(counts) = level
      /\ counts[level] = q.subcount[level] + 1
      /\ \A i \in 1..(level - 1) : counts[i] = q.subcount[i]
  <2> DEFINE front == Front(q.subcount)
             x == q.subcount[level] + 1
  <2>1. front \in Seq(Nat) /\ Len(front) = level - 1 /\ x \in Nat
    BY <1>2, <1>3
  <2>2. \A i \in 1..(level - 1) : front[i] = q.subcount[i]
    BY <1>3
  <2>3. counts = Append(front, x)
    BY <1>2
  <2> HIDE DEF front, x, counts
  <2>4. /\ Append(front, x) \in Seq(Nat)
        /\ Len(Append(front, x)) = level
        /\ Append(front, x)[level] = x
        /\ \A i \in 1..(level - 1) : Append(front, x)[i] = front[i]
    BY <2>1, AppendProperties
  <2>5. QED
    BY <2>2, <2>3, <2>4 DEF x
<1> HIDE DEF counts
<1>5. number \in Seq(Nat)
  <2>1. Len(q.numbering) \in 1..Len(q.numbering)
    BY <1>1
  <2>2. q.numbering[Len(q.numbering)] \in Seq(Nat)
    BY <1>1, <2>1
  <2>3. q.subcount[level] + 1 \in Nat
    BY <1>2
  <2>4. QED
    BY <2>2, <2>3, AppendProperties
<1>6. Listed(q, level, max) = r
  <2>1. Append(Last(q.numbering), Last(counts)) = number
    BY <1>1, <1>4 DEF Last
  <2>2. ~(q.depth > max)
    OBVIOUS
  <2>3. Listed(q, level, max) =
          IF q.depth > max THEN q
          ELSE [q EXCEPT !.subcount = counts,
                         !.items = Append(q.items, [number |-> Append(Last(q.numbering), Last(counts)),
                                                    level |-> level, lists |-> q.lists])]
    BY DEF Listed, counts
  <2> HIDE DEF number
  <2>4. QED
    BY <2>1, <2>2, <2>3
<1> HIDE DEF number
<1>7. entry \in Entries
  BY <1>1, <1>5 DEF Entries
<1> HIDE DEF entry
<1>8. Append(q.items, entry) \in Seq(Entries)
  BY <1>1, <1>7
<1>9. /\ r \in Passes
      /\ r.depth = level /\ r.numbering = q.numbering /\ r.lists = q.lists
      /\ r.subcount = counts
      /\ r.items = Append(q.items, entry)
  <2> DEFINE items == Append(q.items, entry)
  <2>1. items \in Seq(Entries)
    BY <1>8
  <2> HIDE DEF items
  <2>2. [q EXCEPT !.subcount = counts, !.items = items] \in Passes
    BY <1>4, <2>1 DEF Passes
  <2>3. QED
    BY <2>2 DEF Passes, items
<1> HIDE DEF r
<1>10. QED
  BY <1>4, <1>6, <1>9 DEF entry, number

(* What a pass has counted of the first n headers, and the numbers of its lists. *)
Counted(p, L, n, b, max) ==
  /\ \A i \in 1..Len(p.subcount) : p.subcount[i] = IF i < b \/ i > max THEN 0 ELSE CountSince(L, n, i)
  /\ \A k \in 1..Len(p.numbering) :
       b + k - 2 <= max =>
         /\ Len(p.numbering[k]) = k - 1
         /\ \A j \in 1..(k - 1) : p.numbering[k][j] = p.subcount[b + j - 1]

DepthOf(L, n) == IF n = 0 THEN L[1] - 1 ELSE L[n]
Good(p, L, n, max) ==
  /\ Leveled(p, L[1], max, DepthOf(L, n))
  /\ Len(p.subcount) = IF n = 0 THEN 0 ELSE L[n]
  /\ AreListed(L, max, ListedTo(L, max, n), p.items)
  /\ ~Skips(L) => Counted(p, L, n, L[1], max)

(* Ahead of a header, the pass goes to its level. *)
LEMMA AtLevel ==
  ASSUME NEW L, NEW b, Headings(L, b), NEW max \in Nat, NEW n \in 1..Len(L), NEW p,
         Good(p, L, n - 1, max)
  PROVE  LET q == ToLevel(p, L[n], max) IN
         /\ Leveled(q, b, max, L[n])
         /\ Len(q.subcount) = L[n]
         /\ q.items = p.items
         /\ ~Skips(L) => Counted(q, L, n - 1, b, max)
<1> DEFINE l == L[n]
           q == ToLevel(p, l, max)
           d == p.depth
<1>1. L \in Seq(Nat) /\ Len(L) \in Nat /\ b \in Nat \ {0} /\ b = L[1] /\ b <= l /\ l \in Nat
  BY DEF Headings
<1>2. p \in Passes /\ d = DepthOf(L, n - 1) /\ Leveled(p, b, max, d)
      /\ Len(p.numbering) = d - b + 1
      /\ Len(p.subcount) = (IF n - 1 = 0 THEN 0 ELSE L[n - 1])
      /\ (~Skips(L) => Counted(p, L, n - 1, b, max))
  BY <1>1 DEF Good, Leveled
<1>3. /\ n = 1 => d = b - 1
      /\ n > 1 => d = L[n - 1] /\ n - 1 \in 1..Len(L) /\ n \in 2..Len(L) /\ b <= d /\ d \in Nat
  BY <1>1, <1>2 DEF DepthOf, Headings
<1>4. b - 1 <= d /\ d \in Int
  BY <1>1, <1>3
<1>5. p.subcount \in Seq(Nat) /\ p.numbering \in Seq(Seq(Nat))
  BY <1>2 DEF Passes
<1>b. b \in Nat /\ 1 <= b /\ b <= l /\ l \in Nat
  BY <1>1
<1> HIDE DEF d, l, q
<1>6. CASE d < l
  <2>1. /\ Leveled(q, b, max, l)
        /\ q.items = p.items
        /\ q.subcount = Resized(p.subcount, l)
        /\ l = d + 1 => q.numbering = Append(p.numbering, Positive(p.subcount))
    <3>1. Leveled(p, b, max, p.depth) /\ b - 1 <= p.depth /\ p.depth < l
      BY <1>2, <1>4, <1>6 DEF d
    <3>2. p \in Passes /\ b \in Nat \ {0} /\ l \in Nat
      BY <1>1, <1>2
    <3>3. QED
      BY <3>1, <3>2, WayDown, Zenon DEF q, d
  <2>2. Len(q.subcount) = l /\ \A i \in 1..l : q.subcount[i] = IF i <= Len(p.subcount) THEN p.subcount[i] ELSE 0
    <3>1. /\ Len(Resized(p.subcount, l)) = l
          /\ \A i \in 1..l : Resized(p.subcount, l)[i] = IF i <= Len(p.subcount) THEN p.subcount[i] ELSE 0
      BY <1>b, <1>5, ResizedOf, Zenon
    <3>2. QED
      BY <2>1, <3>1, Zenon
  <2>3. ASSUME ~Skips(L) PROVE Counted(q, L, n - 1, b, max)
    <3>1. l = d + 1
      <4>1. CASE n = 1
        BY <1>1, <1>3, <4>1 DEF l
      <4>2. CASE n > 1
        BY <1>1, <1>3, <1>6, <2>3, <4>2 DEF Skips, l
      <4>3. QED
        BY <4>1, <4>2
    <3>2. Counted(p, L, n - 1, b, max)
      BY <1>2, <2>3
    <3>3. Len(p.subcount) = IF n = 1 THEN 0 ELSE l - 1
      BY <1>1, <1>2, <1>3, <3>1
    <3>4. ASSUME NEW i \in 1..l
          PROVE  q.subcount[i] = IF i < b \/ i > max THEN 0 ELSE CountSince(L, n - 1, i)
      <4>1. CASE i <= Len(p.subcount)
        <5>1. q.subcount[i] = p.subcount[i] /\ i \in 1..Len(p.subcount)
          BY <1>5, <2>2, <4>1
        <5>2. QED
          BY <3>2, <5>1 DEF Counted
      <4>2. CASE ~(i <= Len(p.subcount)) /\ n = 1
        <5>1. q.subcount[i] = 0
          BY <2>2, <4>2
        <5>2. CountSince(L, 0, i) = 0
          BY CountNone
        <5>3. QED
          BY <4>2, <5>1, <5>2
      <4>3. CASE ~(i <= Len(p.subcount)) /\ n > 1
        <5>1. q.subcount[i] = 0
          BY <2>2, <4>3
        <5>2. i = l /\ i \in Nat /\ L[n - 1] < i
          <6>1. Len(p.subcount) = l - 1 /\ ~(i <= l - 1)
            BY <3>3, <4>3
          <6>2. i = l /\ i \in Nat
            BY <1>b, <6>1
          <6>3. d = L[n - 1] /\ d < l
            BY <1>3, <1>6, <4>3
          <6>4. QED
            BY <6>2, <6>3
        <5>3. CountSince(L, n - 1, i) = 0
          BY <1>1, <1>3, <4>3, <5>2, CountAbove
        <5>4. QED
          BY <5>1, <5>3
      <4>4. QED
        BY <4>1, <4>2, <4>3
    <3>5. q.numbering = Append(p.numbering, Positive(p.subcount)) /\ Positive(p.subcount) \in Seq(Nat)
      BY <1>5, <2>1, <3>1, PositiveType
    <3>6. /\ Len(q.numbering) = l - b + 1
          /\ \A k \in 1..(l - b) : q.numbering[k] = p.numbering[k]
          /\ q.numbering[l - b + 1] = Positive(p.subcount)
      <4>1. Len(p.numbering) = l - b
        BY <1>b, <1>2, <1>4, <3>1
      <4> DEFINE ps == Positive(p.subcount)
      <4>2. ps \in Seq(Nat) /\ q.numbering = Append(p.numbering, ps)
        BY <3>5
      <4> HIDE DEF ps
      <4>3. /\ Len(Append(p.numbering, ps)) = Len(p.numbering) + 1
            /\ \A k \in 1..Len(p.numbering) : Append(p.numbering, ps)[k] = p.numbering[k]
            /\ Append(p.numbering, ps)[Len(p.numbering) + 1] = ps
        BY <1>5, <4>2, AppendProperties
      <4>4. QED
        BY <4>1, <4>2, <4>3, Zenon DEF ps
    <3>7. ASSUME NEW k \in 1..(l - b + 1), b + k - 2 <= max
          PROVE  /\ Len(q.numbering[k]) = k - 1
                 /\ \A j \in 1..(k - 1) : q.numbering[k][j] = q.subcount[b + j - 1]
      <4>1. CASE k \in 1..(l - b)
        <5>1. q.numbering[k] = p.numbering[k] /\ k \in 1..Len(p.numbering) /\ n > 1
          BY <1>b, <1>2, <1>3, <1>4, <3>1, <3>6, <4>1
        <5>2. Len(p.numbering[k]) = k - 1
              /\ \A j \in 1..(k - 1) : p.numbering[k][j] = p.subcount[b + j - 1]
          BY <3>2, <3>7, <5>1 DEF Counted
        <5>3. ASSUME NEW j \in 1..(k - 1) PROVE q.subcount[b + j - 1] = p.subcount[b + j - 1]
          <6>1. b + j - 1 \in 1..l /\ b + j - 1 <= Len(p.subcount)
            BY <1>b, <3>3, <4>1, <5>1
          <6>2. QED
            BY <2>2, <6>1
        <5>4. QED
          BY <5>1, <5>2, <5>3
      <4>2. CASE k = l - b + 1
        <5>1. l - 1 <= max
          BY <1>b, <3>7, <4>2
        <5>2. ASSUME NEW i \in 1..Len(p.subcount) PROVE p.subcount[i] = 0 <=> i < b
          <6>1. n > 1 /\ i <= l - 1 /\ i \in Nat
            BY <1>1, <3>3
          <6>2. p.subcount[i] = IF i < b \/ i > max THEN 0 ELSE CountSince(L, n - 1, i)
            BY <3>2 DEF Counted
          <6>3. ~(i > max)
            BY <1>1, <5>1, <6>1
          <6>4. ASSUME ~(i < b) PROVE CountSince(L, n - 1, i) > 0
            <7>0. d = L[n - 1] /\ n - 1 \in 1..Len(L) /\ d \in Nat
              BY <1>3, <6>1
            <7>1. i \in b..L[n - 1] /\ n - 1 \in 1..Len(L)
              <8>1. i \in b..d
                BY <1>b, <3>1, <6>1, <6>4, <7>0
              <8>2. QED
                BY <7>0, <8>1
            <7>2. QED
              BY <2>3, <7>1, CountPositive
          <6>5. CountSince(L, n - 1, i) \in Nat
            <7>1. n - 1 \in Nat
              BY <1>3, <6>1
            <7>2. QED
              BY <7>1, CountNat
          <6>6. QED
            BY <6>2, <6>3, <6>4, <6>5
        <5>3. /\ Len(Positive(p.subcount)) = IF Len(p.subcount) < b THEN 0 ELSE Len(p.subcount) - b + 1
              /\ \A j \in 1..(Len(p.subcount) - b + 1) : Positive(p.subcount)[j] = p.subcount[b + j - 1]
          BY <1>1, <1>5, <5>2, PositiveOf
        <5>4. q.numbering[k] = Positive(p.subcount)
          BY <3>6, <4>2
        <5>5. CASE n = 1
          <6>1. l = b /\ Len(p.subcount) = 0
            BY <1>1, <1>3, <3>1, <3>3, <5>5
          <6>2. Len(Positive(p.subcount)) = 0 /\ k - 1 = 0
            BY <1>b, <4>2, <5>3, <6>1
          <6>3. QED
            BY <5>4, <6>2
        <5>6. CASE n > 1
          <6>1. Len(p.subcount) = l - 1 /\ l - 1 >= b
            BY <1>b, <1>3, <3>1, <3>3, <5>6
          <6>2. Len(Positive(p.subcount)) = k - 1
            BY <1>b, <4>2, <5>3, <6>1
          <6>3. ASSUME NEW j \in 1..(k - 1)
                PROVE  Positive(p.subcount)[j] = q.subcount[b + j - 1]
            <7>1. j \in 1..(Len(p.subcount) - b + 1) /\ b + j - 1 \in 1..l /\ b + j - 1 <= Len(p.subcount)
              BY <1>b, <4>2, <6>1
            <7>2. QED
              BY <2>2, <5>3, <7>1
          <6>4. QED
            BY <5>4, <6>2, <6>3
        <5>7. QED
          BY <5>5, <5>6
      <4>3. QED
        BY <1>1, <4>1, <4>2
    <3>8. QED
      BY <2>2, <3>4, <3>6, <3>7 DEF Counted
  <2>4. QED
    BY <2>1, <2>2, <2>3, Zenon DEF q, l
<1>7. CASE l <= d
  <2>1. n > 1
    BY <1>1, <1>3, <1>7
  <2>2. /\ Leveled(q, b, max, l)
        /\ q.items = p.items
        /\ Len(q.subcount) = l
        /\ \A i \in 1..l : q.subcount[i] = p.subcount[i]
        /\ \A k \in 1..(l - b + 1) : q.numbering[k] = p.numbering[k]
    <3>1. Len(p.subcount) = d
      BY <1>2, <1>3, <2>1
    <3>2. Leveled(p, b, max, p.depth) /\ b <= l /\ l <= p.depth /\ Len(p.subcount) = p.depth
      BY <1>1, <1>2, <1>7, <3>1 DEF d
    <3>3. p \in Passes /\ b \in Nat \ {0} /\ l \in Nat
      BY <1>1, <1>2
    <3>4. QED
      BY <3>2, <3>3, WayUp, Zenon DEF q
  <2>3. ASSUME ~Skips(L) PROVE Counted(q, L, n - 1, b, max)
    <3>1. Counted(p, L, n - 1, b, max)
      BY <1>2, <2>3
    <3>2. Len(p.subcount) = d /\ Len(q.numbering) = l - b + 1
      BY <1>2, <1>3, <2>1, <2>2 DEF Leveled
    <3>3. ASSUME NEW i \in 1..l
          PROVE  q.subcount[i] = IF i < b \/ i > max THEN 0 ELSE CountSince(L, n - 1, i)
      <4>1. i \in 1..Len(p.subcount)
        BY <1>1, <1>4, <1>7, <3>2
      <4>2. QED
        BY <2>2, <3>1, <4>1 DEF Counted
    <3>4. ASSUME NEW k \in 1..(l - b + 1), b + k - 2 <= max
          PROVE  /\ Len(q.numbering[k]) = k - 1
                 /\ \A j \in 1..(k - 1) : q.numbering[k][j] = q.subcount[b + j - 1]
      <4>1. q.numbering[k] = p.numbering[k] /\ k \in 1..Len(p.numbering)
        BY <1>b, <1>2, <1>4, <1>7, <2>2
      <4>2. Len(p.numbering[k]) = k - 1
            /\ \A j \in 1..(k - 1) : p.numbering[k][j] = p.subcount[b + j - 1]
        BY <3>1, <3>4, <4>1 DEF Counted
      <4>3. ASSUME NEW j \in 1..(k - 1) PROVE q.subcount[b + j - 1] = p.subcount[b + j - 1]
        <5>1. b + j - 1 \in 1..l
          BY <1>b
        <5>2. QED
          BY <2>2, <5>1
      <4>4. QED
        BY <4>1, <4>2, <4>3
    <3>5. QED
      BY <2>2, <3>2, <3>3, <3>4 DEF Counted
  <2>4. QED
    BY <2>2, <2>3, Zenon DEF q, l
<1>8. QED
  BY <1>1, <1>4, <1>6, <1>7


-----------------------------------------------------------------------------
(* What should be listed *)

LEMMA ListedToEquation ==
  ASSUME NEW L, NEW b, Headings(L, b), NEW max
  PROVE  /\ ListedTo(L, max, 0) = <<>>
         /\ \A n \in 0..Len(L) : ListedTo(L, max, n) \in Seq(Nat)
         /\ \A n \in 1..Len(L) :
              ListedTo(L, max, n) =
                IF L[n] <= max THEN Append(ListedTo(L, max, n - 1), n) ELSE ListedTo(L, max, n - 1)
<1> DEFINE s == [i \in 1..Len(L) |-> i]
           S == {i \in 1..Len(L) : L[i] <= max}
<1>1. L \in Seq(Nat) /\ Len(L) \in Nat
  BY DEF Headings
<1>2. s \in Seq(Nat) /\ Len(s) = Len(L) /\ \A n \in 1..Len(L) : s[n] = n
  BY <1>1
<1>3. \A n : ListedTo(L, max, n) = SelectedTo(s, S, n)
  BY DEF ListedTo
<1>4. \A n \in 1..Len(L) : n \in S <=> L[n] <= max
  BY <1>1
<1> HIDE DEF s, S
<1>5. /\ SelectedTo(s, S, 0) = <<>>
      /\ \A n \in 1..Len(s) :
           SelectedTo(s, S, n) =
             IF s[n] \in S THEN Append(SelectedTo(s, S, n - 1), s[n]) ELSE SelectedTo(s, S, n - 1)
  BY <1>1, <1>2, SelectedToEquation
<1>6. \A n \in 0..Len(s) : SelectedTo(s, S, n) \in Seq(Nat)
  BY <1>2, SelectedOfNumbers
<1>7. QED
  BY <1>2, <1>3, <1>4, <1>5, <1>6

LEMMA OneMoreListed ==
  ASSUME NEW L, NEW max, NEW H \in Seq(Nat), NEW items \in Seq(Entries), AreListed(L, max, H, items),
         NEW n \in Nat, NEW e \in Entries,
         e.level = L[n], e.lists = L[n] - L[1] + 1, ~Skips(L) => e.number = NumberOf(L, n)
  PROVE  AreListed(L, max, Append(H, n), Append(items, e))
<1> DEFINE G == Append(H, n)
           more == Append(items, e)
           Right(i) == /\ more[i].level = L[G[i]]
                       /\ more[i].lists = more[i].level - L[1] + 1
                       /\ ~Skips(L) => more[i].number = NumberOf(L, G[i])
<1>1. Len(items) \in Nat /\ Len(H) = Len(items)
  BY DEF AreListed
<1>2. /\ Len(G) = Len(H) + 1 /\ G[Len(H) + 1] = n
      /\ \A i \in 1..Len(H) : G[i] = H[i]
  BY AppendProperties
<1>3. /\ Len(more) = Len(items) + 1 /\ more[Len(items) + 1] = e
      /\ \A i \in 1..Len(items) : more[i] = items[i]
  BY AppendProperties
<1> HIDE DEF G, more
<1>4. ASSUME NEW i \in 1..Len(items) PROVE Right(i)
  <2>1. G[i] = H[i] /\ more[i] = items[i]
    BY <1>1, <1>2, <1>3
  <2>2. /\ items[i].level = L[H[i]]
        /\ items[i].lists = items[i].level - L[1] + 1
        /\ ~Skips(L) => items[i].number = NumberOf(L, H[i])
    BY Zenon DEF AreListed
  <2>3. QED
    BY <2>1, <2>2, Zenon
<1>5. Right(Len(items) + 1)
  <2>1. G[Len(items) + 1] = n /\ more[Len(items) + 1] = e
    BY <1>1, <1>2, <1>3
  <2>2. QED
    BY <2>1, Zenon
<1>6. \A i \in 1..Len(more) : Right(i)
  <2>1. \A i \in 1..Len(more) : i \in 1..Len(items) \/ i = Len(items) + 1
    BY <1>1, <1>3
  <2> HIDE DEF Right
  <2>2. QED
    BY <1>4, <1>5, <2>1, Zenon
<1>7. Len(more) = Len(G)
  BY <1>1, <1>2, <1>3
<1> HIDE DEF Right
<1>8. AreListed(L, max, G, more)
  BY <1>6, <1>7, Zenon DEF AreListed, Right
<1>9. QED
  BY <1>8, Zenon DEF G, more

(* The number of a header is made of those of its list, and its own. *)
LEMMA NumberIs ==
  ASSUME NEW L, NEW b, Headings(L, b), NEW n \in 1..Len(L),
         NEW s \in Seq(Nat), NEW x \in Nat,
         Len(s) = L[n] - b, \A j \in 1..(L[n] - b) : s[j] = CountSince(L, n, b + j - 1),
         x = CountSince(L, n, L[n])
  PROVE  Append(s, x) = NumberOf(L, n)
<1> DEFINE l == L[n]
           N == l - b + 1
           t == Append(s, x)
<1>1. b \in Nat /\ l \in Nat /\ b <= l
  BY DEF Headings
<1>b. b = L[1]
  BY DEF Headings
<1>2. t \in Seq(Nat) /\ Len(t) = N /\ t[N] = x /\ \A j \in 1..(l - b) : t[j] = s[j]
  <2>1. /\ Append(s, x) \in Seq(Nat) /\ Len(Append(s, x)) = Len(s) + 1
        /\ Append(s, x)[Len(s) + 1] = x /\ \A j \in 1..Len(s) : Append(s, x)[j] = s[j]
    BY AppendProperties
  <2>2. QED
    BY <2>1
<1>3. \A j \in 1..(l - b) : t[j] = CountSince(L, n, b + j - 1)
  BY <1>2
<1>4. t[N] = CountSince(L, n, l)
  BY <1>2
<1> HIDE DEF l, t
<1>5. \A j \in 1..N : t[j] = CountSince(L, n, b + j - 1)
  <2> TAKE j \in 1..N
  <2>1. j \in 1..(l - b) \/ (j = N /\ b + j - 1 = l)
    BY <1>1
  <2>2. QED
    BY <1>3, <1>4, <2>1
<1>6. t = [j \in 1..N |-> CountSince(L, n, b + j - 1)]
  <2>1. t = [j \in 1..N |-> t[j]]
    BY <1>1, <1>2
  <2> HIDE DEF N
  <2>2. QED
    BY <1>5, <2>1
<1>7. NumberOf(L, n) = [j \in 1..N |-> CountSince(L, n, b + j - 1)]
  BY <1>b DEF NumberOf, CountSince, l
<1>8. QED
  BY <1>6, <1>7, Zenon DEF t

-----------------------------------------------------------------------------
(* A pass that has dealt with some of the headers goes on with the next. *)
LEMMA OneMoreHeader ==
  ASSUME NEW L, NEW b, Headings(L, b), NEW max \in Nat, NEW n \in 1..Len(L), NEW p,
         Good(p, L, n - 1, max)
  PROVE  Good(Rendered(p, L[n], max), L, n, max)
<1> DEFINE l == L[n]
           q == ToLevel(p, l, max)
           r == Rendered(p, l, max)
<1>1. L \in Seq(Nat) /\ Len(L) \in Nat /\ b = L[1]
  BY DEF Headings
<1>2. b \in Nat /\ 1 <= b /\ b <= l /\ l \in Nat /\ n \in Nat /\ n > 0
  BY <1>1 DEF Headings
<1>3. /\ Leveled(q, b, max, l)
      /\ Len(q.subcount) = l
      /\ q.items = p.items
      /\ ~Skips(L) => Counted(q, L, n - 1, b, max)
  BY AtLevel, Zenon
<1>4. r = Listed(q, l, max)
  BY DEF Rendered
<1>5. AreListed(L, max, ListedTo(L, max, n - 1), p.items)
  BY DEF Good
<1>6. /\ ListedTo(L, max, n - 1) \in Seq(Nat)
      /\ ListedTo(L, max, n) = IF l <= max THEN Append(ListedTo(L, max, n - 1), n) ELSE ListedTo(L, max, n - 1)
  <2>1. n - 1 \in 0..Len(L)
    BY <1>1
  <2>2. QED
    BY <2>1, ListedToEquation, Zenon
<1>7. L[1] = b /\ DepthOf(L, n) = l /\ (IF n = 0 THEN 0 ELSE L[n]) = l
  BY <1>1 DEF DepthOf
<1>8. \A i \in b..(l - 1) : CountSince(L, n, i) = CountSince(L, n - 1, i)
  <2> TAKE i \in b..(l - 1)
  <2>1. i \in Nat /\ i < L[n]
    BY <1>2
  <2>2. QED
    BY <1>1, <2>1, CountBelow
<1>9. q \in Passes /\ q.depth = l /\ Len(q.numbering) = l - b + 1
      /\ q.lists = Cap(l - b + 1, max)
  BY <1>3 DEF Leveled
<1>10. q.subcount \in Seq(Nat) /\ q.numbering \in Seq(Seq(Nat)) /\ q.items \in Seq(Entries)
  BY <1>9 DEF Passes
<1> HIDE DEF l, q, r
<1>11. ASSUME l > max PROVE Good(r, L, n, max)
  <2>1. r = q
    BY <1>4, <1>9, <1>11, Zenon DEF Listed
  <2>2. ListedTo(L, max, n) = ListedTo(L, max, n - 1)
    BY <1>2, <1>6, <1>11
  <2>3. ASSUME ~Skips(L) PROVE Counted(r, L, n, b, max)
    <3>1. Counted(q, L, n - 1, b, max)
      BY <1>3, <2>3
    <3>2. ASSUME NEW i \in 1..Len(q.subcount)
          PROVE  q.subcount[i] = IF i < b \/ i > max THEN 0 ELSE CountSince(L, n, i)
      <4>1. q.subcount[i] = IF i < b \/ i > max THEN 0 ELSE CountSince(L, n - 1, i)
        BY <3>1 DEF Counted
      <4>2. CASE i < b \/ i > max
        BY <4>1, <4>2
      <4>3. CASE ~(i < b \/ i > max)
        <5>1. i \in b..(l - 1)
          BY <1>2, <1>11, <4>3
        <5>2. QED
          BY <1>8, <4>1, <4>3, <5>1
      <4>4. QED
        BY <4>2, <4>3
    <3>3. QED
      BY <2>1, <3>1, <3>2, Zenon DEF Counted
  <2>4. QED
    BY <1>3, <1>5, <1>7, <2>1, <2>2, <2>3, Zenon DEF Good
<1>12. ASSUME l <= max PROVE Good(r, L, n, max)
  <2> DEFINE base == q.numbering[Len(q.numbering)]
             x == q.subcount[l] + 1
             number == Append(base, x)
             entry == [number |-> number, level |-> l, lists |-> q.lists]
  <2>1. /\ r \in Passes
        /\ r.depth = l /\ r.numbering = q.numbering /\ r.lists = q.lists
        /\ Len(r.subcount) = l
        /\ r.subcount[l] = x
        /\ \A i \in 1..(l - 1) : r.subcount[i] = q.subcount[i]
        /\ r.items = Append(q.items, entry)
    <3>1. l \in Nat \ {0} /\ max \in Int /\ q.depth = l /\ l <= max /\ Len(q.subcount) = l /\ Len(q.numbering) > 0
      BY <1>2, <1>3, <1>9, <1>12
    <3> DEFINE u == Listed(q, l, max)
    <3>2. /\ u \in Passes
          /\ u.depth = l /\ u.numbering = q.numbering /\ u.lists = q.lists
          /\ Len(u.subcount) = l
          /\ u.subcount[l] = q.subcount[l] + 1
          /\ \A i \in 1..(l - 1) : u.subcount[i] = q.subcount[i]
          /\ u.items = Append(q.items, [number |-> Append(q.numbering[Len(q.numbering)], q.subcount[l] + 1),
                                        level |-> l, lists |-> q.lists])
      BY <1>9, <3>1, Listed_, Zenon
    <3>3. u = r
      BY <1>4, Zenon
    <3> HIDE DEF u
    <3>4. QED
      BY <3>2, <3>3, Zenon
  <2>2. Len(q.numbering) \in 1..Len(q.numbering) /\ l \in 1..l /\ l \in 1..Len(q.subcount)
    BY <1>2, <1>3, <1>9
  <2>3. base \in Seq(Nat) /\ x \in Nat /\ number \in Seq(Nat)
    <3>1. base \in Seq(Nat)
      BY <1>10, <2>2
    <3>2. x \in Nat
      <4>1. q.subcount \in Seq(Nat) /\ l \in 1..Len(q.subcount)
        BY <1>10, <2>2
      <4>2. q.subcount[l] \in Nat
        BY <4>1
      <4>3. QED
        BY <4>2
    <3> HIDE DEF base, x
    <3>3. QED
      BY <3>1, <3>2, AppendProperties
  <2>4. q.lists = l - b + 1
    BY <1>2, <1>9, <1>12 DEF Cap
  <2>5. ASSUME ~Skips(L)
        PROVE  /\ x = CountSince(L, n, l)
               /\ Len(base) = l - b
               /\ \A j \in 1..(l - b) : base[j] = q.subcount[b + j - 1] /\ base[j] = CountSince(L, n, b + j - 1)
    <3>1. Counted(q, L, n - 1, b, max)
      BY <1>3, <2>5
    <3>2. x = CountSince(L, n, l)
      <4>1. q.subcount[l] = IF l < b \/ l > max THEN 0 ELSE CountSince(L, n - 1, l)
        BY <2>2, <3>1 DEF Counted
      <4>2. q.subcount[l] = CountSince(L, n - 1, l)
        BY <1>2, <1>12, <4>1
      <4>3. CountSince(L, n, l) = CountSince(L, n - 1, l) + 1
        BY <1>1, CountAt DEF l
      <4>4. QED
        BY <4>2, <4>3
    <3>3. b + Len(q.numbering) - 2 <= max /\ Len(q.numbering) - 1 = l - b
      BY <1>2, <1>9, <1>12
    <3>4. Len(base) = l - b /\ \A j \in 1..(l - b) : base[j] = q.subcount[b + j - 1]
      <4>1. /\ Len(base) = Len(q.numbering) - 1
            /\ \A j \in 1..(Len(q.numbering) - 1) : base[j] = q.subcount[b + j - 1]
        BY <2>2, <3>1, <3>3 DEF Counted
      <4>2. QED
        BY <3>3, <4>1
    <3>5. ASSUME NEW j \in 1..(l - b) PROVE base[j] = CountSince(L, n, b + j - 1)
      <4>1. b + j - 1 \in b..(l - 1) /\ b + j - 1 \in 1..l /\ ~(b + j - 1 < b \/ b + j - 1 > max)
        BY <1>2, <1>12
      <4>2. q.subcount[b + j - 1] = CountSince(L, n - 1, b + j - 1)
        BY <1>3, <3>1, <4>1 DEF Counted
      <4>3. QED
        BY <1>8, <3>4, <4>1, <4>2
    <3>6. QED
      BY <3>2, <3>4, <3>5
  <2>6. ASSUME ~Skips(L) PROVE number = NumberOf(L, n)
    BY <2>3, <2>5, <2>6, NumberIs DEF l
  <2>7. entry \in Entries
    BY <1>2, <1>9, <2>3 DEF Entries, Passes
  <2>8. AreListed(L, max, ListedTo(L, max, n), r.items)
    <3>1. entry.level = L[n] /\ entry.lists = L[n] - L[1] + 1 /\ (~Skips(L) => entry.number = NumberOf(L, n))
      BY <1>7, <2>4, <2>6 DEF l
    <3> HIDE DEF entry
    <3>2. q.items \in Seq(Entries) /\ AreListed(L, max, ListedTo(L, max, n - 1), q.items)
      BY <1>3, <1>5, <1>10
    <3>3. AreListed(L, max, Append(ListedTo(L, max, n - 1), n), Append(q.items, entry))
      BY <1>2, <1>6, <2>7, <3>1, <3>2, OneMoreListed
    <3>4. QED
      BY <1>6, <1>12, <2>1, <3>3
  <2>9. Leveled(r, b, max, l)
    BY <1>9, <2>1 DEF Leveled
  <2>10. ASSUME ~Skips(L) PROVE Counted(r, L, n, b, max)
    <3>1. Counted(q, L, n - 1, b, max)
      BY <1>3, <2>10
    <3>2. ASSUME NEW i \in 1..l
          PROVE  r.subcount[i] = IF i < b \/ i > max THEN 0 ELSE CountSince(L, n, i)
      <4>1. CASE i = l
        <5>1. x = CountSince(L, n, l) /\ ~(i < b \/ i > max)
          BY <1>2, <1>12, <2>5, <2>10, <4>1
        <5>2. QED
          BY <2>1, <4>1, <5>1
      <4>2. CASE i # l
        <5>1. i \in 1..(l - 1) /\ i \in 1..Len(q.subcount)
          BY <1>2, <1>3, <4>2
        <5>2. r.subcount[i] = IF i < b \/ i > max THEN 0 ELSE CountSince(L, n - 1, i)
          BY <2>1, <3>1, <5>1 DEF Counted
        <5>3. i < b \/ i \in b..(l - 1)
          BY <1>2, <5>1
        <5>4. QED
          BY <1>8, <5>2, <5>3
      <4>3. QED
        BY <4>1, <4>2
    <3>3. ASSUME NEW k \in 1..Len(q.numbering), b + k - 2 <= max
          PROVE  /\ Len(q.numbering[k]) = k - 1
                 /\ \A j \in 1..(k - 1) : q.numbering[k][j] = r.subcount[b + j - 1]
      <4>1. /\ Len(q.numbering[k]) = k - 1
            /\ \A j \in 1..(k - 1) : q.numbering[k][j] = q.subcount[b + j - 1]
        BY <3>1, <3>3 DEF Counted
      <4>2. \A j \in 1..(k - 1) : b + j - 1 \in 1..(l - 1)
        BY <1>2, <1>9
      <4>3. QED
        BY <2>1, <4>1, <4>2
    <3>4. QED
      BY <2>1, <3>2, <3>3, Zenon DEF Counted
  <2>11. QED
    BY <1>7, <2>1, <2>8, <2>9, <2>10, Zenon DEF Good
<1>13. Good(r, L, n, max)
  BY <1>2, <1>11, <1>12
<1>14. QED
  BY <1>13, Zenon DEF r, l

(* The table of contents of any page that has a header is in order. *)
LEMMA RenderInOrder ==
  ASSUME NEW all \in Seq(Nat \ {0}), Len(all) > 0, NEW m_max_depth \in Nat
  PROVE  InOrder(all, m_max_depth, render(all, m_max_depth).items)
<1> DEFINE L == Levels(all)
           b == L[1]
           max == L[1] - 1 + m_max_depth
           N == Len(L)
<1>1. Headings(L, b)
  BY LevelsHead, Zenon
<1>2. L \in Seq(Nat) /\ N \in Nat /\ N > 0 /\ b \in Nat \ {0}
  BY <1>1 DEF Headings
<1>3. max \in Nat
  BY <1>2
<1>4. PICK pass : Renders(pass, L, max) /\ render(all, m_max_depth) = pass[N]
  BY <1>2, RenderEquation, Zenon
<1>5. Min(ToSet(L)) = b
  <2> DEFINE S == ToSet(L)
  <2>1. b \in S /\ \A j \in S : b <= j
    <3>1. 1 \in DOMAIN L /\ S = {L[i] : i \in DOMAIN L} /\ DOMAIN L = 1..Len(L)
      BY <1>2 DEF ToSet
    <3>2. QED
      BY <1>1, <3>1 DEF Headings
  <2>2. S \subseteq Nat
    BY <1>2 DEF ToSet
  <2> HIDE DEF S
  <2>3. Min(S) \in S /\ \A j \in S : Min(S) <= j
    BY <2>1 DEF Min
  <2> DEFINE least == Min(S)
  <2>4. least \in S /\ \A j \in S : least <= j
    BY <2>3
  <2> HIDE DEF least
  <2>5. least \in Nat /\ b \in Nat /\ least <= b /\ b <= least
    BY <1>2, <2>1, <2>2, <2>4
  <2> HIDE DEF b
  <2>6. Min(S) = b
    BY <2>5 DEF least
  <2>7. QED
    BY <2>6 DEF S
<1>6. Good(Pass(L), L, 0, max)
  <2> DEFINE p == Pass(L)
  <2>1. p = [depth |-> b - 1, numbering |-> <<>>, subcount |-> <<>>, lists |-> 0, items |-> <<>>]
    BY <1>5 DEF Pass
  <2> HIDE DEF p
  <2>2. p.depth = b - 1 /\ p.numbering = <<>> /\ p.subcount = <<>> /\ p.lists = 0 /\ p.items = <<>>
    BY <2>1
  <2>3. p \in Passes
    <3>1. <<>> \in Seq(Seq(Nat)) /\ <<>> \in Seq(Nat) /\ <<>> \in Seq(Entries)
      BY EmptySeq, Zenon
    <3>2. b - 1 \in Int /\ 0 \in Int
      BY <1>2
    <3>3. QED
      BY <2>1, <3>1, <3>2, Zenon DEF Passes
  <2>4. Len(p.numbering) = 0 /\ Len(p.subcount) = 0 /\ Len(p.items) = 0
    BY <2>2
  <2>5. Leveled(p, b, max, b - 1)
    BY <1>2, <1>3, <2>2, <2>3, <2>4 DEF Leveled, Cap
  <2>6. AreListed(L, max, ListedTo(L, max, 0), p.items)
    <3>1. ListedTo(L, max, 0) = <<>>
      BY <1>1, ListedToEquation, Zenon
    <3>2. QED
      BY <2>2, <3>1 DEF AreListed
  <2>7. Counted(p, L, 0, b, max)
    BY <2>4 DEF Counted
  <2>8. QED
    BY <2>4, <2>5, <2>6, <2>7 DEF Good, DepthOf, p
<1> DEFINE P == {n \in 0..N : Good(pass[n], L, n, max)}
<1>7. 0 \in P
  BY <1>2, <1>4, <1>6 DEF Renders
<1>8. ASSUME NEW n \in 1..N, n - 1 \in P PROVE n \in P
  <2>1. pass[n] = Rendered(pass[n - 1], L[n], max)
    BY <1>4 DEF Renders
  <2>2. Good(pass[n - 1], L, n - 1, max)
    BY <1>8
  <2>3. Good(Rendered(pass[n - 1], L[n], max), L, n, max)
    BY <1>1, <1>3, <2>2, OneMoreHeader, Zenon
  <2>4. n \in 0..N
    BY <1>2
  <2>5. QED
    BY <2>1, <2>3, <2>4, Zenon
<1> HIDE DEF P
<1>9. \A n \in 0..N : n \in P
  BY <1>2, <1>7, <1>8, Onwards
<1>10. Good(pass[N], L, N, max)
  <2>1. N \in 0..N
    BY <1>2
  <2>2. QED
    BY <1>9, <2>1, Zenon DEF P
<1>11. QED
  BY <1>4, <1>10, Zenon DEF Good, InOrder

(* The table of contents of a page with any number of headers, whose levels go up and down as    *)
(* they like, has all that are not too deep, in the lists of their levels and, if no level is     *)
(* left out on the way down, with the numbers that they should have.                              *)
THEOREM ContentsAreInOrder == Spec => []ContentsInOrder
<1>1. Inv => ContentsInOrder
  <2> SUFFICES ASSUME Inv, Called("page") PROVE InOrder(input.levels, MaxTocLevel, output[1])
    BY DEF ContentsInOrder
  <2>1. input \in Pages /\ \E r \in Results(input) : output = <<r>>
    BY Kinds_ DEF Inv, Inputs, Called
  <2>2. PICK l \in Upto(1..MaxLevel, MaxHeaders) \ {<<>>} : input.levels = l
    BY <2>1 DEF Pages
  <2>3. PICK k \in 0..MaxHeaders : l \in [1..k -> 1..MaxLevel]
    BY <2>2 DEF Upto
  <2>4. l \in Seq(Nat \ {0}) /\ Len(l) > 0
    <3>1. k \in Nat /\ MaxLevel \in Nat
      BY BoundsAssumption
    <3>2. l \in Seq(Nat \ {0}) /\ Len(l) = k
      BY <2>3, <3>1
    <3>3. QED
      BY <2>2, <3>2
  <2>5. output[1] = render(l, MaxTocLevel).items
    BY <2>1, <2>2 DEF Called, Results
  <2>6. MaxTocLevel \in Nat
    BY DEF MaxTocLevel
  <2>7. QED
    BY <2>2, <2>4, <2>5, <2>6, RenderInOrder
<1>2. QED
  BY <1>1, Invariance, PTL

-----------------------------------------------------------------------------
(* Requests *)

(* What has arrived of a request. *)
Arrived(data) == data \in Seq(Pieces)
ClearTo(data, p, q) == \A i \in p..(q - 1) : data[i] \notin Markers

LEMMA ArrivedFacts ==
  ASSUME NEW data, Arrived(data)
  PROVE  Len(data) \in Nat /\ \A i \in 1..Len(data) : data[i] \in Pieces
BY DEF Arrived

LEMMA LeastOf ==
  ASSUME NEW T, T \subseteq Nat, T # {}
  PROVE  Least(T) \in T /\ \A j \in T : Least(T) <= j
<1>1. PICK e \in T : \A j \in T : e <= j
  BY LeastNumber, Zenon
<1>2. QED
  BY <1>1, Zenon DEF Least

(* A line ends behind the first piece that ends it. *)
LEMMA BehindIs ==
  ASSUME NEW data, Arrived(data), NEW p \in Places(data)
  PROVE  /\ Behind(data, p) \in p..(Len(data) + 1)
         /\ p <= Len(data) => Behind(data, p) > p
         /\ p <= Len(data) /\ data[p] # "text" => Behind(data, p) = p + 1
         /\ p = Len(data) + 1 => Behind(data, p) = p
<1> DEFINE N == Len(data)
           T == {i \in Places(data) : \/ i = Len(data) + 1
                                      \/ i > p /\ data[i - 1] # "text"}
           b == Behind(data, p)
<1>1. N \in Nat /\ p \in 1..(N + 1)
  BY ArrivedFacts DEF Places
<1>2. N + 1 \in T /\ T \subseteq 1..(N + 1)
  BY <1>1 DEF Places
<1>3. b = Least(T)
  BY Zenon DEF Behind
<1>4. \A i \in T : i = N + 1 \/ i > p
  OBVIOUS
<1>5. p <= N /\ data[p] # "text" => p + 1 \in T
  <2>1. p + 1 - 1 = p /\ p + 1 > p
    BY <1>1
  <2>2. p <= N => p + 1 \in Places(data)
    BY <1>1 DEF Places
  <2>3. p <= N /\ data[p] # "text" => p + 1 > p /\ data[p + 1 - 1] # "text"
    BY <2>1
  <2>4. SUFFICES ASSUME p <= N, data[p] # "text" PROVE p + 1 \in T
    OBVIOUS
  <2>5. p + 1 \in Places(data) /\ p + 1 > p /\ data[p + 1 - 1] # "text"
    BY <2>2, <2>3, <2>4
  <2>6. QED
    BY <1>1, <2>1, <2>4, <2>5 DEF Places
<1> HIDE DEF T, b
<1>6. T \subseteq Nat
  BY <1>1, <1>2
<1>7. b \in T /\ \A j \in T : b <= j
  BY <1>2, <1>3, <1>6, LeastOf
<1>8. b \in 1..(N + 1) /\ (b = N + 1 \/ b > p)
  BY <1>2, <1>4, <1>7
<1>9. p <= N /\ data[p] # "text" => b <= p + 1
  BY <1>5, <1>7
<1> HIDE DEF N
<1>10. QED
  <2>1. /\ b \in p..(N + 1)
        /\ p <= N => b > p
        /\ p <= N /\ data[p] # "text" => b = p + 1
        /\ p = N + 1 => b = p
    BY <1>1, <1>8, <1>9
  <2>2. QED
    BY <2>1 DEF N, b

LEMMA IndexIs ==
  ASSUME NEW data, Arrived(data), NEW p \in Places(data)
  PROVE  \/ indexOf(data, p) = 0 /\ ClearTo(data, p, Len(data) + 1)
         \/ /\ indexOf(data, p) \in p..Len(data)
            /\ data[indexOf(data, p)] \in Markers
            /\ ClearTo(data, p, indexOf(data, p))
<1> DEFINE N == Len(data)
           T == {i \in p..N : data[i] \in Markers}
           r == indexOf(data, p)
<1>1. N \in Nat /\ p \in 1..(N + 1)
  BY ArrivedFacts DEF Places
<1>2. r = IF T = {} THEN 0 ELSE Least(T)
  BY Zenon DEF indexOf
<1>3. \A i \in T : i \in p..N /\ data[i] \in Markers
  OBVIOUS
<1>4. \A i \in p..N : data[i] \in Markers => i \in T
  OBVIOUS
<1>5. T \subseteq Nat
  BY <1>1
<1> HIDE DEF T, r, N
<1>6. CASE T = {}
  <2>1. r = 0
    BY <1>2, <1>6
  <2>2. ASSUME NEW i \in p..(N + 1 - 1) PROVE data[i] \notin Markers
    <3>1. i \in p..N
      BY <1>1
    <3>2. QED
      BY <1>4, <1>6, <3>1
  <2>3. ClearTo(data, p, N + 1)
    BY <1>1, <2>2 DEF ClearTo
  <2>4. QED
    BY <2>1, <2>3 DEF N, r
<1>7. CASE T # {}
  <2>1. r \in T /\ \A j \in T : r <= j
    BY <1>2, <1>5, <1>7, LeastOf
  <2>2. r \in p..N /\ data[r] \in Markers
    BY <1>3, <2>1
  <2>3. ASSUME NEW i \in p..(r - 1) PROVE data[i] \notin Markers
    <3>1. i \in p..N /\ ~(r <= i)
      BY <1>1, <2>2
    <3>2. QED
      BY <1>4, <2>1, <3>1
  <2>4. ClearTo(data, p, r)
    BY <2>3 DEF ClearTo
  <2>5. QED
    BY <2>2, <2>4 DEF N, r
<1>8. QED
  BY <1>6, <1>7

(* What is found is the first marker that is there. *)
LEMMA IndexFound ==
  ASSUME NEW data, Arrived(data), NEW p \in Places(data)
  PROVE  /\ ClearTo(data, p, Len(data) + 1) => indexOf(data, p) = 0
         /\ \A m \in p..Len(data) : ClearTo(data, p, m) /\ data[m] \in Markers => indexOf(data, p) = m
<1> DEFINE r == indexOf(data, p)
           N == Len(data)
<1>1. N \in Nat /\ p \in 1..(N + 1)
  BY ArrivedFacts DEF Places
<1>2. \/ r = 0 /\ ClearTo(data, p, N + 1)
      \/ r \in p..N /\ data[r] \in Markers /\ ClearTo(data, p, r)
  BY IndexIs
<1> HIDE DEF r, N
<1>3. ASSUME ClearTo(data, p, N + 1) PROVE r = 0
  <2>1. N + 1 - 1 = N
    BY <1>1
  <2>2. \A i \in p..N : data[i] \notin Markers
    BY <1>1, <1>3, <2>1 DEF ClearTo
  <2>3. QED
    BY <1>2, <2>2
<1>4. ASSUME NEW m \in p..N, ClearTo(data, p, m), data[m] \in Markers PROVE r = m
  <2>1. N + 1 - 1 = N
    BY <1>1
  <2>0. ~ClearTo(data, p, N + 1)
    BY <1>1, <1>4, <2>1 DEF ClearTo
  <2>2. r \in p..N /\ data[r] \in Markers /\ ClearTo(data, p, r)
    BY <1>2, <2>0
  <2>3. ~(r < m)
    <3>1. r < m => r \in p..(m - 1)
      BY <1>1, <2>2
    <3>2. QED
      BY <1>4, <2>2, <3>1 DEF ClearTo
  <2>4. ~(m < r)
    <3>1. m < r => m \in p..(r - 1)
      BY <1>1, <2>2
    <3>2. QED
      BY <1>4, <2>2, <3>1 DEF ClearTo
  <2>5. QED
    BY <1>1, <2>2, <2>3, <2>4
<1>5. QED
  BY <1>3, <1>4 DEF r, N

LEMMA Cut ==
  ASSUME NEW data, Arrived(data), NEW p \in Places(data), NEW q \in (p - 1)..Len(data)
  PROVE  /\ SubSeq(data, p, q) \in Seq(Pieces)
         /\ Len(SubSeq(data, p, q)) = q - p + 1
         /\ \A i \in 1..(q - p + 1) : SubSeq(data, p, q)[i] = data[p + i - 1]
<1>1. Len(data) \in Nat /\ p \in Int /\ q \in Int /\ 1 <= p /\ p - 1 <= q /\ q <= Len(data)
  BY ArrivedFacts DEF Places
<1>2. \A i \in p..q : data[i] \in Pieces
  BY <1>1, ArrivedFacts
<1>3. /\ SubSeq(data, p, q) \in Seq(Pieces)
      /\ Len(SubSeq(data, p, q)) = IF p <= q THEN q - p + 1 ELSE 0
      /\ \A i \in 1..(q - p + 1) : SubSeq(data, p, q)[i] = data[p + i - 1]
  BY <1>1, <1>2, SubSeqProperties
<1>4. (IF p <= q THEN q - p + 1 ELSE 0) = q - p + 1
  BY <1>1
<1>5. QED
  BY <1>3, <1>4, Zenon

LEMMA LineIs ==
  ASSUME NEW data, Arrived(data), NEW p \in Places(data)
  PROVE  /\ IsField(Line(data, p)) => p <= Len(data)
         /\ p <= Len(data) /\ data[p] # "text" =>
              Line(data, p) = <<data[p]>> /\ (IsField(Line(data, p)) <=> data[p] \in Fields)
<1> DEFINE b == Behind(data, p)
           line == SubSeq(data, p, b - 1)
<1>1. Len(data) \in Nat /\ p \in 1..(Len(data) + 1)
  BY ArrivedFacts DEF Places
<1>2. /\ b \in p..(Len(data) + 1)
      /\ p <= Len(data) /\ data[p] # "text" => b = p + 1
      /\ p = Len(data) + 1 => b = p
  BY BehindIs
<1> HIDE DEF b
<1>3. b - 1 \in (p - 1)..Len(data) /\ b - 1 - p + 1 = b - p
  BY <1>1, <1>2
<1>4. line \in Seq(Pieces) /\ Len(line) = b - 1 - p + 1
      /\ \A i \in 1..(b - 1 - p + 1) : line[i] = data[p + i - 1]
  BY <1>3, Cut
<1>5. Line(data, p) = line
  BY DEF Line, b
<1> HIDE DEF line
<1>6. IsField(line) => p <= Len(data)
  <2>1. SUFFICES ASSUME p = Len(data) + 1 PROVE ~IsField(line)
    BY <1>1
  <2>2. Len(line) = 0
    BY <1>1, <1>2, <1>3, <1>4, <2>1
  <2>3. QED
    BY <2>2 DEF IsField
<1>7. ASSUME p <= Len(data), data[p] # "text"
      PROVE  line = <<data[p]>> /\ (IsField(line) <=> data[p] \in Fields)
  <2>1. Len(line) = 1
    BY <1>1, <1>2, <1>3, <1>4, <1>7
  <2>2. line[1] = data[p]
    <3>1. 1 \in 1..(b - 1 - p + 1) /\ p + 1 - 1 = p
      BY <1>1, <1>2, <1>3, <1>7
    <3>2. QED
      BY <1>4, <3>1
  <2>3. data[p] \in Pieces
    BY <1>1, <1>7, ArrivedFacts
  <2>4. line = <<data[p]>>
    <3> DEFINE one == <<data[p]>>
    <3>1. one \in Seq(Pieces) /\ Len(one) = 1 /\ one[1] = data[p]
      BY <2>3
    <3> HIDE DEF one
    <3>2. \A i \in 1..Len(line) : line[i] = one[i]
      BY <2>1, <2>2, <3>1
    <3>3. line = one
      BY <1>4, <2>1, <3>1, <3>2, SeqEqual
    <3>4. QED
      BY <3>3 DEF one
  <2>5. IsField(line) <=> line[1] \in Fields
    BY <2>1 DEF IsField
  <2>6. QED
    BY <2>2, <2>4, <2>5
<1>8. QED
  BY <1>5, <1>6, <1>7

(* FieldsFrom() from line to line. *)
Read_(data) == [keys : Seq(Pieces), end : Places(data)]
FieldsNext(data, p, rest) ==
  IF IsField(Line(data, p)) THEN [rest EXCEPT !.keys = <<data[p]>> \o @]
  ELSE [keys |-> <<>>, end |-> Behind(data, p)]
LEMMA FieldsEquation ==
  ASSUME NEW data, Arrived(data)
  PROVE  \A p \in Places(data) :
           /\ FieldsFrom(data, p) \in Read_(data)
           /\ FieldsFrom(data, p) = FieldsNext(data, p, FieldsFrom(data, Behind(data, p)))
<1> DEFINE b == Len(data) + 1
           X == Read_(data)
           next == [q \in 1..b |-> Behind(data, q)]
           last == {q \in 1..b : ~IsField(Line(data, q))}
           base == [q \in 1..b |-> [keys |-> <<>>, end |-> Behind(data, q)]]
           step == [q \in 1..b |-> [r \in X |-> FieldsNext(data, q, r)]]
<1>1. Len(data) \in Nat /\ b \in Int /\ 1 <= b /\ Places(data) = 1..b
  BY ArrivedFacts DEF Places
<1>2. ASSUME NEW q \in 1..b
      PROVE  /\ Behind(data, q) \in 1..b
             /\ IsField(Line(data, q)) => Behind(data, q) \in (q + 1)..b /\ data[q] \in Pieces
  <2>1. q \in Places(data)
    BY <1>1
  <2>2. /\ Behind(data, q) \in q..b
        /\ q <= Len(data) => Behind(data, q) > q
        /\ IsField(Line(data, q)) => q <= Len(data)
    BY <2>1, BehindIs, LineIs, Zenon
  <2>3. IsField(Line(data, q)) => data[q] \in Pieces
    BY <1>1, <2>2, ArrivedFacts
  <2>4. QED
    BY <1>1, <2>2, <2>3
<1>3. base \in [1..b -> X]
  <2>1. <<>> \in Seq(Pieces)
    BY EmptySeq, Zenon
  <2>2. QED
    BY <1>1, <1>2, <2>1 DEF Read_
<1>4. \A q \in 1..b : q \notin last => next[q] \in (q + 1)..b
  BY <1>2
<1>5. step \in [1..b -> [X -> X]]
  <2>1. ASSUME NEW q \in 1..b, NEW r \in X PROVE FieldsNext(data, q, r) \in X
    <3>1. CASE IsField(Line(data, q))
      <4> DEFINE one == <<data[q]>>
      <4>1. one \in Seq(Pieces)
        BY <1>2, <3>1
      <4> HIDE DEF one
      <4>2. r.keys \in Seq(Pieces)
        BY DEF Read_
      <4>3. one \o r.keys \in Seq(Pieces)
        BY <4>1, <4>2, ConcatProperties
      <4>4. QED
        BY <3>1, <4>3 DEF FieldsNext, Read_, one
    <3>2. CASE ~IsField(Line(data, q))
      <4>1. base[q] \in X /\ FieldsNext(data, q, r) = base[q]
        BY <1>3, <3>2 DEF FieldsNext
      <4>2. QED
        BY <4>1
    <3>3. QED
      BY <3>1, <3>2
  <2> HIDE DEF X
  <2>2. QED
    BY <2>1
<1>6. \A q \in 1..b : base[q] = [keys |-> <<>>, end |-> Behind(data, q)] /\ next[q] = Behind(data, q)
  OBVIOUS
<1>7. \A q \in 1..b, r \in X : step[q][r] = FieldsNext(data, q, r)
  OBVIOUS
<1>8. \A q \in 1..b : q \in last <=> ~IsField(Line(data, q))
  OBVIOUS
<1> HIDE DEF base, step, next, last
<1>9. PICK f : Linked(f, X, 1, b, last, base, next, step)
  <2> HIDE DEF X, b
  <2>1. QED
    <3>1. 1 \in Int
      OBVIOUS
    <3>2. QED
      BY <1>1, <1>3, <1>4, <1>5, <3>1, LinkedRecursion, Zenon
<1>10. ASSUME NEW q \in 1..b PROVE f[q] = FieldsNext(data, q, f[Behind(data, q)])
  <2> HIDE DEF X, b
  <2>1. f[q] = IF q \in last THEN base[q] ELSE step[q][f[next[q]]]
    BY <1>9 DEF Linked
  <2>2. CASE ~IsField(Line(data, q))
    BY <1>6, <1>8, <2>1, <2>2 DEF FieldsNext
  <2>3. CASE IsField(Line(data, q))
    <3>1. f[Behind(data, q)] \in X
      BY <1>2, <1>9 DEF Linked
    <3>2. QED
      BY <1>6, <1>7, <1>8, <2>1, <2>3, <3>1
  <2>4. QED
    BY <2>2, <2>3
<1>11. f \in [1..b -> X]
  BY <1>9, Zenon DEF Linked
<1> DEFINE from == CHOOSE g : g = [q \in Places(data) |-> FieldsNext(data, q, g[Behind(data, q)])]
<1>12. f = [q \in Places(data) |-> FieldsNext(data, q, f[Behind(data, q)])]
  BY <1>1, <1>10, <1>11
<1>13. from = [q \in Places(data) |-> FieldsNext(data, q, from[Behind(data, q)])]
  BY <1>12, Zenon
<1>14. \A p : FieldsFrom(data, p) = from[p]
  BY Zenon DEF FieldsFrom, FieldsNext
<1> HIDE DEF from, X
<1>15. \A q \in 1..b : from[q] = f[q]
  <2> DEFINE S == {q \in 1..b : from[q] # f[q]}
  <2>1. SUFFICES ASSUME S # {} PROVE FALSE
    OBVIOUS
  <2>2. PICK q \in S : \A j \in S : j <= q
    <3>1. S \subseteq 0..b /\ b \in Nat
      BY <1>1
    <3> HIDE DEF S, b
    <3>2. QED
      BY <2>1, <3>1, GreatestNumber, Zenon
  <2>3. q \in 1..b /\ from[q] # f[q]
    OBVIOUS
  <2>4. from[q] = FieldsNext(data, q, from[Behind(data, q)])
    BY <1>1, <1>13, <2>3
  <2>5. f[q] = FieldsNext(data, q, f[Behind(data, q)])
    BY <1>10, <2>3
  <2>6. IsField(Line(data, q)) => from[Behind(data, q)] = f[Behind(data, q)]
    <3>1. IsField(Line(data, q)) => Behind(data, q) \in 1..b /\ Behind(data, q) > q
      BY <1>1, <1>2, <2>3
    <3>2. IsField(Line(data, q)) => Behind(data, q) \notin S
      BY <1>1, <2>2, <2>3, <3>1
    <3>3. QED
      BY <3>1, <3>2
  <2>7. QED
    BY <2>3, <2>4, <2>5, <2>6 DEF FieldsNext
<1>16. QED
  <2> HIDE DEF b
  <2>1. ASSUME NEW q \in 1..b
        PROVE  /\ FieldsFrom(data, q) \in X
               /\ FieldsFrom(data, q) = FieldsNext(data, q, FieldsFrom(data, Behind(data, q)))
    <3>1. Behind(data, q) \in 1..b
      BY <1>2
    <3>2. FieldsFrom(data, q) = f[q] /\ FieldsFrom(data, Behind(data, q)) = f[Behind(data, q)]
      BY <1>14, <1>15, <3>1
    <3>3. QED
      BY <1>10, <1>11, <3>2
  <2>2. QED
    BY <1>1, <2>1 DEF X

LEMMA FieldsGoOn ==
  ASSUME NEW data, Arrived(data)
  PROVE  \A p \in Places(data) : FieldsFrom(data, p).end \in p..(Len(data) + 1)
<1> DEFINE b == Len(data) + 1
           S == {p \in 1..b : FieldsFrom(data, p).end \notin p..b}
<1>1. Len(data) \in Nat /\ b \in Nat /\ Places(data) = 1..b
  BY ArrivedFacts DEF Places
<1>2. SUFFICES ASSUME S # {} PROVE FALSE
  BY <1>1
<1>3. PICK p \in S : \A j \in S : j <= p
  <2>1. S \subseteq 0..b
    BY <1>1
  <2> HIDE DEF S, b
  <2>2. QED
    BY <1>1, <1>2, <2>1, GreatestNumber, Zenon
<1>4. p \in 1..b /\ p \in Places(data) /\ FieldsFrom(data, p).end \notin p..b
  BY <1>1
<1> DEFINE n == Behind(data, p)
<1>5. n \in p..b /\ (p <= Len(data) => n > p)
  BY <1>4, BehindIs
<1>6. FieldsFrom(data, p) = FieldsNext(data, p, FieldsFrom(data, n))
  BY <1>4, FieldsEquation
<1>7. n \in Places(data)
  BY <1>1, <1>4, <1>5
<1>8. FieldsFrom(data, n) \in Read_(data)
  BY <1>7, FieldsEquation
<1>9. CASE IsField(Line(data, p))
  <2>1. p <= Len(data)
    BY <1>4, <1>9, LineIs
  <2>2. n > p /\ n \in 1..b
    BY <1>1, <1>4, <1>5, <2>1
  <2>3. n \notin S
    BY <1>1, <1>3, <1>4, <2>2
  <2>4. FieldsFrom(data, n).end \in n..b
    BY <2>2, <2>3
  <2>5. FieldsFrom(data, p).end = FieldsFrom(data, n).end
    BY <1>6, <1>8, <1>9 DEF FieldsNext, Read_
  <2>6. QED
    BY <1>1, <1>4, <1>5, <2>4, <2>5
<1>10. CASE ~IsField(Line(data, p))
  <2>1. FieldsFrom(data, p).end = n
    BY <1>6, <1>10 DEF FieldsNext
  <2>2. QED
    BY <1>4, <1>5, <2>1
<1>11. QED
  BY <1>9, <1>10

(* A value, which has no marker. *)
Clean(v) == {j \in 1..Len(v) : v[j] \in Markers} = {}
CleanValues == {v \in Seq(Pieces) : Clean(v)}

(* The number of parts that are "form-data". *)
FormKeys(keys) == {i \in 1..Len(keys) : keys[i] = "form"}
LEMMA PartIs ==
  ASSUME NEW data, Arrived(data), NEW fields \in Read_(data)
  PROVE  /\ part(data, fields).values \in Seq(CleanValues)
         /\ part(data, fields).end \in fields.end..(Len(data) + 1)
         /\ FormKeys(fields.keys) = {} =>
              part(data, fields).values = <<>> /\ part(data, fields).end = fields.end
         /\ \A i : FormKeys(fields.keys) = {i} =>
              IF indexOf(data, fields.end) = 0
              THEN part(data, fields).values = <<<<>>>> /\ part(data, fields).end = fields.end
              ELSE /\ part(data, fields).values =
                        <<SubSeq(data, fields.end, indexOf(data, fields.end) - 1)>>
                   /\ part(data, fields).end = indexOf(data, fields.end)
<1> DEFINE forms == Cardinality(FormKeys(fields.keys))
           e == fields.end
           nnext == indexOf(data, e)
           none == nnext < e
           cut == SubSeq(data, e, nnext - 1)
           values == [i \in 1..forms |-> IF i > 1 \/ none THEN <<>> ELSE cut]
           end == IF forms = 0 \/ none THEN e ELSE nnext
<1>1. part(data, fields) = [values |-> values, end |-> end]
  BY Zenon DEF part, FormKeys
<1>2. part(data, fields).values = values /\ part(data, fields).end = end
  BY <1>1
<1>3. Len(data) \in Nat /\ e \in Places(data) /\ e \in 1..(Len(data) + 1) /\ fields.keys \in Seq(Pieces)
  BY ArrivedFacts DEF Read_, Places
<1>4. \/ nnext = 0
      \/ nnext \in e..Len(data) /\ ClearTo(data, e, nnext)
  BY <1>3, IndexIs
<1>5. none <=> nnext = 0
  BY <1>3, <1>4
<1>6. forms \in Nat /\ (FormKeys(fields.keys) = {} => forms = 0)
      /\ (\A i : FormKeys(fields.keys) = {i} => forms = 1)
  <2>1. FormKeys(fields.keys) \subseteq 1..Len(fields.keys) /\ Len(fields.keys) \in Nat
    BY <1>3 DEF FormKeys
  <2>2. IsFiniteSet(FormKeys(fields.keys))
    <3>1. IsFiniteSet(1..Len(fields.keys))
      BY <2>1, FS_Interval
    <3>2. QED
      BY <2>1, <3>1, FS_Subset
  <2>3. QED
    BY <2>2, FS_CardinalityType, FS_EmptySet, FS_Singleton, Zenon
<1>7. <<>> \in CleanValues
  <2>1. <<>> \in Seq(Pieces) /\ Len(<<>>) = 0
    BY EmptySeq, Zenon
  <2>2. QED
    BY <2>1 DEF CleanValues, Clean
<1> HIDE DEF nnext, forms, e
<1>8. ~none => cut \in CleanValues
  <2>1. SUFFICES ASSUME nnext \in e..Len(data), ClearTo(data, e, nnext) PROVE cut \in CleanValues
    BY <1>4, <1>5
  <2>2. nnext - 1 \in (e - 1)..Len(data)
    BY <1>3, <2>1
  <2>3. /\ cut \in Seq(Pieces)
        /\ Len(cut) = nnext - 1 - e + 1
        /\ \A i \in 1..(nnext - 1 - e + 1) : cut[i] = data[e + i - 1]
    BY <1>3, <2>2, Cut
  <2> HIDE DEF cut
  <2>4. ASSUME NEW i \in 1..Len(cut) PROVE cut[i] \notin Markers
    <3>1. i \in 1..(nnext - 1 - e + 1) /\ e + i - 1 \in e..(nnext - 1)
      BY <1>3, <2>1, <2>3
    <3>2. QED
      BY <2>1, <2>3, <3>1 DEF ClearTo
  <2>5. QED
    BY <2>3, <2>4 DEF CleanValues, Clean
<1> HIDE DEF none, cut
<1>9. values \in Seq(CleanValues) /\ Len(values) = forms
  <2>1. values \in [1..forms -> CleanValues]
    BY <1>7, <1>8
  <2> HIDE DEF values
  <2>2. QED
    BY <1>6, <2>1
<1>10. end \in e..(Len(data) + 1)
  BY <1>3, <1>4, <1>5
<1>11. forms = 0 => values = <<>> /\ end = e
  BY <1>9
<1>12. forms = 1 => values = <<IF none THEN <<>> ELSE cut>> /\ end = IF none THEN e ELSE nnext
  <2>1. SUFFICES ASSUME forms = 1 PROVE values = <<IF none THEN <<>> ELSE cut>>
    OBVIOUS
  <2> DEFINE v == IF none THEN <<>> ELSE cut
             one == <<v>>
  <2>2. v \in CleanValues
    BY <1>7, <1>8
  <2>3. Len(values) = 1 /\ values[1] = v
    BY <1>9, <2>1
  <2> HIDE DEF v
  <2>4. one \in Seq(CleanValues) /\ Len(one) = 1 /\ one[1] = v
    BY <2>2
  <2> HIDE DEF one, values
  <2>5. \A i \in 1..Len(values) : values[i] = one[i]
    BY <2>3, <2>4
  <2>6. values = one
    BY <1>9, <2>3, <2>4, <2>5, SeqEqual, Zenon
  <2>7. QED
    BY <2>6 DEF one, v
<1> HIDE DEF values, end
<1>13. /\ values \in Seq(CleanValues)
       /\ end \in e..(Len(data) + 1)
       /\ FormKeys(fields.keys) = {} => values = <<>> /\ end = e
       /\ \A i : FormKeys(fields.keys) = {i} =>
            IF nnext = 0 THEN values = <<<<>>>> /\ end = e
            ELSE values = <<cut>> /\ end = nnext
  BY <1>5, <1>6, <1>9, <1>10, <1>11, <1>12, Zenon
<1>14. QED
  BY <1>2, <1>13, Zenon DEF nnext, e, cut

(* postdata() from marker to marker. *)
Ended(data, p) == indexOf(data, p) = 0 \/ Line(data, indexOf(data, p)) = <<"end">>
Begun(data, p) == indexOf(data, p) # 0 /\ Line(data, indexOf(data, p)) = <<"marker">>
PartAt(data, p) == part(data, FieldsFrom(data, Behind(data, indexOf(data, p))))
Further(data, p) == IF Begun(data, p) THEN PartAt(data, p).end ELSE Behind(data, indexOf(data, p))
PostNext(data, p, rest) ==
  CASE Ended(data, p) -> <<>>
    [] Begun(data, p) -> PartAt(data, p).values \o rest
    [] OTHER -> rest
LEMMA EndOrMarker == \A data, p : ~(Ended(data, p) /\ Begun(data, p))
<1>1. <<"end">> # <<"marker">>
  <2>1. <<"end">>[1] # <<"marker">>[1]
    OBVIOUS
  <2>2. QED
    BY <2>1
<1>2. QED
  BY <1>1, Zenon DEF Ended, Begun

LEMMA PartAtIs ==
  ASSUME NEW data, Arrived(data), NEW p \in Places(data), indexOf(data, p) # 0
  PROVE  /\ indexOf(data, p) \in p..Len(data)
         /\ Behind(data, indexOf(data, p)) \in (p + 1)..(Len(data) + 1)
         /\ FieldsFrom(data, Behind(data, indexOf(data, p))) \in Read_(data)
         /\ PartAt(data, p).values \in Seq(CleanValues)
         /\ PartAt(data, p).end \in (p + 1)..(Len(data) + 1)
<1> DEFINE m == indexOf(data, p)
           b == Behind(data, m)
           fields == FieldsFrom(data, b)
<1>1. Len(data) \in Nat /\ p \in 1..(Len(data) + 1) /\ Places(data) = 1..(Len(data) + 1)
  BY ArrivedFacts DEF Places
<1>2. m \in p..Len(data)
  BY IndexIs
<1> HIDE DEF m
<1>3. m \in Places(data) /\ m <= Len(data)
  BY <1>1, <1>2
<1>4. b \in m..(Len(data) + 1) /\ b > m
  BY <1>3, BehindIs
<1> HIDE DEF b
<1>5. b \in (p + 1)..(Len(data) + 1) /\ b \in Places(data)
  BY <1>1, <1>2, <1>4
<1>6. fields \in Read_(data) /\ fields.end \in b..(Len(data) + 1)
  BY <1>5, FieldsEquation, FieldsGoOn
<1> HIDE DEF fields
<1>7. part(data, fields).values \in Seq(CleanValues) /\ part(data, fields).end \in fields.end..(Len(data) + 1)
  BY <1>6, PartIs
<1>8. PartAt(data, p) = part(data, fields)
  BY DEF PartAt, fields, b, m
<1>9. PartAt(data, p).values \in Seq(CleanValues) /\ PartAt(data, p).end \in (p + 1)..(Len(data) + 1)
  BY <1>1, <1>5, <1>6, <1>7, <1>8
<1>10. QED
  BY <1>2, <1>5, <1>6, <1>9 DEF fields, b, m

LEMMA PostEquation ==
  ASSUME NEW data, Arrived(data)
  PROVE  \A p \in Places(data) :
           /\ postdata(data, p) \in Seq(CleanValues)
           /\ postdata(data, p) = PostNext(data, p, postdata(data, Further(data, p)))
<1> DEFINE b == Len(data) + 1
           X == Seq(CleanValues)
           next == [q \in 1..b |-> Further(data, q)]
           last == {q \in 1..b : Ended(data, q)}
           base == [q \in 1..b |-> <<>>]
           step == [q \in 1..b |-> [r \in X |-> PostNext(data, q, r)]]
<1>1. Len(data) \in Nat /\ b \in Int /\ 1 <= b /\ Places(data) = 1..b /\ 1 \in Int
  BY ArrivedFacts DEF Places
<1>2. ASSUME NEW q \in 1..b, ~Ended(data, q)
      PROVE  /\ Further(data, q) \in (q + 1)..b
             /\ Begun(data, q) => PartAt(data, q).values \in X
  <2>1. q \in Places(data) /\ indexOf(data, q) # 0
    BY <1>1, <1>2 DEF Ended
  <2>2. QED
    BY <2>1, PartAtIs DEF Further
<1>3. <<>> \in X
  BY EmptySeq, Zenon
<1>4. base \in [1..b -> X]
  BY <1>3
<1>5. \A q \in 1..b : q \notin last => next[q] \in (q + 1)..b
  BY <1>2
<1>6. step \in [1..b -> [X -> X]]
  <2>1. ASSUME NEW q \in 1..b, NEW r \in X PROVE PostNext(data, q, r) \in X
    <3>1. CASE Ended(data, q)
      BY <1>3, <3>1, EndOrMarker DEF PostNext
    <3>2. CASE ~Ended(data, q) /\ Begun(data, q)
      <4> DEFINE v == PartAt(data, q).values
      <4>1. v \in X
        BY <1>2, <3>2
      <4> HIDE DEF v
      <4>2. v \o r \in X
        BY <4>1, ConcatProperties
      <4>3. PostNext(data, q, r) = v \o r
        BY <3>2 DEF PostNext, v
      <4>4. QED
        BY <4>2, <4>3
    <3>3. CASE ~Ended(data, q) /\ ~Begun(data, q)
      <4>1. PostNext(data, q, r) = r
        BY <3>3 DEF PostNext
      <4>2. QED
        BY <4>1
    <3>4. QED
      BY <3>1, <3>2, <3>3
  <2> HIDE DEF X
  <2>2. QED
    BY <2>1
<1>7. \A q \in 1..b : base[q] = <<>> /\ next[q] = Further(data, q)
  OBVIOUS
<1>8. \A q \in 1..b, r \in X : step[q][r] = PostNext(data, q, r)
  OBVIOUS
<1>9. \A q \in 1..b : q \in last <=> Ended(data, q)
  OBVIOUS
<1> HIDE DEF base, step, next, last, X
<1>10. PICK f : Linked(f, X, 1, b, last, base, next, step)
  <2> HIDE DEF b
  <2>1. QED
    BY <1>1, <1>4, <1>5, <1>6, LinkedRecursion, Zenon
<1>11. ASSUME NEW q \in 1..b PROVE f[q] = PostNext(data, q, f[Further(data, q)])
  <2> HIDE DEF b
  <2>1. f[q] = IF q \in last THEN base[q] ELSE step[q][f[next[q]]]
    BY <1>10 DEF Linked
  <2>2. CASE Ended(data, q)
    <3>1. f[q] = <<>>
      BY <1>7, <1>9, <2>1, <2>2
    <3>2. \A r : PostNext(data, q, r) = <<>>
      BY <2>2, EndOrMarker DEF PostNext
    <3>3. QED
      BY <3>1, <3>2
  <2>3. CASE ~Ended(data, q)
    <3>0. Further(data, q) \in 1..b
      BY <1>1, <1>2, <2>3
    <3>1. f[Further(data, q)] \in X
      BY <1>10, <3>0 DEF Linked
    <3>2. QED
      BY <1>7, <1>8, <1>9, <2>1, <2>3, <3>1
  <2>4. QED
    BY <2>2, <2>3
<1>12. f \in [1..b -> X]
  BY <1>10, Zenon DEF Linked
<1> DEFINE value(g, q) == CASE indexOf(data, q) = 0 \/ Line(data, indexOf(data, q)) = <<"end">> -> <<>>
                            [] indexOf(data, q) # 0 /\ Line(data, indexOf(data, q)) = <<"marker">> ->
                                 PartAt(data, q).values \o g[PartAt(data, q).end]
                            [] OTHER -> g[Behind(data, indexOf(data, q))]
           from == CHOOSE g : g = [q \in Places(data) |-> value(g, q)]
<1>13. \A g, q : value(g, q) = PostNext(data, q, g[Further(data, q)])
  <2>1. TAKE g, q
  <2>2. value(g, q) = CASE Ended(data, q) -> <<>>
                        [] Begun(data, q) -> PartAt(data, q).values \o g[PartAt(data, q).end]
                        [] OTHER -> g[Behind(data, indexOf(data, q))]
    BY Zenon DEF Ended, Begun
  <2> HIDE DEF value
  <2>3. CASE Ended(data, q)
    BY <2>2, <2>3, EndOrMarker DEF PostNext
  <2>4. CASE ~Ended(data, q) /\ Begun(data, q)
    BY <2>2, <2>4 DEF PostNext, Further
  <2>5. CASE ~Ended(data, q) /\ ~Begun(data, q)
    BY <2>2, <2>5 DEF PostNext, Further
  <2>6. QED
    BY <2>3, <2>4, <2>5
<1>14. \A p : postdata(data, p) = from[p]
  BY Zenon DEF postdata, PartAt
<1> HIDE DEF value
<1>15. f = [q \in Places(data) |-> value(f, q)]
  BY <1>1, <1>11, <1>12, <1>13
<1>16. from = [q \in Places(data) |-> value(from, q)]
  BY <1>15, Zenon
<1> HIDE DEF from
<1>17. \A q \in 1..b : from[q] = PostNext(data, q, from[Further(data, q)])
  BY <1>1, <1>13, <1>16
<1>18. \A q \in 1..b : from[q] = f[q]
  <2> DEFINE S == {q \in 1..b : from[q] # f[q]}
  <2>1. SUFFICES ASSUME S # {} PROVE FALSE
    OBVIOUS
  <2>2. PICK q \in S : \A j \in S : j <= q
    <3>1. S \subseteq 0..b /\ b \in Nat
      BY <1>1
    <3> HIDE DEF S, b
    <3>2. QED
      BY <2>1, <3>1, GreatestNumber, Zenon
  <2>3. q \in 1..b /\ from[q] # f[q]
    OBVIOUS
  <2>4. from[q] = PostNext(data, q, from[Further(data, q)])
    BY <1>17, <2>3
  <2>5. f[q] = PostNext(data, q, f[Further(data, q)])
    BY <1>11, <2>3
  <2>6. CASE Ended(data, q)
    <3>1. \A r : PostNext(data, q, r) = <<>>
      BY <2>6, EndOrMarker DEF PostNext
    <3>2. QED
      BY <2>3, <2>4, <2>5, <3>1
  <2>7. CASE ~Ended(data, q)
    <3>1. Further(data, q) \in 1..b /\ Further(data, q) > q
      BY <1>1, <1>2, <2>3, <2>7
    <3>2. Further(data, q) \notin S
      BY <1>1, <2>2, <2>3, <3>1
    <3>3. from[Further(data, q)] = f[Further(data, q)]
      BY <3>1, <3>2
    <3>4. QED
      BY <2>3, <2>4, <2>5, <3>3
  <2>8. QED
    BY <2>6, <2>7
<1>19. ASSUME NEW q \in Places(data)
       PROVE  /\ postdata(data, q) \in X
              /\ postdata(data, q) = PostNext(data, q, postdata(data, Further(data, q)))
  <2>1. q \in 1..b
    BY <1>1
  <2>2. postdata(data, q) \in X
    BY <1>12, <1>14, <1>18, <2>1
  <2>3. postdata(data, q) = PostNext(data, q, postdata(data, Further(data, q)))
    BY <1>14, <1>17, <2>1
  <2>4. QED
    BY <2>2, <2>3
<1>20. QED
  BY <1>19 DEF X

-----------------------------------------------------------------------------
(* Forms *)

(* Sequences that are put together one after another. *)
Flattens(f, X, s) ==
  /\ f \in [0..Len(s) -> Seq(X)] /\ f[0] = <<>>
  /\ \A k \in 1..Len(s) : f[k] = f[k - 1] \o s[k]
LEMMA Flattened ==
  ASSUME NEW X, NEW s \in Seq(Seq(X))
  PROVE  \E f : Flattens(f, X, s) /\ FlattenSeq(s) = f[Len(s)]
<1> DEFINE n == Len(s)
           Y == Seq(X)
           step == [k \in 1..n |-> [r \in Y |-> r \o s[k]]]
<1>1. n \in Nat /\ \A k \in 1..n : s[k] \in Y
  OBVIOUS
<1>2. <<>> \in Y
  BY EmptySeq, Zenon
<1>3. ASSUME NEW k \in 1..n, NEW r \in Y PROVE r \o s[k] \in Y
  <2> DEFINE t == s[k]
  <2>1. t \in Y
    BY <1>1
  <2> HIDE DEF t
  <2>2. r \o t \in Y
    BY <2>1, ConcatProperties
  <2>3. QED
    BY <2>2 DEF t
<1> HIDE DEF Y
<1>4. step \in Steps(Y, n)
  BY <1>3 DEF Steps
<1>5. \A k \in 1..n, r \in Y : step[k][r] = r \o s[k]
  OBVIOUS
<1> HIDE DEF step, n
<1>6. PICK f : Recursive(f, Y, <<>>, n, step)
  BY <1>1, <1>2, <1>4, Recursion, Zenon
<1>7. f \in [0..n -> Y] /\ f[0] = <<>> /\ \A k \in 1..n : f[k] = step[k][f[k - 1]]
  BY <1>6 DEF Recursive
<1>8. ASSUME NEW k \in 1..n PROVE f[k - 1] \in Y /\ f[k] = f[k - 1] \o s[k]
  <2>1. k - 1 \in 0..n
    BY <1>1
  <2>2. f[k - 1] \in Y
    BY <1>7, <2>1
  <2>3. QED
    BY <1>5, <1>7, <2>2
<1>9. Flattens(f, X, s)
  BY <1>7, <1>8 DEF Flattens, Y, n
<1>10. CASE n = 0
  <2>1. s = <<>> /\ FlattenSeq(s) = s
    <3>1. s = <<>>
      BY <1>10, EmptySeq DEF n
    <3>2. QED
      BY <1>10, <3>1, Zenon DEF FlattenSeq, n
  <2>2. QED
    BY <1>7, <1>9, <1>10, <2>1 DEF n
<1>11. CASE n # 0
  <2> DEFINE value(g, i) == IF i = 1 THEN s[i] ELSE g[i - 1] \o s[i]
             flat == CHOOSE g : g = [i \in 1..n |-> value(g, i)]
             h == [i \in 1..n |-> f[i]]
  <2>1. FlattenSeq(s) = flat[n]
    BY <1>11, Zenon DEF FlattenSeq, n
  <2>2. \A i \in 1..n : h[i] = value(h, i)
    <3>1. ASSUME NEW i \in 1..n PROVE h[i] = value(h, i)
      <4>1. CASE i = 1
        <5>1. 1 - 1 = 0
          OBVIOUS
        <5>2. f[1] = <<>> \o s[1]
          BY <1>7, <1>8, <4>1, <5>1
        <5>3. s[1] \in Seq(X)
          BY <1>1, <4>1 DEF Y
        <5>4. <<>> \o s[1] = s[1]
          BY <5>3, ConcatEmptySeq, Zenon
        <5>5. QED
          BY <4>1, <5>2, <5>4
      <4>2. CASE i # 1
        <5>1. i - 1 \in 1..n
          BY <1>1, <4>2
        <5>2. h[i - 1] = f[i - 1]
          BY <5>1
        <5>3. QED
          BY <1>8, <4>2, <5>2
      <4>3. QED
        BY <4>1, <4>2
    <3>2. QED
      BY <3>1
  <2>3. h = [i \in 1..n |-> value(h, i)]
    <3> HIDE DEF value
    <3>1. h = [i \in 1..n |-> h[i]]
      OBVIOUS
    <3> HIDE DEF h
    <3>2. QED
      BY <2>2, <3>1
  <2> HIDE DEF h
  <2>4. flat = [i \in 1..n |-> value(flat, i)]
    BY <2>3, Zenon
  <2> HIDE DEF flat
  <2>5. \A i \in 1..n : flat[i] = value(flat, i)
    <3> HIDE DEF value
    <3>1. QED
      BY <2>4
  <2> DEFINE P == {i \in 0..n : i = 0 \/ flat[i] = f[i]}
  <2>6. 0 \in P
    BY <1>1
  <2>7. ASSUME NEW i \in 1..n, i - 1 \in P PROVE i \in P
    <3>1. flat[i] = f[i]
      <4>1. CASE i = 1
        <5>1. 1 - 1 = 0
          OBVIOUS
        <5>2. f[1] = <<>> \o s[1]
          BY <1>7, <1>8, <4>1, <5>1
        <5>3. s[1] \in Seq(X)
          BY <1>1, <4>1 DEF Y
        <5>4. <<>> \o s[1] = s[1]
          BY <5>3, ConcatEmptySeq, Zenon
        <5>5. QED
          BY <2>5, <4>1, <5>2, <5>4
      <4>2. CASE i # 1
        <5>1. i - 1 \in 1..n /\ i - 1 # 0
          BY <1>1, <4>2
        <5>2. flat[i - 1] = f[i - 1]
          BY <2>7, <5>1
        <5>3. QED
          BY <1>8, <2>5, <4>2, <5>2
      <4>3. QED
        BY <4>1, <4>2
    <3>2. QED
      BY <1>1, <3>1
  <2> HIDE DEF P
  <2>8. n \in P
    <3>1. \A i \in 0..n : i \in P
      BY <1>1, <2>6, <2>7, Onwards
    <3>2. QED
      BY <1>1, <3>1
  <2>9. flat[n] = f[n]
    BY <1>11, <2>8 DEF P
  <2>10. QED
    BY <1>9, <2>1, <2>9 DEF n
<1>12. QED
  BY <1>10, <1>11

(* What is before stays in front. *)
LEMMA FlattensFront ==
  ASSUME NEW X, NEW s \in Seq(Seq(X)), NEW f, Flattens(f, X, s), NEW k \in 0..Len(s)
  PROVE  \A m \in k..Len(s) :
           /\ Len(f[k]) <= Len(f[m])
           /\ \A i \in 1..Len(f[k]) : f[m][i] = f[k][i]
<1> DEFINE n == Len(s)
           Kept(m) == /\ Len(f[k]) <= Len(f[m])
                      /\ \A i \in 1..Len(f[k]) : f[m][i] = f[k][i]
           P == {m \in 0..n : m < k \/ Kept(m)}
<1>1. n \in Nat /\ f \in [0..n -> Seq(X)] /\ (\A m \in 1..n : f[m] = f[m - 1] \o s[m]) /\ k \in 0..n
      /\ \A m \in 1..n : s[m] \in Seq(X)
  <2>1. n \in Nat /\ (\A m \in 1..n : s[m] \in Seq(X))
    <3> DEFINE Y == Seq(X)
    <3>1. s \in Seq(Y)
      OBVIOUS
    <3> HIDE DEF Y
    <3>2. n \in Nat /\ (\A m \in 1..n : s[m] \in Y)
      BY <3>1
    <3>3. QED
      BY <3>2 DEF Y
  <2>2. QED
    BY <2>1, Zenon DEF Flattens
<1>2. Len(f[k]) \in Nat /\ Kept(k)
  BY <1>1
<1>3. 0 \in P
  BY <1>1, <1>2
<1>4. ASSUME NEW m \in 1..n, m - 1 \in P PROVE m \in P
  <2>1. CASE m < k \/ m = k
    BY <1>2, <2>1
  <2>2. CASE ~(m < k) /\ m # k
    <3> DEFINE a == f[m - 1]
               t == s[m]
    <3>1. m - 1 \in 0..n /\ ~(m - 1 < k)
      BY <1>1, <2>2
    <3>2. a \in Seq(X) /\ t \in Seq(X) /\ f[m] = a \o t
      BY <1>1, <3>1
    <3>3. Len(f[k]) <= Len(a) /\ \A i \in 1..Len(f[k]) : a[i] = f[k][i]
      BY <1>4, <3>1
    <3> HIDE DEF a, t
    <3>4. /\ Len(a) \in Nat /\ Len(t) \in Nat
          /\ Len(a \o t) = Len(a) + Len(t)
          /\ \A i \in 1..(Len(a) + Len(t)) : (a \o t)[i] = IF i <= Len(a) THEN a[i] ELSE t[i - Len(a)]
      BY <3>2, ConcatProperties, LenProperties
    <3>5. \A i \in 1..Len(f[k]) : i \in 1..(Len(a) + Len(t)) /\ i <= Len(a)
      BY <1>2, <3>3, <3>4
    <3>6. \A i \in 1..Len(f[k]) : (a \o t)[i] = f[k][i]
      BY <3>3, <3>4, <3>5
    <3>7. Len(f[k]) <= Len(a \o t)
      BY <1>2, <3>3, <3>4
    <3>8. Kept(m)
      BY <3>2, <3>6, <3>7
    <3> HIDE DEF Kept
    <3>9. QED
      BY <3>8
  <2>3. QED
    BY <2>1, <2>2
<1> HIDE DEF P
<1>5. \A m \in 0..n : m \in P
  BY <1>1, <1>3, <1>4, Onwards
<1>6. ASSUME NEW m \in k..n PROVE Kept(m)
  <2>1. m \in 0..n /\ ~(m < k)
    BY <1>1
  <2>2. QED
    BY <1>5, <2>1 DEF P
<1>7. QED
  BY <1>6

(* The pieces of a part. *)
Ahead(p) == IF p.more THEN 1 ELSE 0
LEMMA PartPieces ==
  ASSUME NEW p \in Parts
  PROVE  /\ p.value \in Seq(Pieces) /\ Len(p.value) \in Nat
         /\ \A j \in 1..Len(p.value) : p.value[j] \notin Markers
         /\ Part(p) \in Seq(Pieces) /\ Len(Part(p)) = 3 + Ahead(p) + Len(p.value)
         /\ Part(p)[1] = "marker"
         /\ p.more => Part(p)[2] = "field"
         /\ Part(p)[2 + Ahead(p)] = IF p.form THEN "form" ELSE "field"
         /\ Part(p)[3 + Ahead(p)] = "blank"
         /\ \A j \in 1..Len(p.value) : Part(p)[3 + Ahead(p) + j] = p.value[j]
<1> DEFINE v == p.value
           D == {"data", "field", "blank", "text"}
           head == <<"marker">> \o (IF p.more THEN <<"field">> ELSE <<>>)
                   \o (IF p.form THEN <<"form">> ELSE <<"field">>) \o <<"blank">>
           n == 3 + Ahead(p)
<1>1. v \in Seq(D)
  <2>1. v \in Upto(D, 1)
    BY DEF Parts
  <2> HIDE DEF D, v
  <2>2. QED
    BY <2>1, Texts, Zenon
<1>2. \A x \in D : x \in Pieces /\ x \notin Markers
  BY DEF Pieces, Fields, Markers
<1> HIDE DEF D
<1>3. v \in Seq(Pieces) /\ Len(v) \in Nat /\ \A j \in 1..Len(v) : v[j] \notin Markers
  BY <1>1, <1>2
<1>4. Part(p) = head \o v
  BY DEF Part
<1> HIDE DEF v
<1>5. n \in Nat
  BY DEF Ahead
<1>6. /\ head \in Seq(Pieces) /\ Len(head) = n
      /\ head[1] = "marker"
      /\ p.more => head[2] = "field"
      /\ head[2 + Ahead(p)] = IF p.form THEN "form" ELSE "field"
      /\ head[n] = "blank"
  <2>1. p.more \in BOOLEAN /\ p.form \in BOOLEAN
    BY DEF Parts
  <2>2. {"marker", "field", "form", "blank"} \subseteq Pieces
    BY DEF Pieces, Fields, Markers
  <2>3. CASE p.more
    BY <2>2, <2>3 DEF Ahead
  <2>4. CASE ~p.more
    BY <2>2, <2>4 DEF Ahead
  <2>5. QED
    BY <2>3, <2>4
<1> HIDE DEF head, n
<1>7. /\ head \o v \in Seq(Pieces)
      /\ Len(head \o v) = n + Len(v)
      /\ \A i \in 1..(n + Len(v)) : (head \o v)[i] = IF i <= n THEN head[i] ELSE v[i - n]
  BY <1>3, <1>6, ConcatProperties
<1>8. n = 3 + Ahead(p) /\ Ahead(p) \in {0, 1} /\ (p.more => Ahead(p) = 1)
  BY DEF n, Ahead
<1>9. \A i \in 1..n : (head \o v)[i] = head[i]
  BY <1>3, <1>5, <1>7
<1>10. \A j \in 1..Len(v) : (head \o v)[n + j] = v[j]
  <2>1. ASSUME NEW j \in 1..Len(v) PROVE (head \o v)[n + j] = v[j]
    <3> DEFINE i == n + j
    <3>1. i \in 1..(n + Len(v)) /\ ~(i <= n) /\ i - n = j
      BY <1>3, <1>5
    <3> HIDE DEF i
    <3>2. (head \o v)[i] = v[i - n]
      BY <1>7, <3>1
    <3>3. QED
      BY <3>1, <3>2 DEF i
  <2>2. QED
    BY <2>1
<1>11. 1 \in 1..n /\ (p.more => 2 \in 1..n) /\ 2 + Ahead(p) \in 1..n /\ n \in 1..n
  BY <1>8
<1>12. QED
  BY <1>3, <1>4, <1>6, <1>7, <1>8, <1>9, <1>10, <1>11 DEF v

(* Where the parts of a form are. *)
Head_ == <<"field", "multipart", "blank">>
FormAt(parts, off) ==
  /\ off \in [1..(Len(parts) + 1) -> Nat \ {0}] /\ off[1] = 4
  /\ \A k \in 1..Len(parts) :
       /\ off[k + 1] = off[k] + Len(Part(parts[k]))
       /\ \A j \in 1..Len(Part(parts[k])) : Form(parts)[off[k] + j - 1] = Part(parts[k])[j]
  /\ Form(parts) \in Seq(Pieces)
  /\ Len(Form(parts)) = off[Len(parts) + 1] /\ Form(parts)[Len(Form(parts))] = "end"
  /\ \A i \in 1..3 : Form(parts)[i] = Head_[i]
LEMMA FormIs ==
  ASSUME NEW parts \in Seq(Parts)
  PROVE  \E off : FormAt(parts, off)
<1> DEFINE n == Len(parts)
           s == [i \in 1..Len(parts) |-> Part(parts[i])]
           P(k) == Part(parts[k])
           last == <<"end">>
<1>1. n \in Nat /\ \A k \in 1..n : parts[k] \in Parts
  OBVIOUS
<1>2. \A k \in 1..n : P(k) \in Seq(Pieces) /\ Len(P(k)) \in Nat
  BY <1>1, PartPieces, LenProperties
<1>3. s \in Seq(Seq(Pieces)) /\ Len(s) = n /\ \A k \in 1..n : s[k] = P(k)
  <2> DEFINE Y == Seq(Pieces)
  <2>1. s \in [1..n -> Y]
    BY <1>2
  <2> HIDE DEF Y, P
  <2>2. s \in Seq(Y) /\ Len(s) = n
    BY <1>1, <2>1
  <2>3. QED
    BY <2>2 DEF Y, P
<1>4. PICK f : Flattens(f, Pieces, s) /\ FlattenSeq(s) = f[Len(s)]
  <2> HIDE DEF s
  <2>1. QED
    BY <1>3, Flattened
<1>5. Form(parts) = (Head_ \o FlattenSeq(s)) \o last
  BY Zenon DEF Form, Head_
<1> HIDE DEF s, P, n
<1>6. /\ f \in [0..n -> Seq(Pieces)] /\ f[0] = <<>>
      /\ \A k \in 1..n : f[k] = f[k - 1] \o P(k)
  BY <1>3, <1>4 DEF Flattens
<1>7. \A k \in 0..n : f[k] \in Seq(Pieces) /\ Len(f[k]) \in Nat
  BY <1>6
<1> DEFINE off == [k \in 1..(n + 1) |-> 4 + Len(f[k - 1])]
           F == f[n]
           form == (Head_ \o F) \o last
<1>8. Head_ \in Seq(Pieces) /\ Len(Head_) = 3 /\ last \in Seq(Pieces) /\ Len(last) = 1 /\ last[1] = "end"
  BY DEF Head_, Pieces, Fields, Markers
<1>9. F \in Seq(Pieces) /\ Len(F) \in Nat
  BY <1>1, <1>7
<1> HIDE DEF F, last
<1>10. /\ Head_ \o F \in Seq(Pieces) /\ Len(Head_ \o F) = 3 + Len(F)
       /\ \A i \in 1..(3 + Len(F)) : (Head_ \o F)[i] = IF i <= 3 THEN Head_[i] ELSE F[i - 3]
  <2> DEFINE H == Head_
  <2>1. H \in Seq(Pieces) /\ Len(H) = 3
    BY <1>8
  <2> HIDE DEF H
  <2>2. /\ H \o F \in Seq(Pieces) /\ Len(H \o F) = Len(H) + Len(F)
        /\ \A i \in 1..(Len(H) + Len(F)) : (H \o F)[i] = IF i <= Len(H) THEN H[i] ELSE F[i - Len(H)]
    BY <1>9, <2>1, ConcatProperties
  <2>3. QED
    BY <2>1, <2>2 DEF H
<1> DEFINE HF == Head_ \o F
<1> HIDE DEF HF
<1>11. HF \in Seq(Pieces) /\ Len(HF) = 3 + Len(F)
       /\ (\A i \in 1..3 : HF[i] = Head_[i])
       /\ (\A i \in 1..Len(F) : HF[i + 3] = F[i])
  <2>1. ASSUME NEW i \in 1..3 PROVE HF[i] = Head_[i]
    <3>1. i \in 1..(3 + Len(F)) /\ i <= 3
      BY <1>9
    <3>2. QED
      BY <1>10, <3>1 DEF HF
  <2>2. ASSUME NEW i \in 1..Len(F) PROVE HF[i + 3] = F[i]
    <3> DEFINE j == i + 3
    <3>1. j \in 1..(3 + Len(F)) /\ ~(j <= 3) /\ j - 3 = i
      BY <1>9
    <3> HIDE DEF j
    <3>2. HF[j] = F[j - 3]
      BY <1>10, <3>1 DEF HF
    <3>3. QED
      BY <3>1, <3>2 DEF j
  <2>3. QED
    BY <1>10, <2>1, <2>2 DEF HF
<1>12. form = HF \o last
  BY DEF HF
<1> HIDE DEF form
<1>13. /\ form \in Seq(Pieces) /\ Len(form) = 4 + Len(F)
       /\ \A i \in 1..(3 + Len(F) + 1) : form[i] = IF i <= 3 + Len(F) THEN HF[i] ELSE last[i - (3 + Len(F))]
  <2>1. /\ HF \o last \in Seq(Pieces) /\ Len(HF \o last) = Len(HF) + Len(last)
        /\ \A i \in 1..(Len(HF) + Len(last)) : (HF \o last)[i] = IF i <= Len(HF) THEN HF[i] ELSE last[i - Len(HF)]
    BY <1>8, <1>11, ConcatProperties
  <2>2. Len(HF) + Len(last) = 3 + Len(F) + 1 /\ 3 + Len(F) + 1 = 4 + Len(F)
    BY <1>8, <1>9, <1>11
  <2>3. QED
    BY <1>11, <1>12, <2>1, <2>2
<1>14. (\A i \in 1..3 : form[i] = Head_[i]) /\ (\A i \in 1..Len(F) : form[i + 3] = F[i])
  <2>1. ASSUME NEW i \in 1..3 PROVE form[i] = Head_[i]
    <3>1. i \in 1..(3 + Len(F) + 1) /\ i <= 3 + Len(F)
      BY <1>9
    <3>2. QED
      BY <1>11, <1>13, <3>1
  <2>2. ASSUME NEW i \in 1..Len(F) PROVE form[i + 3] = F[i]
    <3> DEFINE j == i + 3
    <3>1. j \in 1..(3 + Len(F) + 1) /\ j <= 3 + Len(F)
      BY <1>9
    <3> HIDE DEF j
    <3>2. form[j] = HF[j]
      BY <1>13, <3>1
    <3>3. QED
      BY <1>11, <3>2 DEF j
  <2>3. QED
    BY <2>1, <2>2
<1>15. form[Len(form)] = "end"
  <2> DEFINE j == 4 + Len(F)
  <2>1. j \in 1..(3 + Len(F) + 1) /\ ~(j <= 3 + Len(F)) /\ j - (3 + Len(F)) = 1
    BY <1>9
  <2> HIDE DEF j
  <2>2. form[j] = last[j - (3 + Len(F))]
    BY <1>13, <2>1
  <2>3. QED
    BY <1>8, <1>13, <2>1, <2>2 DEF j
<1>16. Form(parts) = form
  BY <1>3, <1>4, <1>5 DEF form, F
<1>17. off \in [1..(n + 1) -> Nat \ {0}] /\ off[1] = 4
  <2>1. ASSUME NEW k \in 1..(n + 1) PROVE 4 + Len(f[k - 1]) \in Nat \ {0}
    <3>1. k - 1 \in 0..n
      BY <1>1
    <3>2. QED
      BY <1>7, <3>1
  <2>2. 1 - 1 = 0 /\ 1 \in 1..(n + 1) /\ Len(f[0]) = 0
    BY <1>1, <1>6, EmptySeq
  <2>3. QED
    BY <2>1, <2>2
<1>18. ASSUME NEW k \in 1..n
       PROVE  /\ off[k + 1] = off[k] + Len(P(k))
              /\ \A j \in 1..Len(P(k)) : form[off[k] + j - 1] = P(k)[j]
  <2> DEFINE a == f[k - 1]
             b == P(k)
  <2>1. k - 1 \in 0..n /\ k \in 0..n /\ k \in 1..(n + 1) /\ k + 1 \in 1..(n + 1) /\ k + 1 - 1 = k
    BY <1>1
  <2>2. a \in Seq(Pieces) /\ b \in Seq(Pieces) /\ f[k] = a \o b /\ Len(a) \in Nat /\ Len(b) \in Nat
    BY <1>2, <1>6, <1>7, <2>1 DEF P, n
  <2>3. off[k] = 4 + Len(a) /\ off[k + 1] = 4 + Len(f[k])
    BY <2>1
  <2> HIDE DEF a, b, off
  <2>4. /\ Len(a \o b) = Len(a) + Len(b)
        /\ \A i \in 1..(Len(a) + Len(b)) : (a \o b)[i] = IF i <= Len(a) THEN a[i] ELSE b[i - Len(a)]
    BY <2>2, ConcatProperties
  <2>5. off[k + 1] = off[k] + Len(b)
    BY <2>2, <2>3, <2>4
  <2>6. Len(f[k]) <= Len(F) /\ \A i \in 1..Len(f[k]) : F[i] = f[k][i]
    <3>1. k \in 0..Len(s) /\ n \in k..Len(s)
      BY <1>1, <1>3
    <3>2. QED
      BY <1>3, <1>4, <3>1, FlattensFront DEF F
  <2>7. ASSUME NEW j \in 1..Len(b) PROVE form[off[k] + j - 1] = b[j]
    <3> DEFINE i == Len(a) + j
    <3>1. i \in 1..(Len(a) + Len(b)) /\ ~(i <= Len(a)) /\ i - Len(a) = j
      BY <2>2
    <3>2. off[k] + j - 1 = i + 3
      BY <2>2, <2>3
    <3> HIDE DEF i
    <3>3. f[k][i] = b[i - Len(a)]
      BY <2>2, <2>4, <3>1
    <3>4. i \in 1..Len(f[k]) /\ i \in 1..Len(F)
      BY <1>9, <2>2, <2>4, <2>6, <3>1
    <3>5. form[i + 3] = F[i] /\ F[i] = f[k][i]
      BY <1>14, <2>6, <3>4
    <3>6. QED
      BY <3>1, <3>2, <3>3, <3>5
  <2>8. QED
    BY <2>5, <2>7 DEF b
<1>19. Len(form) = off[n + 1]
  <2>1. n + 1 \in 1..(n + 1) /\ n + 1 - 1 = n
    BY <1>1
  <2>2. off[n + 1] = 4 + Len(f[n + 1 - 1])
    BY <1>1, <2>1
  <2>3. off[n + 1] = 4 + Len(F)
    BY <2>1, <2>2 DEF F
  <2>4. QED
    BY <1>13, <2>3
<1> HIDE DEF off
<1>20. FormAt(parts, off)
  BY <1>13, <1>14, <1>15, <1>16, <1>17, <1>18, <1>19 DEF FormAt, P, n
<1>21. QED
  BY <1>20

LEMMA FieldsEnd ==
  ASSUME NEW data, Arrived(data)
  PROVE  FieldsFrom(data, Len(data) + 1) = [keys |-> <<>>, end |-> Len(data) + 1]
<1> DEFINE p == Len(data) + 1
<1>1. Len(data) \in Nat /\ p \in Places(data)
  BY ArrivedFacts DEF Places
<1>2. ~IsField(Line(data, p)) /\ Behind(data, p) = p
  BY <1>1, BehindIs, LineIs
<1>3. FieldsFrom(data, p) = FieldsNext(data, p, FieldsFrom(data, Behind(data, p)))
  BY <1>1, FieldsEquation
<1>4. QED
  BY <1>2, <1>3 DEF FieldsNext

LEMMA FieldsStop ==
  ASSUME NEW data, Arrived(data), NEW p \in 1..Len(data), data[p] = "blank"
  PROVE  FieldsFrom(data, p) = [keys |-> <<>>, end |-> p + 1]
<1>1. Len(data) \in Nat /\ p \in Places(data) /\ p <= Len(data)
  BY ArrivedFacts DEF Places
<1>2. data[p] # "text" /\ data[p] \notin Fields
  BY DEF Fields
<1>3. ~IsField(Line(data, p)) /\ Behind(data, p) = p + 1
  BY <1>1, <1>2, BehindIs, LineIs
<1>4. FieldsFrom(data, p) = FieldsNext(data, p, FieldsFrom(data, Behind(data, p)))
  BY <1>1, FieldsEquation
<1>5. QED
  BY <1>3, <1>4 DEF FieldsNext

LEMMA FieldsMore ==
  ASSUME NEW data, Arrived(data), NEW p \in 1..Len(data), data[p] \in Fields
  PROVE  /\ FieldsFrom(data, p + 1) \in Read_(data)
         /\ FieldsFrom(data, p).keys = <<data[p]>> \o FieldsFrom(data, p + 1).keys
         /\ FieldsFrom(data, p).end = FieldsFrom(data, p + 1).end
<1>1. Len(data) \in Nat /\ p \in Places(data) /\ p + 1 \in Places(data) /\ p <= Len(data)
  BY ArrivedFacts DEF Places
<1>2. data[p] # "text"
  BY DEF Fields
<1>3. IsField(Line(data, p)) /\ Behind(data, p) = p + 1
  BY <1>1, <1>2, BehindIs, LineIs
<1>4. FieldsFrom(data, p) = FieldsNext(data, p, FieldsFrom(data, p + 1))
  BY <1>1, <1>3, FieldsEquation
<1>5. FieldsFrom(data, p + 1) \in Read_(data)
  BY <1>1, FieldsEquation
<1>6. QED
  BY <1>3, <1>4, <1>5 DEF FieldsNext, Read_

LEMMA KeysOf ==
  /\ FormKeys(<<>>) = {}
  /\ \A x : FormKeys(<<x>>) = IF x = "form" THEN {1} ELSE {}
  /\ \A x : FormKeys(<<"field", x>>) = IF x = "form" THEN {2} ELSE {}
<1>1. FormKeys(<<>>) = {}
  <2>1. Len(<<>>) = 0
    BY EmptySeq, Zenon
  <2>2. QED
    BY <2>1 DEF FormKeys
<1>2. ASSUME NEW x PROVE FormKeys(<<x>>) = IF x = "form" THEN {1} ELSE {}
  BY DEF FormKeys
<1>3. ASSUME NEW x PROVE FormKeys(<<"field", x>>) = IF x = "form" THEN {2} ELSE {}
  BY DEF FormKeys
<1>4. QED
  BY <1>1, <1>2, <1>3

LEMMA TwoOf ==
  ASSUME NEW S, NEW x \in S, NEW y \in S
  PROVE  <<x>> \o <<y>> = <<x, y>>
<1> DEFINE a == <<x>>
           b == <<y>>
           c == <<x, y>>
<1>1. a \in Seq(S) /\ b \in Seq(S) /\ c \in Seq(S) /\ Len(a) = 1 /\ Len(b) = 1 /\ Len(c) = 2
      /\ a[1] = x /\ b[1] = y /\ c[1] = x /\ c[2] = y
  OBVIOUS
<1> HIDE DEF a, b, c
<1>2. /\ a \o b \in Seq(S) /\ Len(a \o b) = Len(a) + Len(b)
      /\ \A i \in 1..(Len(a) + Len(b)) : (a \o b)[i] = IF i <= Len(a) THEN a[i] ELSE b[i - Len(a)]
  BY <1>1, ConcatProperties
<1>3. Len(a \o b) = 2 /\ (a \o b)[1] = x /\ (a \o b)[2] = y
  BY <1>1, <1>2
<1>4. \A i \in 1..Len(a \o b) : (a \o b)[i] = c[i]
  BY <1>1, <1>3
<1>5. a \o b = c
  BY <1>1, <1>2, <1>3, <1>4, SeqEqual
<1>6. QED
  BY <1>5 DEF a, b, c

(* What has arrived of a form. *)
FormData(parts, off, n, data) ==
  /\ parts \in Seq(Parts) /\ FormAt(parts, off)
  /\ n \in 0..Len(Form(parts)) /\ data = SubSeq(Form(parts), 1, n)
LEMMA FormDataIs ==
  ASSUME NEW parts, NEW off, NEW n, NEW data, FormData(parts, off, n, data)
  PROVE  /\ Arrived(data) /\ Len(data) = n /\ n \in Nat
         /\ \A i \in 1..n : data[i] = Form(parts)[i]
<1> DEFINE form == Form(parts)
<1>1. form \in Seq(Pieces) /\ n \in 0..Len(form) /\ data = SubSeq(form, 1, n)
  BY DEF FormData, FormAt
<1> HIDE DEF form
<1>2. Arrived(form) /\ 1 \in Places(form) /\ n \in (1 - 1)..Len(form) /\ Len(form) \in Nat /\ n \in Nat
  BY <1>1 DEF Arrived, Places
<1>3. /\ SubSeq(form, 1, n) \in Seq(Pieces) /\ Len(SubSeq(form, 1, n)) = n - 1 + 1
      /\ \A i \in 1..(n - 1 + 1) : SubSeq(form, 1, n)[i] = form[1 + i - 1]
  BY <1>2, Cut
<1>4. n - 1 + 1 = n /\ \A i \in 1..n : 1 + i - 1 = i
  BY <1>2
<1>5. QED
  BY <1>1, <1>2, <1>3, <1>4 DEF Arrived, form

(* The pieces of one part that have arrived. *)
LEMMA PartData ==
  ASSUME NEW parts, NEW off, NEW n, NEW data, FormData(parts, off, n, data), NEW k \in 1..Len(parts)
  PROVE  LET p == parts[k]
             h == Ahead(p)
             m == off[k]
         IN /\ p \in Parts /\ h \in {0, 1} /\ (p.more <=> h = 1) /\ m \in Nat \ {0}
            /\ off[k + 1] = m + 3 + h + Len(p.value) /\ Len(p.value) \in Nat /\ p.value \in Seq(Pieces)
            /\ m <= n => data[m] = "marker"
            /\ p.more /\ m + 1 <= n => data[m + 1] = "field"
            /\ m + 1 + h <= n => data[m + 1 + h] = IF p.form THEN "form" ELSE "field"
            /\ m + 2 + h <= n => data[m + 2 + h] = "blank"
            /\ \A j \in 1..Len(p.value) :
                 p.value[j] \notin Markers /\ (m + 2 + h + j <= n => data[m + 2 + h + j] = p.value[j])
<1> DEFINE p == parts[k]
           h == Ahead(p)
           m == off[k]
           all == Part(p)
           v == p.value
<1>1. p \in Parts /\ k \in 1..(Len(parts) + 1) /\ Len(parts) \in Nat
  BY DEF FormData
<1>2. h \in {0, 1} /\ (p.more <=> h = 1)
  BY DEF Ahead
<1>3. m \in Nat \ {0}
  BY <1>1 DEF FormData, FormAt
<1>4. /\ v \in Seq(Pieces) /\ Len(v) \in Nat
      /\ \A j \in 1..Len(v) : v[j] \notin Markers
      /\ all \in Seq(Pieces) /\ Len(all) = 3 + h + Len(v)
      /\ all[1] = "marker"
      /\ p.more => all[2] = "field"
      /\ all[2 + h] = IF p.form THEN "form" ELSE "field"
      /\ all[3 + h] = "blank"
      /\ \A j \in 1..Len(v) : all[3 + h + j] = v[j]
  BY <1>1, PartPieces
<1>5. /\ off[k + 1] = m + Len(all)
      /\ \A j \in 1..Len(all) : Form(parts)[m + j - 1] = all[j]
  BY DEF FormData, FormAt
<1>6. Len(data) = n /\ n \in Nat /\ \A i \in 1..n : data[i] = Form(parts)[i]
  BY FormDataIs
<1> HIDE DEF p, h, m, all, v
<1>7. ASSUME NEW j \in 1..Len(all), m + j - 1 <= n PROVE data[m + j - 1] = all[j]
  <2>1. m + j - 1 \in 1..n
    BY <1>3, <1>4, <1>6, <1>7
  <2>2. QED
    BY <1>5, <1>6, <2>1
<1>8. (m <= n => data[m] = "marker") /\ (p.more /\ m + 1 <= n => data[m + 1] = "field")
  <2>1. 1 \in 1..Len(all) /\ 2 \in 1..Len(all) /\ m + 1 - 1 = m /\ m + 2 - 1 = m + 1
    BY <1>2, <1>3, <1>4
  <2>2. QED
    BY <1>4, <1>7, <2>1
<1>9. m + 1 + h <= n => data[m + 1 + h] = IF p.form THEN "form" ELSE "field"
  <2>1. 2 + h \in 1..Len(all) /\ m + (2 + h) - 1 = m + 1 + h
    BY <1>2, <1>3, <1>4
  <2>2. QED
    BY <1>4, <1>7, <2>1
<1>10. m + 2 + h <= n => data[m + 2 + h] = "blank"
  <2>1. 3 + h \in 1..Len(all) /\ m + (3 + h) - 1 = m + 2 + h
    BY <1>2, <1>3, <1>4
  <2>2. QED
    BY <1>4, <1>7, <2>1
<1>11. ASSUME NEW j \in 1..Len(v), m + 2 + h + j <= n PROVE data[m + 2 + h + j] = v[j]
  <2>1. 3 + h + j \in 1..Len(all) /\ m + (3 + h + j) - 1 = m + 2 + h + j
    BY <1>2, <1>3, <1>4
  <2>2. QED
    BY <1>4, <1>7, <1>11, <2>1
<1>12. off[k + 1] = m + 3 + h + Len(v)
  BY <1>2, <1>3, <1>4, <1>5
<1>13. QED
  BY <1>1, <1>2, <1>3, <1>4, <1>8, <1>9, <1>10, <1>11, <1>12 DEF p, h, m, v

(* The fields of a part, as far as they have arrived. *)
LEMMA PartFields ==
  ASSUME NEW parts, NEW off, NEW n, NEW data, FormData(parts, off, n, data), NEW k \in 1..Len(parts),
         off[k] <= n
  PROVE  LET p == parts[k]
             m == off[k]
             value == m + 3 + Ahead(p)
             fields == FieldsFrom(data, m + 1)
         IN /\ fields \in Read_(data)
            /\ fields.end = IF value <= n + 1 THEN value ELSE n + 1
            /\ FormKeys(fields.keys) =
                 IF p.form /\ m + 1 + Ahead(p) <= n THEN {1 + Ahead(p)} ELSE {}
<1> DEFINE p == parts[k]
           h == Ahead(p)
           m == off[k]
           a == m + 1 + h
           value == m + 3 + h
           kind == IF p.form THEN "form" ELSE "field"
           fields == FieldsFrom(data, m + 1)
<1>1. /\ p \in Parts /\ h \in {0, 1} /\ (p.more <=> h = 1) /\ m \in Nat \ {0}
      /\ p.more /\ m + 1 <= n => data[m + 1] = "field"
      /\ a <= n => data[a] = kind
      /\ m + 2 + h <= n => data[m + 2 + h] = "blank"
  BY PartData
<1>2. Arrived(data) /\ Len(data) = n /\ n \in Nat /\ m <= n
  BY FormDataIs
<1> HIDE DEF p, h, m
<1>3. m + 1 \in Places(data)
  BY <1>1, <1>2 DEF Places
<1>4. fields \in Read_(data)
  BY <1>2, <1>3, FieldsEquation
<1>5. FieldsFrom(data, n + 1) = [keys |-> <<>>, end |-> n + 1]
  BY <1>2, FieldsEnd
<1>6. kind \in Fields
  BY DEF Fields
<1> HIDE DEF kind
(* The last of the lines with a colon, and the blank one. *)
<1>7. ASSUME a <= n
      PROVE  FieldsFrom(data, a).keys = <<kind>> /\ FieldsFrom(data, a).end = IF value <= n + 1 THEN value ELSE n + 1
  <2>1. a \in 1..n /\ a + 1 = m + 2 + h /\ a + 1 \in 1..(n + 1) /\ a + 2 = value
    BY <1>1, <1>2, <1>7
  <2> HIDE DEF a, value
  <2>2. data[a] = kind
    BY <1>1, <1>7 DEF a
  <2>3. /\ FieldsFrom(data, a).keys = <<kind>> \o FieldsFrom(data, a + 1).keys
        /\ FieldsFrom(data, a).end = FieldsFrom(data, a + 1).end
    BY <1>2, <1>6, <2>1, <2>2, FieldsMore
  <2>4. FieldsFrom(data, a + 1) = [keys |-> <<>>, end |-> IF value <= n + 1 THEN value ELSE n + 1]
    <3>1. CASE a + 1 = n + 1
      <4>1. ~(value <= n + 1)
        BY <1>1, <1>2, <2>1, <3>1
      <4>2. QED
        BY <1>5, <3>1, <4>1
    <3>2. CASE a + 1 # n + 1
      <4>1. a + 1 \in 1..n /\ value <= n + 1 /\ m + 2 + h <= n /\ a + 1 + 1 = value
        BY <1>1, <1>2, <2>1, <3>2
      <4>2. data[a + 1] = "blank"
        BY <1>1, <2>1, <4>1
      <4>3. FieldsFrom(data, a + 1) = [keys |-> <<>>, end |-> a + 1 + 1]
        BY <1>2, <4>1, <4>2, FieldsStop
      <4>4. QED
        BY <4>1, <4>3
    <3>3. QED
      BY <3>1, <3>2
  <2>5. <<kind>> \o <<>> = <<kind>>
    <3>1. <<kind>> \in Seq(Fields)
      BY <1>6
    <3>2. QED
      BY <3>1, ConcatEmptySeq
  <2>6. /\ FieldsFrom(data, a + 1).keys = <<>>
        /\ FieldsFrom(data, a + 1).end = IF value <= n + 1 THEN value ELSE n + 1
    BY <2>4
  <2>7. QED
    BY <2>3, <2>5, <2>6, Zenon
<1>8. kind = "form" <=> p.form
  BY DEF kind
<1>9. CASE a <= n /\ h = 0
  <2>1. fields.keys = <<kind>> /\ fields.end = IF value <= n + 1 THEN value ELSE n + 1
    <3>1. a = m + 1
      BY <1>1, <1>9
    <3>2. QED
      BY <1>7, <1>9, <3>1
  <2>2. FormKeys(fields.keys) = IF p.form THEN {1} ELSE {}
    BY <1>8, <2>1, KeysOf
  <2>3. QED
    BY <1>4, <1>9, <2>1, <2>2 DEF p, h, m
<1>10. CASE a <= n /\ h = 1
  <2>1. a = m + 1 + 1 /\ m + 1 \in 1..n /\ p.more /\ m + 1 <= n
    BY <1>1, <1>2, <1>10
  <2>2. data[m + 1] = "field" /\ "field" \in Fields
    BY <1>1, <2>1 DEF Fields
  <2>3. fields.keys = <<"field">> \o <<kind>> /\ fields.end = IF value <= n + 1 THEN value ELSE n + 1
    <3>1. fields.keys = <<data[m + 1]>> \o FieldsFrom(data, m + 1 + 1).keys
          /\ fields.end = FieldsFrom(data, m + 1 + 1).end
      BY <1>2, <2>1, <2>2, FieldsMore
    <3>2. QED
      BY <1>7, <1>10, <2>1, <2>2, <3>1
  <2>4. <<"field">> \o <<kind>> = <<"field", kind>>
    BY <1>6, <2>2, TwoOf, Zenon
  <2>5. FormKeys(fields.keys) = IF p.form THEN {2} ELSE {}
    BY <1>8, <2>3, <2>4, KeysOf
  <2>6. QED
    BY <1>4, <1>10, <2>3, <2>5 DEF p, h, m
<1>11. CASE ~(a <= n)
  <2>1. ~(value <= n + 1)
    BY <1>1, <1>2, <1>11
  <2>2. FormKeys(fields.keys) = {} /\ fields.end = n + 1
    <3>1. CASE m + 1 = n + 1
      BY <1>5, <3>1, KeysOf
    <3>2. CASE m + 1 # n + 1
      <4>1. m + 1 \in 1..n /\ p.more /\ m + 1 + 1 = n + 1 /\ m + 1 <= n
        BY <1>1, <1>2, <1>11, <3>2
      <4>2. data[m + 1] = "field" /\ "field" \in Fields
        BY <1>1, <4>1 DEF Fields
      <4>3. fields.keys = <<"field">> \o FieldsFrom(data, n + 1).keys /\ fields.end = FieldsFrom(data, n + 1).end
        <5>1. fields.keys = <<data[m + 1]>> \o FieldsFrom(data, m + 1 + 1).keys
              /\ fields.end = FieldsFrom(data, m + 1 + 1).end
          BY <1>2, <4>1, <4>2, FieldsMore
        <5>2. QED
          BY <4>1, <4>2, <5>1
      <4>4. <<"field">> \o <<>> = <<"field">>
        <5>1. <<"field">> \in Seq(Fields)
          BY <4>2
        <5>2. QED
          BY <5>1, ConcatEmptySeq
      <4>5. fields.keys = <<"field">> /\ fields.end = n + 1
        BY <1>5, <4>3, <4>4
      <4>6. "field" # "form"
        OBVIOUS
      <4>7. QED
        BY <4>5, <4>6, KeysOf
    <3>3. QED
      BY <3>1, <3>2
  <2>3. QED
    BY <1>4, <1>11, <2>1, <2>2 DEF p, h, m
<1>12. QED
  BY <1>1, <1>9, <1>10, <1>11

LEMMA Marked ==
  ASSUME NEW parts, NEW off, NEW n, NEW data, FormData(parts, off, n, data), NEW k \in 1..(Len(parts) + 1),
         off[k] <= n
  PROVE  /\ off[k] \in 1..n /\ data[off[k]] \in Markers
         /\ k = Len(parts) + 1 => data[off[k]] = "end" /\ n = Len(Form(parts)) /\ off[k] = n
<1>1. Len(parts) \in Nat /\ off[k] \in Nat \ {0} /\ n \in 0..Len(Form(parts))
  BY DEF FormData, FormAt
<1>2. Len(data) = n /\ n \in Nat /\ (\A i \in 1..n : data[i] = Form(parts)[i]) /\ Arrived(data)
  BY FormDataIs
<1>3. off[k] \in 1..n
  BY <1>1, <1>2
<1>4. CASE k \in 1..Len(parts)
  <2>1. data[off[k]] = "marker"
    BY <1>4, PartData
  <2>2. k # Len(parts) + 1
    BY <1>1, <1>4
  <2>3. QED
    BY <1>3, <2>1, <2>2 DEF Markers
<1>5. CASE k = Len(parts) + 1
  <2> DEFINE L == Len(Form(parts))
  <2>1. L = off[k] /\ Form(parts)[L] = "end" /\ Form(parts) \in Seq(Pieces) /\ L \in Nat
    BY <1>5 DEF FormData, FormAt
  <2>2. n = L
    BY <1>1, <2>1
  <2>3. data[off[k]] = "end"
    BY <1>2, <1>3, <2>1, <2>2
  <2>4. QED
    BY <1>3, <2>1, <2>2, <2>3 DEF Markers
<1>6. QED
  BY <1>1, <1>4, <1>5

LEMMA NoneFurther ==
  ASSUME NEW data, Arrived(data), NEW q \in Places(data), ClearTo(data, q, Len(data) + 1)
  PROVE  postdata(data, q) = <<>>
<1>1. Ended(data, q)
  BY IndexFound DEF Ended
<1>2. postdata(data, q) = PostNext(data, q, postdata(data, Further(data, q)))
  BY PostEquation
<1>3. QED
  BY <1>1, <1>2, EndOrMarker DEF PostNext

(* Values that are read with those up to a place ahead of what is read from there on, where *)
(* nothing is between the place and the next marker.                                         *)
ReadTo(data, values, ahead, marker) ==
  \E q \in 1..marker : ClearTo(data, q, marker) /\ values = ahead \o postdata(data, q)

(* A part is read as it was written, if the next marker is there. *)
LEMMA PartRead ==
  ASSUME NEW parts, NEW off, NEW n, NEW data, FormData(parts, off, n, data), NEW k \in 1..Len(parts),
         off[k] <= n, NEW q \in 1..off[k], ClearTo(data, q, off[k])
  PROVE  /\ off[k + 1] <= n => ReadTo(data, postdata(data, q), Value(parts[k]), off[k + 1])
         /\ off[k + 1] > n => postdata(data, q) \in {<<>>, <<<<>>>>}
<1> DEFINE p == parts[k]
           h == Ahead(p)
           m == off[k]
           o == off[k + 1]
           v == p.value
           value == m + 3 + h
           fields == FieldsFrom(data, m + 1)
           e == fields.end
           there == p.form /\ m + 1 + h <= n
           this == part(data, fields)
<1>1. /\ p \in Parts /\ h \in {0, 1} /\ m \in Nat \ {0}
      /\ o = value + Len(v) /\ Len(v) \in Nat /\ v \in Seq(Pieces)
      /\ data[m] = "marker"
      /\ \A j \in 1..Len(v) : v[j] \notin Markers /\ (m + 2 + h + j <= n => data[m + 2 + h + j] = v[j])
  BY PartData
<1>2. Arrived(data) /\ Len(data) = n /\ n \in Nat /\ m <= n /\ q \in Places(data)
  <2>1. Arrived(data) /\ Len(data) = n /\ n \in Nat
    BY FormDataIs
  <2>2. QED
    BY <1>1, <2>1 DEF Places
<1>3. /\ fields \in Read_(data)
      /\ e = IF value <= n + 1 THEN value ELSE n + 1
      /\ FormKeys(fields.keys) = IF there THEN {1 + h} ELSE {}
  BY PartFields
<1>4. Len(parts) \in Nat /\ k + 1 \in 1..(Len(parts) + 1)
  BY DEF FormData
<1>5. o <= n => o \in 1..n /\ data[o] \in Markers
  BY <1>4, Marked
<1>v. value = m + 3 + h /\ value \in Nat
  BY <1>1
<1>c. q \in 1..m /\ ClearTo(data, q, m)
  OBVIOUS
<1> HIDE DEF p, h, m, o, v, value, fields, e, there, this
(* The marker of the part. *)
<1>6. /\ postdata(data, q) = this.values \o postdata(data, this.end)
      /\ this.end \in (q + 1)..(n + 1)
      /\ postdata(data, this.end) \in Seq(CleanValues)
  <2>1. m \in q..n /\ ClearTo(data, q, m) /\ data[m] \in Markers
    BY <1>1, <1>2, <1>c DEF Markers
  <2>2. indexOf(data, q) = m
    BY <1>2, <2>1, IndexFound
  <2>3. Line(data, m) = <<"marker">> /\ Behind(data, m) = m + 1
    <3>1. m \in Places(data) /\ m <= Len(data) /\ data[m] # "text"
      BY <1>1, <1>2 DEF Places
    <3>2. Line(data, m) = <<data[m]>>
      BY <1>2, <3>1, LineIs
    <3>3. Behind(data, m) = m + 1
      BY <1>2, <3>1, BehindIs
    <3>4. QED
      BY <1>1, <3>2, <3>3
  <2>4. Begun(data, q)
    BY <1>1, <2>2, <2>3 DEF Begun
  <2>5. PartAt(data, q) = this
    BY <2>2, <2>3 DEF PartAt, this, fields
  <2>6. ~Ended(data, q)
    BY <2>4, EndOrMarker
  <2>7. postdata(data, q) = PostNext(data, q, postdata(data, Further(data, q)))
    BY <1>2, PostEquation
  <2>8. Further(data, q) = this.end
    BY <2>4, <2>5 DEF Further
  <2>9. this.end \in (q + 1)..(n + 1)
    <3>1. indexOf(data, q) # 0
      BY <2>4 DEF Begun
    <3>2. QED
      BY <1>2, <2>5, <3>1, PartAtIs
  <2>10. this.end \in Places(data)
    BY <1>2, <2>9 DEF Places
  <2>11. QED
    BY <1>2, <2>4, <2>5, <2>6, <2>7, <2>8, <2>9, <2>10, PostEquation DEF PostNext
(* The value has no marker. *)
<1>7. e \in Places(data) /\ e <= n + 1
  BY <1>3 DEF Read_, e, Places
<1>8. ASSUME NEW i \in value..n, i < o PROVE data[i] \notin Markers
  <2> DEFINE j == i - (m + 2 + h)
  <2>1. j \in 1..Len(v) /\ m + 2 + h + j = i
    BY <1>1, <1>2, <1>8, <1>v
  <2> HIDE DEF j
  <2>2. v[j] \notin Markers /\ (m + 2 + h + j <= n => data[m + 2 + h + j] = v[j])
    BY <1>1, <2>1, Zenon
  <2>3. i <= n
    BY <1>1, <1>2, <1>8, <1>v
  <2>4. QED
    BY <2>1, <2>2, <2>3, Zenon
<1>9. ASSUME o <= n
      PROVE  \E r \in 1..o : ClearTo(data, r, o) /\ postdata(data, q) = Value(p) \o postdata(data, r)
  <2>1. e = value /\ value \in 1..o /\ (there <=> p.form)
    BY <1>1, <1>2, <1>3, <1>9, <1>v DEF there
  <2>2. ClearTo(data, e, o)
    BY <1>1, <1>2, <1>8, <1>9, <1>v, <2>1 DEF ClearTo
  <2>3. CASE ~p.form
    <3>1. FormKeys(fields.keys) = {}
      BY <1>3, <2>1, <2>3
    <3>2. this.values = <<>> /\ this.end = e
      BY <1>2, <1>3, <3>1, PartIs DEF this, e
    <3>3. Value(p) = <<>>
      BY <2>3 DEF Value
    <3>4. QED
      BY <1>6, <2>1, <2>2, <3>2, <3>3
  <2>4. CASE p.form
    <3>1. FormKeys(fields.keys) = {1 + h}
      BY <1>3, <2>1, <2>4
    <3>2. indexOf(data, e) = o
      <4>1. o \in e..Len(data)
        BY <1>1, <1>2, <1>9, <2>1
      <4>2. QED
        BY <1>2, <1>5, <1>7, <1>9, <2>2, <4>1, IndexFound
    <3>3. o # 0
      BY <1>5, <1>9
    <3>4. this.values = <<SubSeq(data, e, o - 1)>> /\ this.end = o
      BY <1>2, <1>3, <3>1, <3>2, <3>3, PartIs DEF this, e
    <3>5. SubSeq(data, e, o - 1) = v
      <4> DEFINE cut == SubSeq(data, e, o - 1)
      <4>1. o - 1 \in (e - 1)..Len(data) /\ o - 1 - e + 1 = Len(v)
        BY <1>1, <1>2, <1>9, <1>v, <2>1
      <4>2. cut \in Seq(Pieces) /\ Len(cut) = o - 1 - e + 1 /\ \A i \in 1..(o - 1 - e + 1) : cut[i] = data[e + i - 1]
        BY <1>2, <1>7, <4>1, Cut
      <4> HIDE DEF cut
      <4>3. ASSUME NEW i \in 1..Len(v) PROVE cut[i] = v[i]
        <5>1. e + i - 1 = m + 2 + h + i /\ m + 2 + h + i <= n
          BY <1>1, <1>2, <1>9, <1>v, <2>1
        <5>2. QED
          BY <1>1, <4>1, <4>2, <5>1
      <4>4. cut = v
        BY <1>1, <4>1, <4>2, <4>3, SeqEqual
      <4>5. QED
        BY <4>4 DEF cut
    <3>6. Value(p) = <<v>>
      BY <2>4 DEF Value, v
    <3>7. o \in 1..o /\ ClearTo(data, o, o)
      BY <1>1, <1>2, <1>5, <1>9 DEF ClearTo
    <3>8. QED
      BY <1>6, <3>4, <3>5, <3>6, <3>7
  <2>5. QED
    BY <2>3, <2>4
<1>10. ASSUME o > n PROVE postdata(data, q) \in {<<>>, <<<<>>>>}
  <2>1. ClearTo(data, e, n + 1)
    <3>1. ASSUME NEW i \in e..(n + 1 - 1) PROVE data[i] \notin Markers
      <4>1. i \in value..n /\ i < o
        BY <1>1, <1>2, <1>3, <1>10, <1>v
      <4>2. QED
        BY <1>8, <4>1
    <3>2. QED
      BY <1>2, <1>7, <3>1 DEF ClearTo
  <2>2. indexOf(data, e) = 0
    BY <1>2, <1>7, <2>1, IndexFound
  <2>3. this.values \in {<<>>, <<<<>>>>} /\ this.end = e
    <3>1. CASE there
      BY <1>2, <1>3, <2>2, <3>1, PartIs DEF this, e
    <3>2. CASE ~there
      BY <1>2, <1>3, <3>2, PartIs DEF this, e
    <3>3. QED
      BY <3>1, <3>2
  <2>4. postdata(data, e) = <<>>
    BY <1>2, <1>7, <2>1, NoneFurther
  <2>5. <<>> \o <<>> = <<>> /\ <<<<>>>> \o <<>> = <<<<>>>>
    BY ConcatEmptySeq
  <2>6. QED
    BY <1>6, <2>3, <2>4, <2>5
<1>11. QED
  BY <1>9, <1>10 DEF p, o, ReadTo

LEMMA PrefixIs ==
  ASSUME NEW X, NEW a \in Seq(X), NEW b \in Seq(X), Len(a) <= Len(b), \A i \in 1..Len(a) : b[i] = a[i]
  PROVE  IsPrefix(a, b)
<1> DEFINE n == Len(a)
           c == SubSeq(a, 1, n)
           d == SubSeq(b, 1, n)
<1>1. n \in Nat /\ 1 \in Int /\ n \in Int /\ Len(b) \in Nat
  OBVIOUS
<1>2. (\A i \in 1..n : a[i] \in X) /\ (\A i \in 1..n : b[i] \in X)
  OBVIOUS
<1> HIDE DEF n
<1>3. c \in Seq(X) /\ Len(c) = (IF 1 <= n THEN n - 1 + 1 ELSE 0) /\ \A i \in 1..(n - 1 + 1) : c[i] = a[1 + i - 1]
  BY <1>1, <1>2, SubSeqProperties
<1>4. d \in Seq(X) /\ Len(d) = (IF 1 <= n THEN n - 1 + 1 ELSE 0) /\ \A i \in 1..(n - 1 + 1) : d[i] = b[1 + i - 1]
  BY <1>1, <1>2, SubSeqProperties
<1> HIDE DEF c, d
<1>5. Len(c) = n /\ Len(d) = n
  BY <1>1, <1>3, <1>4
<1>6. ASSUME NEW i \in 1..Len(c) PROVE c[i] = d[i]
  <2>1. i \in 1..(n - 1 + 1) /\ 1 + i - 1 = i /\ i \in 1..n
    BY <1>1, <1>3
  <2>2. a[i] = b[i]
    BY <2>1 DEF n
  <2>3. QED
    BY <1>3, <1>4, <2>1, <2>2
<1>7. c = d
  BY <1>3, <1>4, <1>5, <1>6, SeqEqual
<1>8. QED
  BY <1>7, Zenon DEF IsPrefix, c, d, n

(* One value more than was there. *)
LEMMA FrontIs ==
  ASSUME NEW X, NEW a \in Seq(X), NEW x \in X
  PROVE  /\ Len(a \o <<x>>) = Len(a) + 1 /\ (a \o <<x>>)[Len(a) + 1] = x
         /\ Front(a \o <<x>>) = a
<1> DEFINE one == <<x>>
           b == a \o one
           n == Len(a)
           f == SubSeq(b, 1, n)
<1>1. one \in Seq(X) /\ Len(one) = 1 /\ one[1] = x /\ n \in Nat
  OBVIOUS
<1> HIDE DEF one
<1>2. /\ b \in Seq(X) /\ Len(b) = n + Len(one)
      /\ \A i \in 1..(n + Len(one)) : b[i] = IF i <= n THEN a[i] ELSE one[i - n]
  BY <1>1, ConcatProperties
<1> HIDE DEF b, n
<1>3. Len(b) = n + 1 /\ b[n + 1] = x /\ \A i \in 1..n : b[i] = a[i]
  <2>2. \A i \in 1..n : i \in 1..(n + Len(one)) /\ i <= n
    BY <1>1
  <2> DEFINE j == n + 1
  <2>3. j \in 1..(n + Len(one)) /\ ~(j <= n) /\ j - n = 1
    BY <1>1
  <2> HIDE DEF j
  <2>4. b[j] = one[j - n]
    BY <1>2, <2>3
  <2>5. b[j] = x
    BY <1>1, <2>3, <2>4
  <2>6. QED
    BY <1>1, <1>2, <2>2, <2>5 DEF j
<1>4. \A i \in 1..n : b[i] \in X
  BY <1>1, <1>2
<1>5. f \in Seq(X) /\ Len(f) = (IF 1 <= n THEN n - 1 + 1 ELSE 0) /\ \A i \in 1..(n - 1 + 1) : f[i] = b[1 + i - 1]
  BY <1>1, <1>4, SubSeqProperties
<1> HIDE DEF f
<1>6. Len(f) = n
  BY <1>1, <1>5
<1>7. ASSUME NEW i \in 1..Len(f) PROVE f[i] = a[i]
  <2>1. i \in 1..(n - 1 + 1) /\ 1 + i - 1 = i /\ i \in 1..n
    BY <1>1, <1>6
  <2>2. QED
    BY <1>3, <1>5, <2>1
<1>8. f = a
  BY <1>5, <1>6, <1>7, SeqEqual DEF n
<1>9. Len(b) - 1 = n
  BY <1>1, <1>3
<1>10. Front(b) = a
  BY <1>8, <1>9, Zenon DEF Front, f
<1>11. QED
  BY <1>3, <1>10 DEF b, one, n

LEMMA ValuesIs ==
  ASSUME NEW parts \in Seq(Parts)
  PROVE  \E V : /\ V \in [0..Len(parts) -> Seq(Seq(Pieces))] /\ V[0] = <<>>
                /\ \A k \in 1..Len(parts) :
                     Value(parts[k]) \in Seq(Seq(Pieces)) /\ V[k] = V[k - 1] \o Value(parts[k])
                /\ Values(parts) = V[Len(parts)]
                /\ \A k \in 0..Len(parts) : IsPrefix(V[k], Values(parts))
<1> DEFINE n == Len(parts)
           s == [i \in 1..Len(parts) |-> Value(parts[i])]
           X == Seq(Pieces)
           Y == Seq(X)
           W(k) == Value(parts[k])
<1>1. n \in Nat /\ \A k \in 1..n : parts[k] \in Parts
  OBVIOUS
<1>2. ASSUME NEW k \in 1..n PROVE W(k) \in Y
  <2> DEFINE v == parts[k].value
  <2>1. v \in X
    BY <1>1, PartPieces
  <2> HIDE DEF X, v
  <2>2. <<>> \in Y /\ <<v>> \in Y
    BY <2>1
  <2>3. QED
    BY <2>2 DEF Value, v
<1> HIDE DEF Y
<1>3. s \in Seq(Y) /\ Len(s) = n /\ \A k \in 1..n : s[k] = W(k)
  <2>1. s \in [1..n -> Y] /\ \A k \in 1..n : s[k] = W(k)
    BY <1>2
  <2> HIDE DEF W, s, n
  <2>2. QED
    BY <1>1, <2>1
<1>4. PICK V : Flattens(V, X, s) /\ FlattenSeq(s) = V[Len(s)]
  <2> HIDE DEF s, X
  <2>1. QED
    BY <1>3, Flattened DEF Y
<1>5. Values(parts) = FlattenSeq(s)
  BY Zenon DEF Values
<1> HIDE DEF s, W, n
<1>6. /\ V \in [0..n -> Y] /\ V[0] = <<>>
      /\ \A k \in 1..n : V[k] = V[k - 1] \o W(k)
      /\ Values(parts) = V[n]
  BY <1>3, <1>4, <1>5 DEF Flattens, Y
<1>7. ASSUME NEW k \in 0..n PROVE IsPrefix(V[k], V[n])
  <2>1. k \in 0..Len(s) /\ n \in k..Len(s)
    BY <1>1, <1>3
  <2> HIDE DEF X
  <2>2. Len(V[k]) <= Len(V[n]) /\ \A i \in 1..Len(V[k]) : V[n][i] = V[k][i]
    BY <1>3, <1>4, <2>1, FlattensFront DEF Y
  <2>3. V[k] \in Seq(X) /\ V[n] \in Seq(X)
    BY <1>1, <1>6 DEF Y
  <2>4. QED
    BY <2>2, <2>3, PrefixIs
<1>8. QED
  <2>1. /\ V \in [0..n -> Y] /\ V[0] = <<>>
        /\ \A k \in 1..n : W(k) \in Y /\ V[k] = V[k - 1] \o W(k)
        /\ Values(parts) = V[n]
        /\ \A k \in 0..n : IsPrefix(V[k], Values(parts))
    BY <1>2, <1>6, <1>7
  <2>2. QED
    BY <2>1 DEF Y, W, n
LEMMA FormStart ==
  ASSUME NEW parts, NEW off, NEW n, NEW data, FormData(parts, off, n, data), NEW first, Accepted(first)
  PROVE  /\ n < 4 => read(first, data).postdata = <<>> /\ n # Len(Form(parts))
         /\ n >= 4 => read(first, data).postdata = postdata(data, 4) /\ ClearTo(data, 1, 4)
<1> DEFINE fields == FieldsFrom(data, 1)
           form == Form(parts)
<1>1. /\ form \in Seq(Pieces) /\ Len(form) \in Nat \ {0} /\ form[Len(form)] = "end"
      /\ form[1] = "field" /\ form[2] = "multipart" /\ form[3] = "blank"
  <2>1. Len(parts) + 1 \in 1..(Len(parts) + 1)
    BY DEF FormData
  <2>2. QED
    BY <2>1 DEF FormData, FormAt, Head_
<1>2. Arrived(data) /\ Len(data) = n /\ n \in Nat /\ (\A i \in 1..n : data[i] = form[i]) /\ n <= Len(form)
  <2>1. Arrived(data) /\ Len(data) = n /\ n \in Nat /\ (\A i \in 1..n : data[i] = form[i])
    BY FormDataIs
  <2>2. n \in 0..Len(form)
    BY DEF FormData
  <2>3. QED
    BY <1>1, <2>1, <2>2
<1> HIDE DEF form
<1>3. 1 \in Places(data) /\ fields \in Read_(data)
  BY <1>2, FieldsEquation DEF Places
<1>4. read(first, data).postdata = IF HasKey(fields, "multipart") THEN postdata(data, fields.end) ELSE <<>>
  BY DEF read
<1>5. ClearTo(data, 1, IF n < 4 THEN n + 1 ELSE 4)
  <2>1. ASSUME NEW i \in 1..3, i <= n PROVE data[i] \notin Markers
    <3>1. data[i] = form[i]
      BY <1>2, <2>1
    <3>2. i = 1 \/ i = 2 \/ i = 3
      OBVIOUS
    <3>3. QED
      BY <1>1, <3>1, <3>2 DEF Markers
  <2>2. QED
    BY <1>2, <2>1 DEF ClearTo
<1>6. CASE n < 4
  <2>1. fields.end \in Places(data)
    BY <1>3 DEF Read_
  <2>2. ClearTo(data, fields.end, n + 1)
    BY <1>2, <1>5, <1>6, <2>1 DEF ClearTo, Places
  <2>3. postdata(data, fields.end) = <<>>
    BY <1>2, <2>1, <2>2, NoneFurther
  <2>4. n # Len(form)
    <3>1. Len(form) \notin {1, 2, 3}
      BY <1>1
    <3>2. QED
      BY <1>1, <1>2, <1>6, <3>1
  <2>5. QED
    BY <1>2, <1>4, <1>6, <2>3, <2>4 DEF form
<1>7. CASE n >= 4
  <2>1. 1 \in 1..n /\ 2 \in 1..n /\ 3 \in 1..n /\ {"field", "multipart"} \subseteq Fields
    BY <1>2, <1>7 DEF Fields
  <2>2. data[1] = "field" /\ data[2] = "multipart" /\ data[3] = "blank"
    BY <1>1, <1>2, <2>1
  <2>3. 1 + 1 = 2 /\ 2 + 1 = 3 /\ 3 + 1 = 4
    OBVIOUS
  <2>4. FieldsFrom(data, 3) = [keys |-> <<>>, end |-> 4]
    BY <1>2, <2>1, <2>2, <2>3, FieldsStop
  <2>5. FieldsFrom(data, 2).keys = <<"multipart">> \o FieldsFrom(data, 3).keys /\ FieldsFrom(data, 2).end = FieldsFrom(data, 3).end
    BY <1>2, <2>1, <2>2, <2>3, FieldsMore
  <2>6. <<"multipart">> \o <<>> = <<"multipart">>
    BY <2>1, ConcatEmptySeq
  <2>7. FieldsFrom(data, 2).keys = <<"multipart">> /\ FieldsFrom(data, 2).end = 4
    BY <2>4, <2>5, <2>6
  <2>8. fields.keys = <<"field">> \o FieldsFrom(data, 2).keys /\ fields.end = FieldsFrom(data, 2).end
    BY <1>2, <2>1, <2>2, <2>3, FieldsMore
  <2>9. <<"field">> \o <<"multipart">> = <<"field", "multipart">>
    BY <2>1, TwoOf
  <2>10. fields.keys = <<"field", "multipart">> /\ fields.end = 4
    BY <2>7, <2>8, <2>9
  <2> HIDE DEF fields
  <2>11. HasKey(fields, "multipart")
    BY <2>10 DEF HasKey
  <2>12. QED
    BY <1>2, <1>4, <1>5, <1>7, <2>10, <2>11
<1>8. QED
  BY <1>2, <1>6, <1>7


(* Texts are put together in either order. *)
Joins(a, b, c) == (a \o b) \o c = a \o (b \o c)

LEMMA Associated ==
  ASSUME NEW X, NEW a \in Seq(X), NEW b \in Seq(X), NEW c \in Seq(X)
  PROVE  Joins(a, b, c)
<1>1. a \o b \in Seq(X) /\ b \o c \in Seq(X)
  BY ConcatProperties
<1>2. Len(a \o b) = Len(a) + Len(b) /\ Len(b \o c) = Len(b) + Len(c)
  BY ConcatProperties
<1>3. QED
  BY <1>1, <1>2, ConcatAssociative DEF Joins

(* A part that is read adds its value to those that are read ahead of it. *)
LEMMA OneMorePart ==
  ASSUME NEW parts, NEW off, NEW n, NEW data, FormData(parts, off, n, data), NEW k \in 1..Len(parts),
         off[k] <= n, off[k + 1] <= n, Value(parts[k]) \in Seq(Seq(Pieces)), NEW a \in Seq(Seq(Pieces)),
         NEW values, ReadTo(data, values, a, off[k])
  PROVE  ReadTo(data, values, a \o Value(parts[k]), off[k + 1])
<1>1. PICK q \in 1..off[k] : ClearTo(data, q, off[k]) /\ values = a \o postdata(data, q)
  BY DEF ReadTo
<1>2. ReadTo(data, postdata(data, q), Value(parts[k]), off[k + 1])
  BY <1>1, PartRead
<1>3. PICK r \in 1..off[k + 1] :
        ClearTo(data, r, off[k + 1]) /\ postdata(data, q) = Value(parts[k]) \o postdata(data, r)
  BY <1>2 DEF ReadTo
<1>4. r \in Places(data)
  <2>1. Len(data) = n /\ n \in Nat
    BY FormDataIs
  <2>2. k + 1 \in 1..(Len(parts) + 1)
    BY DEF FormData
  <2>3. off[k + 1] \in Nat
    BY <2>2 DEF FormData, FormAt
  <2>4. QED
    BY <2>1, <2>3 DEF Places
<1> DEFINE X == Seq(Pieces)
           b == Value(parts[k])
           c == postdata(data, r)
<1>5. c \in Seq(X)
  <2>1. c \in Seq(CleanValues)
    BY <1>4, FormDataIs, PostEquation
  <2>2. CleanValues \subseteq X
    BY DEF CleanValues
  <2> HIDE DEF c, X
  <2>3. QED
    BY <2>1, <2>2
<1>6. a \in Seq(X) /\ b \in Seq(X)
  OBVIOUS
<1>7. values = a \o (b \o c)
  BY <1>1, <1>3
<1> HIDE DEF b, c, X
<1>8. values = (a \o b) \o c
  <2>1. Joins(a, b, c)
    BY <1>5, <1>6, Associated, Zenon
  <2>2. QED
    BY <1>7, <2>1, Zenon DEF Joins
<1>9. QED
  BY <1>3, <1>8 DEF b, c, ReadTo

LEMMA FormRead ==
  ASSUME NEW parts, NEW off, NEW n, NEW data, FormData(parts, off, n, data), NEW first, Accepted(first)
  PROVE  ReadRight(parts, n, read(first, data).postdata)
<1> DEFINE K == Len(parts)
           X == Seq(Pieces)
           L == Len(Form(parts))
           all == Values(parts)
           values == read(first, data).postdata
<1>1. /\ K \in Nat /\ off \in [1..(K + 1) -> Nat \ {0}] /\ off[1] = 4 /\ L = off[K + 1]
      /\ n \in 0..L /\ parts \in Seq(Parts)
  BY DEF FormData, FormAt
<1>2. Arrived(data) /\ Len(data) = n /\ n \in Nat
  BY FormDataIs
<1>3. PICK V : /\ V \in [0..K -> Seq(X)] /\ V[0] = <<>>
               /\ \A k \in 1..K : Value(parts[k]) \in Seq(X) /\ V[k] = V[k - 1] \o Value(parts[k])
               /\ all = V[K]
               /\ \A k \in 0..K : IsPrefix(V[k], all)
  BY <1>1, ValuesIs
<1>4. /\ n < 4 => values = <<>> /\ n # L
      /\ n >= 4 => values = postdata(data, 4) /\ ClearTo(data, 1, 4)
  BY FormStart
<1> HIDE DEF K, X, L, all, values
<1>5. /\ values = <<>> => IsPrefix(values, all)
      /\ \A k \in 0..K : V[k] \in Seq(X)
  <2>1. 0 \in 0..K
    BY <1>1
  <2>2. QED
    BY <1>3, <2>1
<1>6. CASE n < 4
  BY <1>4, <1>5, <1>6 DEF ReadRight, values, all, L
<1>7. CASE n >= 4
  <2> DEFINE P == {k \in 0..K : off[k + 1] <= n => ReadTo(data, values, V[k], off[k + 1])}
             S == {k \in 0..K : off[k + 1] <= n}
  <2>1. 0 \in P
    <3>1. 0 + 1 = 1 /\ 4 \in 1..off[1] /\ 0 \in 0..K
      BY <1>1
    <3>2. ClearTo(data, 4, off[1])
      BY <1>1 DEF ClearTo
    <3>3. postdata(data, 4) \in Seq(CleanValues)
      <4>1. 4 \in Places(data)
        BY <1>2, <1>7 DEF Places
      <4>2. QED
        BY <1>2, <4>1, PostEquation
    <3>4. V[0] \o postdata(data, 4) = postdata(data, 4)
      BY <1>3, <3>3, ConcatEmptySeq, Zenon
    <3>5. ReadTo(data, values, V[0], off[1])
      BY <1>4, <1>7, <3>1, <3>2, <3>4 DEF ReadTo
    <3>6. QED
      BY <3>1, <3>5
  <2>2. ASSUME NEW k \in 1..K, k - 1 \in P PROVE k \in P
    <3>1. k \in 0..K /\ k - 1 + 1 = k /\ k - 1 \in 0..K /\ k \in 1..(K + 1) /\ k + 1 \in 1..(K + 1)
      BY <1>1
    <3>2. SUFFICES ASSUME off[k + 1] <= n PROVE ReadTo(data, values, V[k], off[k + 1])
      BY <3>1
    <3>3. off[k] <= n
      <4>1. off[k + 1] = off[k] + 3 + Ahead(parts[k]) + Len(parts[k].value) /\ Ahead(parts[k]) \in {0, 1}
            /\ Len(parts[k].value) \in Nat
        BY PartData DEF K
      <4>2. off[k] \in Nat /\ off[k + 1] \in Nat
        BY <1>1, <3>1
      <4>3. QED
        BY <1>2, <3>2, <4>1, <4>2
    <3>4. ReadTo(data, values, V[k - 1], off[k])
      BY <2>2, <3>1, <3>3
    <3>5. V[k - 1] \in Seq(X) /\ V[k] = V[k - 1] \o Value(parts[k]) /\ Value(parts[k]) \in Seq(X)
      BY <1>3, <3>1
    <3> DEFINE a == V[k - 1]
    <3>6. a \in Seq(Seq(Pieces)) /\ Value(parts[k]) \in Seq(Seq(Pieces)) /\ k \in 1..Len(parts)
      BY <3>5 DEF X, K
    <3>7. ReadTo(data, values, a, off[k]) /\ V[k] = a \o Value(parts[k])
      BY <3>4, <3>5
    <3> HIDE DEF a
    <3>8. ReadTo(data, values, a \o Value(parts[k]), off[k + 1])
      BY <3>2, <3>3, <3>6, <3>7, OneMorePart
    <3>9. QED
      BY <3>7, <3>8
  <2> HIDE DEF P
  <2>3. \A k \in 0..K : k \in P
    BY <1>1, <2>1, <2>2, Onwards
  <2>4. PICK k \in S : \A j \in S : j <= k
    <3>1. 0 + 1 = 1 /\ 0 \in 0..K
      BY <1>1
    <3>2. 0 \in S
      BY <1>1, <1>7, <3>1
    <3>3. S \subseteq 0..K
      OBVIOUS
    <3> HIDE DEF S
    <3>4. QED
      BY <1>1, <3>2, <3>3, GreatestNumber, Zenon
  <2>5. k \in 0..K /\ off[k + 1] <= n
    OBVIOUS
  <2>6. PICK q \in 1..off[k + 1] : ClearTo(data, q, off[k + 1]) /\ values = V[k] \o postdata(data, q)
    BY <2>3, <2>5 DEF P, ReadTo
  <2>7. k + 1 \in 1..(K + 1) /\ off[k + 1] \in Nat
    BY <1>1, <2>5
  <2>8. q \in Places(data) /\ postdata(data, q) = PostNext(data, q, postdata(data, Further(data, q)))
    <3>1. q \in Places(data)
      BY <1>2, <2>5, <2>7 DEF Places
    <3>2. QED
      BY <1>2, <3>1, PostEquation
(* All parts are there, and the marker behind them. *)
  <2>9. CASE k = K
    <3> DEFINE m == off[K + 1]
    <3>1. data[m] = "end" /\ data[m] \in Markers /\ m \in 1..n
      BY <1>1, <2>5, <2>7, <2>9, Marked DEF K
    <3>2. m \in q..n /\ m \in Places(data) /\ m <= n /\ ClearTo(data, q, m)
      BY <1>2, <2>6, <2>7, <2>9, <3>1 DEF Places
    <3> HIDE DEF m
    <3>3. indexOf(data, q) = m
      BY <1>2, <2>8, <3>1, <3>2, IndexFound
    <3>4. Line(data, m) = <<"end">>
      <4>1. data[m] # "text"
        BY <3>1
      <4>2. QED
        BY <1>2, <3>1, <3>2, <4>1, LineIs
    <3>5. Ended(data, q)
      BY <3>3, <3>4 DEF Ended
    <3>6. postdata(data, q) = <<>>
      BY <2>8, <3>5, EndOrMarker DEF PostNext
    <3>7. V[K] \in Seq(X) /\ values = V[K] \o <<>>
      BY <1>5, <2>5, <2>6, <2>9, <3>6
    <3>8. values = all
      BY <1>3, <3>7, ConcatEmptySeq
    <3>9. IsPrefix(all, all)
      BY <1>3, <2>5, <2>9
    <3>10. QED
      BY <3>8, <3>9 DEF ReadRight, values, all
(* The marker behind the next part is not there. *)
  <2>10. CASE k # K
    <3>1. k + 1 \in 1..K /\ k + 1 \in 0..K /\ ~(k + 1 <= k) /\ K \in 0..K /\ ~(K <= k) /\ k + 1 + 1 \in 1..(K + 1)
      BY <1>1, <2>5, <2>10
    <3>2. k + 1 \notin S /\ K \notin S
      BY <2>4, <3>1
    <3>3. off[k + 1 + 1] > n
      <4>1. off[k + 1 + 1] \in Nat
        BY <1>1, <3>1
      <4>2. QED
        BY <1>2, <3>1, <3>2, <4>1
    <3>4. n # L
      BY <1>1, <1>2, <3>1, <3>2
    <3>5. postdata(data, q) \in {<<>>, <<<<>>>>}
      BY <2>5, <2>6, <3>1, <3>3, PartRead DEF K
    <3> DEFINE a == V[k]
    <3>6. a \in Seq(X) /\ IsPrefix(a, all) /\ values = a \o postdata(data, q)
      BY <1>3, <1>5, <2>5, <2>6
    <3> HIDE DEF a, S
    <3>7. CASE postdata(data, q) = <<>>
      <4>1. values = a
        BY <3>6, <3>7, ConcatEmptySeq
      <4>2. QED
        BY <3>4, <3>6, <4>1 DEF ReadRight, values, all, L
    <3>8. CASE postdata(data, q) = <<<<>>>>
      <4>1. <<>> \in X
        BY EmptySeq, Zenon DEF X
      <4>2. Len(values) = Len(a) + 1 /\ values[Len(a) + 1] = <<>> /\ Front(values) = a
        BY <3>6, <3>8, <4>1, FrontIs
      <4>3. Len(a) \in Nat
        BY <3>6
      <4>4. Len(values) > 0 /\ values[Len(values)] = <<>> /\ IsPrefix(Front(values), all)
        BY <3>6, <4>2, <4>3
      <4>5. QED
        BY <3>4, <4>4 DEF ReadRight, values, all, L
    <3>9. QED
      BY <3>5, <3>7, <3>8
  <2>11. QED
    BY <2>9, <2>10
<1>8. QED
  BY <1>2, <1>6, <1>7

(* A form is read as it was written, as far as it has arrived, however many parts it has; and no *)
(* value of any request has a marker in it (FormIsRead).                                          *)
THEOREM FormsAreRead == Spec => []FormIsRead
<1>1. Inv => FormIsRead
  <2> SUFFICES ASSUME Inv PROVE FormIsRead
    OBVIOUS
  <2>1. ASSUME output # None, input.kind = "form" PROVE ReadRight(input.parts, input.n, output[1].postdata)
    <3>1. input \in Forms
      BY <2>1, Kinds_ DEF Inv, Inputs
    <3>2. PICK ps \in Upto(Parts, MaxParts) : \E n \in 0..Len(Form(ps)) :
            input = [kind |-> "form", parts |-> ps, n |-> n, first |-> [words |-> 3, slashes |-> 1]]
      BY <3>1 DEF Forms
    <3>3. PICK n \in 0..Len(Form(ps)) :
            input = [kind |-> "form", parts |-> ps, n |-> n, first |-> [words |-> 3, slashes |-> 1]]
      BY <3>2
    <3> DEFINE data == SubSeq(Form(ps), 1, n)
               first == [words |-> 3, slashes |-> 1]
    <3>4. ps \in Seq(Parts)
      BY Texts, Zenon
    <3>5. PICK off : FormAt(ps, off)
      BY <3>4, FormIs
    <3>6. FormData(ps, off, n, data)
      BY <3>4, <3>5 DEF FormData
    <3>7. Accepted(first)
      BY DEF Accepted
    <3>8. output[1] = read(input.first, SubSeq(Form(input.parts), 1, input.n))
      BY <2>1 DEF Inv, Results
    <3>9. input.first = first /\ input.parts = ps /\ input.n = n
      BY <3>3
    <3>10. output[1] = read(first, data)
      BY <3>8, <3>9
    <3> HIDE DEF first, data
    <3>11. ReadRight(ps, n, read(first, data).postdata)
      BY <3>6, <3>7, FormRead
    <3>12. QED
      BY <3>9, <3>10, <3>11
  <2>2. ASSUME output # None, input.kind = "request", NEW i \in 1..Len(output[1].postdata)
        PROVE  {j \in 1..Len(output[1].postdata[i]) : output[1].postdata[i][j] \in Markers} = {}
    <3>1. input \in Requests
      BY <2>2, Kinds_ DEF Inv, Inputs
    <3> DEFINE data == input.data
               fields == FieldsFrom(data, 1)
               values == output[1].postdata
    <3>2. Arrived(data)
      <4>1. ASSUME NEW d, d \in Seq(Pieces) PROVE <<"multipart", "blank">> \o d \in Seq(Pieces)
        <5> DEFINE a == <<"multipart", "blank">>
        <5>1. a \in Seq(Pieces)
          BY DEF Pieces, Fields
        <5> HIDE DEF a
        <5>2. a \o d \in Seq(Pieces)
          BY <4>1, <5>1, ConcatProperties
        <5>3. QED
          BY <5>2 DEF a
      <4>2. \A m : \A d \in Upto(Pieces, m) : d \in Seq(Pieces)
        BY Texts, Zenon
      <4> DEFINE ahead == <<"multipart", "blank">>
                 A == {[kind |-> "request", first |-> f, data |-> <<"multipart", "blank">> \o d] :
                         f \in {[words |-> 3, slashes |-> 1]}, d \in Upto(Pieces, MaxPieces)}
                 B == {[kind |-> "request", first |-> f, data |-> d] : f \in Firsts, d \in Upto(Pieces, 2)}
      <4>3. input \in A \/ input \in B
        BY <3>1 DEF Requests
      <4>4. ASSUME input \in A PROVE \E d \in Upto(Pieces, MaxPieces) : data = ahead \o d
        <5>1. \E f \in {[words |-> 3, slashes |-> 1]} : \E d \in Upto(Pieces, MaxPieces) :
                input = [kind |-> "request", first |-> f, data |-> <<"multipart", "blank">> \o d]
          BY <4>4
        <5> HIDE DEF A, B
        <5>2. QED
          BY <5>1
      <4>5. input \in B => \E d \in Upto(Pieces, 2) : data = d
        OBVIOUS
      <4> HIDE DEF A, B, data, ahead
      <4>6. \A d \in Seq(Pieces) : ahead \o d \in Seq(Pieces)
        BY <4>1 DEF ahead
      <4>7. QED
        BY <4>2, <4>3, <4>4, <4>5, <4>6, Zenon DEF Arrived
    <3>3. output[1] = read(input.first, data)
      BY <2>2 DEF Inv, Results
    <3> HIDE DEF data
    <3>4. 1 \in Places(data)
      BY <3>2, ArrivedFacts DEF Places
    <3>5. fields.end \in Places(data)
      BY <3>2, <3>4, FieldsEquation DEF Read_
    <3>6. <<>> \in Seq(CleanValues)
      BY EmptySeq, Zenon
    <3>7. postdata(data, fields.end) \in Seq(CleanValues)
      BY <3>2, <3>5, PostEquation
    <3>8. values \in Seq(CleanValues)
      BY <3>3, <3>6, <3>7 DEF read, Refused
    <3> HIDE DEF values
    <3>9. values[i] \in CleanValues
      BY <2>2, <3>8 DEF values
    <3>10. QED
      BY <3>9 DEF CleanValues, Clean, values
  <2>3. QED
    BY <2>1, <2>2 DEF FormIsRead, Called
<1>2. QED
  BY <1>1, Invariance, PTL
==============================================================================
