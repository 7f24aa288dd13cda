------------------------ MODULE CodeGenerator_proofs ------------------------
(***************************************************************************)
(* Proofs about CodeGenerator, for any pages and any texts: the parser is  *)
(* always at a place of the texts, the lines of a table that is open are   *)
(* looked for, a header leaves what it stands in, tags that are opened and *)
(* closed in order leave no trace, lists are closed by what they have      *)
(* opened, and a page that is contained leaves no trace where it is met.   *)
(*                                                                         *)
(* Of the operations on the path of open elements it matters here what     *)
(* elements they give, and that no table is opened but by startTable().    *)
(***************************************************************************)
EXTENDS CodeGenerator, NumberFacts, SequenceTheorems, FiniteSetTheorems, FunctionTheorems,
        TLAPS

(* A path that comes of another without a table being opened. *)
From(q, p) == q \in Seq(Elements) /\ Tables(q) \subseteq Tables(p)

-----------------------------------------------------------------------------
(* The operations of Element.tla *)

LEMMA FromSelf == ASSUME NEW p \in Seq(Elements) PROVE From(p, p)
BY DEF From

LEMMA FromFrom ==
  ASSUME NEW p, NEW q, NEW r, From(r, q), From(q, p)
  PROVE  From(r, p)
BY DEF From

LEMMA FromNothing == ASSUME NEW p PROVE From(<<>>, p)
BY DEF From, Tables

LEMMA FrontItems ==
  ASSUME NEW S, NEW s \in Seq(S), NEW k \in 0..Len(s)
  PROVE  /\ SubSeq(s, 1, k) \in Seq(S) /\ Len(SubSeq(s, 1, k)) = k
         /\ \A i \in 1..k : SubSeq(s, 1, k)[i] = s[i]
OBVIOUS

LEMMA FromFront ==
  ASSUME NEW p \in Seq(Elements), NEW k \in 0..Len(p)
  PROVE  /\ From(SubSeq(p, 1, k), p) /\ Len(SubSeq(p, 1, k)) = k
         /\ \A i \in 1..k : SubSeq(p, 1, k)[i] = p[i]
<1> DEFINE q == SubSeq(p, 1, k)
<1>1. q \in Seq(Elements) /\ Len(q) = k /\ \A i \in 1..k : q[i] = p[i]
  OBVIOUS
<1> HIDE DEF q
<1>2. Tables(q) \subseteq Tables(p)
  BY <1>1 DEF Tables
<1>3. QED
  BY <1>1, <1>2 DEF From, q

LEMMA NotEmpty ==
  ASSUME NEW p \in Seq(Elements), p # <<>>
  PROVE  Len(p) \in Nat \ {0} /\ Top(p) = p[Len(p)] /\ Top(p) \in Elements
<1>1. Len(p) \in Nat \ {0}
  BY EmptySeq
<1>2. QED
  BY <1>1 DEF Top

LEMMA ChildFacts ==
  ASSUME NEW p \in Seq(Elements), NEW name \in ElementNames, NEW type \in Types
  PROVE  /\ becomeChild(p, name, type) \in Seq(Elements)
         /\ name # "table" => From(becomeChild(p, name, type), p)
         /\ Tables(becomeChild(p, name, type)) \subseteq Tables(p) \cup {Len(p) + 1}
<1>1. CASE p = <<>>
  BY <1>1, FromNothing DEF becomeChild, Tables
<1>2. CASE p # <<>>
  <2> DEFINE e == Element(name, type)
             q == Append(p, e)
  <2>1. e \in Elements /\ e.name = name
    BY DEF Element, Elements
  <2>2. becomeChild(p, name, type) = q
    BY <1>2 DEF becomeChild
  <2> HIDE DEF e
  <2>3. /\ q \in Seq(Elements) /\ Len(q) = Len(p) + 1
        /\ \A i \in 1..Len(p) : q[i] = p[i]
        /\ q[Len(p) + 1] = e
    BY <2>1
  <2> HIDE DEF q
  <2>4. \A i \in 1..Len(q) : i \in 1..Len(p) \/ i = Len(p) + 1
    BY <2>3
  <2>5. Tables(q) \subseteq Tables(p) \cup {Len(p) + 1}
    BY <2>3, <2>4 DEF Tables
  <2>6. ASSUME name # "table" PROVE Tables(q) \subseteq Tables(p)
    BY <2>1, <2>3, <2>4, <2>6 DEF Tables
  <2>7. QED
    BY <2>2, <2>3, <2>5, <2>6 DEF From
<1>3. QED
  BY <1>1, <1>2

LEMMA ChildOf ==
  ASSUME NEW p, NEW q, From(q, p), NEW name \in ElementNames, NEW type \in Types, name # "table"
  PROVE  From(becomeChild(q, name, type), p)
<1>1. q \in Seq(Elements)
  BY DEF From
<1>2. From(becomeChild(q, name, type), q)
  BY <1>1, ChildFacts
<1>3. QED
  BY <1>2, FromFrom

LEMMA ParentFacts ==
  ASSUME NEW p \in Seq(Elements)
  PROVE  From(becomeParent(p), p)
<1>1. CASE p = <<>>
  BY <1>1, FromNothing DEF becomeParent
<1>2. CASE p # <<>>
  <2>1. Len(p) - 1 \in 0..Len(p)
    BY <1>2, NotEmpty
  <2>2. QED
    BY <1>2, <2>1, FromFront DEF becomeParent
<1>3. QED
  BY <1>1, <1>2

(* An element that is left, if it is a table, is a table less. *)
LEMMA ParentOfTable ==
  ASSUME NEW p \in Seq(Elements), At(p, {"table"})
  PROVE  Tables(becomeParent(p)) \subseteq Tables(p) \ {Len(p)} /\ Len(p) \in Tables(p)
<1>1. p # <<>> /\ Top(p).name = "table"
  BY DEF At
<1>2. Len(p) \in Nat \ {0} /\ Top(p) = p[Len(p)]
  BY <1>1, NotEmpty
<1> DEFINE q == SubSeq(p, 1, Len(p) - 1)
<1>3. Len(q) = Len(p) - 1 /\ \A i \in 1..(Len(p) - 1) : q[i] = p[i]
  <2>1. Len(p) - 1 \in 0..Len(p)
    BY <1>2
  <2>2. QED
    BY <2>1, FromFront
<1>4. becomeParent(p) = q
  BY <1>1 DEF becomeParent
<1> HIDE DEF q
<1>5. QED
  BY <1>1, <1>2, <1>3, <1>4 DEF Tables

LEMMA TagtypeFacts ==
  ASSUME NEW p \in Seq(Elements), NEW type \in Types
  PROVE  From(setTagtype(p, type), p)
<1>1. CASE p = <<>>
  BY <1>1, FromNothing DEF setTagtype
<1>2. CASE p # <<>>
  <2> DEFINE n == Len(p)
             e == [p[n] EXCEPT !.type = type]
             q == [p EXCEPT ![n] = e]
  <2>1. n \in 1..Len(p) /\ p[n] \in Elements
    BY <1>2, NotEmpty
  <2>2. e \in Elements /\ e.name = p[n].name
    BY <2>1 DEF Elements
  <2>3. setTagtype(p, type) = q
    BY <1>2 DEF setTagtype
  <2> HIDE DEF e, n
  <2>4. q \in Seq(Elements) /\ Len(q) = Len(p) /\ \A i \in 1..Len(p) : q[i] = IF i = n THEN e ELSE p[i]
    BY <2>1, <2>2
  <2> HIDE DEF q
  <2>5. Tables(q) \subseteq Tables(p)
    BY <2>2, <2>4 DEF Tables
  <2>6. QED
    BY <2>3, <2>4, <2>5 DEF From
<1>3. QED
  BY <1>1, <1>2

LEMMA ClimbFacts ==
  ASSUME NEW p \in Seq(Elements), NEW positions \in SUBSET (1..Len(p))
  PROVE  From(ClimbTo(p, positions), p)
<1>1. Len(p) \in Nat
  OBVIOUS
<1>2. CASE positions = {}
  BY <1>1, <1>2, FromFront DEF ClimbTo
<1>3. CASE positions # {}
  <2>1. positions \subseteq 0..Len(p)
    BY <1>1
  <2>2. \E i \in positions : \A j \in positions : j <= i
    BY <1>1, <1>3, <2>1, GreatestNumber
  <2> DEFINE k == CHOOSE i \in positions : \A j \in positions : j <= i
  <2>3. k \in positions
    BY <2>2
  <2>4. k \in 0..Len(p)
    BY <2>1, <2>3
  <2>5. ClimbTo(p, positions) = SubSeq(p, 1, k)
    BY <1>3 DEF ClimbTo
  <2> HIDE DEF k
  <2>6. QED
    BY <2>4, <2>5, FromFront
<1>4. QED
  BY <1>2, <1>3

LEMMA NamedPositions ==
  ASSUME NEW p, NEW names, NEW type
  PROVE  Named(p, names) \in SUBSET (1..Len(p)) /\ Cells(p, type) \in SUBSET (1..Len(p))
BY DEF Named, Cells

LEMMA EndCellFacts ==
  ASSUME NEW p \in Seq(Elements), NEW type
  PROVE  From(endCell(p, type), p)
<1> DEFINE inner == IF inStack(p, "table") /\ ~At(p, {"table"})
                    THEN ClimbTo(p, Cells(p, type)) ELSE p
<1>1. From(inner, p)
  BY NamedPositions, ClimbFacts, FromSelf
<1>2. inner \in Seq(Elements)
  BY <1>1 DEF From
<1>3. endCell(p, type) \in {inner, becomeParent(inner)}
  BY DEF endCell
<1> HIDE DEF inner
<1>4. From(becomeParent(inner), p)
  BY <1>1, <1>2, ParentFacts, FromFrom
<1>5. QED
  BY <1>1, <1>3, <1>4

LEMMA EndRowFacts ==
  ASSUME NEW p \in Seq(Elements), NEW type
  PROVE  From(endRow(p, type), p)
<1> DEFINE inner == endCell(p, type)
<1>1. From(inner, p) /\ inner \in Seq(Elements)
  BY EndCellFacts DEF From
<1>2. endRow(p, type) \in {inner, becomeParent(inner)}
  BY DEF endRow
<1> HIDE DEF inner
<1>3. From(becomeParent(inner), p)
  BY <1>1, ParentFacts, FromFrom
<1>4. QED
  BY <1>1, <1>2, <1>3

LEMMA AssertFacts ==
  ASSUME NEW p \in Seq(Elements), NEW type
  PROVE  From(AssertTable(p, type), p)
BY FromSelf, FromNothing DEF AssertTable

LEMMA PartNames ==
  \A name \in {"caption", "tr", "td", "th"} : name \in ElementNames /\ name # "table"
BY DEF ElementNames, table_only

LEMMA PartFacts ==
  ASSUME NEW p \in Seq(Elements), NEW type \in Types
  PROVE  /\ From(endTable(p, type), p)
         /\ From(startCaption(p, type), p)
         /\ From(startRow(p, type), p)
         /\ From(startCell(p, type), p)
         /\ From(startHeader(p, type), p)
<1> DEFINE row == AssertTable(endRow(p, type), type)
<1>1. From(row, p) /\ row \in Seq(Elements)
  <2>1. From(endRow(p, type), p) /\ endRow(p, type) \in Seq(Elements)
    BY EndRowFacts DEF From
  <2>2. From(row, endRow(p, type))
    BY <2>1, AssertFacts
  <2>3. QED
    BY <2>1, <2>2, FromFrom DEF From
<1>2. From(endTable(p, type), p)
  BY <1>1, ParentFacts, FromFrom DEF endTable
<1>3. From(startCaption(p, type), p)
  <2>1. From(becomeChild(row, "caption", type), p)
    BY <1>1, PartNames, ChildOf
  <2>2. QED
    BY <2>1 DEF startCaption
<1>4. From(startRow(p, type), p)
  <2>1. From(becomeChild(row, "tr", type), p)
    BY <1>1, PartNames, ChildOf
  <2>2. QED
    BY <2>1 DEF startRow
<1>5. From(InRow(p, type), p) /\ InRow(p, type) \in Seq(Elements)
  <2> DEFINE inner == endCell(p, type)
  <2>1. From(inner, p) /\ inner \in Seq(Elements)
    BY EndCellFacts DEF From
  <2>2. InRow(p, type) \in {inner, startRow(inner, type)}
    BY DEF InRow
  <2> HIDE DEF inner
  <2>3. From(startRow(inner, type), inner)
    <3> DEFINE row2 == AssertTable(endRow(inner, type), type)
    <3>1. From(endRow(inner, type), inner) /\ endRow(inner, type) \in Seq(Elements)
      BY <2>1, EndRowFacts DEF From
    <3>2. From(row2, inner) /\ row2 \in Seq(Elements)
      BY <3>1, AssertFacts, FromFrom DEF From
    <3>3. From(becomeChild(row2, "tr", type), inner)
      BY <3>2, PartNames, ChildOf
    <3>4. QED
      BY <3>3 DEF startRow
  <2>4. From(InRow(p, type), p)
    BY <2>1, <2>2, <2>3, FromFrom
  <2>5. QED
    BY <2>4 DEF From
<1>6. From(startCell(p, type), p)
  <2>1. From(becomeChild(InRow(p, type), "td", type), p)
    BY <1>5, PartNames, ChildOf
  <2>2. QED
    BY <2>1 DEF startCell
<1>7. From(startHeader(p, type), p)
  <2>1. From(becomeChild(InRow(p, type), "th", type), p)
    BY <1>5, PartNames, ChildOf
  <2>2. QED
    BY <2>1 DEF startHeader
<1>8. QED
  BY <1>2, <1>3, <1>4, <1>6, <1>7

-----------------------------------------------------------------------------
(* The modes *)

(* The modes that come of others without that of a table being closed. *)
Keeps(new, old) == new \in Seq(Modes) /\ TableModes(old) \subseteq TableModes(new)

LEMMA KeepsSelf == ASSUME NEW m \in Seq(Modes) PROVE Keeps(m, m)
BY DEF Keeps

LEMMA KeepsKeeps ==
  ASSUME NEW l, NEW m, NEW n, Keeps(n, m), Keeps(m, l)
  PROVE  Keeps(n, l)
BY DEF Keeps

LEMMA AppendMode ==
  ASSUME NEW m \in Seq(Modes), NEW x \in Modes
  PROVE  /\ Keeps(Append(m, x), m)
         /\ x = "wikitable" => Len(m) + 1 \in TableModes(Append(m, x))
         /\ Len(m) + 1 \notin TableModes(m)
<1> DEFINE n == Append(m, x)
<1>1. /\ n \in Seq(Modes) /\ Len(n) = Len(m) + 1 /\ Len(m) \in Nat
      /\ \A i \in 1..Len(m) : n[i] = m[i]
      /\ n[Len(m) + 1] = x
  OBVIOUS
<1> HIDE DEF n
<1>2. \A i \in 1..Len(m) : i \in 1..Len(n)
  BY <1>1
<1>3. TableModes(m) \subseteq TableModes(n)
  BY <1>1, <1>2 DEF TableModes
<1>4. x = "wikitable" => Len(m) + 1 \in TableModes(n)
  BY <1>1 DEF TableModes
<1>5. Len(m) + 1 \notin TableModes(m)
  BY <1>1 DEF TableModes
<1>6. QED
  BY <1>1, <1>3, <1>4, <1>5 DEF Keeps, n

LEMMA LastOfAppend ==
  ASSUME NEW S, NEW s \in Seq(S), NEW x \in S
  PROVE  Append(s, x) # <<>> /\ Append(s, x)[Len(Append(s, x))] = x
<1>1. Len(s) \in Nat /\ Len(Append(s, x)) = Len(s) + 1 /\ Append(s, x)[Len(s) + 1] = x
  OBVIOUS
<1>2. QED
  BY <1>1, EmptySeq

LEMMA PopMode ==
  ASSUME NEW m \in Seq(Modes), m # <<>>
  PROVE  LET n == SubSeq(m, 1, Len(m) - 1) IN
         /\ n \in Seq(Modes)
         /\ TableModes(m) \ {Len(m)} \subseteq TableModes(n)
         /\ m[Len(m)] # "wikitable" => TableModes(m) \subseteq TableModes(n)
<1> DEFINE k == Len(m) - 1
           n == SubSeq(m, 1, k)
<1>1. Len(m) \in Nat \ {0} /\ k \in 0..Len(m)
  BY EmptySeq
<1>2. n \in Seq(Modes) /\ Len(n) = k /\ \A i \in 1..k : n[i] = m[i]
  BY <1>1, FrontItems
<1> HIDE DEF n
<1>3. \A i \in 1..Len(m) : i = Len(m) \/ i \in 1..k
  BY <1>1
<1>4. TableModes(m) \ {Len(m)} \subseteq TableModes(n)
  BY <1>2, <1>3 DEF TableModes
<1>5. ASSUME m[Len(m)] # "wikitable" PROVE TableModes(m) \subseteq TableModes(n)
  BY <1>4, <1>5 DEF TableModes
<1>6. QED
  BY <1>2, <1>4, <1>5 DEF n

LEMMA AfterFacts ==
  ASSUME NEW m \in Seq(Modes), NEW tag
  PROVE  /\ After(m, tag) \in Seq(Modes)
         /\ tag.mode # "wikitable" => Keeps(After(m, tag), m)
         /\ TableModes(m) \ {Len(m)} \subseteq TableModes(After(m, tag))
<1>1. CASE Closes(m, tag) /\ m # <<>>
  <2>1. After(m, tag) = SubSeq(m, 1, Len(m) - 1)
    BY <1>1 DEF After
  <2>2. m[Len(m)] = tag.mode
    BY <1>1 DEF Closes, Current
  <2>3. QED
    BY <1>1, <2>1, <2>2, PopMode DEF Keeps
<1>2. CASE Closes(m, tag) /\ m = <<>>
  <2>1. After(m, tag) = <<>>
    BY <1>2 DEF After
  <2>2. QED
    BY <1>2, <2>1, KeepsSelf DEF Keeps
<1>3. CASE ~Closes(m, tag) /\ tag.item = "open" /\ tag.mode \in Modes
  <2>1. After(m, tag) = Append(m, tag.mode)
    BY <1>3 DEF After
  <2>2. QED
    BY <1>3, <2>1, AppendMode DEF Keeps
<1>4. CASE ~Closes(m, tag) /\ ~(tag.item = "open" /\ tag.mode \in Modes)
  BY <1>4, KeepsSelf DEF After, Keeps
<1>5. QED
  BY <1>1, <1>2, <1>3, <1>4

LEMMA ClosedFacts ==
  ASSUME NEW m \in Seq(Modes), NEW x
  PROVE  /\ Closed(m, x) \in Seq(Modes)
         /\ x # "wikitable" => Keeps(Closed(m, x), m)
         /\ TableModes(m) \ {Len(m)} \subseteq TableModes(Closed(m, x))
BY AfterFacts DEF Closed

LEMMA LineModesFacts ==
  ASSUME TypeOK
  PROVE  Keeps(LineModes, mode) /\ LineModes \in Seq(Modes)
<1> DEFINE ended == Closed(mode, "wikitableline")
<1>1. Keeps(ended, mode) /\ ended \in Seq(Modes)
  BY ClosedFacts DEF TypeOK
<1>2. Keeps(Closed(ended, "wikiindent"), ended)
  BY <1>1, ClosedFacts
<1>3. LineModes \in {ended, Closed(ended, "wikiindent")}
  BY DEF LineModes
<1>4. QED
  BY <1>1, <1>2, <1>3, KeepsKeeps DEF Keeps

(* No tag of a text opens or closes a mode by the name of that of wiki tables. *)
LEMMA TagModes == ModeTag.mode # "wikitable"
<1>1. ASSUME NEW tag PROVE ModeOf(tag) # "wikitable"
  BY DEF ModeOf
<1>2. QED
  BY <1>1 DEF ModeTag

-----------------------------------------------------------------------------
(* The operations of the parser on the path *)

LEMMA TypeNames ==
  /\ "p" \in ElementNames /\ "p" # "table"
  /\ "wiki" \in Types /\ "html" \in Types /\ "bbcode" \in Types /\ "none" \in Types
  /\ \A name \in list_tags \cup list_items : name \in ElementNames /\ name # "table"
BY DEF ElementNames, pairs, Types, list_tags, list_items

LEMMA FromType == ASSUME NEW p, NEW q, From(q, p) PROVE q \in Seq(Elements)
BY DEF From

LEMMA ParentOf ==
  ASSUME NEW p, NEW q, From(q, p)
  PROVE  From(becomeParent(q), p)
BY FromType, ParentFacts, FromFrom

LEMMA TagtypeOf ==
  ASSUME NEW p, NEW q, From(q, p), NEW type \in Types
  PROVE  From(setTagtype(q, type), p)
BY FromType, TagtypeFacts, FromFrom

LEMMA SimpleFacts ==
  ASSUME NEW p, NEW q, From(q, p)
  PROVE  From(simple_parse(q), p)
BY ChildOf, TypeNames DEF simple_parse

LEMMA EndedFacts == ASSUME TypeOK PROVE From(Ended, path)
<1>1. From(path, path)
  BY FromSelf DEF TypeOK
<1>2. QED
  BY <1>1, SimpleFacts DEF Ended

LEMMA LinePathFacts ==
  ASSUME TypeOK, NEW isCell, NEW isList
  PROVE  From(LinePath(isCell, isList), path)
<1>1. From(Ended, path) /\ Ended \in Seq(Elements)
  BY EndedFacts, FromType
<1>2. From(ClimbTo(Ended, Named(Ended, {"pre"})), path)
  BY <1>1, NamedPositions, ClimbFacts, FromFrom
<1>3. From(becomeParent(ClimbTo(Ended, Named(Ended, {"pre"}))), path)
  BY <1>2, ParentOf
<1>4. From(becomeChild(Ended, "p", "wiki"), path)
  BY <1>1, ChildOf, TypeNames
<1>5. LinePath(isCell, isList) \in
        {Ended, becomeParent(ClimbTo(Ended, Named(Ended, {"pre"}))), becomeChild(Ended, "p", "wiki")}
  BY DEF LinePath
<1>6. QED
  BY <1>1, <1>3, <1>4, <1>5

(* Where a list goes on is found, as it goes on for no mark at least. *)
LEMMA SameFacts ==
  ASSUME NEW list \in Seq(Marks), NEW marks \in Seq(Marks)
  PROVE  Same(list, marks) \in 0..Len(list) /\ Same(list, marks) <= Len(marks)
<1> DEFINE equal == {k \in 0..Len(list) : k <= Len(marks) /\ \A i \in 1..k : list[i] = marks[i]}
<1>1. Len(list) \in Nat /\ Len(marks) \in Nat
  OBVIOUS
<1>2. 0 \in equal /\ equal \subseteq 0..Len(list)
  BY <1>1
<1>3. \E k \in equal : \A j \in equal : j <= k
  BY <1>1, <1>2, GreatestNumber
<1>4. Same(list, marks) \in equal
  BY <1>3 DEF Same
<1>5. QED
  BY <1>4

LEMMA DropFacts ==
  ASSUME NEW p \in Seq(Elements), NEW n \in Nat
  PROVE  From(Drop(p, n), p)
<1>1. (IF n > Len(p) THEN 0 ELSE Len(p) - n) \in 0..Len(p)
  OBVIOUS
<1>2. QED
  BY <1>1, FromFront DEF Drop

LEMMA AgainFacts ==
  ASSUME NEW p, NEW q, From(q, p)
  PROVE  From(Again(q), p)
<1>1. CASE At(q, list_items)
  <2>1. Top(q).name \in list_items
    BY <1>1 DEF At
  <2>2. From(becomeParent(q), p)
    BY ParentOf
  <2>3. QED
    BY <1>1, <2>1, <2>2, ChildOf, TypeNames DEF Again
<1>2. CASE ~At(q, list_items)
  BY <1>2 DEF Again
<1>3. QED
  BY <1>1, <1>2

LEMMA NestedFacts ==
  ASSUME NEW p, NEW q, From(q, p), NEW marks \in Seq(Marks)
  PROVE  From(Nested(q, marks), p)
<1>1. CASE q = <<>>
  BY <1>1, FromNothing DEF Nested
<1>2. CASE q # <<>>
  <2> DEFINE n == 2 * Len(marks)
             e(i) == LET mark == marks[(i + 1) \div 2]
                     IN Element(IF i % 2 = 1 THEN ListOf(mark) ELSE ItemOf(mark), "none")
             s == [i \in 1..n |-> e(i)]
  <2>1. q \in Seq(Elements) /\ Len(marks) \in Nat /\ n \in Nat
    BY FromType
  <2>2. ASSUME NEW i \in 1..n PROVE e(i) \in Elements /\ e(i).name # "table"
    <3>1. (i + 1) \div 2 \in 1..Len(marks)
      BY <2>1
    <3>2. marks[(i + 1) \div 2] \in Marks
      BY <3>1
    <3>3. /\ ListOf(marks[(i + 1) \div 2]) \in list_tags
          /\ ItemOf(marks[(i + 1) \div 2]) \in list_items
      BY <3>2 DEF ListOf, ItemOf, list_tags, list_items, Marks
    <3>4. QED
      BY <3>3, TypeNames DEF Element, Elements
  <2> HIDE DEF n, e
  <2>3. s \in Seq(Elements) /\ Len(s) = n /\ \A i \in 1..n : s[i] = e(i)
    BY <2>1, <2>2
  <2> HIDE DEF s
  <2> DEFINE r == q \o s
  <2>4. /\ r \in Seq(Elements) /\ Len(r) = Len(q) + n
        /\ \A i \in 1..Len(r) : r[i] = IF i <= Len(q) THEN q[i] ELSE s[i - Len(q)]
    BY <2>1, <2>3
  <2>5. Nested(q, marks) = r
    BY <1>2 DEF Nested, s, n, e
  <2> HIDE DEF r
  <2>6. Tables(r) \subseteq Tables(q)
    <3>1. SUFFICES ASSUME NEW i \in 1..Len(r), r[i].name = "table"
                   PROVE  i \in Tables(q)
      BY DEF Tables
    <3>2. CASE i <= Len(q)
      BY <2>1, <2>4, <3>1, <3>2 DEF Tables
    <3>3. CASE i > Len(q)
      <4>1. i - Len(q) \in 1..n
        BY <2>1, <2>4, <3>3
      <4>2. r[i] = e(i - Len(q))
        BY <2>1, <2>3, <2>4, <3>3, <4>1
      <4>3. QED
        BY <2>2, <3>1, <4>1, <4>2
    <3>4. QED
      BY <2>1, <3>2, <3>3
  <2>7. From(r, q)
    BY <2>4, <2>6 DEF From
  <2>8. QED
    BY <2>5, <2>7, FromFrom
<1>3. QED
  BY <1>1, <1>2

LEMMA ListPathFacts ==
  ASSUME NEW p, NEW q, From(q, p),
         NEW list \in Seq(Marks), NEW marks \in Seq(Marks), marks # <<>>
  PROVE  From(ListPath(q, list, marks), p)
<1> DEFINE same == Same(list, marks)
           higher == Drop(q, 2 * (Len(list) - same))
           on == IF At(q, list_items) THEN becomeParent(q) ELSE q
           rest == SubSeq(marks, same + 1, Len(marks))
<1>1. /\ same \in 0..Len(list) /\ same <= Len(marks)
      /\ Len(list) \in Nat /\ Len(marks) \in Nat \ {0} /\ q \in Seq(Elements)
  BY SameFacts, EmptySeq, FromType
<1>2. CASE same = Len(list) /\ same = Len(marks)
  <2>1. marks[same] \in Marks
    BY <1>1, <1>2
  <2>2. ItemOf(marks[same]) \in list_items
    BY <2>1 DEF ItemOf, list_items, Marks
  <2>3. From(on, p)
    BY ParentOf
  <2>4. From(becomeChild(on, ItemOf(marks[same]), "none"), p)
    BY <2>2, <2>3, ChildOf, TypeNames
  <2>5. QED
    BY <1>2, <2>4 DEF ListPath
<1>3. CASE ~(same = Len(list) /\ same = Len(marks))
  <2>1. From(higher, p)
    <3>1. 2 * (Len(list) - same) \in Nat
      BY <1>1
    <3>2. QED
      BY <1>1, <3>1, DropFacts, FromFrom
  <2>2. From(IF same < Len(list) THEN Again(higher) ELSE higher, p)
    BY <2>1, AgainFacts
  <2>3. rest \in Seq(Marks)
    BY <1>1
  <2>4. From(Nested(IF same < Len(list) THEN Again(higher) ELSE higher, rest), p)
    BY <2>2, <2>3, NestedFacts
  <2>5. ListPath(q, list, marks) = Nested(IF same < Len(list) THEN Again(higher) ELSE higher, rest)
    BY <1>3 DEF ListPath
  <2>6. QED
    BY <2>4, <2>5
<1>4. QED
  BY <1>2, <1>3

LEMMA CallFacts ==
  ASSUME TypeOK
  PROVE  /\ Len(frames) \in Nat \ {0} /\ Call = frames[Len(frames)]
         /\ Call \in Calls /\ Call.page \in Pages /\ Call.list \in Seq(Marks)
         /\ Call.at \in 1..(Len(text[Call.page]) + 1)
         /\ text[Call.page] \in Seq(Items)
<1>1. frames \in Seq(Calls) /\ Len(frames) \in Nat \ {0}
  BY EmptySeq DEF TypeOK
<1>2. Call = frames[Len(frames)] /\ Call \in Calls
  BY <1>1 DEF Call
<1>3. Call.page \in Pages /\ Call.list \in Seq(Marks)
  BY <1>2 DEF Calls
<1>4. Call.at \in 1..(Len(text[Call.page]) + 1)
  BY <1>1, <1>2 DEF TypeOK
<1>5. text \in [Pages -> Seq(Items)]
  BY DEF TypeOK
<1>6. QED
  BY <1>1, <1>2, <1>3, <1>4, <1>5

(* However many of the elements are of lists, the loops that close them stop somewhere. *)
LEMMA EndListsFacts ==
  ASSUME TypeOK, NEW q, From(q, path)
  PROVE  From(EndLists(q), path)
<1> DEFINE ends == Endings(q, Len(Call.list))
           k == CHOOSE l \in ends : \A j \in ends : l <= j
<1>1. q \in Seq(Elements) /\ Len(q) \in Nat /\ Len(Call.list) \in Nat
  BY FromType, CallFacts
<1>2. Len(q) \in ends
  <2>1. Turns(q, Len(q)) = {}
    BY <1>1 DEF Turns
  <2>2. Cardinality(Turns(q, Len(q))) = 0
    BY <2>1, FS_EmptySet
  <2>3. \A i \in (Len(q) + 1)..Len(q) : FALSE
    BY <1>1
  <2>4. QED
    BY <1>1, <2>2, <2>3 DEF Endings
<1>3. ends \subseteq 0..Len(q)
  BY DEF Endings
<1>4. ends \subseteq Nat /\ ends # {}
  BY <1>1, <1>2, <1>3
<1> HIDE DEF ends
<1>5. k \in ends
  BY <1>4, LeastNumber
<1> HIDE DEF k
<1>6. k \in 0..Len(q)
  BY <1>3, <1>5
<1>7. From(SubSeq(q, 1, k), path)
  BY <1>1, <1>6, FromFront, FromFrom
<1>8. QED
  BY <1>7 DEF EndLists, ends, k

LEMMA HeaderPathFacts ==
  ASSUME TypeOK, NEW q, From(q, path)
  PROVE  From(HeaderPath(q), path)
<1>1. CASE q = <<>>
  BY <1>1, FromNothing DEF HeaderPath
<1>2. CASE q # <<>>
  <2> DEFINE positions == {1} \cup Named(q, {"pre"} \cup table_only)
  <2>1. q \in Seq(Elements) /\ 1 \in 1..Len(q)
    BY <1>2, FromType, NotEmpty
  <2>2. positions \in SUBSET (1..Len(q))
    BY <2>1, NamedPositions
  <2>3. HeaderPath(q) = ClimbTo(q, positions)
    BY <1>2 DEF HeaderPath
  <2> HIDE DEF positions
  <2>4. QED
    BY <2>1, <2>2, <2>3, ClimbFacts, FromFrom
<1>3. QED
  BY <1>1, <1>2

LEMMA PartOf ==
  ASSUME NEW p, NEW q, From(q, p), NEW type \in Types
  PROVE  /\ From(endTable(q, type), p) /\ From(startCaption(q, type), p)
         /\ From(startRow(q, type), p) /\ From(startCell(q, type), p)
         /\ From(startHeader(q, type), p) /\ From(endRow(q, type), p)
BY FromType, PartFacts, EndRowFacts, FromFrom

LEMMA TablePartFacts ==
  ASSUME NEW p, NEW q, From(q, p)
  PROVE  From(TablePart(q), p)
BY PartOf, TypeNames DEF TablePart

(* A table is opened with what it is opened in. *)
LEMMA StartTableFacts ==
  ASSUME NEW p, NEW q, From(q, p), NEW type \in Types
  PROVE  /\ startTable(q, type) \in Seq(Elements)
         /\ Tables(startTable(q, type)) \subseteq Tables(p) \cup {Len(q) + 1}
<1>1. q \in Seq(Elements) /\ "table" \in ElementNames
  BY FromType DEF ElementNames, pairs
<1>2. /\ startTable(q, type) \in Seq(Elements)
      /\ Tables(startTable(q, type)) \subseteq Tables(q) \cup {Len(q) + 1}
  BY <1>1, ChildFacts DEF startTable
<1>3. QED
  BY <1>2 DEF From

(* What comes of a tag: no table, unless it has that name. *)
LEMMA ClosedPaths ==
  ASSUME TypeOK
  PROVE  From(HtmlClosed, path) /\ From(BBClosed, path)
<1>1. path \in Seq(Elements) /\ From(path, path)
  BY FromSelf DEF TypeOK
<1>2. From(HtmlClosed, path)
  BY <1>1, ParentOf DEF HtmlClosed
<1>3. From(ClimbTo(path, Named(path, Closers(Item.name))), path)
  BY <1>1, NamedPositions, ClimbFacts
<1>4. From(BBClosed, path)
  BY <1>1, <1>3, ParentOf, SimpleFacts DEF BBClosed
<1>5. QED
  BY <1>2, <1>4

LEMMA HtmlPaths ==
  ASSUME TypeOK
  PROVE  /\ HtmlOpened \in Seq(Elements)
         /\ Item.name # "table" => From(HtmlOpened, path)
<1>1. path \in Seq(Elements) /\ From(path, path)
  BY FromSelf DEF TypeOK
<1>2. From(simple_parse(path), path) /\ From(<<>>, path)
  BY <1>1, SimpleFacts, FromNothing
<1>3. /\ From(startCell(path, "html"), path) /\ From(startHeader(path, "html"), path)
      /\ From(endRow(path, "html"), path) /\ From(startCaption(path, "html"), path)
  BY <1>1, PartOf, TypeNames
<1>4. "span" \in ElementNames /\ "span" # "table"
  BY DEF ElementNames, pairs
<1>5. From(becomeChild(path, "span", "html"), path)
  BY <1>1, <1>4, ChildOf, TypeNames
<1>6. ASSUME Item.name \in pairs, Item.name # "table"
      PROVE  From(becomeChild(path, Item.name, "html"), path)
  <2>1. Item.name \in ElementNames
    BY <1>6 DEF ElementNames
  <2>2. QED
    BY <1>1, <1>6, <2>1, ChildOf, TypeNames
<1>7. CASE Item.name = "table"
  <2>1. HtmlOpened = startTable(path, "html")
    BY <1>7 DEF HtmlOpened, pairs, noclose, formatting_pairs, table_only, list_items
  <2>2. QED
    BY <1>1, <1>7, <2>1, StartTableFacts, TypeNames
<1>8. CASE Item.name # "table"
  <2>1. CASE Item.name \in pairs
    <3>1. HtmlOpened = becomeChild(path, Item.name, "html")
      BY <1>8, <2>1 DEF HtmlOpened, pairs, noclose, formatting_pairs, table_only, list_items
    <3>2. QED
      BY <1>6, <1>8, <2>1, <3>1, FromType
  <2>2. CASE Item.name \notin pairs
    <3>1. HtmlOpened \in {path, becomeChild(path, "span", "html"), simple_parse(path), <<>>,
                          startCell(path, "html"), startHeader(path, "html"),
                          endRow(path, "html"), startCaption(path, "html")}
      BY <1>8, <2>2 DEF HtmlOpened
    <3>2. From(HtmlOpened, path)
      BY <1>1, <1>2, <1>3, <1>5, <3>1
    <3>3. QED
      BY <3>2, FromType
  <2>3. QED
    BY <2>1, <2>2
<1>9. QED
  BY <1>7, <1>8

LEMMA ListItemFacts ==
  ASSUME TypeOK
  PROVE  From(ListItem(path), path)
<1>1. path \in Seq(Elements) /\ From(path, path)
  BY FromSelf DEF TypeOK
<1>2. From(ClimbTo(path, Named(path, list_tags)), path)
  BY <1>1, NamedPositions, ClimbFacts
<1>3. "li" \in list_items
  BY DEF list_items
<1>4. From(becomeChild(ClimbTo(path, Named(path, list_tags)), "li", "none"), path)
  BY <1>2, <1>3, ChildOf, TypeNames
<1>5. QED
  BY <1>4, FromNothing DEF ListItem

LEMMA BBPaths ==
  ASSUME TypeOK
  PROVE  /\ BBOpened \in Seq(Elements)
         /\ Item.name # "table" => From(BBOpened, path)
<1>1. path \in Seq(Elements) /\ From(path, path)
  BY FromSelf DEF TypeOK
<1> DEFINE opens == BBOpens
           at == CASE opens[1] \in {"child", "tried"} -> becomeChild(path, opens[2], "none")
                   [] opens[1] = "here" -> path
                   [] opens[1] = "table" -> startTable(path, "bbcode")
                   [] opens[1] = "item" -> ListItem(path)
                   [] OTHER -> path
<1>2. opens[1] \in {"child", "tried"} => opens[2] \in ElementNames /\ opens[2] # "table"
  BY DEF BBOpens, ElementNames, pairs, simple_pairs, list_tags, table_only
<1>3. opens[1] = "table" => Item.name = "table"
  BY DEF BBOpens
<1>4. BBOpened = IF opens[1] = "text" \/ (opens[1] = "tried" /\ ~Item.fits)
                 THEN simple_parse(at) ELSE setTagtype(at, "bbcode")
  BY DEF BBOpened
<1> HIDE DEF opens
<1>5. CASE opens[1] # "table"
  <2>1. From(at, path)
    <3>1. opens[1] \in {"child", "tried"} => From(becomeChild(path, opens[2], "none"), path)
      BY <1>1, <1>2, ChildOf, TypeNames
    <3>2. QED
      BY <1>1, <1>5, <3>1, ListItemFacts
  <2> HIDE DEF at
  <2>2. From(simple_parse(at), path) /\ From(setTagtype(at, "bbcode"), path)
    BY <2>1, SimpleFacts, TagtypeOf, TypeNames
  <2>3. From(BBOpened, path)
    BY <1>4, <2>2
  <2>4. QED
    BY <2>3, FromType
<1>6. CASE opens[1] = "table"
  <2>1. at = startTable(path, "bbcode") /\ at \in Seq(Elements)
    BY <1>1, <1>6, StartTableFacts, TypeNames
  <2>2. BBOpened = setTagtype(at, "bbcode")
    BY <1>4, <1>6
  <2> HIDE DEF at
  <2>3. From(setTagtype(at, "bbcode"), at)
    BY <2>1, TagtypeFacts, TypeNames
  <2>4. QED
    BY <1>3, <1>6, <2>2, <2>3, FromType
<1>7. QED
  BY <1>5, <1>6

-----------------------------------------------------------------------------
(* The frames *)

FramesOK ==
  /\ frames \in Seq(Calls) /\ frames # <<>>
  /\ \A i \in 1..Len(frames) : frames[i].at \in 1..(Len(text[frames[i].page]) + 1)

(* The call on top goes on by an item that its text has. *)
LEMMA TopGoesOn ==
  ASSUME TypeOK, ~AtEnd, UNCHANGED text,
         NEW f \in Calls, f.page = Call.page, f.at = Call.at + 1,
         NEW g, g = [frames EXCEPT ![Len(frames)] = f]
  PROVE  /\ g \in Seq(Calls) /\ Len(g) = Len(frames) /\ g # <<>>
         /\ \A i \in 1..Len(g) : g[i].at \in 1..(Len(text[g[i].page]) + 1)
<1> DEFINE n == Len(frames)
<1>1. /\ n \in Nat \ {0} /\ Call.at \in 1..(Len(text[Call.page]) + 1)
      /\ text[Call.page] \in Seq(Items)
  BY CallFacts
<1>2. f.at \in 1..(Len(text[f.page]) + 1)
  BY <1>1 DEF AtEnd
<1>3. frames \in Seq(Calls) /\ n \in 1..Len(frames)
  BY <1>1 DEF TypeOK
<1> HIDE DEF n
<1>4. g = [frames EXCEPT ![n] = f]
  BY DEF n
<1>5. /\ g \in Seq(Calls) /\ Len(g) = Len(frames)
      /\ \A i \in 1..Len(frames) : g[i] = IF i = n THEN f ELSE frames[i]
  BY <1>3, <1>4
<1>6. g # <<>>
  <2>1. Len(g) # 0
    BY <1>1, <1>5 DEF n
  <2>2. QED
    BY <2>1
<1>7. \A i \in 1..Len(g) : g[i].at \in 1..(Len(text[g[i].page]) + 1)
  BY <1>2, <1>5 DEF TypeOK
<1>8. QED
  BY <1>5, <1>6, <1>7

LEMMA CallMoved ==
  ASSUME NEW c \in Calls, NEW a \in Nat
  PROVE  /\ [c EXCEPT !.at = a] \in Calls
         /\ [c EXCEPT !.at = a].page = c.page
         /\ [c EXCEPT !.at = a].at = a
BY DEF Calls

LEMMA ReadLineFacts ==
  ASSUME TypeOK, Reading, UNCHANGED text, path' \in Seq(Elements),
         NEW list \in Seq(Marks), ReadLine(list)
  PROVE  FramesOK'
<1> DEFINE c == Call
           a == c.at + 1
           p == path'
           f == [c EXCEPT !.at = a, !.list = list, !.line = p]
<1>1. frames' = [frames EXCEPT ![Len(frames)] = f]
  BY DEF ReadLine
<1>2. c \in Calls /\ a \in Nat /\ p \in Seq(Elements) /\ c = Call /\ a = Call.at + 1
  BY CallFacts
<1> HIDE DEF c, a, p
<1>3. f \in Calls /\ f.page = c.page /\ f.at = a
  BY <1>2, Zenon DEF Calls
<1> HIDE DEF f
<1>4. QED
  BY <1>1, <1>2, <1>3, TopGoesOn DEF FramesOK, Reading

LEMMA GoneFacts ==
  ASSUME TypeOK
  PROVE  Gone \in Calls /\ Gone.page = Call.page /\ Gone.at = Call.at + 1
<1>1. Call \in Calls /\ Call.at + 1 \in Nat
  BY CallFacts
<1>2. QED
  BY <1>1, CallMoved DEF Gone

LEMMA ReadFacts ==
  ASSUME TypeOK, Reading, UNCHANGED text, Read
  PROVE  FramesOK'
BY GoneFacts, TopGoesOn DEF FramesOK, Reading, Read

LEMMA ItemFacts ==
  ASSUME TypeOK, Reading
  PROVE  /\ Item \in Items
         /\ Item.item = "list" => Item.marks \in Seq(Marks) /\ Item.marks # <<>>
         /\ Item.item = "embed" => Item.page \in Pages
         /\ Item = text[Call.page][Call.at] /\ Call.page \in Pages
         /\ Call.at \in 1..Len(text[Call.page])
<1>1. /\ Call.at \in 1..(Len(text[Call.page]) + 1) /\ ~(Call.at > Len(text[Call.page]))
      /\ text[Call.page] \in Seq(Items) /\ Call.page \in Pages
  BY CallFacts DEF Reading, AtEnd
<1>2. Call.at \in 1..Len(text[Call.page])
  BY <1>1
<1>3. Item \in Items
  BY <1>1, <1>2 DEF Item
<1>4. Item.item = "list" => Item.marks \in Seq(Marks) /\ Item.marks # <<>>
  BY <1>3 DEF Items, Lines, Tags, Links, Embeds, Others
<1>5. Item.item = "embed" => Item.page \in Pages
  BY <1>3 DEF Items, Lines, Tags, Links, Embeds, Others
<1>6. QED
  BY <1>1, <1>2, <1>3, <1>4, <1>5 DEF Item

-----------------------------------------------------------------------------
(* The tables that are open, and the modes of tables *)

Balanced == Cardinality(Tables(path)) <= Cardinality(TableModes(mode))
Inv == TypeOK /\ (NoTableTags => Balanced)

LEMMA Finite ==
  /\ \A p \in Seq(Elements) : IsFiniteSet(Tables(p)) /\ Cardinality(Tables(p)) \in Nat
  /\ \A m \in Seq(Modes) : IsFiniteSet(TableModes(m)) /\ Cardinality(TableModes(m)) \in Nat
<1>1. ASSUME NEW n \in Nat, NEW S, S \subseteq 1..n PROVE IsFiniteSet(S) /\ Cardinality(S) \in Nat
  <2>1. IsFiniteSet(1..n)
    BY <1>1, FS_Interval
  <2>2. QED
    BY <1>1, <2>1, FS_Subset, FS_CardinalityType
<1>2. \A p \in Seq(Elements) : Tables(p) \subseteq 1..Len(p) /\ Len(p) \in Nat
  BY DEF Tables
<1>3. \A m \in Seq(Modes) : TableModes(m) \subseteq 1..Len(m) /\ Len(m) \in Nat
  BY DEF TableModes
<1>4. QED
  BY <1>1, <1>2, <1>3

(* Fewer of finite sets are not more. *)
LEMMA SubsetSize ==
  ASSUME NEW S, NEW T, IsFiniteSet(T), S \subseteq T
  PROVE  Cardinality(S) <= Cardinality(T)
BY FS_Subset

LEMMA AddedSize ==
  ASSUME NEW S, IsFiniteSet(S), NEW x
  PROVE  /\ IsFiniteSet(S \cup {x})
         /\ Cardinality(S \cup {x}) <= Cardinality(S) + 1
         /\ x \notin S => Cardinality(S \cup {x}) = Cardinality(S) + 1
<1> DEFINE n == Cardinality(S)
           m == Cardinality(S \cup {x})
<1>1. n \in Nat
  BY FS_CardinalityType
<1>2. IsFiniteSet(S \cup {x}) /\ m = IF x \in S THEN n ELSE n + 1
  BY FS_AddElement
<1> HIDE DEF n, m
<1>3. m <= n + 1 /\ (x \notin S => m = n + 1)
  BY <1>1, <1>2
<1>4. QED
  BY <1>2, <1>3 DEF n, m

LEMMA RemovedSize ==
  ASSUME NEW S, IsFiniteSet(S), NEW x
  PROVE  /\ IsFiniteSet(S \ {x})
         /\ Cardinality(S \ {x}) >= Cardinality(S) - 1
         /\ x \in S => Cardinality(S \ {x}) = Cardinality(S) - 1
<1> DEFINE n == Cardinality(S)
           m == Cardinality(S \ {x})
<1>1. n \in Nat
  BY FS_CardinalityType
<1>2. IsFiniteSet(S \ {x}) /\ m = IF x \in S THEN n - 1 ELSE n
  BY FS_RemoveElement
<1> HIDE DEF n, m
<1>3. m >= n - 1 /\ (x \in S => m = n - 1)
  BY <1>1, <1>2
<1>4. QED
  BY <1>2, <1>3 DEF n, m

LEMMA NothingIsBalanced ==
  ASSUME path' = <<>>, mode' \in Seq(Modes)
  PROVE  Balanced'
<1>1. Tables(path') = {}
  BY DEF Tables
<1>2. Cardinality(Tables(path')) = 0 /\ Cardinality(TableModes(mode')) \in Nat
  BY <1>1, FS_EmptySet, Finite
<1>3. QED
  BY <1>2 DEF Balanced

LEMMA BalanceKept ==
  ASSUME TypeOK, Balanced, From(path', path), Keeps(mode', mode)
  PROVE  Balanced'
<1>1. /\ path \in Seq(Elements) /\ path' \in Seq(Elements)
      /\ mode \in Seq(Modes) /\ mode' \in Seq(Modes)
  BY DEF TypeOK, From, Keeps
<1>2. /\ Cardinality(Tables(path')) <= Cardinality(Tables(path))
      /\ Cardinality(TableModes(mode)) <= Cardinality(TableModes(mode'))
  BY <1>1, Finite, SubsetSize DEF From, Keeps
<1>3. /\ Cardinality(Tables(path')) \in Nat /\ Cardinality(Tables(path)) \in Nat
      /\ Cardinality(TableModes(mode)) \in Nat /\ Cardinality(TableModes(mode')) \in Nat
  BY <1>1, Finite
<1>4. QED
  BY <1>2, <1>3 DEF Balanced

LEMMA InvOf ==
  ASSUME Inv, UNCHANGED text, FramesOK', path' \in Seq(Elements), mode' \in Seq(Modes),
         NoTableTags /\ Balanced => Balanced'
  PROVE  Inv'
<1>1. TypeOK'
  BY DEF Inv, TypeOK, FramesOK
<1>2. NoTableTags' => NoTableTags
  BY DEF NoTableTags
<1>3. QED
  BY <1>1, <1>2 DEF Inv

(* A step that opens no table and ends no mode of one. *)
LEMMA KeptStep ==
  ASSUME Inv, UNCHANGED text, FramesOK', From(path', path), Keeps(mode', mode)
  PROVE  Inv'
<1>1. path' \in Seq(Elements) /\ mode' \in Seq(Modes)
  BY DEF From, Keeps
<1>2. NoTableTags /\ Balanced => Balanced'
  BY BalanceKept DEF Inv
<1>3. QED
  BY <1>1, <1>2, InvOf

LEMMA LineStep ==
  ASSUME Inv, Reading, UNCHANGED text, NEW list \in Seq(Marks), ReadLine(list),
         From(path', path), Keeps(mode', mode)
  PROVE  Inv'
<1>1. FramesOK'
  BY ReadLineFacts, FromType DEF Inv
<1>2. QED
  BY <1>1, KeptStep

LEMMA ItemStep ==
  ASSUME Inv, Reading, UNCHANGED text, Read, From(path', path), Keeps(mode', mode)
  PROVE  Inv'
<1>1. FramesOK'
  BY ReadFacts DEF Inv
<1>2. QED
  BY <1>1, KeptStep

-----------------------------------------------------------------------------
(* Each of the steps *)

LEMMA Common ==
  ASSUME TypeOK
  PROVE  /\ path \in Seq(Elements) /\ From(path, path)
         /\ mode \in Seq(Modes) /\ Keeps(mode, mode)
         /\ From(simple_parse(path), path)
         /\ Keeps(After(mode, ModeTag), mode)
         /\ Keeps(LineModes, mode) /\ LineModes \in Seq(Modes)
         /\ Call.list \in Seq(Marks) /\ <<>> \in Seq(Marks)
<1>1. path \in Seq(Elements) /\ mode \in Seq(Modes)
  BY DEF TypeOK
<1>2. From(path, path)
  BY <1>1, FromSelf
<1>3. Keeps(mode, mode)
  BY <1>1, KeepsSelf
<1>4. From(simple_parse(path), path)
  BY <1>2, SimpleFacts
<1>5. Keeps(After(mode, ModeTag), mode)
  BY <1>1, AfterFacts, TagModes
<1>6. Keeps(LineModes, mode) /\ LineModes \in Seq(Modes)
  BY LineModesFacts
<1>7. Call.list \in Seq(Marks)
  BY CallFacts
<1>8. <<>> \in Seq(Marks)
  OBVIOUS
<1>9. QED
  BY <1>1, <1>2, <1>3, <1>4, <1>5, <1>6, <1>7, <1>8

LEMMA ListLineInv == Inv /\ listLine => Inv'
<1> SUFFICES ASSUME Inv, listLine PROVE Inv'
  OBVIOUS
<1>1. TypeOK /\ Reading /\ Item.item = "list"
  BY DEF Inv, listLine, ListLine, Meets
<1>2. Item.marks \in Seq(Marks) /\ Item.marks # <<>>
  BY <1>1, ItemFacts
<1>3. From(ListPath(LinePath(FALSE, TRUE), Call.list, Item.marks), path)
  BY <1>1, <1>2, LinePathFacts, ListPathFacts, Common
<1>4. From(path', path)
  BY <1>3, TagtypeOf, TypeNames DEF listLine
<1>5. QED
  BY <1>1, <1>2, <1>4, Common, LineStep DEF listLine

LEMMA IndentLineInv == Inv /\ indentLine => Inv'
<1> SUFFICES ASSUME Inv, indentLine PROVE Inv'
  OBVIOUS
<1>1. TypeOK /\ Reading
  BY DEF Inv, indentLine, Line, Meets
<1>2. "pre" \in ElementNames /\ "pre" # "table"
  BY DEF ElementNames, pairs
<1>3. From(Ended, path) /\ From(becomeChild(Ended, "pre", "wiki"), path)
  BY <1>1, <1>2, EndedFacts, ChildOf, TypeNames
<1>4. Keeps(Opened("wikiindent"), mode)
  <2>1. Opened("wikiindent") = After(mode, [item |-> "open", mode |-> "wikiindent"])
    BY DEF Opened
  <2>2. QED
    BY <1>1, <2>1, AfterFacts, Common
<1>5. From(path', path) /\ Keeps(mode', mode)
  BY <1>1, <1>3, <1>4, Common DEF indentLine
<1>6. QED
  BY <1>1, <1>5, Common, LineStep DEF indentLine

LEMMA BlankLineInv == Inv /\ blankLine => Inv'
<1> SUFFICES ASSUME Inv, blankLine PROVE Inv'
  OBVIOUS
<1>1. TypeOK /\ Reading
  BY DEF Inv, blankLine, Line, Meets
<1> DEFINE ended == EndLists(Ended)
           inner == IF At(ended, {"p"}) THEN becomeParent(ended) ELSE ended
<1>2. From(ended, path)
  BY <1>1, EndedFacts, EndListsFacts
<1>3. From(inner, path)
  BY <1>2, ParentOf
<1>4. path' = becomeChild(inner, "p", "wiki") /\ mode' = mode
  BY DEF blankLine
<1> HIDE DEF inner
<1>5. From(path', path)
  BY <1>3, <1>4, ChildOf, TypeNames
<1>6. Keeps(mode', mode)
  BY <1>1, <1>4, Common
<1>7. QED
  BY <1>1, <1>5, <1>6, Common, LineStep DEF blankLine

LEMMA HeaderRuleInv == Inv /\ (headerLine \/ ruleLine) => Inv'
<1> SUFFICES ASSUME Inv, headerLine \/ ruleLine PROVE Inv'
  OBVIOUS
<1>1. TypeOK /\ Reading
  BY DEF Inv, headerLine, ruleLine, Line, Meets
<1>2. From(EndLists(LinePath(FALSE, FALSE)), path)
  BY <1>1, LinePathFacts, EndListsFacts
<1>3. From(HeaderPath(EndLists(LinePath(FALSE, FALSE))), path)
  BY <1>1, <1>2, HeaderPathFacts
<1>4. From(path', path) /\ Keeps(mode', mode)
  BY <1>1, <1>2, <1>3, Common DEF headerLine, ruleLine
<1>5. QED
  BY <1>1, <1>4, Common, LineStep DEF headerLine, ruleLine

(* A table that is opened has a mode of its own. *)
LEMMA OpenTableInv == Inv /\ openTable => Inv'
<1> SUFFICES ASSUME Inv, openTable PROVE Inv'
  OBVIOUS
<1>1. TypeOK /\ Reading
  BY DEF Inv, openTable, Line, Meets
<1> DEFINE q == EndLists(LinePath(FALSE, FALSE))
           m == LineModes
<1>2. From(q, path)
  BY <1>1, LinePathFacts, EndListsFacts
<1>3. path' \in Seq(Elements) /\ Tables(path') \subseteq Tables(path) \cup {Len(q) + 1}
  BY <1>2, StartTableFacts, TypeNames DEF openTable
<1>4. Keeps(m, mode) /\ m \in Seq(Modes) /\ "wikitable" \in Modes
  BY <1>1, Common DEF Modes
<1>5. /\ mode' \in Seq(Modes)
      /\ TableModes(mode) \subseteq TableModes(mode')
      /\ Len(m) + 1 \in TableModes(mode') /\ Len(m) + 1 \notin TableModes(mode)
  BY <1>4, AppendMode DEF openTable, Keeps
<1>6. ASSUME Balanced PROVE Balanced'
  <2> DEFINE a == Tables(path)
             b == TableModes(mode)
             x == Len(q) + 1
             y == Len(m) + 1
  <2>1. IsFiniteSet(a) /\ IsFiniteSet(b) /\ IsFiniteSet(TableModes(mode'))
    BY <1>1, <1>5, Common, Finite
  <2>2. /\ IsFiniteSet(a \cup {x}) /\ IsFiniteSet(b \cup {y})
        /\ Cardinality(a \cup {x}) <= Cardinality(a) + 1
        /\ Cardinality(b \cup {y}) = Cardinality(b) + 1
    <3>1. y \notin b
      BY <1>5
    <3> HIDE DEF a, b, x, y
    <3>2. QED
      BY <2>1, <3>1, AddedSize
  <2>3. Tables(path') \subseteq a \cup {x} /\ b \cup {y} \subseteq TableModes(mode')
    BY <1>3, <1>5
  <2>4. /\ Cardinality(Tables(path')) <= Cardinality(a \cup {x})
        /\ Cardinality(b \cup {y}) <= Cardinality(TableModes(mode'))
    BY <2>1, <2>2, <2>3, SubsetSize
  <2>5. /\ Cardinality(a) \in Nat /\ Cardinality(b) \in Nat
        /\ Cardinality(a \cup {x}) \in Nat
        /\ Cardinality(Tables(path')) \in Nat /\ Cardinality(TableModes(mode')) \in Nat
    BY <1>1, <1>3, <1>5, <2>2, Common, Finite, FS_CardinalityType
  <2>6. Cardinality(a) <= Cardinality(b)
    BY <1>6 DEF Balanced
  <2> HIDE DEF a, b, x, y
  <2>7. Cardinality(Tables(path')) <= Cardinality(TableModes(mode'))
    BY <2>2, <2>4, <2>5, <2>6
  <2>8. QED
    BY <2>7 DEF Balanced
<1>7. FramesOK'
  BY <1>1, <1>3, Common, ReadLineFacts DEF openTable
<1>8. QED
  BY <1>3, <1>5, <1>6, <1>7, InvOf DEF openTable

(* The mode that is closed with a table is that of its line: it stays open, and does no harm. *)
LEMMA TableLineInv == Inv /\ tableLine => Inv'
<1> SUFFICES ASSUME Inv, tableLine PROVE Inv'
  OBVIOUS
<1>1. TypeOK /\ Reading
  BY DEF Inv, tableLine, Line, Meets
<1>2. From(path', path)
  BY <1>1, LinePathFacts, EndListsFacts, TablePartFacts DEF tableLine
<1> DEFINE m == Append(LineModes, "wikitableline")
<1>3. Keeps(m, mode) /\ m \in Seq(Modes) /\ m # <<>> /\ m[Len(m)] = "wikitableline"
  <2>1. LineModes \in Seq(Modes) /\ Keeps(LineModes, mode) /\ "wikitableline" \in Modes
    BY <1>1, Common DEF Modes
  <2>2. Keeps(m, LineModes)
    BY <2>1, AppendMode
  <2>3. m # <<>> /\ m[Len(m)] = "wikitableline"
    BY <2>1, LastOfAppend
  <2>4. QED
    BY <2>1, <2>2, <2>3, KeepsKeeps DEF Keeps
<1>4. mode' \in {m, Closed(m, "wikitable")}
  BY DEF tableLine
<1> HIDE DEF m
<1>5. Closed(m, "wikitable") = m
  BY <1>3 DEF Closed, After, Closes, Current
<1>6. Keeps(mode', mode)
  BY <1>3, <1>4, <1>5
<1>7. QED
  BY <1>1, <1>2, <1>6, Common, LineStep DEF tableLine

(* A line that ends a table ends its mode as well, and no more than it. *)
LEMMA PlainLineInv == Inv /\ plainLine => Inv'
<1> SUFFICES ASSUME Inv, plainLine PROVE Inv'
  OBVIOUS
<1>1. TypeOK /\ Reading
  BY DEF Inv, plainLine, Line, Meets
<1> DEFINE isCell == Item.first # "plain"
           q == EndLists(LinePath(isCell, FALSE))
           begun == IF Item.first = "plain" THEN q ELSE simple_parse(q)
<1>2. From(q, path) /\ From(begun, path) /\ q \in Seq(Elements)
  BY <1>1, LinePathFacts, EndListsFacts, SimpleFacts, FromType
<1>3. CASE ~(Is(LineModes, "wikitable") /\ At(q, {"table"}))
  <2>1. path' = begun /\ mode' = LineModes
    BY <1>3 DEF plainLine
  <2>2. From(path', path) /\ Keeps(mode', mode)
    BY <1>1, <1>2, <2>1, Common
  <2>3. QED
    BY <1>1, <2>2, Common, LineStep DEF plainLine
<1>4. CASE Is(LineModes, "wikitable") /\ At(q, {"table"})
  <2>1. path' = endTable(q, "wiki") /\ mode' = Closed(LineModes, "wikitable")
    BY <1>4 DEF plainLine
  <2>2. /\ path' \in Seq(Elements) /\ mode' \in Seq(Modes)
        /\ TableModes(LineModes) \ {Len(LineModes)} \subseteq TableModes(mode')
    BY <1>1, <1>2, <2>1, PartOf, TypeNames, FromType, Common, ClosedFacts
  <2>3. endRow(q, "wiki") = q
    BY <1>4 DEF endRow, endCell, At
  <2>4. path' \in {<<>>, becomeParent(q)}
    BY <2>1, <2>3 DEF endTable, AssertTable, becomeParent
  <2>5. ASSUME Balanced PROVE Balanced'
    <3>1. CASE path' = <<>>
      BY <2>2, <3>1, NothingIsBalanced
    <3>2. CASE path' = becomeParent(q)
      <4> DEFINE a == Tables(path)
                 b == TableModes(LineModes)
                 x == Len(q)
                 y == Len(LineModes)
      <4>1. IsFiniteSet(a) /\ IsFiniteSet(b) /\ IsFiniteSet(TableModes(mode'))
        BY <1>1, <2>2, Common, Finite
      <4>2. /\ x \in a /\ Tables(path') \subseteq a \ {x}
            /\ b \ {y} \subseteq TableModes(mode')
        BY <1>2, <1>4, <2>2, <3>2, ParentOfTable DEF From
      <4>3. Cardinality(TableModes(mode)) <= Cardinality(b)
        BY <1>1, <4>1, Common, SubsetSize DEF Keeps
      <4>4. /\ IsFiniteSet(a \ {x}) /\ Cardinality(a \ {x}) = Cardinality(a) - 1
            /\ IsFiniteSet(b \ {y}) /\ Cardinality(b \ {y}) >= Cardinality(b) - 1
        <5>1. x \in a
          BY <4>2
        <5> HIDE DEF a, b, x, y
        <5>2. QED
          BY <4>1, <5>1, RemovedSize
      <4>5. /\ Cardinality(Tables(path')) <= Cardinality(a \ {x})
            /\ Cardinality(b \ {y}) <= Cardinality(TableModes(mode'))
        BY <4>1, <4>2, <4>4, SubsetSize
      <4>6. /\ Cardinality(a) \in Nat /\ Cardinality(b) \in Nat
            /\ Cardinality(TableModes(mode)) \in Nat
            /\ Cardinality(a \ {x}) \in Nat /\ Cardinality(b \ {y}) \in Nat
            /\ Cardinality(Tables(path')) \in Nat /\ Cardinality(TableModes(mode')) \in Nat
        BY <1>1, <2>2, <4>1, <4>4, Common, Finite, FS_CardinalityType
      <4>7. Cardinality(a) <= Cardinality(TableModes(mode))
        BY <2>5 DEF Balanced
      <4> HIDE DEF a, b, x, y
      <4>8. Cardinality(Tables(path')) <= Cardinality(TableModes(mode'))
        BY <4>3, <4>4, <4>5, <4>6, <4>7
      <4>9. QED
        BY <4>8 DEF Balanced
    <3>3. QED
      BY <2>4, <3>1, <3>2
  <2>6. FramesOK'
    BY <1>1, <2>2, Common, ReadLineFacts DEF plainLine
  <2>7. QED
    BY <2>2, <2>5, <2>6, InvOf DEF plainLine
<1>5. QED
  BY <1>3, <1>4
LEMMA RawAndTextInv == Inv /\ (rawLine \/ readText \/ readCss \/ readRaw) => Inv'
<1> SUFFICES ASSUME Inv, rawLine \/ readText \/ readCss \/ readRaw PROVE Inv'
  OBVIOUS
<1>1. TypeOK
  BY DEF Inv
<1>2. CASE rawLine
  <2>1. Reading
    BY <1>2 DEF rawLine, Meets
  <2>2. From(path', path) /\ Keeps(mode', mode)
    BY <1>1, <1>2, EndedFacts, SimpleFacts, Common DEF rawLine
  <2>3. QED
    BY <1>1, <1>2, <2>1, <2>2, Common, LineStep DEF rawLine
<1>3. CASE readText
  <2>1. Reading /\ From(path', path) /\ Keeps(mode', mode)
    BY <1>1, <1>3, Common DEF readText, Meets
  <2>2. QED
    BY <1>3, <2>1, ItemStep DEF readText
<1>4. CASE readCss
  <2>1. Keeps(Closed(mode, "css"), mode)
    BY <1>1, Common, ClosedFacts
  <2>2. Reading /\ From(path', path) /\ Keeps(mode', mode)
    BY <1>1, <1>4, <2>1, Common DEF readCss
  <2>3. QED
    BY <1>4, <2>2, ItemStep DEF readCss
<1>5. CASE readRaw
  <2>1. Reading /\ From(path', path) /\ Keeps(mode', mode)
    BY <1>1, <1>5, FromNothing, Common DEF readRaw, Meets
  <2>2. QED
    BY <1>5, <2>1, ItemStep DEF readRaw
<1>6. QED
  BY <1>2, <1>3, <1>4, <1>5

LEMMA InlineCellInv == Inv /\ inlineCell => Inv'
<1> SUFFICES ASSUME Inv, inlineCell PROVE Inv'
  OBVIOUS
<1>1. TypeOK /\ Reading
  BY DEF Inv, inlineCell, Meets
<1>2. From(startCell(path, "wiki"), path) /\ From(startHeader(path, "wiki"), path)
  BY <1>1, Common, PartOf, TypeNames
<1>3. From(path', path) /\ Keeps(mode', mode)
  BY <1>1, <1>2, Common DEF inlineCell
<1>4. QED
  BY <1>1, <1>3, ItemStep DEF inlineCell

(* A tag of a name other than that of a table. *)
LEMMA AppliedInv ==
  ASSUME Inv, Reading, Item.item \in {"open", "close"}, NEW p, Apply(p),
         p \in Seq(Elements), Item.name # "table" => From(p, path)
  PROVE  Inv'
<1>1. TypeOK /\ path' = p /\ mode' = After(mode, ModeTag) /\ Read /\ UNCHANGED text
  BY DEF Inv, Apply
<1>2. Keeps(mode', mode)
  BY <1>1, Common
<1>3. ASSUME NoTableTags PROVE Item.name # "table"
  BY <1>1, <1>3, ItemFacts DEF NoTableTags
<1>4. NoTableTags /\ Balanced => Balanced'
  BY <1>1, <1>2, <1>3, BalanceKept
<1>5. FramesOK'
  BY <1>1, ReadFacts
<1>6. QED
  BY <1>1, <1>2, <1>4, <1>5, InvOf DEF Keeps

LEMMA TagInv == Inv /\ (closeHtml \/ closeBB \/ openHtml \/ openBB) => Inv'
<1> SUFFICES ASSUME Inv, closeHtml \/ closeBB \/ openHtml \/ openBB PROVE Inv'
  OBVIOUS
<1>1. TypeOK /\ Reading /\ Item.item \in {"open", "close"}
  BY DEF Inv, closeHtml, closeBB, openHtml, openBB, Tag, Tagged, Meets
<1>2. From(path, path) /\ From(simple_parse(path), path)
  BY <1>1, Common
<1>3. CASE closeHtml
  <2>1. From(HtmlClosed, path)
    BY <1>1, ClosedPaths
  <2>2. QED
    BY <1>1, <1>3, <2>1, FromType, AppliedInv DEF closeHtml
<1>4. CASE closeBB
  <2> DEFINE p == IF Bbcode(mode) \/ Item.name = "code" THEN BBClosed ELSE path
  <2>1. From(p, path)
    BY <1>1, <1>2, ClosedPaths
  <2>2. Apply(p)
    BY <1>4 DEF closeBB
  <2> HIDE DEF p
  <2>3. QED
    BY <1>1, <2>1, <2>2, FromType, AppliedInv
<1>5. CASE openHtml
  <2>1. Apply(HtmlOpened)
    BY <1>5 DEF openHtml
  <2>2. QED
    BY <1>1, <2>1, HtmlPaths, AppliedInv
<1>6. CASE openBB
  <2> DEFINE p == IF Bbcode(mode) THEN BBOpened ELSE simple_parse(path)
  <2>1. p \in Seq(Elements) /\ (Item.name # "table" => From(p, path))
    BY <1>1, <1>2, BBPaths, FromType
  <2>2. Apply(p)
    BY <1>6 DEF openBB
  <2> HIDE DEF p
  <2>3. QED
    BY <1>1, <2>1, <2>2, AppliedInv
<1>7. QED
  BY <1>3, <1>4, <1>5, <1>6

LEMMA LinkInv == Inv /\ (readLink \/ skipEmbed) => Inv'
<1> SUFFICES ASSUME Inv, readLink \/ skipEmbed PROVE Inv'
  OBVIOUS
<1>1. TypeOK /\ Reading
  BY DEF Inv, readLink, skipEmbed, Tagged, Meets
<1>2. "a" \in ElementNames /\ "a" # "table"
  BY DEF ElementNames
<1>3. From(path, path) /\ From(simple_parse(path), path) /\ From(becomeChild(path, "a", "wiki"), path)
  BY <1>1, <1>2, Common, ChildOf, TypeNames
<1>4. /\ From(path', path) /\ mode' = After(mode, ModeTag)
      /\ Read /\ UNCHANGED text
  BY <1>3 DEF readLink, skipEmbed, Apply
<1>5. Keeps(mode', mode)
  BY <1>1, <1>4, Common
<1>6. QED
  BY <1>1, <1>4, <1>5, ItemStep

(* A call that is made begins at the first item of its page. *)
LEMMA FrameFacts ==
  ASSUME TypeOK, NEW page \in Pages
  PROVE  Frame(page, path, mode) \in Calls /\ Frame(page, path, mode).page = page
         /\ Frame(page, path, mode).at = 1
<1>1. path \in Seq(Elements) /\ mode \in Seq(Modes) /\ <<>> \in Seq(Marks) /\ 1 \in Nat
  BY Common
<1>2. QED
  BY <1>1 DEF Frame, Calls

LEMMA EmbedInv == Inv /\ embed => Inv'
<1> SUFFICES ASSUME Inv, embed PROVE Inv'
  OBVIOUS
<1>1. TypeOK /\ Reading /\ Item.item = "embed"
  BY DEF Inv, embed, Tagged, Meets
<1>2. UNCHANGED <<text, path, mode>>
  BY DEF embed
<1> DEFINE g == [frames EXCEPT ![Len(frames)] = Gone]
           f == Frame(Item.page, path, mode)
<1>3. /\ g \in Seq(Calls) /\ g # <<>>
      /\ \A i \in 1..Len(g) : g[i].at \in 1..(Len(text[g[i].page]) + 1)
  BY <1>1, <1>2, GoneFacts, TopGoesOn DEF Reading
<1>4. Item.page \in Pages
  BY <1>1, ItemFacts
<1>5. f \in Calls /\ f.page = Item.page /\ f.at = 1
  BY <1>1, <1>4, FrameFacts
<1>6. f.at \in 1..(Len(text[f.page]) + 1)
  <2>1. text[f.page] \in Seq(Items)
    BY <1>1, <1>4, <1>5 DEF TypeOK
  <2>2. QED
    BY <1>5, <2>1
<1>7. frames' = Append(g, f)
  BY DEF embed
<1> HIDE DEF g, f
<1>8. /\ frames' \in Seq(Calls) /\ Len(frames') = Len(g) + 1 /\ Len(g) \in Nat
      /\ \A i \in 1..Len(g) : frames'[i] = g[i]
      /\ frames'[Len(g) + 1] = f
  BY <1>3, <1>5, <1>7
<1>9. frames' # <<>>
  BY <1>8, EmptySeq
<1>10. \A i \in 1..Len(frames') : frames'[i].at \in 1..(Len(text[frames'[i].page]) + 1)
  BY <1>3, <1>6, <1>8
<1>11. FramesOK'
  BY <1>2, <1>8, <1>9, <1>10 DEF FramesOK
<1>12. From(path', path) /\ Keeps(mode', mode)
  BY <1>1, <1>2, Common
<1>13. QED
  BY <1>2, <1>11, <1>12, KeptStep

LEMMA ReturnInv == Inv /\ embeddedReturns => Inv'
<1> SUFFICES ASSUME Inv, embeddedReturns PROVE Inv'
  OBVIOUS
<1>1. TypeOK
  BY DEF Inv
<1>2. UNCHANGED <<text, path, mode>>
  BY DEF embeddedReturns
<1> DEFINE k == Len(frames) - 1
<1>3. k \in Nat \ {0} /\ k \in 0..Len(frames) /\ frames \in Seq(Calls)
  BY <1>1, CallFacts DEF embeddedReturns, Embedded, TypeOK
<1>4. frames' = SubSeq(frames, 1, k)
  BY DEF embeddedReturns
<1>5. \A i \in 1..k : i \in 1..Len(frames)
  BY <1>3
<1> HIDE DEF k
<1>6. /\ frames' \in Seq(Calls) /\ Len(frames') = k
      /\ \A i \in 1..k : frames'[i] = frames[i]
  BY <1>3, <1>4, FrontItems
<1>7. frames' # <<>>
  BY <1>3, <1>6, EmptySeq
<1>8. \A i \in 1..Len(frames') : frames'[i].at \in 1..(Len(text[frames'[i].page]) + 1)
  BY <1>1, <1>5, <1>6 DEF TypeOK
<1>9. FramesOK'
  BY <1>2, <1>6, <1>7, <1>8 DEF FramesOK
<1>10. From(path', path) /\ Keeps(mode', mode)
  BY <1>1, <1>2, Common
<1>11. QED
  BY <1>2, <1>9, <1>10, KeptStep

-----------------------------------------------------------------------------
(* The theorems *)

LEMMA InitInv == Init => Inv
<1> SUFFICES ASSUME Init PROVE Inv
  OBVIOUS
<1>1. text \in Texts /\ path = <<Root>> /\ mode = <<>> /\ frames = <<Frame(Main, <<Root>>, <<>>)>>
  BY DEF Init
<1>2. Root \in Elements /\ Root.name # "table"
  BY DEF Root, Element, Elements, ElementNames, pairs, Types
<1>3. path \in Seq(Elements) /\ Len(path) = 1 /\ path[1] = Root
  BY <1>1, <1>2
<1>4. mode \in Seq(Modes)
  BY <1>1
<1> DEFINE f == Frame(Main, path, mode)
<1>5. f \in Calls /\ f.page = Main /\ f.at = 1
  <2>1. <<>> \in Seq(Marks) /\ 1 \in Nat
    OBVIOUS
  <2>2. QED
    BY <1>3, <1>4, <2>1, MainAssumption DEF Frame, Calls
<1>6. f.at \in 1..(Len(text[f.page]) + 1)
  <2>1. text[f.page] \in Seq(Items)
    BY <1>1, <1>5, TextsAssumption, MainAssumption
  <2>2. QED
    BY <1>5, <2>1
<1>7. frames = <<f>>
  BY <1>1
<1> HIDE DEF f
<1>8. frames \in Seq(Calls) /\ frames # <<>> /\ Len(frames) = 1 /\ frames[1] = f
  BY <1>5, <1>7
<1>9. TypeOK
  <2>1. text \in [Pages -> Seq(Items)]
    BY <1>1, TextsAssumption
  <2>2. QED
    BY <1>3, <1>4, <1>6, <1>8, <2>1 DEF TypeOK
<1>10. Balanced
  <2>1. Tables(path) = {}
    BY <1>2, <1>3 DEF Tables
  <2>2. Cardinality(Tables(path)) = 0 /\ Cardinality(TableModes(mode)) \in Nat
    BY <1>4, <2>1, FS_EmptySet, Finite
  <2>3. QED
    BY <2>2 DEF Balanced
<1>11. QED
  BY <1>9, <1>10 DEF Inv

LEMMA NextInv == Inv /\ [Next]_vars => Inv'
<1> SUFFICES ASSUME Inv, [Next]_vars PROVE Inv'
  OBVIOUS
<1>1. CASE listLine
  BY <1>1, ListLineInv
<1>2. CASE indentLine
  BY <1>2, IndentLineInv
<1>3. CASE blankLine
  BY <1>3, BlankLineInv
<1>4. CASE headerLine \/ ruleLine
  BY <1>4, HeaderRuleInv
<1>5. CASE openTable
  BY <1>5, OpenTableInv
<1>6. CASE tableLine
  BY <1>6, TableLineInv
<1>7. CASE plainLine
  BY <1>7, PlainLineInv
<1>8. CASE rawLine \/ readText \/ readCss \/ readRaw
  BY <1>8, RawAndTextInv
<1>9. CASE inlineCell
  BY <1>9, InlineCellInv
<1>10. CASE closeHtml \/ closeBB \/ openHtml \/ openBB
  BY <1>10, TagInv
<1>11. CASE readLink \/ skipEmbed
  BY <1>11, LinkInv
<1>12. CASE embed
  BY <1>12, EmbedInv
<1>13. CASE embeddedReturns
  BY <1>13, ReturnInv
<1>14. CASE UNCHANGED vars
  BY <1>14 DEF vars, Inv, TypeOK, NoTableTags, Balanced
<1>15. QED
  BY <1>1, <1>2, <1>3, <1>4, <1>5, <1>6, <1>7, <1>8, <1>9, <1>10, <1>11, <1>12, <1>13, <1>14
     DEF Next

(* The types, and the balance of tables and their modes, hold in every behaviour. *)
THEOREM Invariance == Spec => []Inv
BY InitInv, NextInv, PTL DEF Spec

(* Whatever the pages and their texts, every call of parse() is at an item of its text or *)
(* just behind the last, and only elements that are known are made.                        *)
THEOREM TypeCorrect == Spec => []TypeOK
<1>1. Inv => TypeOK
  BY DEF Inv
<1>2. QED
  BY <1>1, Invariance, PTL

(* In texts without tags of the name of a table there are never more tables open than modes *)
(* of wiki tables: whichever line, embedded page or tag closes them, while one is open the   *)
(* lines that go on with it are looked for.                                                  *)
THEOREM TablesGoOn == Spec => []OpenTableGoesOn
<1>1. Inv => OpenTableGoesOn
  BY DEF Inv, Balanced, OpenTableGoesOn
<1>2. QED
  BY <1>1, Invariance, PTL

-----------------------------------------------------------------------------
(* What a header closes *)

LEMMA ClimbIsFront ==
  ASSUME NEW p \in Seq(Elements), NEW positions \in SUBSET (1..Len(p)), positions # {}
  PROVE  \E k \in positions : /\ ClimbTo(p, positions) = SubSeq(p, 1, k)
                              /\ \A j \in positions : j <= k
<1>1. positions \subseteq 0..Len(p) /\ Len(p) \in Nat
  OBVIOUS
<1>2. \E i \in positions : \A j \in positions : j <= i
  BY <1>1, GreatestNumber
<1> DEFINE k == CHOOSE i \in positions : \A j \in positions : j <= i
<1>3. k \in positions /\ \A j \in positions : j <= k
  BY <1>2
<1>4. ClimbTo(p, positions) = SubSeq(p, 1, k)
  BY DEF ClimbTo
<1> HIDE DEF k
<1>5. QED
  BY <1>3, <1>4

(* What the end of a list closes are lists and their items. *)
LEMMA EndListsCloses ==
  ASSUME TypeOK, NEW q \in Seq(Elements)
  PROVE  \E k \in 0..Len(q) : /\ EndLists(q) = SubSeq(q, 1, k)
                              /\ \A i \in (k + 1)..Len(q) : q[i].name \notin Kept
<1> DEFINE ends == Endings(q, Len(Call.list))
           k == CHOOSE l \in ends : \A j \in ends : l <= j
<1>1. Len(q) \in Nat /\ Len(Call.list) \in Nat
  BY CallFacts
<1>2. Len(q) \in ends
  <2>1. Turns(q, Len(q)) = {}
    BY <1>1 DEF Turns
  <2>2. Cardinality(Turns(q, Len(q))) = 0
    BY <2>1, FS_EmptySet
  <2>3. \A i \in (Len(q) + 1)..Len(q) : FALSE
    BY <1>1
  <2>4. QED
    BY <1>1, <2>2, <2>3 DEF Endings
<1>3. ends \subseteq Nat /\ ends # {}
  BY <1>1, <1>2 DEF Endings
<1> HIDE DEF ends
<1>4. k \in ends
  BY <1>3, LeastNumber
<1>5. EndLists(q) = SubSeq(q, 1, k)
  BY DEF EndLists, ends
<1> HIDE DEF k
<1>6. k \in 0..Len(q) /\ \A i \in (k + 1)..Len(q) : q[i].name \in list_tags \cup list_items
  BY <1>4 DEF ends, Endings
<1>7. \A name \in list_tags \cup list_items : name \notin Kept
  BY DEF Kept, list_tags, list_items, table_only
<1>8. QED
  BY <1>5, <1>6, <1>7

(* Neither preformatted text nor a part of a table is left on the way up to where a header stands. *)
LEMMA HeaderPathCloses ==
  ASSUME NEW q \in Seq(Elements)
  PROVE  \E k \in 0..Len(q) : /\ HeaderPath(q) = SubSeq(q, 1, k)
                              /\ \A i \in (k + 1)..Len(q) : q[i].name \notin Kept
<1>0. Len(q) \in Nat
  OBVIOUS
<1>1. CASE q = <<>>
  <2>1. Len(q) = 0 /\ SubSeq(q, 1, 0) = <<>>
    BY <1>1
  <2>2. HeaderPath(q) = SubSeq(q, 1, 0)
    BY <1>1, <2>1 DEF HeaderPath
  <2>3. QED
    BY <2>1, <2>2
<1>2. CASE q # <<>>
  <2> DEFINE positions == {1} \cup Named(q, {"pre"} \cup table_only)
  <2>1. 1 \in 1..Len(q)
    BY <1>2, NotEmpty
  <2>2. positions \in SUBSET (1..Len(q))
    BY <2>1, NamedPositions
  <2>3. HeaderPath(q) = ClimbTo(q, positions)
    BY <1>2 DEF HeaderPath
  <2>4. \A i \in 1..Len(q) : q[i].name \in Kept => i \in positions
    BY DEF Named, Kept
  <2> HIDE DEF positions
  <2>0. positions # {}
    BY DEF positions
  <2>5. PICK k \in positions : /\ ClimbTo(q, positions) = SubSeq(q, 1, k)
                               /\ \A j \in positions : j <= k
    BY <2>0, <2>2, ClimbIsFront, Zenon
  <2>8. k \in 0..Len(q)
    BY <1>0, <2>2, <2>5
  <2>6. \A i \in (k + 1)..Len(q) : q[i].name \notin Kept
    BY <1>0, <2>4, <2>5, <2>8
  <2>7. QED
    BY <2>3, <2>5, <2>6, <2>8
<1>3. QED
  BY <1>1, <1>2

(* One path goes on where another ends. *)
Extends(q, p) ==
  /\ p \in Seq(Elements) /\ q \in Seq(Elements) /\ Len(p) <= Len(q)
  /\ \A i \in 1..Len(p) : q[i] = p[i]
  /\ \A i \in (Len(p) + 1)..Len(q) : q[i].name \notin Kept

LEMMA ParagraphExtends ==
  ASSUME NEW p, NEW q, Extends(q, p)
  PROVE  Extends(becomeChild(q, "p", "wiki"), p)
<1>1. CASE q = <<>>
  BY <1>1 DEF becomeChild
<1>2. CASE q # <<>>
  <2> DEFINE e == Element("p", "wiki")
             r == Append(q, e)
  <2>1. e \in Elements /\ e.name \notin Kept
    BY TypeNames DEF Element, Elements, Kept, table_only
  <2>2. becomeChild(q, "p", "wiki") = r
    BY <1>2 DEF becomeChild
  <2>3. Len(p) \in Nat /\ Len(q) \in Nat /\ q \in Seq(Elements)
    BY DEF Extends
  <2> HIDE DEF e
  <2>4. /\ r \in Seq(Elements) /\ Len(r) = Len(q) + 1
        /\ \A i \in 1..Len(q) : r[i] = q[i]
        /\ r[Len(q) + 1] = e
    BY <2>1, <2>3
  <2> HIDE DEF r
  <2>5. p \in Seq(Elements) /\ Len(p) <= Len(r) /\ \A i \in 1..Len(p) : r[i] = p[i]
    BY <2>3, <2>4 DEF Extends
  <2>6. ASSUME NEW i \in (Len(p) + 1)..Len(r) PROVE r[i].name \notin Kept
    <3>1. CASE i = Len(q) + 1
      BY <2>1, <2>4, <3>1
    <3>2. CASE i # Len(q) + 1
      <4>1. i \in (Len(p) + 1)..Len(q) /\ i \in 1..Len(q)
        BY <2>3, <2>4, <3>2
      <4>2. QED
        BY <2>4, <4>1 DEF Extends
    <3>3. QED
      BY <3>1, <3>2
  <2>7. QED
    BY <2>2, <2>4, <2>5, <2>6 DEF Extends
<1>3. QED
  BY <1>1, <1>2

LEMMA EndedExtends == ASSUME TypeOK PROVE Extends(Ended, path)
<1>1. Extends(path, path)
  BY DEF Extends, TypeOK
<1>2. QED
  BY <1>1, ParagraphExtends DEF Ended, simple_parse

(* At the start of a line the path goes on from where it was; or the text of an indented line *)
(* has ended, and with it all that was open in the nearest preformatted text.                  *)
LEMMA LinePathCloses ==
  ASSUME TypeOK, NEW isCell, NEW isList
  PROVE  LET q == LinePath(isCell, isList) IN
         \/ Extends(q, path)
         \/ /\ Is(mode, "wikiindent")
            /\ \E k \in 1..Len(path) : /\ path[k].name = "pre"
                                       /\ \A j \in (k + 1)..Len(path) : path[j].name # "pre"
                                       /\ q = SubSeq(path, 1, k - 1)
<1> DEFINE e == Ended
           positions == Named(e, {"pre"})
           q == LinePath(isCell, isList)
<1>1. Extends(e, path) /\ e \in Seq(Elements) /\ path \in Seq(Elements)
  BY EndedExtends DEF Extends
<1>2. Extends(becomeChild(e, "p", "wiki"), path)
  BY <1>1, ParagraphExtends
<1>3. \/ q = e \/ q = becomeChild(e, "p", "wiki")
      \/ /\ Is(Closed(mode, "wikitableline"), "wikiindent") /\ inStack(e, "pre")
         /\ q = becomeParent(ClimbTo(e, positions))
  BY DEF LinePath
<1>4. Is(Closed(mode, "wikitableline"), "wikiindent") => Is(mode, "wikiindent")
  <2>1. mode \in Seq(Modes)
    BY DEF TypeOK
  <2>2. CASE Closed(mode, "wikitableline") = mode
    BY <2>2
  <2>3. CASE mode # <<>> /\ Closed(mode, "wikitableline") = SubSeq(mode, 1, Len(mode) - 1)
    <3>1. Len(mode) \in Nat \ {0}
      BY <2>1, <2>3, EmptySeq
    <3>2. Len(mode) - 1 \in 0..Len(mode) /\ Len(mode) - 1 <= Len(mode)
      BY <3>1
    <3>3. \A i \in 1..(Len(mode) - 1) : SubSeq(mode, 1, Len(mode) - 1)[i] = mode[i]
      BY <2>1, <3>2, FrontItems
    <3>4. Len(SubSeq(mode, 1, Len(mode) - 1)) = Len(mode) - 1
      BY <2>1, <3>2, FrontItems
    <3>5. QED
      BY <2>3, <3>1, <3>3, <3>4 DEF Is
  <2>4. Closed(mode, "wikitableline") = mode
        \/ (mode # <<>> /\ Closed(mode, "wikitableline") = SubSeq(mode, 1, Len(mode) - 1))
    BY DEF Closed, After, Closes, Current
  <2>5. QED
    BY <2>2, <2>3, <2>4
<1>5. ASSUME Is(mode, "wikiindent"), inStack(e, "pre"), q = becomeParent(ClimbTo(e, positions))
      PROVE  \E k \in 1..Len(path) : /\ path[k].name = "pre"
                                     /\ \A j \in (k + 1)..Len(path) : path[j].name # "pre"
                                     /\ q = SubSeq(path, 1, k - 1)
  <2>1. positions \in SUBSET (1..Len(e))
    BY NamedPositions
  <2>2. positions # {}
    BY <1>5, <1>1 DEF inStack, Named
  <2>3. \A i \in 1..Len(e) : i \in positions <=> e[i].name = "pre"
    BY DEF Named
  <2> HIDE DEF e, positions
  <2>4. PICK k \in positions : /\ ClimbTo(e, positions) = SubSeq(e, 1, k)
                               /\ \A j \in positions : j <= k
    BY <1>1, <2>1, <2>2, ClimbIsFront, Zenon
  <2>5. Len(path) \in Nat /\ Len(e) \in Nat /\ Len(path) <= Len(e) /\ k \in 1..Len(e)
    BY <1>1, <2>1, <2>2, <2>4 DEF Extends
  <2>6. e[k].name = "pre"
    BY <2>3, <2>4, <2>5
  <2>7. k \in 1..Len(path) /\ path[k].name = "pre"
    BY <1>1, <2>5, <2>6 DEF Extends, Kept
  <2>8. \A j \in (k + 1)..Len(path) : path[j].name # "pre"
    BY <1>1, <2>3, <2>4, <2>5 DEF Extends
  <2> DEFINE c == SubSeq(e, 1, k)
  <2>9. c \in Seq(Elements) /\ Len(c) = k /\ \A i \in 1..k : c[i] = e[i]
    BY <1>1, <2>5, FrontItems
  <2> HIDE DEF c
  <2>10. c # <<>> /\ becomeParent(c) = SubSeq(c, 1, k - 1)
    <3>1. c # <<>>
      BY <2>5, <2>9
    <3>2. becomeParent(c) = SubSeq(c, 1, Len(c) - 1)
      BY <3>1 DEF becomeParent
    <3>3. QED
      BY <2>9, <3>1, <3>2
  <2>11. k - 1 \in 0..Len(c) /\ k - 1 \in 0..Len(path)
    BY <2>5, <2>7, <2>9
  <2>12. /\ SubSeq(c, 1, k - 1) \in Seq(Elements) /\ Len(SubSeq(c, 1, k - 1)) = k - 1
         /\ \A i \in 1..(k - 1) : SubSeq(c, 1, k - 1)[i] = c[i]
    BY <2>9, <2>11, FrontItems
  <2>13. /\ SubSeq(path, 1, k - 1) \in Seq(Elements) /\ Len(SubSeq(path, 1, k - 1)) = k - 1
         /\ \A i \in 1..(k - 1) : SubSeq(path, 1, k - 1)[i] = path[i]
    BY <1>1, <2>11, FrontItems
  <2>14. \A i \in 1..(k - 1) : c[i] = path[i]
    BY <1>1, <2>5, <2>7, <2>9 DEF Extends
  <2>15. SubSeq(c, 1, k - 1) = SubSeq(path, 1, k - 1)
    BY <2>12, <2>13, <2>14, <2>5, SeqEqual
  <2>16. QED
    BY <1>5, <2>4, <2>7, <2>8, <2>10, <2>15 DEF c
<1>6. QED
  BY <1>1, <1>2, <1>3, <1>4, <1>5

LEMMA HeaderStep ==
  ASSUME TypeOK, headerLine
  PROVE  \A i \in (Len(path') + 1)..Len(path) : path[i].name \in Kept => EndsWithText(i)
<1> DEFINE q == LinePath(FALSE, FALSE)
           r == EndLists(q)
<1>1. path' = HeaderPath(r) /\ path \in Seq(Elements)
  BY DEF headerLine, TypeOK
<1>2. q \in Seq(Elements)
  BY LinePathFacts, FromType
<1>3. \/ Extends(q, path)
      \/ /\ Is(mode, "wikiindent")
         /\ \E k \in 1..Len(path) : /\ path[k].name = "pre"
                                    /\ \A j \in (k + 1)..Len(path) : path[j].name # "pre"
                                    /\ q = SubSeq(path, 1, k - 1)
  BY LinePathCloses, Zenon
<1> HIDE DEF q
<1>4. PICK k \in 0..Len(q) : /\ r = SubSeq(q, 1, k)
                             /\ \A i \in (k + 1)..Len(q) : q[i].name \notin Kept
  BY <1>2, EndListsCloses
<1>5. r \in Seq(Elements) /\ Len(r) = k /\ \A i \in 1..k : r[i] = q[i]
  BY <1>2, <1>4, FrontItems
<1> HIDE DEF r
<1>6. PICK l \in 0..Len(r) : /\ HeaderPath(r) = SubSeq(r, 1, l)
                             /\ \A i \in (l + 1)..Len(r) : r[i].name \notin Kept
  BY <1>5, HeaderPathCloses
<1>7. Len(path') = l
  BY <1>1, <1>5, <1>6, FrontItems
<1>8. Len(q) \in Nat /\ Len(path) \in Nat /\ k \in 0..Len(q) /\ l \in 0..k
  BY <1>1, <1>2, <1>4, <1>5, <1>6
<1>9. \A i \in (l + 1)..Len(q) : q[i].name \notin Kept
  BY <1>4, <1>5, <1>6, <1>8
<1>10. CASE Extends(q, path)
  <2>1. \A i \in 1..Len(path) : q[i] = path[i] /\ i <= Len(q)
    BY <1>8, <1>10 DEF Extends
  <2>2. \A i \in (l + 1)..Len(path) : path[i].name \notin Kept
    BY <1>8, <1>9, <2>1
  <2>3. QED
    BY <1>7, <2>2
<1>11. CASE /\ Is(mode, "wikiindent")
            /\ \E n \in 1..Len(path) : /\ path[n].name = "pre"
                                       /\ \A j \in (n + 1)..Len(path) : path[j].name # "pre"
                                       /\ q = SubSeq(path, 1, n - 1)
  <2>0. PICK n \in 1..Len(path) : /\ path[n].name = "pre"
                                  /\ \A j \in (n + 1)..Len(path) : path[j].name # "pre"
                                  /\ q = SubSeq(path, 1, n - 1)
    BY <1>11, Zenon
  <2> SUFFICES ASSUME NEW i \in (l + 1)..Len(path), path[i].name \in Kept
               PROVE  EndsWithText(i)
    BY <1>7
  <2>1. n - 1 \in 0..Len(path)
    BY <1>8
  <2>2. Len(q) = n - 1 /\ \A j \in 1..(n - 1) : q[j] = path[j]
    BY <1>1, <2>0, <2>1, FrontItems
  <2>3. i >= n
    BY <1>8, <1>9, <2>2
  <2>4. n \in (l + 1)..i
    BY <1>8, <2>2, <2>3
  <2>5. path[i].name = "pre" => \A j \in (i + 1)..Len(path) : path[j].name # "pre"
    BY <1>8, <2>0, <2>3
  <2>6. QED
    BY <1>7, <1>11, <2>0, <2>4, <2>5 DEF EndsWithText
<1>12. QED
  BY <1>3, <1>10, <1>11, Zenon

(* A header closes no part of a table and no preformatted text, whatever is open around it; but *)
(* for the text of the indented line before it, which ends with the tables that are in it.       *)
THEOREM HeadersKeepParts == Spec => HeaderKeepsParts
<1>1. Inv /\ [Next]_vars =>
        [headerLine =>
           \A i \in (Len(path') + 1)..Len(path) : path[i].name \in Kept => EndsWithText(i)]_vars
  BY HeaderStep DEF Inv
<1>2. QED
  BY <1>1, Invariance, PTL DEF Spec, HeaderKeepsParts

-----------------------------------------------------------------------------
(* What stands for the tags that are open, one for each, the first of them one of F, and each *)
(* in the relation R to its tag and to the one below it; x is the last.                        *)
Chain(st, x, X, F, R) ==
  \E xs \in [1..Len(st) -> X] :
    /\ xs[1] \in F /\ x = xs[Len(st)]
    /\ \A j \in 2..Len(st) : <<st[j], xs[j - 1], xs[j]>> \in R

LEMMA ChainOne ==
  ASSUME NEW st, Len(st) = 1, NEW X, NEW F, F \subseteq X, NEW R, NEW x
  PROVE  Chain(st, x, X, F, R) <=> x \in F
<1>1. ASSUME Chain(st, x, X, F, R) PROVE x \in F
  BY <1>1 DEF Chain
<1>2. ASSUME x \in F PROVE Chain(st, x, X, F, R)
  <2> DEFINE xs == [j \in 1..1 |-> x]
  <2>1. xs \in [1..1 -> X] /\ xs[1] = x /\ 2..1 = {}
    BY <1>2
  <2> HIDE DEF xs
  <2>2. QED
    BY <1>2, <2>1 DEF Chain
<1>3. QED
  BY <1>1, <1>2

LEMMA ChainPush ==
  ASSUME NEW T, NEW st \in Seq(T), st # <<>>, NEW t \in T, NEW X, NEW F, NEW R,
         NEW x, Chain(st, x, X, F, R), NEW y \in X, <<t, x, y>> \in R
  PROVE  Chain(Append(st, t), y, X, F, R)
<1>1. PICK xs \in [1..Len(st) -> X] :
        /\ xs[1] \in F /\ x = xs[Len(st)]
        /\ \A j \in 2..Len(st) : <<st[j], xs[j - 1], xs[j]>> \in R
  BY DEF Chain
<1> DEFINE n == Len(st)
           s2 == Append(st, t)
           ys == [j \in 1..(n + 1) |-> IF j = n + 1 THEN y ELSE xs[j]]
<1>2. n \in Nat \ {0}
  BY EmptySeq
<1>3. Len(s2) = n + 1 /\ s2[n + 1] = t /\ \A j \in 1..n : s2[j] = st[j]
  OBVIOUS
<1>4. xs \in [1..n -> X] /\ xs[1] \in F /\ x = xs[n]
  BY <1>1
<1>5. \A j \in 2..n : <<st[j], xs[j - 1], xs[j]>> \in R
  BY <1>1
<1> HIDE DEF n, s2
<1>6. ys \in [1..(n + 1) -> X] /\ ys[1] \in F /\ y = ys[n + 1]
  BY <1>2, <1>4
<1>7. ASSUME NEW j \in 2..(n + 1) PROVE <<s2[j], ys[j - 1], ys[j]>> \in R
  <2>1. CASE j = n + 1
    <3>1. ys[j - 1] = xs[n] /\ ys[j] = y
      BY <1>2, <2>1
    <3>2. QED
      BY <1>3, <1>4, <2>1, <3>1
  <2>2. CASE j \in 2..n
    <3>1. ys[j - 1] = xs[j - 1] /\ ys[j] = xs[j] /\ s2[j] = st[j]
      BY <1>2, <1>3, <2>2
    <3>2. QED
      BY <1>5, <2>2, <3>1
  <2>3. QED
    BY <1>2, <2>1, <2>2
<1> HIDE DEF ys
<1>8. Chain(s2, y, X, F, R)
  BY <1>3, <1>6, <1>7 DEF Chain
<1>9. QED
  BY <1>8 DEF s2

LEMMA OneLess ==
  ASSUME NEW k \in Nat, k >= 2
  PROVE  /\ k - 1 \in Nat \ {0} /\ (k - 1) + 1 = k /\ k - 1 \in 0..k
         /\ \A j \in 2..(k - 1) : j \in 2..k
OBVIOUS

LEMMA ChainPop ==
  ASSUME NEW T, NEW st \in Seq(T), Len(st) >= 2, NEW X, NEW F, NEW R,
         NEW y, Chain(st, y, X, F, R)
  PROVE  \E x \in X : Chain(SubSeq(st, 1, Len(st) - 1), x, X, F, R) /\ <<st[Len(st)], x, y>> \in R
<1>1. PICK xs \in [1..Len(st) -> X] :
        /\ xs[1] \in F /\ y = xs[Len(st)]
        /\ \A j \in 2..Len(st) : <<st[j], xs[j - 1], xs[j]>> \in R
  BY DEF Chain
<1> DEFINE n == Len(st) - 1
           s2 == SubSeq(st, 1, n)
           ys == [j \in 1..n |-> xs[j]]
<1>2. n \in Nat \ {0} /\ n + 1 = Len(st) /\ n \in 0..Len(st)
  <2>1. Len(st) \in Nat /\ Len(st) >= 2
    OBVIOUS
  <2>2. QED
    BY <2>1, OneLess
<1>3. Len(s2) = n /\ \A j \in 1..n : s2[j] = st[j]
  BY <1>2, FrontItems
<1>4. xs \in [1..(n + 1) -> X] /\ xs[1] \in F /\ y = xs[n + 1]
  BY <1>1, <1>2
<1>5. \A j \in 2..(n + 1) : <<st[j], xs[j - 1], xs[j]>> \in R
  BY <1>1, <1>2
<1>6. ys \in [1..n -> X] /\ ys[1] \in F /\ ys[n] \in X
  BY <1>2, <1>4
<1>7. ASSUME NEW j \in 2..n PROVE <<s2[j], ys[j - 1], ys[j]>> \in R
  <2>1. ys[j - 1] = xs[j - 1] /\ ys[j] = xs[j] /\ s2[j] = st[j] /\ j \in 2..(n + 1)
    BY <1>2, <1>3
  <2>2. QED
    BY <1>5, <2>1
<1>8. ys[n] = xs[n]
  BY <1>2
<1>9. <<st[n + 1], ys[n], y>> \in R
  <2>1. n + 1 \in 2..(n + 1) /\ (n + 1) - 1 = n
    BY <1>2
  <2>2. <<st[n + 1], xs[n], xs[n + 1]>> \in R
    BY <1>5, <2>1
  <2>3. QED
    BY <1>4, <1>8, <2>2
<1>10. n = Len(st) - 1 /\ st[Len(st)] = st[n + 1]
  BY <1>2
<1> HIDE DEF ys, s2
<1>11. Chain(s2, ys[n], X, F, R)
  BY <1>3, <1>6, <1>7 DEF Chain
<1>12. QED
  BY <1>6, <1>9, <1>10, <1>11 DEF s2

(* The last may be exchanged for another that its relation allows. *)
LEMMA ChainReplace ==
  ASSUME NEW T, NEW st \in Seq(T), Len(st) >= 2, NEW X, NEW F, NEW R,
         NEW y, Chain(st, y, X, F, R), NEW z \in X,
         \A x \in X : <<st[Len(st)], x, y>> \in R => <<st[Len(st)], x, z>> \in R
  PROVE  Chain(st, z, X, F, R)
<1> DEFINE s2 == SubSeq(st, 1, Len(st) - 1)
<1>1. PICK x \in X : Chain(s2, x, X, F, R) /\ <<st[Len(st)], x, y>> \in R
  BY ChainPop, Zenon
<1>2. s2 \in Seq(T) /\ s2 # <<>> /\ st[Len(st)] \in T /\ st = Append(s2, st[Len(st)])
  <2>1. Len(st) - 1 \in 0..Len(st) /\ Len(st) \in 1..Len(st)
    OBVIOUS
  <2>2. s2 \in Seq(T) /\ Len(s2) = Len(st) - 1 /\ \A j \in 1..(Len(st) - 1) : s2[j] = st[j]
    BY <2>1, FrontItems
  <2>3. st[Len(st)] \in T
    BY <2>1
  <2> HIDE DEF s2
  <2>4. st = Append(s2, st[Len(st)])
    BY <2>1, <2>2, <2>3
  <2>5. s2 # <<>>
    BY <2>2
  <2>6. QED
    BY <2>2, <2>3, <2>4, <2>5
<1> HIDE DEF s2
<1>3. PICK t : t = st[Len(st)]
  OBVIOUS
<1>4. Chain(Append(s2, t), z, X, F, R)
  <2>1. t \in T /\ <<t, x, z>> \in R
    BY <1>1, <1>2, <1>3
  <2>2. QED
    BY <1>1, <1>2, <2>1, ChainPush, Zenon
<1>5. QED
  BY <1>2, <1>3, <1>4

-----------------------------------------------------------------------------
(* The tags that are open *)

StackTags == [syntax : Syntaxes \cup {"none"}, name : STRING \cup {"none"}]
Openable(tag) ==
  /\ tag.syntax \in Syntaxes
  /\ tag.name \notin {"rule", "break", "img", "url", "div", "a", "css", "noparse", "nobb"} \cup list_items
  /\ tag.name \notin noclose \cup {"*"}
  /\ tag.name = "code" => tag.syntax = "bbcode"
  /\ tag.name = "caption" => tag.syntax = "html"
OpenStack(st) ==
  /\ st \in Seq(StackTags)
  /\ st # <<>> => st[1] = Nowhere
  /\ \A j \in 2..Len(st) : Openable(st[j])

LEMMA TagItems ==
  ASSUME NEW x \in Items, x.item \in {"open", "close"}
  PROVE  x.syntax \in Syntaxes /\ x.name \in STRING /\ [syntax |-> x.syntax, name |-> x.name] \in StackTags
<1>1. x \in Tags
  BY DEF Items, Lines, Tags, Links, Embeds, Others
<1>2. x.syntax \in Syntaxes /\ x.name \in STRING
  BY <1>1 DEF Tags
<1>3. QED
  BY <1>2 DEF StackTags

LEMMA StackFacts ==
  ASSUME NEW st, OpenStack(st), st # <<>>
  PROVE  /\ Len(st) \in Nat \ {0} /\ st[Len(st)] \in StackTags
         /\ Len(st) = 1 => st[Len(st)] = Nowhere
         /\ Len(st) # 1 => Len(st) >= 2 /\ Openable(st[Len(st)])
<1>1. st \in Seq(StackTags)
  BY DEF OpenStack
<1>2. Len(st) \in Nat \ {0}
  BY <1>1, EmptySeq
<1>3. Len(st) \in 1..Len(st) /\ (Len(st) # 1 => Len(st) \in 2..Len(st))
  BY <1>2
<1>4. QED
  BY <1>1, <1>2, <1>3 DEF OpenStack

(* The last tag is closed, or one more is opened. *)
LEMMA StackFront ==
  ASSUME NEW st, OpenStack(st), Len(st) >= 2
  PROVE  LET s2 == SubSeq(st, 1, Len(st) - 1) IN OpenStack(s2) /\ s2 # <<>> /\ Len(s2) = Len(st) - 1
<1> DEFINE n == Len(st) - 1
           s2 == SubSeq(st, 1, n)
<1>1. st \in Seq(StackTags) /\ st[1] = Nowhere /\ \A j \in 2..Len(st) : Openable(st[j])
  <2>1. st # <<>>
    BY EmptySeq
  <2>2. QED
    BY <2>1 DEF OpenStack
<1>2. n \in Nat \ {0} /\ n \in 0..Len(st) /\ \A j \in 2..n : j \in 2..Len(st)
  <2>1. Len(st) \in Nat /\ Len(st) >= 2
    BY <1>1
  <2>2. QED
    BY <2>1, OneLess
<1> HIDE DEF n
<1>3. s2 \in Seq(StackTags) /\ Len(s2) = n /\ \A j \in 1..n : s2[j] = st[j]
  BY <1>1, <1>2, FrontItems
<1> HIDE DEF s2
<1>4. s2[1] = Nowhere /\ \A j \in 2..n : s2[j] = st[j]
  BY <1>1, <1>2, <1>3
<1>5. OpenStack(s2) /\ s2 # <<>>
  BY <1>1, <1>2, <1>3, <1>4 DEF OpenStack
<1>6. QED
  BY <1>3, <1>5 DEF s2, n

LEMMA StackMore ==
  ASSUME NEW st, OpenStack(st), st # <<>>, NEW t \in StackTags, Openable(t)
  PROVE  /\ OpenStack(Append(st, t)) /\ Append(st, t) # <<>>
         /\ Len(Append(st, t)) = Len(st) + 1 /\ Append(st, t)[Len(st) + 1] = t
<1> DEFINE s2 == Append(st, t)
<1>1. Len(st) \in Nat \ {0} /\ st \in Seq(StackTags)
  BY StackFacts DEF OpenStack
<1>2. /\ s2 \in Seq(StackTags) /\ Len(s2) = Len(st) + 1 /\ s2[Len(st) + 1] = t
      /\ \A j \in 1..Len(st) : s2[j] = st[j]
  BY <1>1
<1> HIDE DEF s2
<1>3. s2 # <<>>
  BY <1>1, <1>2, EmptySeq
<1>4. s2[1] = Nowhere
  <2>1. 1 \in 1..Len(st)
    BY <1>1
  <2>2. QED
    BY <1>2, <2>1 DEF OpenStack
<1>5. ASSUME NEW j \in 2..Len(s2) PROVE Openable(s2[j])
  <2>1. j = Len(st) + 1 \/ (j \in 2..Len(st) /\ j \in 1..Len(st))
    BY <1>1, <1>2
  <2>2. QED
    BY <1>2, <2>1 DEF OpenStack
<1>6. QED
  BY <1>2, <1>3, <1>4, <1>5 DEF OpenStack, s2

(* What is opened in order has a name by which it is closed. *)
LEMMA OpenInFacts ==
  ASSUME NEW x \in Items, x.item = "open", NEW parent, OpenIn(parent, x),
         x.name \notin noclose \cup {"*"}
  PROVE  LET t == [syntax |-> x.syntax, name |-> x.name] IN t \in StackTags /\ Openable(t)
BY TagItems DEF OpenIn, Openable

(* The ways in which a text stays in order. *)
Left(st, x, s2) == x.item = "text" /\ s2 = st
Linked_(st, x, s2) == x.item = "link" /\ x.texts <= 1 /\ st[Len(st)].name # "code" /\ s2 = st
Begun(st, x, s2) ==
  x.item \in {"line", "list", "pipe", "exclamation", "embed"} /\ Len(st) = 1 /\ s2 = st
OpenedHere(st, x, s2) ==
  x.item = "open" /\ OpenIn(st[Len(st)], x) /\ x.name \in noclose \cup {"*"} /\ s2 = st
OpenedIn(st, x, s2) ==
  /\ x.item = "open" /\ OpenIn(st[Len(st)], x) /\ x.name \notin noclose \cup {"*"}
  /\ s2 = Append(st, [syntax |-> x.syntax, name |-> x.name])
ClosedIn(st, x, s2) ==
  /\ x.item = "close" /\ Len(st) >= 2 /\ st[Len(st)] = [syntax |-> x.syntax, name |-> x.name]
  /\ s2 = SubSeq(st, 1, Len(st) - 1)

LEMMA MeetFacts ==
  ASSUME NEW st, OpenStack(st), NEW x \in Items
  PROVE  /\ Meet(st, x) = <<>> \/ (st # <<>> /\ (\/ Left(st, x, Meet(st, x)) \/ Linked_(st, x, Meet(st, x))
                \/ Begun(st, x, Meet(st, x)) \/ OpenedHere(st, x, Meet(st, x))
                \/ OpenedIn(st, x, Meet(st, x)) \/ ClosedIn(st, x, Meet(st, x))))
         /\ OpenStack(Meet(st, x))
<1> DEFINE parent == st[Len(st)]
           opened == [syntax |-> x.syntax, name |-> x.name]
           s2 == Meet(st, x)
<1>1. CASE st = <<>>
  <2>1. s2 = <<>>
    BY <1>1 DEF Meet
  <2>2. OpenStack(<<>>)
    <3>1. <<>> \in Seq(StackTags) /\ 2..Len(<<>>) = {}
      OBVIOUS
    <3>2. QED
      BY <3>1 DEF OpenStack
  <2>3. QED
    BY <2>1, <2>2
<1>2. CASE st # <<>>
  <2>1. s2 = CASE x.item = "text" -> st
            [] x.item = "link" /\ x.texts <= 1 /\ parent.name # "code" -> st
            [] x.item \in {"line", "list", "pipe", "exclamation", "embed"} /\ Len(st) = 1 -> st
            [] x.item = "open" /\ OpenIn(parent, x) ->
                 IF x.name \in noclose \cup {"*"} THEN st ELSE Append(st, opened)
            [] x.item = "close" /\ parent = opened -> SubSeq(st, 1, Len(st) - 1)
            [] OTHER -> <<>>
    BY <1>2 DEF Meet
  <2> HIDE DEF s2
  <2>2. CASE x.item = "text"
    <3>1. s2 = st
      BY <2>1, <2>2
    <3>2. QED
      BY <1>2, <2>2, <3>1 DEF Left, s2
  <2>3. CASE x.item = "link"
    <3>1. s2 = IF x.texts <= 1 /\ parent.name # "code" THEN st ELSE <<>>
      BY <2>1, <2>3
    <3>2. QED
      BY <1>2, <2>3, <3>1 DEF Linked_, s2, OpenStack
  <2>4. CASE x.item \in {"line", "list", "pipe", "exclamation", "embed"}
    <3>1. s2 = IF Len(st) = 1 THEN st ELSE <<>>
      BY <2>1, <2>4
    <3>2. QED
      BY <1>2, <2>4, <3>1 DEF Begun, s2, OpenStack
  <2>5. CASE x.item = "open"
    <3>1. s2 = IF OpenIn(parent, x) THEN IF x.name \in noclose \cup {"*"} THEN st ELSE Append(st, opened)
               ELSE <<>>
      BY <2>1, <2>5
    <3>2. QED
      BY <1>2, <2>5, <3>1, OpenInFacts, StackMore DEF OpenedHere, OpenedIn, s2, OpenStack
  <2>6. CASE x.item = "close"
    <3>1. s2 = IF parent = opened THEN SubSeq(st, 1, Len(st) - 1) ELSE <<>>
      BY <2>1, <2>6
    <3>2. ASSUME parent = opened PROVE Len(st) >= 2
      <4>1. x.syntax \in Syntaxes
        BY <2>6, TagItems
      <4>2. opened # Nowhere
        BY <4>1 DEF Nowhere, Syntaxes
      <4>3. QED
        BY <1>2, <3>2, <4>2, StackFacts
    <3>3. QED
      BY <1>2, <2>6, <3>1, <3>2, StackFront DEF ClosedIn, s2, OpenStack
  <2>7. QED
    BY <2>2, <2>3, <2>4, <2>5, <2>6 DEF Items, Lines, Tags, Links, Embeds, Others
<1>3. QED
  BY <1>1, <1>2

LEMMA OpenTagsEquation ==
  ASSUME NEW t \in Seq(Items)
  PROVE  /\ OpenTags(t, 0) = <<Nowhere>>
         /\ \A n \in 1..Len(t) : OpenTags(t, n) = Meet(OpenTags(t, n - 1), t[n])
         /\ \A n \in 0..Len(t) : OpenStack(OpenTags(t, n))
<1> DEFINE X == {st \in Seq(StackTags) : OpenStack(st)}
           step == [n \in 1..Len(t) |-> [st \in X |-> Meet(st, t[n])]]
<1>1. Len(t) \in Nat /\ <<Nowhere>> \in X
  <2>1. Nowhere \in StackTags
    <3>1. "none" \in STRING \cup {"none"}
      BY Zenon
    <3>2. "none" \in Syntaxes \cup {"none"}
      BY Zenon
    <3>3. QED
      BY <3>1, <3>2, Zenon DEF Nowhere, StackTags
  <2>2. <<Nowhere>> \in Seq(StackTags) /\ Len(<<Nowhere>>) = 1 /\ <<Nowhere>>[1] = Nowhere /\ 2..1 = {}
    BY <2>1
  <2>3. OpenStack(<<Nowhere>>)
    BY <2>2 DEF OpenStack
  <2>4. Len(t) \in Nat
    OBVIOUS
  <2>5. QED
    BY <2>2, <2>3, <2>4
<1>2. \A n \in 1..Len(t), st \in X : Meet(st, t[n]) \in X
  <2>1. ASSUME NEW n \in 1..Len(t), NEW st \in X PROVE Meet(st, t[n]) \in X
    <3>1. OpenStack(Meet(st, t[n]))
      <4>1. t[n] \in Items /\ OpenStack(st)
        OBVIOUS
      <4>2. QED
        BY <4>1, MeetFacts, Zenon
    <3>2. QED
      BY <3>1 DEF OpenStack
  <2>2. QED
    BY <2>1
<1>3. \A n \in 1..Len(t), st \in X : step[n][st] = Meet(st, t[n])
  OBVIOUS
<1> HIDE DEF X
<1>4. step \in Steps(X, Len(t))
  BY <1>2 DEF Steps
<1> HIDE DEF step
<1>5. PICK f : Recursive(f, X, <<Nowhere>>, Len(t), step)
  BY <1>1, <1>4, Recursion, Zenon
<1>6. /\ f \in [0..Len(t) -> X] /\ f[0] = <<Nowhere>>
      /\ \A n \in 1..Len(t) : f[n] = step[n][f[n - 1]]
  BY <1>5 DEF Recursive
<1>7. \A n \in 1..Len(t) : f[n] = Meet(f[n - 1], t[n])
  BY <1>1, <1>3, <1>6
<1>8. f = [i \in 0..Len(t) |-> IF i = 0 THEN <<Nowhere>> ELSE Meet(f[i - 1], t[i])]
  BY <1>1, <1>6, <1>7
<1> DEFINE g == CHOOSE open : open = [i \in 0..Len(t) |-> IF i = 0 THEN <<Nowhere>> ELSE Meet(open[i - 1], t[i])]
<1>9. g = [i \in 0..Len(t) |-> IF i = 0 THEN <<Nowhere>> ELSE Meet(g[i - 1], t[i])]
  BY <1>8, Zenon
<1>10. \A n : OpenTags(t, n) = g[n]
  BY Zenon DEF OpenTags
<1> HIDE DEF g
<1>11. g[0] = <<Nowhere>> /\ \A n \in 1..Len(t) : g[n] = Meet(g[n - 1], t[n])
  BY <1>1, <1>9
<1>12. \A n \in 0..Len(t) : g[n] \in X
  <2> DEFINE P == {n \in 0..Len(t) : g[n] \in X}
  <2>1. 0 \in P
    BY <1>1, <1>11
  <2>2. ASSUME NEW n \in 1..Len(t), n - 1 \in P PROVE n \in P
    BY <1>2, <1>11, <2>2
  <2> HIDE DEF P
  <2>3. \A n \in 0..Len(t) : n \in P
    BY <1>1, <2>1, <2>2, Onwards
  <2>4. QED
    BY <2>3 DEF P
<1>13. \A n \in 0..Len(t) : OpenStack(g[n])
  BY <1>12 DEF X
<1>14. QED
  BY <1>10, <1>11, <1>13

(* What is open behind some items does not depend on those after them. *)
LEMMA OpenTagsOfFront ==
  ASSUME NEW t \in Seq(Items), NEW k \in 0..Len(t)
  PROVE  OpenTags(SubSeq(t, 1, k), k) = OpenTags(t, k)
<1> DEFINE s == SubSeq(t, 1, k)
           P == {n \in 0..k : OpenTags(s, n) = OpenTags(t, n)}
<1>1. s \in Seq(Items) /\ Len(s) = k /\ \A i \in 1..k : s[i] = t[i]
  BY FrontItems
<1>2. Len(t) \in Nat /\ k \in Nat /\ \A n \in 1..k : n \in 1..Len(t)
  OBVIOUS
<1> HIDE DEF s
<1>3. OpenTags(s, 0) = <<Nowhere>> /\ \A n \in 1..k : OpenTags(s, n) = Meet(OpenTags(s, n - 1), s[n])
  BY <1>1, OpenTagsEquation
<1>4. OpenTags(t, 0) = <<Nowhere>> /\ \A n \in 1..k : OpenTags(t, n) = Meet(OpenTags(t, n - 1), t[n])
  BY <1>2, OpenTagsEquation
<1>5. 0 \in P
  BY <1>2, <1>3, <1>4
<1>6. ASSUME NEW n \in 1..k, n - 1 \in P PROVE n \in P
  <2>1. OpenTags(s, n) = Meet(OpenTags(s, n - 1), s[n]) /\ OpenTags(t, n) = Meet(OpenTags(t, n - 1), t[n])
    BY <1>3, <1>4
  <2>2. QED
    BY <1>1, <1>6, <2>1
<1> HIDE DEF P
<1>7. \A n \in 0..k : n \in P
  BY <1>2, <1>5, <1>6, Onwards
<1>8. QED
  BY <1>2, <1>7 DEF P, s

-----------------------------------------------------------------------------
(* The modes while tags are in order *)

Opens(tag) == ModeOf([item |-> "open", syntax |-> tag.syntax, name |-> tag.name])
Pushed(m, tag) == IF Opens(tag) \in Modes THEN Append(m, Opens(tag)) ELSE m
Plain == {m \in Seq(Modes) : Wikicode(m) /\ ~Is(m, "css")}
TableMode(tag) == IF tag.syntax = "html" THEN "htmltable" ELSE "bbtable"
ModeSteps ==
  {x \in StackTags \X Plain \X Seq(Modes) :
     /\ x[3] = Pushed(x[2], x[1])
     /\ x[1].name \in table_only => Is(x[2], TableMode(x[1]))}
Moded(F, st, m) == Chain(st, m, Seq(Modes), F, ModeSteps)

LEMMA OpensFacts ==
  ASSUME NEW t \in StackTags, Openable(t)
  PROVE  /\ Opens(t) \in {"htmltable", "htmlol", "htmlul", "nowiki", "bbtable", "bblist", "bbcode", "none"}
         /\ t.name = "code" <=> Opens(t) = "bbcode"
         /\ Opens(t) = "nowiki" => t.name = "nowiki"
         /\ t.name = "table" => Opens(t) = TableMode(t)
         /\ t.name = "list" /\ t.syntax = "bbcode" => Opens(t) = "bblist"
         /\ t.name \in {"tr", "td", "th", "caption"} => Opens(t) = "none"
<1> DEFINE x == [item |-> "open", syntax |-> t.syntax, name |-> t.name]
<1>1. x.item = "open" /\ x.syntax = t.syntax /\ x.name = t.name /\ t.syntax \in {"html", "bbcode"}
  BY DEF Openable, Syntaxes
<1>2. Opens(t) = ModeOf(x)
  BY DEF Opens
<1> HIDE DEF x
<1>3. t.name \notin {"css", "noparse", "nobb"} /\ (t.name = "code" => t.syntax = "bbcode")
  BY DEF Openable
<1>4. QED
  BY <1>1, <1>2, <1>3 DEF ModeOf, TableMode

(* What a tag opens is what its end closes. *)
LEMMA ClosesWhatOpens ==
  ASSUME NEW t \in StackTags, Openable(t), NEW x, x.item = "close",
         x.syntax = t.syntax, x.name = t.name
  PROVE  ModeOf(x) = Opens(t)
<1> DEFINE y == [item |-> "open", syntax |-> t.syntax, name |-> t.name]
<1>1. y.item = "open" /\ y.syntax = t.syntax /\ y.name = t.name /\ t.syntax \in {"html", "bbcode"}
  BY DEF Openable, Syntaxes
<1>2. Opens(t) = ModeOf(y)
  BY DEF Opens
<1> HIDE DEF y
<1>3. t.name \notin {"css", "noparse", "nobb"}
  BY DEF Openable
<1>4. QED
  BY <1>1, <1>2, <1>3 DEF ModeOf

LEMMA AppendedMode ==
  ASSUME NEW m \in Seq(Modes), NEW x \in Modes
  PROVE  /\ Append(m, x) \in Seq(Modes) /\ Append(m, x) # <<>>
         /\ Current(Append(m, x)) = x
         /\ \A y : Is(Append(m, x), y) <=> (Is(m, y) \/ y = x)
         /\ SubSeq(Append(m, x), 1, Len(Append(m, x)) - 1) = m
<1> DEFINE n == Append(m, x)
<1>1. n \in Seq(Modes) /\ Len(m) \in Nat /\ Len(n) = Len(m) + 1 /\ n[Len(m) + 1] = x /\ \A i \in 1..Len(m) : n[i] = m[i]
  OBVIOUS
<1>2. n # <<>> /\ SubSeq(n, 1, Len(n) - 1) = m
  OBVIOUS
<1> HIDE DEF n
<1>3. Current(n) = x
  BY <1>1, <1>2 DEF Current
<1>4. ASSUME NEW y PROVE Is(n, y) <=> (Is(m, y) \/ y = x)
  BY <1>1 DEF Is
<1>5. QED
  BY <1>1, <1>2, <1>3, <1>4 DEF n

LEMMA PoppedMode ==
  ASSUME NEW m \in Seq(Modes), m # <<>>
  PROVE  LET n == SubSeq(m, 1, Len(m) - 1) IN
         /\ n \in Seq(Modes) /\ Len(m) \in Nat \ {0} /\ Len(n) = Len(m) - 1
         /\ \A i \in 1..(Len(m) - 1) : n[i] = m[i]
         /\ \A y : Is(n, y) => Is(m, y)
<1> DEFINE k == Len(m) - 1
           n == SubSeq(m, 1, k)
<1>1. Len(m) \in Nat \ {0}
  BY EmptySeq
<1>2. k \in 0..Len(m) /\ \A i \in 1..k : i \in 1..Len(m)
  BY <1>1
<1> HIDE DEF k
<1>3. n \in Seq(Modes) /\ Len(n) = k /\ \A i \in 1..k : n[i] = m[i]
  BY <1>2, FrontItems
<1> HIDE DEF n
<1>4. \A y : Is(n, y) => Is(m, y)
  BY <1>2, <1>3 DEF Is
<1>5. QED
  BY <1>1, <1>3, <1>4 DEF n, k

LEMMA PlainMode ==
  ASSUME NEW m \in Plain, NEW x \in Modes \ (Raw \cup {"nowiki"})
  PROVE  Append(m, x) \in Plain
<1>1. x # "css" /\ m \in Seq(Modes) /\ ~Is(m, "css")
  BY DEF Raw, Plain
<1>2. QED
  BY <1>1, AppendedMode DEF Plain, Wikicode

(* Where tags are in order, there is no style sheet, and wiki-code is on but in [code] and <nowiki>. *)
LEMMA ModeNow ==
  ASSUME NEW st, OpenStack(st), st # <<>>, NEW F \in SUBSET Plain, NEW m, Moded(F, st, m)
  PROVE  /\ m \in Seq(Modes) /\ ~Is(m, "css")
         /\ Len(st) = 1 => m \in Plain /\ m \in F
         /\ st[Len(st)].name \notin {"code", "nowiki"} => m \in Plain
         /\ st[Len(st)].name # "code" => Stackable(m)
         /\ st[Len(st)].name = "code" => Current(m) = "bbcode"
<1>1. CASE Len(st) = 1
  <2>1. m \in Plain /\ m \in F
    <3>1. F \subseteq Seq(Modes)
      BY DEF Plain
    <3>2. QED
      BY <1>1, <3>1, ChainOne DEF Moded
  <2>2. st[Len(st)].name = "none"
    BY <1>1, StackFacts DEF Nowhere
  <2>3. QED
    BY <2>1, <2>2 DEF Plain, Wikicode, Stackable
<1>2. CASE Len(st) # 1
  <2> DEFINE t == st[Len(st)]
  <2>1. Len(st) >= 2 /\ t \in StackTags /\ Openable(t) /\ st \in Seq(StackTags)
    BY <1>2, StackFacts DEF OpenStack
  <2>2. PICK l \in Seq(Modes) : <<t, l, m>> \in ModeSteps
    <3>1. \E l \in Seq(Modes) : Chain(SubSeq(st, 1, Len(st) - 1), l, Seq(Modes), F, ModeSteps) /\ <<t, l, m>> \in ModeSteps
      BY <2>1, ChainPop, Zenon DEF Moded
    <3>2. QED
      BY <3>1, Zenon
  <2> HIDE DEF t
  <2>3. l \in Plain /\ m = Pushed(l, t) /\ m \in Seq(Modes)
    BY <2>2 DEF ModeSteps
  <2>4. "none" \notin Modes
    BY DEF Modes
  <2>5. CASE Opens(t) = "none"
    <3>1. m = l /\ t.name # "code"
      BY <2>1, <2>3, <2>4, <2>5, OpensFacts DEF Pushed
    <3>2. QED
      BY <1>2, <2>3, <3>1 DEF Plain, Wikicode, Stackable, t
  <2>6. CASE Opens(t) # "none"
    <3>1. Opens(t) \in {"htmltable", "htmlol", "htmlul", "nowiki", "bbtable", "bblist", "bbcode"}
      BY <2>1, <2>6, OpensFacts
    <3>2. Opens(t) \in Modes
      BY <3>1 DEF Modes
    <3>3. m = Append(l, Opens(t)) /\ l \in Seq(Modes) /\ ~Is(l, "css")
      BY <2>3, <3>2 DEF Pushed, Plain
    <3>4. Current(m) = Opens(t) /\ ~Is(m, "css")
      BY <3>1, <3>2, <3>3, AppendedMode
    <3>5. t.name = "code" <=> Opens(t) = "bbcode"
      BY <2>1, OpensFacts
    <3>6. Opens(t) = "nowiki" => t.name = "nowiki"
      BY <2>1, OpensFacts
    <3>7. t.name \notin {"code", "nowiki"} => Opens(t) \notin Raw \cup {"nowiki"}
      BY <3>1, <3>5, <3>6 DEF Raw
    <3>8. t.name # "code" => Opens(t) \notin Raw
      BY <3>1, <3>5 DEF Raw
    <3>9. QED
      BY <1>2, <2>3, <3>4, <3>5, <3>7, <3>8 DEF Plain, Wikicode, Stackable, t
  <2>7. QED
    BY <2>5, <2>6
<1>3. QED
  BY <1>1, <1>2

(* What the last of the tags has done to the modes. *)
LEMMA LastMode ==
  ASSUME NEW st, OpenStack(st), st # <<>>, Len(st) >= 2, NEW F \in SUBSET Plain, NEW m, Moded(F, st, m)
  PROVE  \E l \in Plain : /\ Moded(F, SubSeq(st, 1, Len(st) - 1), l) /\ m = Pushed(l, st[Len(st)])
                          /\ st[Len(st)].name \in table_only => Is(l, TableMode(st[Len(st)]))
<1> DEFINE t == st[Len(st)]
           s2 == SubSeq(st, 1, Len(st) - 1)
<1>1. st \in Seq(StackTags)
  BY DEF OpenStack
<1>2. \E l \in Seq(Modes) : Chain(s2, l, Seq(Modes), F, ModeSteps) /\ <<t, l, m>> \in ModeSteps
  BY <1>1, ChainPop, Zenon DEF Moded
<1> HIDE DEF t, s2
<1>3. PICK l \in Seq(Modes) : Chain(s2, l, Seq(Modes), F, ModeSteps) /\ <<t, l, m>> \in ModeSteps
  BY <1>2, Zenon
<1>4. l \in Plain /\ m = Pushed(l, t) /\ (t.name \in table_only => Is(l, TableMode(t)))
  BY <1>3 DEF ModeSteps
<1>5. Moded(F, s2, l)
  BY <1>3 DEF Moded
<1>6. \E k \in Plain : Moded(F, s2, k) /\ m = Pushed(k, t) /\ (t.name \in table_only => Is(k, TableMode(t)))
  BY <1>4, <1>5, Zenon
<1>7. QED
  BY <1>6, Zenon DEF s2, t

LEMMA PushedFacts ==
  ASSUME NEW m \in Seq(Modes), NEW t \in StackTags, Openable(t)
  PROVE  /\ Pushed(m, t) \in Seq(Modes)
         /\ \A y : Is(m, y) => Is(Pushed(m, t), y)
         /\ Is(Pushed(m, t), "nobb") => Is(m, "nobb")
         /\ t.name = "table" => Is(Pushed(m, t), TableMode(t))
         /\ t.name = "list" /\ t.syntax = "bbcode" => Is(Pushed(m, t), "bblist")
<1>1. CASE Opens(t) \in Modes
  <2>1. Pushed(m, t) = Append(m, Opens(t))
    BY <1>1 DEF Pushed
  <2>2. Opens(t) # "nobb"
    BY OpensFacts
  <2>3. QED
    BY <1>1, <2>1, <2>2, OpensFacts, AppendedMode
<1>2. CASE Opens(t) \notin Modes
  <2>1. Pushed(m, t) = m
    BY <1>2 DEF Pushed
  <2>2. Opens(t) = "none"
    BY <1>2, OpensFacts DEF Modes
  <2>3. QED
    BY <2>1, <2>2, OpensFacts DEF TableMode
<1>3. QED
  BY <1>1, <1>2

(* In a table of tags, its mode is on, and in a list of BBCode that of the list. *)
LEMMA InsideModes ==
  ASSUME NEW st, OpenStack(st), st # <<>>, NEW F \in SUBSET Plain, NEW m, Moded(F, st, m)
  PROVE  /\ st[Len(st)].name \in {"table", "tr"} => Is(m, TableMode(st[Len(st)]))
         /\ st[Len(st)].name = "list" /\ st[Len(st)].syntax = "bbcode" => Is(m, "bblist")
<1> DEFINE t == st[Len(st)]
<1>1. CASE Len(st) = 1
  BY <1>1, StackFacts DEF Nowhere
<1>2. CASE Len(st) # 1
  <2>1. Len(st) >= 2 /\ t \in StackTags /\ Openable(t)
    BY <1>2, StackFacts
  <2>2. \E l \in Plain : /\ Moded(F, SubSeq(st, 1, Len(st) - 1), l) /\ m = Pushed(l, t)
                         /\ t.name \in table_only => Is(l, TableMode(t))
    BY <2>1, LastMode, Zenon
  <2> HIDE DEF t
  <2>3. PICK l \in Plain : m = Pushed(l, t) /\ (t.name \in table_only => Is(l, TableMode(t)))
    BY <2>2, Zenon
  <2>4. l \in Seq(Modes)
    BY DEF Plain
  <2>5. /\ \A y : Is(l, y) => Is(m, y)
        /\ t.name = "table" => Is(m, TableMode(t))
        /\ t.name = "list" /\ t.syntax = "bbcode" => Is(m, "bblist")
    BY <2>1, <2>3, <2>4, PushedFacts
  <2>6. t.name = "tr" => Is(m, TableMode(t))
    BY <2>3, <2>5 DEF table_only
  <2>7. QED
    BY <2>5, <2>6 DEF t
<1>3. QED
  BY <1>1, <1>2

(* The modes when one more tag is opened in order, and when the last is closed. *)
LEMMA ModesOpen ==
  ASSUME NEW st, OpenStack(st), st # <<>>, NEW F \in SUBSET Plain, NEW m, Moded(F, st, m), NEW x \in Items, OpenedIn(st, x, Meet(st, x))
  PROVE  LET t == [syntax |-> x.syntax, name |-> x.name] IN
         /\ Moded(F, Meet(st, x), Pushed(m, t)) /\ m \in Plain
         /\ t.name \in table_only => Is(m, TableMode(t))
         /\ t \in StackTags /\ Openable(t)
<1> DEFINE t == [syntax |-> x.syntax, name |-> x.name]
           p == st[Len(st)]
<1>1. t \in StackTags /\ Openable(t)
  BY OpenInFacts DEF OpenedIn
<1>2. t.syntax = x.syntax /\ t.name = x.name /\ Meet(st, x) = Append(st, t)
  BY DEF OpenedIn
<1>3. OpenIn(p, x)
  BY DEF OpenedIn
<1> HIDE DEF t
<1>4. p.name \notin {"code", "nowiki"} /\ m \in Plain
  BY <1>3, ModeNow DEF OpenIn
<1>5. ASSUME t.name \in table_only PROVE Is(m, TableMode(t))
  <2>1. p.name \in {"table", "tr"} /\ p.syntax = t.syntax
    BY <1>2, <1>3, <1>5 DEF OpenIn, table_only
  <2>2. TableMode(p) = TableMode(t)
    BY <2>1 DEF TableMode
  <2>3. QED
    BY <2>1, <2>2, InsideModes
<1>6. m \in Seq(Modes)
  BY <1>4 DEF Plain
<1>7. Pushed(m, t) \in Seq(Modes)
  BY <1>1, <1>6, PushedFacts
<1>8. <<t, m, Pushed(m, t)>> \in ModeSteps
  BY <1>1, <1>4, <1>5, <1>7 DEF ModeSteps
<1>9. Moded(F, Append(st, t), Pushed(m, t))
  <2>1. st \in Seq(StackTags)
    BY DEF OpenStack
  <2>2. QED
    BY <1>1, <1>7, <1>8, <2>1, ChainPush, Zenon DEF Moded
<1>10. QED
  BY <1>1, <1>2, <1>4, <1>5, <1>9 DEF t

LEMMA ModesClose ==
  ASSUME NEW st, OpenStack(st), st # <<>>, NEW F \in SUBSET Plain, NEW m, Moded(F, st, m), NEW x \in Items, ClosedIn(st, x, Meet(st, x))
  PROVE  LET l == After(m, [item |-> "close", mode |-> ModeOf(x)]) IN
         /\ Moded(F, Meet(st, x), l)
         /\ Is(m, "nobb") <=> Is(l, "nobb")
         /\ ~Complains(m, [item |-> "close", mode |-> ModeOf(x)])
<1> DEFINE t == st[Len(st)]
           c == [item |-> "close", mode |-> ModeOf(x)]
           s2 == SubSeq(st, 1, Len(st) - 1)
<1>1. /\ x.item = "close" /\ Len(st) >= 2 /\ t = [syntax |-> x.syntax, name |-> x.name]
      /\ Meet(st, x) = s2
  BY DEF ClosedIn
<1>2. t \in StackTags /\ Openable(t) /\ x.syntax = t.syntax /\ x.name = t.name
  <2>1. Len(st) # 1
    BY <1>1
  <2>2. t \in StackTags /\ Openable(t)
    BY <2>1, StackFacts
  <2>3. QED
    BY <1>1, <2>2
<1>3. \E l \in Plain : /\ Moded(F, s2, l) /\ m = Pushed(l, t)
                       /\ t.name \in table_only => Is(l, TableMode(t))
  BY <1>1, LastMode, Zenon
<1> HIDE DEF t, s2
<1>4. PICK l \in Plain : Moded(F, s2, l) /\ m = Pushed(l, t)
  BY <1>3, Zenon
<1>5. l \in Seq(Modes) /\ Wikicode(l) /\ Current(l) \notin Raw
  BY DEF Plain, Wikicode
<1>6. ModeOf(x) = Opens(t)
  BY <1>1, <1>2, ClosesWhatOpens
<1>7. c.item = "close" /\ c.mode = Opens(t)
  BY <1>6
<1> HIDE DEF c
<1>8. CASE Opens(t) \in Modes
  <2>1. m = Append(l, Opens(t))
    BY <1>4, <1>8 DEF Pushed
  <2>2. Current(m) = Opens(t) /\ SubSeq(m, 1, Len(m) - 1) = l
    BY <1>5, <1>8, <2>1, AppendedMode
  <2>3. After(m, c) = l /\ ~Complains(m, c)
    BY <1>7, <2>2 DEF After, Closes, Complains
  <2>4. QED
    BY <1>1, <1>2, <1>4, <1>5, <2>3, PushedFacts DEF c
<1>9. CASE Opens(t) \notin Modes
  <2>1. m = l
    BY <1>4, <1>9 DEF Pushed
  <2>2. Opens(t) = "none"
    BY <1>2, <1>9, OpensFacts DEF Modes
  <2>3. Current(l) # "none"
    <3>1. CASE l = <<>>
      BY <3>1 DEF Current
    <3>2. CASE l # <<>>
      <4>1. Len(l) \in 1..Len(l)
        BY <1>5, <3>2, EmptySeq
      <4>2. l[Len(l)] \in Modes
        BY <1>5, <4>1
      <4>3. QED
        BY <3>2, <4>2 DEF Current, Modes
    <3>3. QED
      BY <3>1, <3>2
  <2>4. After(m, c) = l /\ ~Complains(m, c)
    BY <1>5, <1>7, <2>1, <2>2, <2>3 DEF After, Closes, Complains, Stackable
  <2>5. QED
    BY <1>1, <1>4, <2>1, <2>4 DEF c
<1>10. QED
  BY <1>8, <1>9

-----------------------------------------------------------------------------
(* The cursor while tags are in order *)

Paths == Seq(Elements) \ {<<>>}
Child(s, name, type) == Append(s, Element(name, type))
Stays(s) == {s, simple_parse(s)}

(* Where the cursor is within a tag that was met at s. *)
HtmlWithin(name, s) ==
  CASE name = "nowiki" -> {Child(s, "span", "html")}
    [] name = "tr" -> IF Top(s) = Element("table", "html") THEN {s, Child(s, "tr", "html")} ELSE {}
    [] name \in pairs \cup {"td", "th", "caption"} -> {Child(s, name, "html")}
    [] OTHER -> Stays(s)
BBWithin(name, s) ==
  CASE name \in simple_pairs \cup {"td", "th", "tr", "table"} -> {Child(s, name, "bbcode")}
    [] name = "code" -> {Child(s, "pre", "bbcode")}
    [] name = "quote" -> {Child(s, "blockquote", "bbcode")}
    [] name = "size" -> {Child(s, "font", "bbcode")}
    [] name = "color" -> {Child(s, "span", "bbcode")}
    [] name = "list" -> {Child(s, "ul", "bbcode"), Child(Child(s, "ul", "bbcode"), "li", "bbcode")}
    [] OTHER -> Stays(s)
Within(tag, s) == IF tag.syntax = "html" THEN HtmlWithin(tag.name, s) ELSE BBWithin(tag.name, s)
PathSteps == {x \in StackTags \X Paths \X Paths : x[3] \in Within(x[1], x[2])}
Traced(from, st, p) == Chain(st, p, Paths, Stays(from) \cap Paths, PathSteps)

LEMMA ClimbNowhere ==
  ASSUME NEW p \in Paths, NEW positions \in SUBSET (1..Len(p)), Len(p) \in positions
  PROVE  ClimbTo(p, positions) = p
<1>1. p \in Seq(Elements) /\ Len(p) \in Nat /\ positions # {}
  BY DEF Paths
<1>2. PICK k \in positions : /\ ClimbTo(p, positions) = SubSeq(p, 1, k)
                             /\ \A j \in positions : j <= k
  BY <1>1, ClimbIsFront, Zenon
<1>3. k \in 1..Len(p) /\ Len(p) <= k
  BY <1>2
<1>4. k = Len(p)
  BY <1>1, <1>3
<1>5. SubSeq(p, 1, Len(p)) = p
  BY <1>1
<1>6. QED
  BY <1>2, <1>4, <1>5

LEMMA ChildIs ==
  ASSUME NEW s \in Paths, NEW name \in ElementNames, NEW type \in Types
  PROVE  LET c == Child(s, name, type) IN
         /\ c \in Paths /\ Len(c) = Len(s) + 1 /\ Len(s) \in Nat \ {0}
         /\ Top(c) = Element(name, type) /\ c[Len(s) + 1] = Element(name, type)
         /\ \A i \in 1..Len(s) : c[i] = s[i]
         /\ becomeChild(s, name, type) = c /\ becomeParent(c) = s
         /\ \A names : At(c, names) <=> name \in names
         /\ inStack(c, name)
         /\ \A names : name \in names => ClimbTo(c, Named(c, names)) = c
         /\ name \in table_only => ClimbTo(c, Cells(c, type)) = c
         /\ name # "div" => simple_parse(c) = c
<1> DEFINE e == Element(name, type)
           c == Append(s, e)
<1>1. e \in Elements /\ e.name = name /\ e.type = type
  BY DEF Element, Elements
<1>2. s \in Seq(Elements) /\ s # <<>> /\ Len(s) \in Nat \ {0}
  <2>1. s \in Seq(Elements) /\ s # <<>>
    BY DEF Paths
  <2>2. QED
    BY <2>1, NotEmpty
<1>3. becomeChild(s, name, type) = c
  BY <1>2 DEF becomeChild
<1> HIDE DEF e
<1>4. /\ c \in Seq(Elements) /\ Len(c) = Len(s) + 1 /\ c[Len(s) + 1] = e
      /\ \A i \in 1..Len(s) : c[i] = s[i]
  BY <1>1, <1>2
<1>5. c # <<>> /\ SubSeq(c, 1, Len(c) - 1) = s
  BY <1>1, <1>2
<1> HIDE DEF c
<1>6. c \in Paths /\ Top(c) = e /\ becomeParent(c) = s
  BY <1>4, <1>5 DEF Paths, Top, becomeParent
<1>7. \A names : At(c, names) <=> name \in names
  BY <1>1, <1>5, <1>6 DEF At
<1>8. inStack(c, name)
  <2>1. Len(s) + 1 \in 2..Len(c)
    BY <1>2, <1>4
  <2>2. QED
    BY <1>1, <1>4, <2>1 DEF inStack
<1>9. Len(c) \in 1..Len(c)
  BY <1>2, <1>4
<1>10. ASSUME NEW names, name \in names PROVE ClimbTo(c, Named(c, names)) = c
  <2>1. Len(c) \in Named(c, names)
    BY <1>1, <1>4, <1>9, <1>10 DEF Named
  <2>2. Named(c, names) \in SUBSET (1..Len(c))
    BY NamedPositions
  <2>3. QED
    BY <1>6, <2>1, <2>2, ClimbNowhere
<1>11. ASSUME name \in table_only PROVE ClimbTo(c, Cells(c, type)) = c
  <2>1. Len(c) \in Cells(c, type)
    BY <1>1, <1>4, <1>9, <1>11 DEF Cells
  <2>2. Cells(c, type) \in SUBSET (1..Len(c))
    BY NamedPositions
  <2>3. QED
    BY <1>6, <2>1, <2>2, ClimbNowhere
<1>12. name # "div" => simple_parse(c) = c
  BY <1>7 DEF simple_parse, blocks
<1>13. QED
  BY <1>2, <1>3, <1>4, <1>6, <1>7, <1>8, <1>10, <1>11, <1>12 DEF c, e, Child

LEMMA TopOfChild ==
  ASSUME NEW s \in Paths, NEW name \in ElementNames, NEW type \in Types
  PROVE  Top(Child(s, name, type)) = Element(name, type)
BY ChildIs

LEMMA ChildTagtype ==
  ASSUME NEW s \in Paths, NEW name \in ElementNames, NEW type \in Types, NEW other \in Types
  PROVE  setTagtype(Child(s, name, type), other) = Child(s, name, other)
<1> DEFINE c == Child(s, name, type)
           d == Child(s, name, other)
           n == Len(s) + 1
           b == setTagtype(c, other)
<1>1. /\ c \in Seq(Elements) /\ c # <<>> /\ Len(c) = n /\ c[n] = Element(name, type) /\ n \in Nat \ {0}
      /\ \A i \in 1..Len(s) : c[i] = s[i]
  BY ChildIs DEF Paths
<1>2. /\ d \in Seq(Elements) /\ Len(d) = n /\ d[n] = Element(name, other)
      /\ \A i \in 1..Len(s) : d[i] = s[i]
  BY ChildIs DEF Paths
<1>3. Len(s) \in Nat
  BY ChildIs
<1>4. b = [c EXCEPT ![n].type = other]
  BY <1>1 DEF setTagtype
<1> HIDE DEF c, d
<1>5. b \in Seq(Elements) /\ Len(b) = n /\ b[n] = [Element(name, type) EXCEPT !.type = other]
      /\ \A i \in 1..Len(s) : b[i] = c[i]
  <2>1. [c[n] EXCEPT !.type = other] \in Elements
    BY <1>1 DEF Element, Elements
  <2>2. b = [c EXCEPT ![n] = [c[n] EXCEPT !.type = other]]
    BY <1>4
  <2>3. PICK e \in Elements : e = [c[n] EXCEPT !.type = other]
    BY <2>1
  <2> HIDE DEF b
  <2>4. b = [c EXCEPT ![n] = e]
    BY <2>2, <2>3
  <2>5. n \in 1..Len(c) /\ \A i \in 1..Len(s) : i # n
    BY <1>1, <1>3
  <2>6. b \in Seq(Elements) /\ Len(b) = n /\ b[n] = e
    BY <1>1, <2>4, <2>5
  <2>7. \A i \in 1..Len(s) : b[i] = c[i]
    BY <1>1, <1>3, <2>4, <2>5
  <2>8. QED
    BY <1>1, <2>3, <2>6, <2>7
<1>6. [Element(name, type) EXCEPT !.type = other] = Element(name, other)
  BY DEF Element
<1> HIDE DEF b
<1>7. \A i \in 1..n : b[i] = d[i]
  BY <1>1, <1>2, <1>3, <1>5, <1>6
<1>8. b = d
  BY <1>2, <1>5, <1>7, SeqEqual
<1>9. QED
  BY <1>8 DEF b, c, d

LEMMA SimpleStays ==
  ASSUME NEW s \in Paths, NEW p \in Stays(s)
  PROVE  simple_parse(p) \in Stays(s) /\ p \in Paths
<1>1. "p" \in ElementNames /\ "wiki" \in Types
  BY TypeNames
<1> DEFINE c == Child(s, "p", "wiki")
<1>2. becomeChild(s, "p", "wiki") = c /\ simple_parse(c) = c /\ c \in Paths
  BY <1>1, ChildIs
<1> HIDE DEF c
<1>3. simple_parse(s) \in {s, c}
  BY <1>2 DEF simple_parse
<1>4. p \in {s, c}
  BY <1>3 DEF Stays
<1>5. p = c => simple_parse(s) = c \/ s = c
  BY DEF Stays
<1>6. QED
  BY <1>2, <1>3, <1>4, <1>5 DEF Stays

LEMMA WithinNames ==
  /\ \A name \in pairs \cup table_only \cup {"span", "ul", "li", "pre", "blockquote", "font", "hr", "table"} :
       name \in ElementNames
  /\ simple_pairs \subseteq pairs /\ "html" \in Types /\ "bbcode" \in Types /\ "none" \in Types
  /\ {"td", "th", "tr", "caption"} = table_only
  /\ \A name : name \notin pairs \cup table_only \cup list_items \cup noclose \cup {"a"} => name \notin ElementNames
<1>1. ElementNames = pairs \cup list_tags \cup list_items \cup table_only \cup {"hr", "font", "a"}
  BY DEF ElementNames
<1>2. list_tags \subseteq pairs /\ "font" \in pairs /\ "hr" \in noclose /\ "li" \in list_items
  BY DEF list_tags, pairs, noclose, list_items
<1>3. {"span", "ul", "pre", "blockquote", "font", "table"} \subseteq pairs /\ simple_pairs \subseteq pairs
  BY DEF pairs, simple_pairs
<1>4. "html" \in Types /\ "bbcode" \in Types /\ "none" \in Types
  BY DEF Types
<1>5. {"td", "th", "tr", "caption"} = table_only
  BY DEF table_only
<1>6. QED
  BY <1>1, <1>2, <1>3, <1>4, <1>5

LEMMA HtmlCases ==
  ASSUME NEW t \in StackTags, Openable(t), t.syntax = "html", NEW s
  PROVE  \/ t.name = "nowiki" /\ Within(t, s) = {Child(s, "span", "html")}
         \/ /\ t.name = "tr"
            /\ Within(t, s) = IF Top(s) = Element("table", "html") THEN {s, Child(s, "tr", "html")} ELSE {}
         \/ /\ t.name \in pairs \cup {"td", "th", "caption"} /\ t.name \in ElementNames
            /\ t.name \notin {"nowiki", "tr", "div"} /\ Within(t, s) = {Child(s, t.name, "html")}
         \/ /\ t.name \notin ElementNames \cup {"nowiki", "tr"} \cup pairs \cup {"td", "th", "caption"}
            /\ Within(t, s) = Stays(s)
<1>1. Within(t, s) = HtmlWithin(t.name, s)
  BY DEF Within
<1>2. t.name \notin {"div", "a"} \cup list_items \cup noclose
  BY DEF Openable
<1>3. "nowiki" \notin pairs /\ "tr" \notin pairs /\ {"td", "th", "caption"} \cup {"tr"} = table_only
  BY DEF pairs, table_only
<1>4. CASE t.name = "nowiki"
  <2>1. Within(t, s) = {Child(s, "span", "html")}
    BY <1>1, <1>3, <1>4 DEF HtmlWithin
  <2>2. QED
    BY <1>4, <2>1, Zenon
<1>5. CASE t.name = "tr"
  <2>1. Within(t, s) = IF Top(s) = Element("table", "html") THEN {s, Child(s, "tr", "html")} ELSE {}
    BY <1>1, <1>3, <1>5 DEF HtmlWithin
  <2>2. QED
    BY <1>5, <2>1, Zenon
<1>6. CASE t.name \in pairs \cup {"td", "th", "caption"}
  <2>1. t.name \notin {"nowiki", "tr"}
    BY <1>3, <1>6
  <2>2. Within(t, s) = {Child(s, t.name, "html")}
    BY <1>1, <1>6, <2>1 DEF HtmlWithin
  <2>3. t.name \in ElementNames
    BY <1>6, WithinNames DEF table_only
  <2>4. QED
    BY <1>2, <1>6, <2>1, <2>2, <2>3
<1>7. CASE t.name \notin {"nowiki", "tr"} \cup pairs \cup {"td", "th", "caption"}
  <2>1. Within(t, s) = Stays(s)
    BY <1>1, <1>7 DEF HtmlWithin
  <2>2. t.name \notin ElementNames
    BY <1>2, <1>3, <1>7, WithinNames
  <2>3. QED
    BY <1>7, <2>1, <2>2
<1>8. QED
  BY <1>4, <1>5, <1>6, <1>7

(* The element that a pair of tags of BBCode stands for. *)
BBNames(name) ==
  CASE name \in simple_pairs \cup {"td", "th", "tr", "table"} -> name
    [] name = "code" -> "pre"
    [] name = "quote" -> "blockquote"
    [] name = "size" -> "font"
    [] name = "color" -> "span"
    [] OTHER -> "none"
BBPairs == simple_pairs \cup {"td", "th", "tr", "table", "code", "quote", "size", "color"}

LEMMA BBCases ==
  ASSUME NEW t \in StackTags, t.syntax = "bbcode", NEW s
  PROVE  \/ /\ t.name \in BBPairs /\ BBNames(t.name) \in ElementNames /\ BBNames(t.name) # "div"
            /\ Within(t, s) = {Child(s, BBNames(t.name), "bbcode")}
         \/ /\ t.name = "list"
            /\ Within(t, s) = {Child(s, "ul", "bbcode"), Child(Child(s, "ul", "bbcode"), "li", "bbcode")}
         \/ t.name \notin BBPairs \cup {"list"} /\ Within(t, s) = Stays(s)
<1>1. Within(t, s) = BBWithin(t.name, s)
  BY DEF Within
<1>2. {"code", "quote", "size", "color", "list"} \cap (simple_pairs \cup {"td", "th", "tr", "table"}) = {}
  BY DEF simple_pairs
<1>3. CASE t.name \in simple_pairs \cup {"td", "th", "tr", "table"}
  <2>1. t.name \in ElementNames /\ t.name # "div"
    <3>1. t.name \in ElementNames
      BY <1>3, WithinNames DEF table_only
    <3>2. t.name # "div"
      BY <1>3 DEF simple_pairs
    <3>3. QED
      BY <3>1, <3>2
  <2>2. t.name \notin {"code", "quote", "size", "color", "list"}
    BY <1>2, <1>3
  <2>3. BBNames(t.name) = t.name /\ BBWithin(t.name, s) = {Child(s, t.name, "bbcode")}
    BY <1>3, <2>2 DEF BBNames, BBWithin
  <2>4. QED
    BY <1>1, <1>3, <2>1, <2>3 DEF BBPairs
<1>4. CASE t.name \in {"code", "quote", "size", "color"}
  <2>1. t.name \notin simple_pairs \cup {"td", "th", "tr", "table"}
    BY <1>2, <1>4
  <2>2. /\ BBNames(t.name) \in {"pre", "blockquote", "font", "span"}
        /\ BBWithin(t.name, s) = {Child(s, BBNames(t.name), "bbcode")}
    BY <1>4, <2>1 DEF BBNames, BBWithin
  <2>3. BBNames(t.name) \in ElementNames /\ BBNames(t.name) # "div"
    BY <2>2, WithinNames
  <2>4. QED
    BY <1>1, <1>4, <2>2, <2>3 DEF BBPairs
<1>5. CASE t.name = "list"
  <2>1. t.name \notin simple_pairs \cup {"td", "th", "tr", "table"}
    BY <1>2, <1>5
  <2>2. QED
    BY <1>1, <1>5, <2>1 DEF BBWithin
<1>6. CASE t.name \notin BBPairs \cup {"list"}
  BY <1>1, <1>6 DEF BBPairs, BBWithin
<1>7. QED
  BY <1>3, <1>4, <1>5, <1>6 DEF BBPairs

(* Text that is met within a tag leaves the cursor within it. *)
LEMMA WithinSimple ==
  ASSUME NEW t \in StackTags, Openable(t), NEW s \in Paths, NEW p \in Within(t, s)
  PROVE  p \in Paths /\ simple_parse(p) \in Within(t, s)
<1>1. t.syntax \in {"html", "bbcode"}
  BY DEF Openable, Syntaxes
<1>2. ASSUME NEW name \in ElementNames, name # "div", NEW type \in Types, p = Child(s, name, type)
      PROVE  p \in Paths /\ simple_parse(p) = p
  BY <1>2, ChildIs
<1>3. p \in Stays(s) => p \in Paths /\ simple_parse(p) \in Stays(s)
  BY SimpleStays
<1>4. CASE t.syntax = "html"
  <2>1. CASE Within(t, s) = {Child(s, "span", "html")}
    BY <1>2, <2>1, WithinNames
  <2>2. CASE Within(t, s) = IF Top(s) = Element("table", "html") THEN {s, Child(s, "tr", "html")} ELSE {}
    <3>1. Top(s) = Element("table", "html") /\ p \in {s, Child(s, "tr", "html")}
      BY <2>2
    <3>2. CASE p = s
      <4>1. simple_parse(s) = s
        BY <3>1 DEF simple_parse, At, Element, blocks
      <4>2. QED
        BY <3>2, <4>1
    <3>3. CASE p = Child(s, "tr", "html")
      BY <1>2, <3>3, WithinNames DEF table_only
    <3>4. QED
      BY <3>1, <3>2, <3>3
  <2>3. CASE t.name \in ElementNames /\ t.name # "div" /\ Within(t, s) = {Child(s, t.name, "html")}
    BY <1>2, <2>3, WithinNames
  <2>4. CASE Within(t, s) = Stays(s)
    BY <1>3, <2>4
  <2>5. \/ Within(t, s) = {Child(s, "span", "html")}
        \/ Within(t, s) = IF Top(s) = Element("table", "html") THEN {s, Child(s, "tr", "html")} ELSE {}
        \/ t.name \in ElementNames /\ t.name # "div" /\ Within(t, s) = {Child(s, t.name, "html")}
        \/ Within(t, s) = Stays(s)
    <3>1. t.name \notin {"nowiki", "tr", "div"} => t.name # "div"
      OBVIOUS
    <3>2. QED
      BY <1>4, <3>1, HtmlCases, Zenon
  <2>6. QED
    BY <2>1, <2>2, <2>3, <2>4, <2>5, Zenon
<1>5. CASE t.syntax = "bbcode"
  <2>1. CASE BBNames(t.name) \in ElementNames /\ BBNames(t.name) # "div" /\ Within(t, s) = {Child(s, BBNames(t.name), "bbcode")}
    BY <1>2, <2>1, WithinNames
  <2>2. CASE Within(t, s) = {Child(s, "ul", "bbcode"), Child(Child(s, "ul", "bbcode"), "li", "bbcode")}
    <3>1. Child(s, "ul", "bbcode") \in Paths
      BY ChildIs, WithinNames
    <3>2. CASE p = Child(s, "ul", "bbcode")
      BY <1>2, <3>2, WithinNames
    <3>3. CASE p = Child(Child(s, "ul", "bbcode"), "li", "bbcode")
      <4>1. PICK u \in Paths : p = Child(u, "li", "bbcode")
        BY <3>1, <3>3
      <4>2. "li" \in ElementNames /\ "li" # "div" /\ "bbcode" \in Types
        BY WithinNames
      <4>3. p \in Paths /\ simple_parse(p) = p
        BY <4>1, <4>2, ChildIs
      <4>4. QED
        BY <4>3
    <3>4. QED
      BY <2>2, <3>2, <3>3
  <2>3. CASE Within(t, s) = Stays(s)
    BY <1>3, <2>3
  <2>4. QED
    BY <1>5, <2>1, <2>2, <2>3, BBCases
<1>6. QED
  BY <1>1, <1>4, <1>5

(* The parts of a table of html. *)
LEMMA AtTheTable ==
  ASSUME NEW s \in Paths, Top(s) = Element("table", "html")
  PROVE  /\ endCell(s, "html") = s /\ endRow(s, "html") = s /\ AssertTable(s, "html") = s
         /\ startRow(s, "html") = Child(s, "tr", "html")
         /\ startCaption(s, "html") = Child(s, "caption", "html")
<1>1. s # <<>>
  BY DEF Paths
<1>2. At(s, {"table"}) /\ ~At(s, {"td", "th", "caption"}) /\ ~At(s, {"tr"})
  BY <1>1 DEF At, Element
<1>3. endCell(s, "html") = s
  BY <1>2 DEF endCell
<1>4. endRow(s, "html") = s
  BY <1>2, <1>3 DEF endRow
<1>5. AssertTable(s, "html") = s
  BY <1>1 DEF AssertTable
<1>6. becomeChild(s, "tr", "html") = Child(s, "tr", "html") /\ becomeChild(s, "caption", "html") = Child(s, "caption", "html")
  BY <1>1 DEF becomeChild, Child
<1>7. QED
  BY <1>3, <1>4, <1>5, <1>6 DEF startRow, startCaption

LEMMA AtTheRow ==
  ASSUME NEW s \in Paths, Top(s) = Element("table", "html"), NEW p \in {s, Child(s, "tr", "html")}
  PROVE  /\ startCell(p, "html") = Child(Child(s, "tr", "html"), "td", "html")
         /\ startHeader(p, "html") = Child(Child(s, "tr", "html"), "th", "html")
<1> DEFINE r == Child(s, "tr", "html")
<1>0. "tr" \in table_only /\ "tr" \in ElementNames /\ "html" \in Types
  BY WithinNames DEF table_only
<1>1. /\ r \in Paths /\ \A names : At(r, names) <=> "tr" \in names
      /\ ClimbTo(r, Cells(r, "html")) = r
  BY <1>0, ChildIs
<1>2. startRow(s, "html") = r
  BY AtTheTable
<1> HIDE DEF r
<1>3. endCell(r, "html") = r
  <2>1. ~At(r, {"td", "th", "caption"})
    BY <1>1
  <2>2. QED
    BY <1>1, <2>1 DEF endCell
<1>4. r # <<>> /\ InRow(r, "html") = r
  BY <1>1, <1>3 DEF InRow, Paths
<1>5. InRow(s, "html") = r
  <2>1. s # <<>> /\ ~At(s, {"tr"})
    BY DEF Paths, At, Element
  <2>2. endCell(s, "html") = s
    BY AtTheTable
  <2>3. QED
    BY <1>2, <2>1, <2>2 DEF InRow
<1>6. InRow(p, "html") = r
  BY <1>4, <1>5 DEF r
<1>7. becomeChild(r, "td", "html") = Child(r, "td", "html") /\ becomeChild(r, "th", "html") = Child(r, "th", "html")
  BY <1>4 DEF becomeChild, Child
<1>8. QED
  BY <1>6, <1>7 DEF startCell, startHeader, r

(* What a tag of html opens. *)
LEMMA HtmlOpens ==
  ASSUME NEW t \in StackTags, Openable(t), t.syntax = "html", t.name = Item.name, path \in Paths,
         t.name \in table_only => Is(mode, "htmltable"), t.name \notin {"td", "th"},
         t.name \in {"tr", "caption"} => Top(path) = Element("table", "html")
  PROVE  HtmlOpened \in Within(t, path)
<1>1. t.name \notin {"div", "a", "css"} \cup list_items \cup noclose
  BY DEF Openable
<1>2. /\ "nowiki" \notin pairs \cup noclose \cup (formatting_pairs \ {"nowiki"}) /\ table_only \cap pairs = {}
      /\ table_only \cap (noclose \cup formatting_pairs) = {} /\ pairs \cap (noclose \cup formatting_pairs) = {}
      /\ formatting_pairs \ {"nowiki"} = {"css"} /\ "nowiki" \notin list_items \cup table_only
      /\ table_only \cap list_items = {} /\ pairs \cap list_items = {} /\ "table" \notin table_only
  BY DEF pairs, noclose, formatting_pairs, table_only, list_items
<1>3. path # <<>>
  BY DEF Paths
<1>4. \A name, type : becomeChild(path, name, type) = Child(path, name, type)
  BY <1>3 DEF becomeChild, Child
<1>5. CASE t.name = "nowiki" /\ Within(t, path) = {Child(path, "span", "html")}
  <2>1. /\ Item.name \notin pairs /\ Item.name # "table" /\ Item.name = "nowiki"
        /\ Item.name \notin noclose \cup (formatting_pairs \ {"nowiki"}) /\ Item.name \notin list_items \cup table_only
    BY <1>2, <1>5
  <2>2. HtmlOpened = becomeChild(path, "span", "html")
    BY <1>5, <2>1 DEF HtmlOpened
  <2>3. QED
    BY <1>4, <1>5, <2>2
<1>6. CASE /\ t.name = "tr"
           /\ Within(t, path) = IF Top(path) = Element("table", "html") THEN {path, Child(path, "tr", "html")} ELSE {}
  <2>1. /\ Item.name \in table_only /\ Item.name \notin pairs \cup noclose \cup formatting_pairs \cup list_items
        /\ Item.name \notin {"table", "nowiki"} /\ Item.name = "tr" /\ Is(mode, "htmltable")
    BY <1>2, <1>6 DEF table_only
  <2>2. HtmlOpened = endRow(path, "html")
    BY <2>1 DEF HtmlOpened
  <2>3. Top(path) = Element("table", "html")
    BY <1>6
  <2>4. HtmlOpened = path
    BY <2>2, <2>3, AtTheTable
  <2>5. QED
    BY <1>6, <2>3, <2>4
<1>7. CASE /\ t.name \in pairs \cup {"td", "th", "caption"} /\ t.name \in ElementNames
           /\ t.name \notin {"nowiki", "tr", "div"} /\ Within(t, path) = {Child(path, t.name, "html")}
  <2>1. CASE t.name = "caption"
    <3>1. /\ Item.name \in table_only /\ Item.name \notin pairs \cup noclose \cup formatting_pairs \cup list_items
          /\ Item.name \notin {"table", "nowiki"} /\ Item.name = "caption" /\ Is(mode, "htmltable")
      BY <1>2, <2>1 DEF table_only
    <3>2. HtmlOpened = startCaption(path, "html")
      BY <3>1 DEF HtmlOpened
    <3>3. QED
      BY <1>7, <2>1, <3>2, AtTheTable
  <2>2. CASE t.name \in pairs
    <3>1. /\ Item.name \notin noclose \cup formatting_pairs \cup table_only \cup list_items
          /\ Item.name # "nowiki" /\ Item.name = t.name
      BY <1>2, <2>2
    <3>2. CASE t.name = "table"
      <4>1. HtmlOpened = startTable(path, "html")
        BY <3>1, <3>2 DEF HtmlOpened
      <4>2. QED
        BY <1>4, <1>7, <3>2, <4>1 DEF startTable
    <3>3. CASE t.name # "table"
      <4>1. HtmlOpened = becomeChild(path, t.name, "html")
        BY <2>2, <3>1, <3>3 DEF HtmlOpened
      <4>2. QED
        BY <1>4, <1>7, <4>1
    <3>4. QED
      BY <3>2, <3>3
  <2>3. QED
    BY <1>7, <2>1, <2>2
<1>8. CASE /\ t.name \notin ElementNames \cup {"nowiki", "tr"} \cup pairs \cup {"td", "th", "caption"}
           /\ Within(t, path) = Stays(path)
  <2>1. t.name \notin table_only /\ t.name # "table"
    BY <1>8, WithinNames
  <2>2. t.name \notin noclose \cup (formatting_pairs \ {"nowiki"})
    BY <1>1, <1>2
  <2>3. HtmlOpened = simple_parse(path)
    BY <1>1, <1>8, <2>1, <2>2 DEF HtmlOpened
  <2>4. QED
    BY <1>8, <2>3 DEF Stays
<1>9. QED
  BY <1>5, <1>6, <1>7, <1>8, HtmlCases, Zenon

LEMMA HtmlCellOpens ==
  ASSUME Item.name \in {"td", "th"}, Is(mode, "htmltable"),
         NEW s \in Paths, Top(s) = Element("table", "html"), path \in {s, Child(s, "tr", "html")}
  PROVE  HtmlOpened = Child(Child(s, "tr", "html"), Item.name, "html")
<1>1. /\ Item.name \in table_only /\ Item.name \notin pairs \cup noclose \cup formatting_pairs \cup list_items
      /\ Item.name \notin {"table", "nowiki", "tr", "caption"}
  BY DEF table_only, pairs, noclose, formatting_pairs, list_items
<1>2. /\ Item.name = "td" => HtmlOpened = startCell(path, "html")
      /\ Item.name = "th" => HtmlOpened = startHeader(path, "html")
  BY <1>1 DEF HtmlOpened
<1>3. QED
  BY <1>2, AtTheRow

(* What a tag of html closes. *)
LEMMA HtmlCloses ==
  ASSUME NEW t \in StackTags, Openable(t), t.syntax = "html", t.name = Item.name,
         t.name # "nowiki" => Wikicode(mode), NEW s \in Paths, path \in Within(t, s)
  PROVE  HtmlClosed \in Stays(s)
<1>1. ASSUME NEW name \in ElementNames, path = Child(s, name, "html"), name = t.name \/ t.name = "nowiki"
      PROVE  HtmlClosed = s
  <2>1. becomeParent(path) = s /\ At(path, {name})
    BY <1>1, WithinNames, ChildIs
  <2>2. QED
    BY <1>1, <2>1 DEF HtmlClosed
<1>2. CASE t.name = "nowiki" /\ Within(t, s) = {Child(s, "span", "html")}
  BY <1>1, <1>2, WithinNames DEF Stays
<1>3. CASE /\ t.name = "tr"
           /\ Within(t, s) = IF Top(s) = Element("table", "html") THEN {s, Child(s, "tr", "html")} ELSE {}
  <2>1. Top(s) = Element("table", "html") /\ path \in {s, Child(s, "tr", "html")}
    BY <1>3
  <2>2. CASE path = s
    <3>1. ~At(path, {"tr"})
      BY <2>1, <2>2 DEF At, Element
    <3>2. QED
      BY <1>3, <2>2, <3>1 DEF HtmlClosed, Stays
  <2>3. CASE path = Child(s, "tr", "html")
    BY <1>1, <1>3, <2>3, WithinNames DEF Stays, table_only
  <2>4. QED
    BY <2>1, <2>2, <2>3
<1>4. CASE /\ t.name \in ElementNames /\ t.name # "nowiki" /\ Within(t, s) = {Child(s, t.name, "html")}
  BY <1>1, <1>4 DEF Stays
<1>5. CASE t.name \notin ElementNames /\ t.name # "nowiki" /\ Within(t, s) = Stays(s)
  <2>1. path \in Paths
    BY <1>5, SimpleStays
  <2>2. Top(path).name \in ElementNames
    BY <2>1, NotEmpty DEF Paths, Elements
  <2>3. ~At(path, {t.name})
    BY <1>5, <2>2 DEF At
  <2>4. QED
    BY <1>5, <2>3 DEF HtmlClosed
<1>6. \/ t.name = "nowiki" /\ Within(t, s) = {Child(s, "span", "html")}
      \/ /\ t.name = "tr"
         /\ Within(t, s) = IF Top(s) = Element("table", "html") THEN {s, Child(s, "tr", "html")} ELSE {}
      \/ t.name \in ElementNames /\ t.name # "nowiki" /\ Within(t, s) = {Child(s, t.name, "html")}
      \/ t.name \notin ElementNames /\ t.name # "nowiki" /\ Within(t, s) = Stays(s)
  <2>1. t.name \notin {"nowiki", "tr", "div"} => t.name # "nowiki"
    OBVIOUS
  <2>2. t.name \notin ElementNames \cup {"nowiki", "tr"} \cup pairs \cup {"td", "th", "caption"}
        => t.name \notin ElementNames /\ t.name # "nowiki"
    OBVIOUS
  <2>3. QED
    BY <2>1, <2>2, HtmlCases, Zenon
<1>7. QED
  BY <1>2, <1>3, <1>4, <1>5, <1>6, Zenon

(* What a tag of BBCode opens. *)
LEMMA BBOpensFacts ==
  ASSUME Item.fits = TRUE, Item.name \in {"td", "th", "tr"} => Is(mode, "bbtable"),
         Item.name \notin {"rule", "break", "img", "url", "*"}
  PROVE  /\ Item.name \in BBPairs \ {"table"} => BBOpens = <<"child", BBNames(Item.name)>>
         /\ Item.name = "table" => BBOpens = <<"table">>
         /\ Item.name = "list" => BBOpens = <<"tried", "ul">>
         /\ Item.name \notin BBPairs \cup {"list"} => BBOpens = <<"text">>
<1>1. CASE Item.name \in simple_pairs
  <2>1. Item.name \notin {"td", "th", "tr", "table", "code", "quote", "size", "color", "list"}
    BY <1>1 DEF simple_pairs
  <2>2. BBOpens = <<"child", Item.name>>
    BY <1>1, <2>1 DEF BBOpens
  <2>3. BBNames(Item.name) = Item.name
    BY <1>1, <2>1 DEF BBNames
  <2>4. QED
    BY <1>1, <2>1, <2>2, <2>3 DEF BBPairs
<1>2. CASE Item.name \in {"td", "th", "tr"}
  <2>1. Item.name \notin simple_pairs \cup {"table", "code", "quote", "size", "color", "list"}
    BY <1>2 DEF simple_pairs
  <2>2. BBOpens = <<"child", Item.name>>
    BY <1>2, <2>1 DEF BBOpens
  <2>3. BBNames(Item.name) = Item.name
    BY <1>2, <2>1 DEF BBNames
  <2>4. QED
    BY <1>2, <2>1, <2>2, <2>3 DEF BBPairs
<1>3. CASE Item.name \in {"table", "code", "quote", "size", "color", "list"}
  <2>1. Item.name \notin simple_pairs \cup {"td", "th", "tr"}
    BY <1>3 DEF simple_pairs
  <2>2. /\ Item.name = "table" => BBOpens = <<"table">>
        /\ Item.name = "list" => BBOpens = <<"tried", "ul">>
        /\ Item.name = "code" => BBOpens = <<"child", "pre">>
        /\ Item.name = "quote" => BBOpens = <<"child", "blockquote">>
        /\ Item.name = "size" => BBOpens = <<"child", "font">>
        /\ Item.name = "color" => BBOpens = <<"child", "span">>
    BY <2>1 DEF BBOpens
  <2>3. /\ Item.name = "code" => BBNames(Item.name) = "pre"
        /\ Item.name = "quote" => BBNames(Item.name) = "blockquote"
        /\ Item.name = "size" => BBNames(Item.name) = "font"
        /\ Item.name = "color" => BBNames(Item.name) = "span"
    BY <2>1 DEF BBNames
  <2>4. QED
    BY <1>3, <2>1, <2>2, <2>3 DEF BBPairs
<1>4. CASE Item.name \notin BBPairs \cup {"list"}
  <2>1. BBOpens = <<"text">>
    BY <1>4 DEF BBOpens, BBPairs
  <2>2. QED
    BY <1>4, <2>1 DEF BBPairs
<1>5. QED
  BY <1>1, <1>2, <1>3, <1>4 DEF BBPairs

LEMMA BBOpensWithin ==
  ASSUME NEW t \in StackTags, Openable(t), t.syntax = "bbcode", t.name = Item.name, path \in Paths,
         Item.fits = TRUE, t.name \in table_only => Is(mode, "bbtable")
  PROVE  BBOpened \in Within(t, path)
<1>1. t.name \notin {"rule", "break", "img", "url", "*"} /\ t.name # "caption"
  BY DEF Openable
<1>2. /\ Item.name \in BBPairs \ {"table"} => BBOpens = <<"child", BBNames(Item.name)>>
      /\ Item.name = "table" => BBOpens = <<"table">>
      /\ Item.name = "list" => BBOpens = <<"tried", "ul">>
      /\ Item.name \notin BBPairs \cup {"list"} => BBOpens = <<"text">>
  BY <1>1, BBOpensFacts DEF table_only
<1>3. path # <<>> /\ \A name, type : becomeChild(path, name, type) = Child(path, name, type)
  BY DEF Paths, becomeChild, Child
<1>4. \A name \in ElementNames, type \in Types : setTagtype(Child(path, name, type), "bbcode") = Child(path, name, "bbcode")
  BY ChildTagtype, WithinNames
<1>5. CASE /\ t.name \in BBPairs /\ BBNames(t.name) \in ElementNames
           /\ Within(t, path) = {Child(path, BBNames(t.name), "bbcode")}
  <2>1. CASE t.name = "table"
    <3>1. BBOpened = setTagtype(startTable(path, "bbcode"), "bbcode")
      BY <1>2, <2>1 DEF BBOpened
    <3>2. BBNames("table") = "table"
      BY DEF BBNames
    <3>3. BBOpened = Child(path, "table", "bbcode")
      BY <1>3, <1>4, <3>1, WithinNames DEF startTable
    <3>4. QED
      BY <1>5, <2>1, <3>2, <3>3
  <2>2. CASE t.name # "table"
    <3> DEFINE name == BBNames(Item.name)
    <3>1. BBOpens = <<"child", name>> /\ name \in ElementNames
      BY <1>2, <1>5, <2>2
    <3> HIDE DEF name
    <3>2. BBOpened = setTagtype(becomeChild(path, name, "none"), "bbcode")
      BY <3>1 DEF BBOpened
    <3>3. BBOpened = Child(path, name, "bbcode")
      BY <1>3, <1>4, <3>1, <3>2, WithinNames
    <3>4. QED
      BY <1>5, <3>3 DEF name
  <2>3. QED
    BY <2>1, <2>2
<1>6. CASE /\ t.name = "list"
           /\ Within(t, path) = {Child(path, "ul", "bbcode"), Child(Child(path, "ul", "bbcode"), "li", "bbcode")}
  <2>1. BBOpened = setTagtype(becomeChild(path, "ul", "none"), "bbcode")
    BY <1>2, <1>6 DEF BBOpened
  <2>2. BBOpened = Child(path, "ul", "bbcode")
    BY <1>3, <1>4, <2>1, WithinNames
  <2>3. QED
    BY <1>6, <2>2
<1>7. CASE t.name \notin BBPairs \cup {"list"} /\ Within(t, path) = Stays(path)
  <2>1. BBOpened = simple_parse(path)
    BY <1>2, <1>7 DEF BBOpened
  <2>2. QED
    BY <1>7, <2>1 DEF Stays
<1>8. QED
  BY <1>5, <1>6, <1>7, BBCases, Zenon

(* An item of a list of BBCode ends the one before. *)
LEMMA BBItem ==
  ASSUME Item.name = "*", Is(mode, "bblist"), NEW s \in Paths,
         path \in {Child(s, "ul", "bbcode"), Child(Child(s, "ul", "bbcode"), "li", "bbcode")}
  PROVE  BBOpened = Child(Child(s, "ul", "bbcode"), "li", "bbcode")
<1> DEFINE u == Child(s, "ul", "bbcode")
           l == Child(u, "li", "bbcode")
           names == list_tags
<1>0. "ul" \in ElementNames /\ "li" \in ElementNames /\ "bbcode" \in Types /\ "none" \in Types
  BY WithinNames
<1>1. /\ u \in Paths /\ Len(u) = Len(s) + 1 /\ Len(s) \in Nat \ {0} /\ inStack(u, "ul")
      /\ u[Len(s) + 1] = Element("ul", "bbcode")
      /\ \A n : "ul" \in n => ClimbTo(u, Named(u, n)) = u
  BY <1>0, ChildIs
<1> HIDE DEF u
<1>2. /\ l \in Paths /\ Len(l) = Len(u) + 1 /\ l[Len(u) + 1] = Element("li", "bbcode")
      /\ \A i \in 1..Len(u) : l[i] = u[i]
      /\ becomeParent(l) = u
  BY <1>0, <1>1, ChildIs
<1>3. ClimbTo(u, Named(u, list_tags)) = u
  BY <1>1 DEF list_tags
<1> HIDE DEF l
<1>4. inStack(l, "ul")
  <2>1. Len(s) + 1 \in 2..Len(l) /\ Len(s) + 1 \in 1..Len(u)
    BY <1>1, <1>2
  <2>2. l[Len(s) + 1].name = "ul"
    BY <1>1, <1>2, <2>1 DEF Element
  <2>3. QED
    BY <2>1, <2>2 DEF inStack
<1>5. ClimbTo(l, Named(l, list_tags)) = u
  <2> DEFINE positions == Named(l, list_tags)
  <2>1. positions \in SUBSET (1..Len(l))
    BY NamedPositions
  <2>2. Len(u) \in positions
    BY <1>1, <1>2 DEF Named, Element, list_tags
  <2>3. Len(u) + 1 \notin positions
    BY <1>2 DEF Named, Element, list_tags
  <2> HIDE DEF positions
  <2>4. l \in Seq(Elements) /\ positions # {}
    BY <1>2, <2>2 DEF Paths
  <2>5. PICK k \in positions : /\ ClimbTo(l, positions) = SubSeq(l, 1, k)
                               /\ \A j \in positions : j <= k
    BY <2>1, <2>4, ClimbIsFront, Zenon
  <2>6. Len(u) \in Nat /\ k \in 1..(Len(u) + 1) /\ k # Len(u) + 1 /\ Len(u) <= k
    BY <1>1, <1>2, <2>1, <2>2, <2>3, <2>5
  <2>7. k = Len(u)
    BY <2>6
  <2>8. becomeParent(l) = SubSeq(l, 1, Len(u))
    <3>1. Len(l) - 1 = Len(u)
      BY <1>2, <2>6
    <3>2. QED
      BY <1>2, <3>1 DEF becomeParent, Paths
  <2>9. ClimbTo(l, positions) = SubSeq(l, 1, Len(u))
    BY <2>5, <2>7, Zenon
  <2>10. u = SubSeq(l, 1, Len(u))
    BY <1>2, <2>8, Zenon
  <2>11. ClimbTo(l, positions) = u
    BY <2>9, <2>10, Zenon
  <2>12. QED
    BY <2>11, Zenon DEF positions
<1>6. ListItem(path) = becomeChild(u, "li", "none")
  BY <1>1, <1>3, <1>4, <1>5 DEF ListItem, u, l
<1>7. becomeChild(u, "li", "none") = Child(u, "li", "none") /\ setTagtype(Child(u, "li", "none"), "bbcode") = Child(u, "li", "bbcode")
  BY <1>0, <1>1, ChildTagtype DEF becomeChild, Child, Paths
<1>8. BBOpens = <<"item">>
  <2>1. "*" \notin simple_pairs
    BY DEF simple_pairs
  <2>2. QED
    BY <2>1 DEF BBOpens
<1>9. BBOpened = setTagtype(ListItem(path), "bbcode")
  BY <1>8 DEF BBOpened
<1>10. QED
  BY <1>6, <1>7, <1>9 DEF u

(* What a tag of BBCode closes. *)
LEMMA BBClosersFacts ==
  ASSUME NEW name, name \notin {"rule", "break", "img", "url", "*"}
  PROVE  /\ name \in BBPairs => BBNames(name) \in Closers(name)
         /\ name = "list" => Closers(name) = {"ol", "ul"}
         /\ name \notin BBPairs \cup {"list"} => Closers(name) = {}
<1>1. CASE name \in simple_pairs \cup {"td", "th", "tr"}
  <2>1. name \notin {"table", "code", "quote", "size", "color", "list"}
    BY <1>1 DEF simple_pairs
  <2>2. Closers(name) = {name}
    BY <1>1, <2>1 DEF Closers
  <2>3. BBNames(name) = name
    BY <1>1, <2>1 DEF BBNames
  <2>4. QED
    BY <1>1, <2>1, <2>2, <2>3 DEF BBPairs
<1>2. CASE name \in {"table", "code", "quote", "size", "color", "list"}
  <2>1. name \notin simple_pairs \cup {"td", "th", "tr"}
    BY <1>2 DEF simple_pairs
  <2>2. /\ name = "table" => Closers(name) = {"table"}
        /\ name = "list" => Closers(name) = {"ol", "ul"}
        /\ name = "code" => Closers(name) = {"pre"}
        /\ name = "quote" => Closers(name) = {"blockquote"}
        /\ name = "size" => Closers(name) = {"font", "h2"}
        /\ name = "color" => Closers(name) = {"span"}
    BY <2>1 DEF Closers
  <2>3. /\ name = "table" => BBNames(name) = "table"
        /\ name = "code" => BBNames(name) = "pre"
        /\ name = "quote" => BBNames(name) = "blockquote"
        /\ name = "size" => BBNames(name) = "font"
        /\ name = "color" => BBNames(name) = "span"
    BY <2>1 DEF BBNames
  <2>4. QED
    BY <1>2, <2>1, <2>2, <2>3 DEF BBPairs
<1>3. CASE name \notin BBPairs \cup {"list"}
  <2>1. Closers(name) = {}
    BY <1>3 DEF Closers, BBPairs
  <2>2. QED
    BY <1>3, <2>1
<1>4. QED
  BY <1>1, <1>2, <1>3 DEF BBPairs

LEMMA BBCloses ==
  ASSUME NEW t \in StackTags, Openable(t), t.syntax = "bbcode", t.name = Item.name,
         NEW s \in Paths, path \in Within(t, s)
  PROVE  BBClosed \in Stays(s)
<1>1. Item.name \notin {"rule", "break", "img", "url", "*"}
  BY DEF Openable
<1> DEFINE c == Closers(Item.name)
<1>2. /\ Item.name \in BBPairs => BBNames(Item.name) \in c
      /\ Item.name = "list" => c = {"ol", "ul"}
      /\ Item.name \notin BBPairs \cup {"list"} => c = {}
  BY <1>1, BBClosersFacts
<1>3. BBClosed = IF \E name \in c : inStack(path, name)
                 THEN becomeParent(ClimbTo(path, Named(path, c)))
                 ELSE simple_parse(path)
  BY DEF BBClosed
<1> HIDE DEF c
<1>4. ASSUME NEW name \in ElementNames, name \in c, path = Child(s, name, "bbcode")
      PROVE  BBClosed = s
  <2>1. inStack(path, name) /\ ClimbTo(path, Named(path, c)) = path /\ becomeParent(path) = s
    BY <1>4, WithinNames, ChildIs
  <2>2. QED
    BY <1>3, <1>4, <2>1
<1>5. CASE /\ t.name \in BBPairs /\ BBNames(t.name) \in ElementNames
           /\ Within(t, s) = {Child(s, BBNames(t.name), "bbcode")}
  BY <1>2, <1>4, <1>5 DEF Stays
<1>6. CASE /\ t.name = "list"
           /\ Within(t, s) = {Child(s, "ul", "bbcode"), Child(Child(s, "ul", "bbcode"), "li", "bbcode")}
  <2> DEFINE u == Child(s, "ul", "bbcode")
             l == Child(u, "li", "bbcode")
  <2>0. "ul" \in ElementNames /\ "li" \in ElementNames /\ "bbcode" \in Types /\ c = {"ol", "ul"}
    BY <1>2, <1>6, WithinNames
  <2>1. CASE path = u
    BY <1>4, <2>0, <2>1 DEF Stays
  <2>2. CASE path = l
    <3>1. /\ u \in Paths /\ Len(u) = Len(s) + 1 /\ Len(s) \in Nat \ {0}
          /\ u[Len(s) + 1] = Element("ul", "bbcode") /\ becomeParent(u) = s
      BY <2>0, ChildIs
    <3> HIDE DEF u
    <3>2. /\ l \in Paths /\ Len(l) = Len(u) + 1 /\ l[Len(u) + 1] = Element("li", "bbcode")
          /\ \A i \in 1..Len(u) : l[i] = u[i]
          /\ becomeParent(l) = u
      BY <2>0, <3>1, ChildIs
    <3> HIDE DEF l
    <3>3. inStack(l, "ul")
      <4>1. Len(s) + 1 \in 2..Len(l) /\ Len(s) + 1 \in 1..Len(u)
        BY <3>1, <3>2
      <4>2. l[Len(s) + 1].name = "ul"
        BY <3>1, <3>2, <4>1 DEF Element
      <4>3. QED
        BY <4>1, <4>2 DEF inStack
    <3>4. ClimbTo(l, Named(l, c)) = u
      <4> DEFINE positions == Named(l, c)
      <4>1. positions \in SUBSET (1..Len(l))
        BY NamedPositions
      <4>2. Len(u) \in positions
        BY <2>0, <3>1, <3>2 DEF Named, Element
      <4>3. Len(u) + 1 \notin positions
        BY <2>0, <3>2 DEF Named, Element
      <4> HIDE DEF positions
      <4>4. l \in Seq(Elements) /\ positions # {}
        BY <3>2, <4>2 DEF Paths
      <4>5. PICK k \in positions : /\ ClimbTo(l, positions) = SubSeq(l, 1, k)
                                   /\ \A j \in positions : j <= k
        BY <4>1, <4>4, ClimbIsFront, Zenon
      <4>6. Len(u) \in Nat /\ k \in 1..(Len(u) + 1) /\ k # Len(u) + 1 /\ Len(u) <= k
        BY <3>1, <3>2, <4>1, <4>2, <4>3, <4>5
      <4>7. k = Len(u)
        BY <4>6
      <4>8. becomeParent(l) = SubSeq(l, 1, Len(u))
        <5>1. Len(l) - 1 = Len(u)
          BY <3>2, <4>6
        <5>2. QED
          BY <3>2, <5>1 DEF becomeParent, Paths
      <4>9. ClimbTo(l, positions) = SubSeq(l, 1, Len(u))
        BY <4>5, <4>7, Zenon
      <4>10. u = SubSeq(l, 1, Len(u))
        BY <3>2, <4>8, Zenon
      <4>11. ClimbTo(l, positions) = u
        BY <4>9, <4>10, Zenon
      <4>12. QED
        BY <4>11, Zenon DEF positions
    <3>5. BBClosed = s
      BY <1>3, <2>0, <2>2, <3>1, <3>3, <3>4
    <3>6. QED
      BY <3>5 DEF Stays
  <2>3. QED
    BY <1>6, <2>1, <2>2
<1>7. CASE t.name \notin BBPairs \cup {"list"} /\ Within(t, s) = Stays(s)
  <2>1. BBClosed = simple_parse(path)
    BY <1>2, <1>3, <1>7
  <2>2. QED
    BY <1>7, <2>1, SimpleStays
<1>8. QED
  BY <1>5, <1>6, <1>7, BBCases, Zenon

LEMMA LastPath ==
  ASSUME NEW st, OpenStack(st), st # <<>>, Len(st) >= 2, NEW from, NEW p, Traced(from, st, p)
  PROVE  \E s \in Paths : Traced(from, SubSeq(st, 1, Len(st) - 1), s) /\ p \in Within(st[Len(st)], s)
<1> DEFINE t == st[Len(st)]
           s2 == SubSeq(st, 1, Len(st) - 1)
<1>1. st \in Seq(StackTags)
  BY DEF OpenStack
<1>2. \E s \in Paths : Chain(s2, s, Paths, Stays(from) \cap Paths, PathSteps) /\ <<t, s, p>> \in PathSteps
  BY <1>1, ChainPop, Zenon DEF Traced
<1> HIDE DEF t, s2
<1>3. PICK s \in Paths : Chain(s2, s, Paths, Stays(from) \cap Paths, PathSteps) /\ <<t, s, p>> \in PathSteps
  BY <1>2, Zenon
<1>4. p \in Within(t, s)
  BY <1>3 DEF PathSteps
<1>5. Traced(from, s2, s)
  BY <1>3 DEF Traced
<1>6. \E r \in Paths : Traced(from, s2, r) /\ p \in Within(t, r)
  BY <1>4, <1>5, Zenon
<1>7. QED
  BY <1>6, Zenon DEF s2, t

LEMMA TracedOne ==
  ASSUME NEW st, Len(st) = 1, NEW from, NEW p
  PROVE  Traced(from, st, p) <=> p \in Stays(from) \cap Paths
BY ChainOne DEF Traced

LEMMA TracedPush ==
  ASSUME NEW st, OpenStack(st), st # <<>>, NEW from, NEW p \in Paths, Traced(from, st, p),
         NEW t \in StackTags, NEW q \in Paths, q \in Within(t, p)
  PROVE  Traced(from, Append(st, t), q)
<1>1. st \in Seq(StackTags)
  BY DEF OpenStack
<1>2. <<t, p, q>> \in PathSteps
  BY DEF PathSteps
<1>3. QED
  BY <1>1, <1>2, ChainPush, Zenon DEF Traced

(* Text goes on from where the cursor is, or begins a paragraph there. *)
LEMMA TracedSimple ==
  ASSUME NEW st, OpenStack(st), st # <<>>, NEW from \in Seq(Elements), NEW p, Traced(from, st, p)
  PROVE  Traced(from, st, simple_parse(p)) /\ p \in Paths /\ simple_parse(p) \in Paths
<1>1. CASE Len(st) = 1
  <2>1. p \in Stays(from) \cap Paths
    BY <1>1, TracedOne
  <2>2. from \in Paths
    <3>1. from = <<>> => simple_parse(from) = <<>>
      BY DEF simple_parse, At
    <3>2. QED
      BY <2>1, <3>1 DEF Stays, Paths
  <2>3. simple_parse(p) \in Stays(from) /\ simple_parse(p) \in Paths
    BY <2>1, <2>2, SimpleStays
  <2>4. QED
    BY <1>1, <2>1, <2>3, TracedOne
<1>2. CASE Len(st) # 1
  <2> DEFINE t == st[Len(st)]
             q == simple_parse(p)
  <2>1. Len(st) >= 2 /\ t \in StackTags /\ Openable(t) /\ st \in Seq(StackTags)
    BY <1>2, StackFacts DEF OpenStack
  <2>2. \E s \in Paths : Traced(from, SubSeq(st, 1, Len(st) - 1), s) /\ p \in Within(t, s)
    BY <2>1, LastPath, Zenon
  <2>3. PICK s \in Paths : p \in Within(t, s)
    BY <2>2, Zenon
  <2>4. \A r \in Paths : p \in Within(t, r) => p \in Paths /\ q \in Within(t, r)
    BY <2>1, WithinSimple
  <2>5. q \in Paths
    <3>1. q \in Within(t, s)
      BY <2>3, <2>4
    <3>2. QED
      BY <2>1, <3>1, WithinSimple
  <2>6. p \in Paths
    BY <2>3, <2>4
  <2> HIDE DEF q
  <2>7. \A r \in Paths : <<t, r, p>> \in PathSteps => <<t, r, q>> \in PathSteps
    BY <2>4, <2>5 DEF PathSteps
  <2>8. Chain(st, q, Paths, Stays(from) \cap Paths, PathSteps)
    BY <2>1, <2>5, <2>7, ChainReplace, Zenon DEF Traced
  <2>9. QED
    BY <2>5, <2>6, <2>8 DEF Traced, q
<1>3. QED
  BY <1>1, <1>2

LEMMA TracedStays ==
  ASSUME NEW st, OpenStack(st), st # <<>>, NEW from \in Seq(Elements), NEW p, Traced(from, st, p), NEW q \in Stays(p)
  PROVE  Traced(from, st, q) /\ q \in Paths
BY TracedSimple DEF Stays

-----------------------------------------------------------------------------
(* One item more *)

EmbedMet(t, a) == \E i \in 1..(a - 1) : t[i].item = "embed"
CellMet(t, a) ==
  \E i \in 1..(a - 1) : t[i].item \in {"pipe", "exclamation"} /\ \A j \in i..(a - 1) : ~IsLine(t[j])
Stack == OpenTags(text[Call.page], Call.at - 1)
OnCells == CellMet(text[Call.page], Call.at)
Alone == ~EmbedMet(text[Call.page], Call.at)

LineStarts == {"wikitable", "wikitableline", "wikiindent"}
OnWiki(m) == \A i \in 2..Len(m) : m[i] \in LineStarts => m[i - 1] \notin Raw \cup {"nowiki"}
OuterEmbeds == \A i \in 1..(Len(frames) - 1) : EmbedMet(text[frames[i].page], frames[i].at)

(* While the tags of a text are in order, the modes are those that the open tags have opened, *)
(* and the cursor is within the elements that they have opened.                                *)
Followed ==
  /\ Moded(Plain, Stack, mode)
  /\ path # <<>> /\ ~Is(mode, "nobb") /\ ~OnCells => Traced(Call.line, Stack, path)
TraceInv ==
  /\ OnWiki(mode)
  /\ OuterEmbeds
  /\ Stack # <<>> /\ Alone => Followed

LEMMA StackNow == ASSUME TypeOK PROVE OpenStack(Stack)
<1>1. text[Call.page] \in Seq(Items) /\ Call.at \in 1..(Len(text[Call.page]) + 1)
  BY CallFacts
<1>2. Call.at - 1 \in 0..Len(text[Call.page])
  BY <1>1
<1>3. QED
  BY <1>1, <1>2, OpenTagsEquation DEF Stack

LEMMA StackThen ==
  ASSUME TypeOK, Reading, UNCHANGED text, NEW f, f.page = Call.page, f.at = Call.at + 1,
         frames' = [frames EXCEPT ![Len(frames)] = f]
  PROVE  /\ Call' = f /\ Stack' = Meet(Stack, Item)
         /\ Alone' <=> (Alone /\ Item.item # "embed")
         /\ OnCells' <=> (OnCells /\ ~IsLine(Item)) \/ Item.item \in {"pipe", "exclamation"}
         /\ OuterEmbeds => OuterEmbeds'
<1> DEFINE t == text[Call.page]
           a == Call.at
<1>1. t \in Seq(Items) /\ a \in 1..Len(t) /\ Item = t[a] /\ Len(frames) \in Nat \ {0} /\ Len(t) \in Nat
  BY CallFacts, ItemFacts
<1>2. Call' = f /\ Len(frames') = Len(frames) /\ \A i \in 1..(Len(frames) - 1) : frames'[i] = frames[i]
  <2>1. frames \in Seq(Calls)
    BY DEF TypeOK
  <2>2. Len(frames') = Len(frames) /\ frames'[Len(frames)] = f
    BY <1>1, <2>1
  <2>3. \A i \in 1..(Len(frames) - 1) : frames'[i] = frames[i]
    BY <1>1, <2>1
  <2>4. Call' = frames'[Len(frames')]
    BY DEF Call
  <2>5. QED
    BY <2>2, <2>3, <2>4
<1>3. text'[Call'.page] = t /\ Call'.at = a + 1
  BY <1>2
<1> HIDE DEF t, a
<1>4. Stack' = OpenTags(t, (a + 1) - 1) /\ Stack = OpenTags(t, a - 1)
  BY <1>3 DEF Stack, t, a
<1>5. (a + 1) - 1 = a
  BY <1>1
<1>6. Stack' = Meet(Stack, Item)
  BY <1>1, <1>4, <1>5, OpenTagsEquation
<1>7. (Alone <=> ~EmbedMet(t, a)) /\ (Alone' <=> ~EmbedMet(t, a + 1))
  BY <1>3 DEF Alone, t, a
<1>8. EmbedMet(t, a + 1) <=> EmbedMet(t, a) \/ Item.item = "embed"
  BY <1>1 DEF EmbedMet
<1>9. (OnCells <=> CellMet(t, a)) /\ (OnCells' <=> CellMet(t, a + 1))
  BY <1>3 DEF OnCells, t, a
<1>10. CellMet(t, a + 1) <=> (CellMet(t, a) /\ ~IsLine(Item)) \/ Item.item \in {"pipe", "exclamation"}
  <2> DEFINE cell(i) == t[i].item \in {"pipe", "exclamation"}
             in(i) == ~IsLine(t[i])
  <2>1. \A i : cell(i) => in(i)
    BY DEF IsLine
  <2>2. CellMet(t, a) <=> \E i \in 1..(a - 1) : cell(i) /\ \A j \in i..(a - 1) : in(j)
    BY DEF CellMet
  <2>3. CellMet(t, a + 1) <=> \E i \in 1..((a + 1) - 1) : cell(i) /\ \A j \in i..((a + 1) - 1) : in(j)
    BY DEF CellMet
  <2>4. (~IsLine(Item) <=> in(a)) /\ (Item.item \in {"pipe", "exclamation"} <=> cell(a))
    BY <1>1
  <2> HIDE DEF cell, in
  <2>5. (\E i \in 1..a : cell(i) /\ \A j \in i..a : in(j)) <=> ((\E i \in 1..(a - 1) : cell(i) /\ \A j \in i..(a - 1) : in(j)) /\ in(a)) \/ cell(a)
    <3>1. a \in Nat \ {0}
      BY <1>1
    <3>2. ASSUME NEW i \in 1..a, cell(i), \A j \in i..a : in(j), ~cell(a)
          PROVE  (\E k \in 1..(a - 1) : cell(k) /\ \A j \in k..(a - 1) : in(j)) /\ in(a)
      <4>1. i \in 1..(a - 1) /\ in(a) /\ \A j \in i..(a - 1) : in(j)
        BY <3>1, <3>2
      <4>2. QED
        BY <3>2, <4>1, Zenon
    <3>3. ASSUME NEW i \in 1..(a - 1), cell(i), \A j \in i..(a - 1) : in(j), in(a)
          PROVE  \E k \in 1..a : cell(k) /\ \A j \in k..a : in(j)
      <4>1. i \in 1..a /\ \A j \in i..a : in(j)
        BY <3>1, <3>3
      <4>2. QED
        BY <3>3, <4>1, Zenon
    <3>4. ASSUME cell(a)
          PROVE  \E k \in 1..a : cell(k) /\ \A j \in k..a : in(j)
      <4>1. a \in 1..a /\ \A j \in a..a : j = a
        BY <3>1
      <4>2. \A j \in a..a : in(j)
        BY <2>1, <3>4, <4>1, Zenon
      <4>3. QED
        BY <3>4, <4>1, <4>2, Zenon
    <3>5. QED
      BY <3>2, <3>3, <3>4, Zenon
  <2>6. QED
    BY <1>5, <2>2, <2>3, <2>4, <2>5, Zenon
<1>11. OuterEmbeds => OuterEmbeds'
  BY <1>2 DEF OuterEmbeds
<1>12. QED
  BY <1>2, <1>6, <1>7, <1>8, <1>9, <1>10, <1>11

(* The modes of lines stand on wiki-code, so that it goes on when they are closed. *)
LEMMA PopOnWiki ==
  ASSUME NEW m \in Seq(Modes), m # <<>>, OnWiki(m)
  PROVE  LET n == SubSeq(m, 1, Len(m) - 1) IN
         /\ OnWiki(n) /\ n \in Seq(Modes)
         /\ Current(m) \in LineStarts => Wikicode(n)
         /\ Current(m) \in LineStarts /\ m \in Plain => n \in Plain
<1> DEFINE n == SubSeq(m, 1, Len(m) - 1)
<1>1. /\ n \in Seq(Modes) /\ Len(m) \in Nat \ {0} /\ Len(n) = Len(m) - 1
      /\ \A i \in 1..(Len(m) - 1) : n[i] = m[i]
      /\ \A y : Is(n, y) => Is(m, y)
  BY PoppedMode
<1> HIDE DEF n
<1>2. OnWiki(n)
  <2>1. \A i \in 2..Len(n) : i \in 2..Len(m) /\ n[i] = m[i] /\ n[i - 1] = m[i - 1]
    BY <1>1
  <2>2. QED
    BY <2>1 DEF OnWiki
<1>3. ASSUME Current(m) \in LineStarts PROVE Wikicode(n)
  <2>1. CASE n = <<>>
    <3>1. "normal" \notin Raw \cup {"nowiki"}
      BY DEF Raw
    <3>2. QED
      BY <2>1, <3>1 DEF Wikicode, Current
  <2>2. CASE n # <<>>
    <3>1. Len(n) \in Nat \ {0}
      BY <1>1, <2>2, EmptySeq
    <3>2. Len(m) \in 2..Len(m) /\ n[Len(n)] = m[Len(m) - 1]
      BY <1>1, <3>1
    <3>3. m[Len(m)] \in LineStarts
      BY <1>3 DEF Current
    <3>4. n[Len(n)] \notin Raw \cup {"nowiki"}
      BY <3>2, <3>3 DEF OnWiki
    <3>5. QED
      BY <2>2, <3>4 DEF Wikicode, Current
  <2>3. QED
    BY <2>1, <2>2
<1>4. Current(m) \in LineStarts /\ m \in Plain => n \in Plain
  BY <1>1, <1>3 DEF Plain
<1>5. QED
  BY <1>1, <1>2, <1>3, <1>4 DEF n

LEMMA PushOnWiki ==
  ASSUME NEW m \in Seq(Modes), OnWiki(m), NEW x \in Modes, x \in LineStarts => Wikicode(m)
  PROVE  OnWiki(Append(m, x))
<1> DEFINE n == Append(m, x)
<1>1. Len(m) \in Nat /\ Len(n) = Len(m) + 1 /\ n[Len(m) + 1] = x /\ \A i \in 1..Len(m) : n[i] = m[i]
  OBVIOUS
<1> HIDE DEF n
<1> SUFFICES ASSUME NEW i \in 2..Len(n), n[i] \in LineStarts PROVE n[i - 1] \notin Raw \cup {"nowiki"}
  BY DEF OnWiki, n
<1>2. CASE i \in 2..Len(m)
  <2>1. n[i] = m[i] /\ n[i - 1] = m[i - 1]
    BY <1>1, <1>2
  <2>2. QED
    BY <1>2, <2>1 DEF OnWiki
<1>3. CASE i = Len(m) + 1
  <2>1. Wikicode(m) /\ m # <<>> /\ n[i - 1] = m[Len(m)]
    <3>1. Len(m) \in 1..Len(m) /\ i - 1 = Len(m)
      BY <1>1, <1>3
    <3>2. m # <<>>
      BY <3>1
    <3>3. QED
      BY <1>1, <1>3, <3>1, <3>2
  <2>2. QED
    BY <2>1 DEF Wikicode, Current
<1>4. QED
  BY <1>1, <1>2, <1>3

LEMMA ClosedOnWiki ==
  ASSUME NEW m \in Seq(Modes), OnWiki(m), NEW x \in LineStarts
  PROVE  /\ Closed(m, x) \in Seq(Modes) /\ OnWiki(Closed(m, x))
         /\ Wikicode(m) => Wikicode(Closed(m, x))
         /\ m \in Plain => Closed(m, x) \in Plain
<1>1. CASE x = Current(m)
  <2>1. Closed(m, x) = SubSeq(m, 1, Len(m) - 1)
    BY <1>1 DEF Closed, After, Closes
  <2>2. m # <<>>
    BY <1>1 DEF Current, LineStarts
  <2>3. QED
    BY <1>1, <2>1, <2>2, PopOnWiki
<1>2. CASE x # Current(m)
  BY <1>2 DEF Closed, After, Closes
<1>3. QED
  BY <1>1, <1>2

LEMMA LineModesOnWiki ==
  ASSUME TypeOK, OnWiki(mode)
  PROVE  /\ LineModes \in Seq(Modes) /\ OnWiki(LineModes)
         /\ Wikicode(mode) => Wikicode(LineModes)
         /\ mode \in Plain => LineModes \in Plain
<1> DEFINE ended == Closed(mode, "wikitableline")
<1>0. mode \in Seq(Modes) /\ "wikitableline" \in LineStarts /\ "wikiindent" \in LineStarts
  BY DEF TypeOK, LineStarts
<1>1. /\ ended \in Seq(Modes) /\ OnWiki(ended)
      /\ Wikicode(mode) => Wikicode(ended)
      /\ mode \in Plain => ended \in Plain
  BY <1>0, ClosedOnWiki
<1>2. LineModes \in {ended, Closed(ended, "wikiindent")}
  BY DEF LineModes
<1> HIDE DEF ended
<1>3. /\ Closed(ended, "wikiindent") \in Seq(Modes) /\ OnWiki(Closed(ended, "wikiindent"))
      /\ Wikicode(ended) => Wikicode(Closed(ended, "wikiindent"))
      /\ ended \in Plain => Closed(ended, "wikiindent") \in Plain
  BY <1>0, <1>1, ClosedOnWiki
<1>4. QED
  BY <1>1, <1>2, <1>3

LEMMA TagOnWiki ==
  ASSUME TypeOK, OnWiki(mode)
  PROVE  OnWiki(After(mode, ModeTag))
<1>0. mode \in Seq(Modes)
  BY DEF TypeOK
<1>1. ModeTag.mode \notin LineStarts
  <2>1. \A x : ModeOf(x) \notin LineStarts
    <3>1. ASSUME NEW x PROVE ModeOf(x) \notin LineStarts
      <4>1. ModeOf(x) \in {"htmltable", "htmlol", "htmlul", "htmlcode", "css", "nowiki", "noparse", "bbtable", "bblist", "bbcode", "nobb", "none"}
        BY DEF ModeOf
      <4>2. QED
        BY <4>1 DEF LineStarts
    <3>2. QED
      BY <3>1
  <2>2. ModeTag.mode \in {"none", ModeOf(Item)}
    BY DEF ModeTag
  <2>3. QED
    BY <2>1, <2>2 DEF LineStarts
<1> DEFINE tag == ModeTag
<1>2. tag.mode \notin LineStarts
  BY <1>1
<1> HIDE DEF tag
<1>3. CASE Closes(mode, tag)
  <2>1. tag.mode = Current(mode)
    BY <1>3 DEF Closes
  <2>2. CASE mode = <<>>
    <3>1. After(mode, tag) = SubSeq(mode, 1, Len(mode) - 1) /\ Len(mode) = 0
      BY <1>3, <2>2 DEF After
    <3>2. SubSeq(mode, 1, Len(mode) - 1) = <<>>
      BY <2>2
    <3>3. Len(<<>>) = 0 /\ 2..0 = {}
      OBVIOUS
    <3>4. QED
      BY <3>1, <3>2, <3>3 DEF OnWiki, tag
  <2>3. CASE mode # <<>>
    <3>1. After(mode, tag) = SubSeq(mode, 1, Len(mode) - 1)
      BY <1>3 DEF After
    <3>2. QED
      BY <1>0, <2>3, <3>1, PopOnWiki DEF tag
  <2>4. QED
    BY <2>2, <2>3
<1>4. CASE ~Closes(mode, tag) /\ tag.item = "open" /\ tag.mode \in Modes
  <2>1. After(mode, tag) = Append(mode, tag.mode)
    BY <1>4 DEF After
  <2>2. QED
    BY <1>0, <1>2, <1>4, <2>1, PushOnWiki DEF tag
<1>5. CASE ~Closes(mode, tag) /\ ~(tag.item = "open" /\ tag.mode \in Modes)
  <2>1. After(mode, tag) = mode
    BY <1>5 DEF After
  <2>2. QED
    BY <2>1 DEF tag
<1>6. QED
  BY <1>3, <1>4, <1>5

(* A line begins where the cursor is behind its first character. *)
LEMMA LineTrace ==
  ASSUME TypeOK, TypeOK', TraceInv, Reading, UNCHANGED text, IsLine(Item),
         NEW list \in Seq(Marks), ReadLine(list), OnWiki(mode'), mode \in Plain => mode' \in Plain
  PROVE  TraceInv'
<1> DEFINE c == Call
           a == Call.at + 1
           p == path'
           f == [c EXCEPT !.at = a, !.list = list, !.line = p]
<1>1. frames' = [frames EXCEPT ![Len(frames)] = f]
  BY DEF ReadLine
<1>2. c \in Calls
  BY CallFacts
<1> HIDE DEF c, a, p
<1>3. f.page = c.page /\ f.at = a /\ f.line = p
  BY <1>2 DEF Calls
<1> HIDE DEF f
<1>4. /\ Call' = f /\ Stack' = Meet(Stack, Item)
      /\ Alone' <=> (Alone /\ Item.item # "embed")
      /\ OuterEmbeds => OuterEmbeds'
  BY <1>1, <1>3, StackThen DEF c, a
<1>5. OpenStack(Stack) /\ Item \in Items
  BY StackNow, ItemFacts
<1>6. ASSUME Stack' # <<>>, Alone' PROVE Followed'
  <2>1. Begun(Stack, Item, Meet(Stack, Item)) /\ Stack # <<>>
    <3>1. Meet(Stack, Item) # <<>> /\ Item.item \in {"line", "list"}
      BY <1>4, <1>6 DEF IsLine
    <3>2. \/ Left(Stack, Item, Meet(Stack, Item)) \/ Linked_(Stack, Item, Meet(Stack, Item))
          \/ Begun(Stack, Item, Meet(Stack, Item)) \/ OpenedHere(Stack, Item, Meet(Stack, Item))
          \/ OpenedIn(Stack, Item, Meet(Stack, Item)) \/ ClosedIn(Stack, Item, Meet(Stack, Item))
      BY <1>5, <3>1, MeetFacts, Zenon
    <3>3. Stack # <<>>
      BY <1>5, <3>1, MeetFacts, Zenon
    <3>4. QED
      BY <3>1, <3>2, <3>3 DEF Left, Linked_, OpenedHere, OpenedIn, ClosedIn
  <2>2. Len(Stack) = 1 /\ Stack' = Stack
    BY <1>4, <2>1 DEF Begun
  <2>3. Followed
    BY <1>4, <1>6, <2>1 DEF TraceInv
  <2>4. mode \in Plain
    BY <1>5, <2>1, <2>2, <2>3, ModeNow DEF Followed
  <2>5. mode' \in Plain /\ Plain \subseteq Seq(Modes)
    BY <2>4 DEF Plain
  <2>6. Moded(Plain, Stack, mode')
    BY <2>2, <2>5, ChainOne DEF Moded
  <2>7. ASSUME p # <<>> PROVE Traced(p, Stack, p)
    <3>1. p \in Paths /\ p \in Stays(p)
      BY <2>7 DEF Paths, TypeOK, p, Stays
    <3>2. QED
      BY <2>2, <3>1, TracedOne
  <2>8. (Moded(Plain, Stack, mode))' = Moded(Plain, Stack', mode')
    OBVIOUS
  <2>9. (Traced(Call.line, Stack, path))' = Traced(p, Stack, p)
    BY <1>3, <1>4, <2>2 DEF p
  <2>10. QED
    BY <2>2, <2>6, <2>7, <2>9 DEF Followed, p
<1>7. QED
  BY <1>4, <1>6 DEF TraceInv

(* Any other item leaves the line where it began. *)
Goes ==
  /\ \A F \in SUBSET Plain : Moded(F, Stack, mode) => Moded(F, Meet(Stack, Item), mode')
  /\ Is(mode, "nobb") <=> Is(mode', "nobb")
  /\ ~IsLine(Item)
  /\ path' # <<>> /\ ~Is(mode', "nobb") /\ Item.item \notin {"pipe", "exclamation"} =>
       \A from \in Seq(Elements) : Traced(from, Stack, path) => Traced(from, Meet(Stack, Item), path')

ItemGoes ==
  /\ Reading /\ UNCHANGED text /\ Read /\ OnWiki(mode')
  /\ Stack # <<>> /\ Meet(Stack, Item) # <<>> /\ Item.item # "embed" /\ Moded(Plain, Stack, mode) => Goes

LEMMA ItemTrace ==
  ASSUME TypeOK, TraceInv, ItemGoes
  PROVE  TraceInv'
<1>0. Reading /\ UNCHANGED text /\ Read /\ OnWiki(mode')
  BY DEF ItemGoes
<1>1. Gone.page = Call.page /\ Gone.at = Call.at + 1 /\ Gone.line = Call.line
  <2>1. Gone.page = Call.page /\ Gone.at = Call.at + 1
    BY GoneFacts
  <2>2. Call \in Calls
    BY CallFacts
  <2>3. Gone.line = Call.line
    BY <2>2 DEF Gone, Calls
  <2>4. QED
    BY <2>1, <2>3
<1>2. frames' = [frames EXCEPT ![Len(frames)] = Gone]
  BY <1>0 DEF Read
<1> DEFINE f == Gone
<1> HIDE DEF f
<1>3. /\ Call' = f /\ Stack' = Meet(Stack, Item)
      /\ Alone' <=> (Alone /\ Item.item # "embed")
      /\ OnCells' <=> (OnCells /\ ~IsLine(Item)) \/ Item.item \in {"pipe", "exclamation"}
      /\ OuterEmbeds => OuterEmbeds'
  BY <1>0, <1>1, <1>2, StackThen DEF f
<1>4. Call'.line = Call.line
  BY <1>1, <1>3 DEF f
<1>5. ASSUME Stack' # <<>>, Alone' PROVE Followed'
  <2>1. Stack # <<>>
    BY <1>3, <1>5 DEF Meet
  <2>2. Followed /\ Item.item # "embed" /\ Meet(Stack, Item) # <<>>
    BY <1>3, <1>5, <2>1 DEF TraceInv
  <2>3. Goes
    BY <2>1, <2>2 DEF Followed, ItemGoes
  <2>4. Moded(Plain, Stack', mode')
    BY <1>3, <2>2, <2>3 DEF Goes, Followed
  <2>5. ASSUME path' # <<>>, ~Is(mode', "nobb"), ~OnCells'
        PROVE  Traced(Call'.line, Stack', path')
    <3>1. ~OnCells /\ Item.item \notin {"pipe", "exclamation"} /\ ~Is(mode, "nobb")
      BY <1>3, <2>3, <2>5 DEF Goes
    <3>2. Traced(Call.line, Stack, path)
      BY <1>0, <2>2, <3>1 DEF Followed, Reading
    <3>3. Traced(Call.line, Meet(Stack, Item), path')
      <4>1. Call.line \in Seq(Elements)
        BY CallFacts DEF Calls
      <4>2. QED
        BY <2>3, <2>5, <3>1, <3>2, <4>1 DEF Goes
    <3>4. QED
      BY <1>3, <1>4, <3>3
  <2>6. QED
    BY <2>4, <2>5 DEF Followed
<1>6. QED
  BY <1>0, <1>3, <1>5 DEF TraceInv

-----------------------------------------------------------------------------
(* Each of the steps *)

LEMMA PushedLine ==
  ASSUME NEW m \in Seq(Modes), OnWiki(m), Wikicode(m), NEW x \in LineStarts
  PROVE  /\ OnWiki(Append(m, x)) /\ Append(m, x) \in Seq(Modes)
         /\ m \in Plain => Append(m, x) \in Plain
<1>1. x \in Modes \ (Raw \cup {"nowiki"})
  BY DEF LineStarts, Modes, Raw
<1>2. QED
  BY <1>1, PushOnWiki, PlainMode, AppendedMode

LEMMA LinesTrace ==
  ASSUME TypeOK, TypeOK', TraceInv,
         \/ listLine \/ indentLine \/ blankLine \/ headerLine \/ openTable \/ tableLine
         \/ plainLine \/ ruleLine \/ rawLine
  PROVE  TraceInv'
<1>0. OnWiki(mode) /\ mode \in Seq(Modes)
  BY DEF TraceInv, TypeOK
<1> DEFINE m == LineModes
           Ok(n) == OnWiki(n) /\ (mode \in Plain => n \in Plain)
<1>1. /\ m \in Seq(Modes) /\ Ok(m)
      /\ Wikicode(mode) => Wikicode(m)
  BY <1>0, LineModesOnWiki
<1>2. Ok(mode)
  BY <1>0
<1>3. ASSUME NEW n \in Seq(Modes), Ok(n), Wikicode(n), NEW x \in LineStarts
      PROVE  Ok(Append(n, x)) /\ Append(n, x) \in Seq(Modes)
  BY <1>3, PushedLine
<1>4. ASSUME NEW n \in Seq(Modes), Ok(n), NEW x \in LineStarts PROVE Ok(Closed(n, x))
  BY <1>4, ClosedOnWiki
<1>5. ASSUME Ok(mode'), Reading, UNCHANGED text, IsLine(Item), NEW list \in Seq(Marks), ReadLine(list) PROVE TraceInv'
  BY <1>5, LineTrace
<1>6. /\ "wikitable" \in LineStarts /\ "wikitableline" \in LineStarts /\ "wikiindent" \in LineStarts
      /\ "wikiindent" \in Modes
  BY DEF LineStarts, Modes
<1>7. Call.list \in Seq(Marks) /\ <<>> \in Seq(Marks)
  BY Common
<1> HIDE DEF m, Ok
<1>8. CASE listLine
  <2>1. Reading /\ Item.item = "list" /\ mode' = m /\ ReadLine(Item.marks) /\ UNCHANGED text
    BY <1>8 DEF listLine, ListLine, Meets, m
  <2>2. Item.marks \in Seq(Marks)
    BY <2>1, ItemFacts
  <2>3. QED
    BY <1>1, <1>5, <2>1, <2>2 DEF IsLine
<1>9. CASE indentLine
  <2>1. Reading /\ IsLine(Item) /\ Wikicode(mode) /\ ReadLine(Call.list) /\ UNCHANGED text /\ mode' \in {mode, Opened("wikiindent")}
    BY <1>9 DEF indentLine, Line, Meets, IsLine
  <2>2. Opened("wikiindent") = Append(mode, "wikiindent")
    BY <1>6 DEF Opened, After, Closes
  <2>3. Ok(Append(mode, "wikiindent"))
    BY <1>0, <1>2, <1>3, <1>6, <2>1
  <2>4. Ok(mode')
    BY <1>2, <2>1, <2>2, <2>3
  <2>5. QED
    BY <1>5, <1>7, <2>1, <2>4
<1>10. CASE blankLine
  <2>1. Reading /\ IsLine(Item) /\ ReadLine(<<>>) /\ UNCHANGED text /\ mode' = mode
    BY <1>10 DEF blankLine, Line, Meets, IsLine
  <2>2. QED
    BY <1>2, <1>5, <1>7, <2>1
<1>11. CASE headerLine \/ ruleLine
  <2>1. Reading /\ IsLine(Item) /\ ReadLine(<<>>) /\ UNCHANGED text /\ mode' = m
    BY <1>11 DEF headerLine, ruleLine, Line, Meets, IsLine, m
  <2>2. QED
    BY <1>1, <1>5, <1>7, <2>1
<1>12. CASE openTable
  <2>1. Reading /\ IsLine(Item) /\ Wikicode(mode) /\ ReadLine(<<>>) /\ UNCHANGED text /\ mode' = Append(m, "wikitable")
    BY <1>12 DEF openTable, Line, Meets, IsLine, m
  <2>2. Ok(mode')
    BY <1>1, <1>3, <1>6, <2>1
  <2>3. QED
    BY <1>5, <1>7, <2>1, <2>2
<1>13. CASE tableLine
  <2> DEFINE n == Append(m, "wikitableline")
  <2>1. /\ Reading /\ IsLine(Item) /\ Wikicode(mode) /\ ReadLine(<<>>) /\ UNCHANGED text
        /\ mode' \in {n, Closed(n, "wikitable")}
    BY <1>13 DEF tableLine, Line, Meets, IsLine, m
  <2>2. Ok(n) /\ n \in Seq(Modes)
    BY <1>1, <1>3, <1>6, <2>1
  <2> HIDE DEF n
  <2>3. Ok(mode')
    BY <1>4, <1>6, <2>1, <2>2
  <2>4. QED
    BY <1>5, <1>7, <2>1, <2>3
<1>14. CASE plainLine
  <2>1. /\ Reading /\ IsLine(Item) /\ ReadLine(<<>>) /\ UNCHANGED text
        /\ mode' \in {m, Closed(m, "wikitable")}
    BY <1>14 DEF plainLine, Line, Meets, IsLine, m
  <2>2. Ok(mode')
    BY <1>1, <1>4, <1>6, <2>1
  <2>3. QED
    BY <1>5, <1>7, <2>1, <2>2
<1>15. CASE rawLine
  <2>1. Reading /\ IsLine(Item) /\ ReadLine(Call.list) /\ UNCHANGED text /\ mode' = mode
    BY <1>15 DEF rawLine, Meets, IsLine
  <2>2. QED
    BY <1>2, <1>5, <1>7, <2>1
<1>16. QED
  BY <1>8, <1>9, <1>10, <1>11, <1>12, <1>13, <1>14, <1>15

(* The facts that the steps within a line share. *)
LEMMA StackItem ==
  ASSUME TypeOK, Reading
  PROVE  /\ OpenStack(Stack) /\ Item \in Items
         /\ Stack # <<>> /\ Meet(Stack, Item) # <<>> =>
              \/ Left(Stack, Item, Meet(Stack, Item)) \/ Linked_(Stack, Item, Meet(Stack, Item))
              \/ Begun(Stack, Item, Meet(Stack, Item)) \/ OpenedHere(Stack, Item, Meet(Stack, Item))
              \/ OpenedIn(Stack, Item, Meet(Stack, Item)) \/ ClosedIn(Stack, Item, Meet(Stack, Item))
         /\ path \in Paths /\ mode \in Seq(Modes) /\ Call.line \in Seq(Elements)
<1>1. OpenStack(Stack) /\ Item \in Items
  BY StackNow, ItemFacts
<1>2. Call \in Calls
  BY CallFacts
<1>3. path \in Paths /\ mode \in Seq(Modes) /\ Call.line \in Seq(Elements)
  BY <1>2 DEF TypeOK, Reading, Paths, Calls
<1>4. Stack # <<>> /\ Meet(Stack, Item) # <<>> =>
        \/ Left(Stack, Item, Meet(Stack, Item)) \/ Linked_(Stack, Item, Meet(Stack, Item))
        \/ Begun(Stack, Item, Meet(Stack, Item)) \/ OpenedHere(Stack, Item, Meet(Stack, Item))
        \/ OpenedIn(Stack, Item, Meet(Stack, Item)) \/ ClosedIn(Stack, Item, Meet(Stack, Item))
  BY <1>1, MeetFacts, Zenon
<1>5. QED
  BY <1>1, <1>3, <1>4

(* Where tags are in order no style sheet is read, and no raw text but in [code]. *)
LEMMA ReadTextGoes ==
  ASSUME TypeOK, TypeOK', TraceInv, readText \/ inlineCell
  PROVE  ItemGoes
<1>1. /\ Reading /\ Read /\ UNCHANGED text /\ mode' = mode
      /\ Item.item \in {"text", "pipe", "exclamation"}
      /\ Item.item = "text" => path' = simple_parse(path)
  BY DEF readText, inlineCell, Meets
<1>2. OnWiki(mode')
  BY <1>1 DEF TraceInv
<1>3. ASSUME Stack # <<>>, Meet(Stack, Item) # <<>>, Moded(Plain, Stack, mode) PROVE Goes
  <2>1. Meet(Stack, Item) = Stack
    BY <1>1, <1>3, StackItem DEF Left, Linked_, Begun, OpenedHere, OpenedIn, ClosedIn
  <2>2. ASSUME Item.item \notin {"pipe", "exclamation"}, NEW from \in Seq(Elements), Traced(from, Stack, path)
        PROVE  Traced(from, Stack, path')
    BY <1>1, <1>3, <2>2, StackItem, TracedSimple
  <2>3. QED
    BY <1>1, <1>3, <2>1, <2>2 DEF Goes, IsLine
<1>4. QED
  BY <1>1, <1>2, <1>3 DEF ItemGoes

LEMMA ReadCssGoes ==
  ASSUME TypeOK, TypeOK', TraceInv, readCss
  PROVE  ItemGoes
<1>1. Reading /\ Read /\ UNCHANGED text /\ Is(mode, "css") /\ mode' \in {mode, Closed(mode, "css")}
  BY DEF readCss, Css
<1>2. OnWiki(mode')
  <2>1. OnWiki(mode) /\ mode \in Seq(Modes)
    BY DEF TraceInv, TypeOK
  <2>2. CASE mode' = mode
    BY <2>1, <2>2
  <2>3. CASE mode' = Closed(mode, "css") /\ "css" = Current(mode)
    <3>1. mode' = SubSeq(mode, 1, Len(mode) - 1)
      BY <2>3 DEF Closed, After, Closes
    <3>2. mode # <<>>
      BY <2>3 DEF Current
    <3>3. QED
      BY <2>1, <3>1, <3>2, PopOnWiki
  <2>4. CASE mode' = Closed(mode, "css") /\ "css" # Current(mode)
    BY <2>1, <2>4 DEF Closed, After, Closes
  <2>5. QED
    BY <1>1, <2>2, <2>3, <2>4
<1>3. ~(Stack # <<>> /\ Moded(Plain, Stack, mode))
  BY <1>1, StackItem, ModeNow
<1>4. QED
  BY <1>1, <1>2, <1>3 DEF ItemGoes

LEMMA ReadRawGoes ==
  ASSUME TypeOK, TypeOK', TraceInv, readRaw
  PROVE  ItemGoes
<1>1. /\ Reading /\ Read /\ UNCHANGED text /\ mode' = mode /\ Complains(mode, ModeTag)
      /\ Item.item \in {"open", "close", "link", "embed"}
  BY DEF readRaw, Meets
<1>2. OnWiki(mode')
  BY <1>1 DEF TraceInv
<1>3. ASSUME Stack # <<>>, Meet(Stack, Item) # <<>>, Item.item # "embed", Moded(Plain, Stack, mode) PROVE FALSE
  <2>1. ~Stackable(mode)
    BY <1>1 DEF Complains
  <2>2. Stack[Len(Stack)].name = "code"
    BY <1>1, <1>3, <2>1, StackItem, ModeNow
  <2>3. ClosedIn(Stack, Item, Meet(Stack, Item))
    BY <1>1, <1>3, <2>2, StackItem DEF Left, Linked_, Begun, OpenedHere, OpenedIn, OpenIn
  <2>4. ModeTag = [item |-> "close", mode |-> ModeOf(Item)]
    BY <2>3 DEF ModeTag, ClosedIn
  <2>5. ~Complains(mode, [item |-> "close", mode |-> ModeOf(Item)])
    BY <1>1, <1>3, <2>3, StackItem, ModesClose
  <2>6. QED
    BY <1>1, <2>4, <2>5
<1>4. QED
  BY <1>1, <1>2, <1>3 DEF ItemGoes

LEMMA ReadLinkGoes ==
  ASSUME TypeOK, TypeOK', TraceInv, readLink \/ skipEmbed
  PROVE  ItemGoes
<1>1. /\ Reading /\ Read /\ UNCHANGED text /\ mode' = After(mode, ModeTag)
      /\ Item.item \in {"link", "embed"}
      /\ Item.item = "link" /\ Item.texts <= 1 => path' \in {path, simple_parse(path)}
  BY DEF readLink, skipEmbed, Tagged, Meets, Apply
<1>2. ModeTag = [item |-> "other", mode |-> "none"]
  BY <1>1 DEF ModeTag
<1>3. mode' = mode
  BY <1>1, <1>2 DEF After, Closes
<1>4. OnWiki(mode')
  BY <1>3 DEF TraceInv
<1>5. ASSUME Stack # <<>>, Meet(Stack, Item) # <<>>, Item.item # "embed", Moded(Plain, Stack, mode) PROVE Goes
  <2>1. Linked_(Stack, Item, Meet(Stack, Item))
    BY <1>1, <1>5, StackItem DEF Left, Begun, OpenedHere, OpenedIn, ClosedIn
  <2>2. Meet(Stack, Item) = Stack /\ path' \in Stays(path)
    BY <1>1, <2>1 DEF Linked_, Stays
  <2>3. ASSUME NEW from \in Seq(Elements), Traced(from, Stack, path) PROVE Traced(from, Stack, path')
    BY <1>1, <1>5, <2>2, <2>3, StackItem, TracedStays
  <2>4. QED
    BY <1>1, <1>3, <1>5, <2>2, <2>3 DEF Goes, IsLine
<1>6. QED
  BY <1>1, <1>4, <1>5 DEF ItemGoes

(* The path within the last of the tags may be any that it allows. *)
LEMMA LastReplace ==
  ASSUME NEW st, OpenStack(st), st # <<>>, Len(st) >= 2, NEW from, NEW s \in Paths,
         Traced(from, SubSeq(st, 1, Len(st) - 1), s), NEW q \in Within(st[Len(st)], s)
  PROVE  Traced(from, st, q) /\ q \in Paths
<1> DEFINE t == st[Len(st)]
           n == Len(st) - 1
           s2 == SubSeq(st, 1, n)
<1>1. Len(st) # 1 /\ t \in StackTags /\ Openable(t) /\ st \in Seq(StackTags)
  BY StackFacts DEF OpenStack
<1>2. q \in Paths
  BY <1>1, WithinSimple
<1>3. OpenStack(s2) /\ s2 # <<>> /\ Len(s2) = n
  BY StackFront
<1>4. n \in 0..Len(st) /\ Len(st) \in 1..Len(st) /\ n = Len(st) - 1 /\ n \in Nat /\ Len(st) = n + 1
  BY <1>1
<1>5. \A j \in 1..n : s2[j] = st[j]
  BY <1>1, <1>4, FrontItems
<1>6. Traced(from, Append(s2, t), q)
  <2> HIDE DEF s2, t
  <2>1. Traced(from, s2, s) /\ q \in Within(t, s)
    BY DEF s2, t
  <2>2. QED
    BY <1>1, <1>2, <1>3, <2>1, TracedPush
<1>7. st = Append(s2, t)
  <2>1. s2 \in Seq(StackTags)
    BY <1>3 DEF OpenStack
  <2>2. t = st[Len(st)]
    OBVIOUS
  <2> HIDE DEF s2, t, n
  <2>3. st = Append(s2, t)
    BY <1>1, <1>3, <1>4, <1>5, <2>1, <2>2
  <2>4. QED
    BY <2>3
<1>8. QED
  BY <1>2, <1>6, <1>7

LEMMA CurrentIs ==
  ASSUME NEW m \in Seq(Modes), ~Is(m, "nobb"), Stackable(m)
  PROVE  Bbcode(m)
<1>1. CASE m = <<>>
  BY <1>1 DEF Bbcode, Stackable, Current
<1>2. CASE m # <<>>
  <2>1. Len(m) \in 1..Len(m)
    BY <1>2, EmptySeq
  <2>2. Current(m) # "nobb"
    BY <1>2, <2>1 DEF Is, Current
  <2>3. QED
    BY <2>2 DEF Bbcode, Stackable
<1>3. QED
  BY <1>1, <1>2

(* What a tag that is closed in order leaves. *)
LEMMA CloseGoes ==
  ASSUME TypeOK, TypeOK', TraceInv, closeHtml \/ closeBB
  PROVE  ItemGoes
<1>1. /\ Reading /\ Read /\ UNCHANGED text /\ mode' = After(mode, ModeTag) /\ Item.item = "close"
      /\ \/ Item.syntax = "html" /\ path' = HtmlClosed
         \/ Item.syntax = "bbcode" /\ path' = IF Bbcode(mode) \/ Item.name = "code" THEN BBClosed ELSE path
  BY DEF closeHtml, closeBB, Tag, Tagged, Meets, Apply
<1>2. ModeTag = [item |-> "close", mode |-> ModeOf(Item)]
  BY <1>1 DEF ModeTag
<1>3. OnWiki(mode')
  BY <1>1, TagOnWiki DEF TraceInv
<1>4. ASSUME Stack # <<>>, Meet(Stack, Item) # <<>>, Moded(Plain, Stack, mode) PROVE Goes
  <2> DEFINE st == Stack
             t == st[Len(st)]
             s2 == SubSeq(st, 1, Len(st) - 1)
  <2>1. ClosedIn(st, Item, Meet(st, Item)) /\ OpenStack(st) /\ Item \in Items
    BY <1>1, <1>4, StackItem DEF Left, Linked_, Begun, OpenedHere, OpenedIn
  <2>2. /\ Is(mode, "nobb") <=> Is(mode', "nobb")
        /\ \A F \in SUBSET Plain : Moded(F, st, mode) => Moded(F, Meet(st, Item), mode')
    <3>1. ASSUME NEW F \in SUBSET Plain, Moded(F, st, mode)
          PROVE  Moded(F, Meet(st, Item), mode') /\ (Is(mode, "nobb") <=> Is(mode', "nobb"))
      BY <1>1, <1>2, <1>4, <2>1, <3>1, ModesClose
    <3>2. QED
      BY <1>4, <3>1
  <2>3. /\ Len(st) >= 2 /\ Meet(st, Item) = s2 /\ t.syntax = Item.syntax /\ t.name = Item.name
        /\ t \in StackTags /\ Openable(t)
    BY <1>4, <2>1, StackFacts DEF ClosedIn
  <2>4. OpenStack(s2) /\ s2 # <<>>
    BY <2>1, <2>3, StackFront
  <2>5. ASSUME ~Is(mode', "nobb"), NEW from \in Seq(Elements), Traced(from, st, path)
        PROVE  Traced(from, s2, path')
    <3>1. \E s \in Paths : Traced(from, s2, s) /\ path \in Within(t, s)
      BY <1>4, <2>1, <2>3, <2>5, LastPath, Zenon
    <3>2. PICK s \in Paths : Traced(from, s2, s) /\ path \in Within(t, s)
      BY <3>1, Zenon
    <3> HIDE DEF s2
    <3>3. CASE Item.syntax = "html" /\ path' = HtmlClosed
      <4>1. t.name # "code"
        BY <2>3, <3>3 DEF Openable
      <4>2. t.name # "nowiki" => Wikicode(mode)
        BY <1>4, <2>1, <4>1, ModeNow DEF Plain
      <4> HIDE DEF t
      <4>3. path' \in Stays(s)
        BY <2>3, <3>2, <3>3, <4>2, HtmlCloses
      <4>4. QED
        BY <1>1, <2>4, <3>2, <4>3, StackItem, TracedStays
    <3>4. CASE Item.syntax = "bbcode" /\ path' = IF Bbcode(mode) \/ Item.name = "code" THEN BBClosed ELSE path
      <4>1. Bbcode(mode) \/ Item.name = "code"
        BY <1>1, <1>4, <2>1, <2>2, <2>3, <2>5, StackItem, ModeNow, CurrentIs
      <4> HIDE DEF t
      <4>2. path' \in Stays(s)
        BY <2>3, <3>2, <3>4, <4>1, BBCloses
      <4>3. QED
        BY <1>1, <2>4, <3>2, <4>2, StackItem, TracedStays
    <3>5. QED
      BY <1>1, <3>3, <3>4
  <2>6. QED
    BY <1>1, <2>2, <2>3, <2>5 DEF Goes, IsLine
<1>5. QED
  BY <1>1, <1>3, <1>4 DEF ItemGoes

(* What a tag that is opened in order opens. *)
LEMMA OpenedGoes ==
  ASSUME TypeOK, Reading, Stack # <<>>, OpenedIn(Stack, Item, Meet(Stack, Item)), Moded(Plain, Stack, mode),
         mode' = After(mode, ModeTag),
         \/ Item.syntax = "html" /\ path' = HtmlOpened
         \/ Item.syntax = "bbcode" /\ path' = IF Bbcode(mode) THEN BBOpened ELSE simple_parse(path)
  PROVE  Goes
<1> DEFINE st == Stack
           p == st[Len(st)]
           t == [syntax |-> Item.syntax, name |-> Item.name]
<1>1. OpenStack(st) /\ Item \in Items /\ path \in Paths /\ mode \in Seq(Modes)
  BY StackItem
<1>2. /\ \A F \in SUBSET Plain : Moded(F, st, mode) => Moded(F, Meet(st, Item), Pushed(mode, t))
      /\ mode \in Plain
      /\ t.name \in table_only => Is(mode, TableMode(t))
      /\ t \in StackTags /\ Openable(t)
  <2>1. ASSUME NEW F \in SUBSET Plain, Moded(F, st, mode)
        PROVE  /\ Moded(F, Meet(st, Item), Pushed(mode, t)) /\ mode \in Plain
               /\ t.name \in table_only => Is(mode, TableMode(t))
               /\ t \in StackTags /\ Openable(t)
    BY <1>1, <2>1, ModesOpen
  <2>2. Moded(Plain, st, mode) /\ Plain \in SUBSET Plain
    OBVIOUS
  <2> HIDE DEF st, t
  <2>3. QED
    BY <2>1, <2>2
<1>3. /\ Item.item = "open" /\ OpenIn(p, Item) /\ Meet(st, Item) = Append(st, t)
      /\ t.syntax = Item.syntax /\ t.name = Item.name
  BY DEF OpenedIn
<1>4. mode' = Pushed(mode, t)
  <2>1. ModeTag.item = "open" /\ ModeTag.mode = ModeOf(Item)
    BY <1>3 DEF ModeTag
  <2>2. ModeOf(Item) = Opens(t)
    BY <1>3 DEF Opens, ModeOf
  <2>3. QED
    BY <2>1, <2>2 DEF After, Closes, Pushed
<1>5. (\A y : Is(mode, y) => Is(mode', y)) /\ (Is(mode', "nobb") => Is(mode, "nobb"))
  BY <1>1, <1>2, <1>4, PushedFacts
<1>6. Item.fits = TRUE
  <2>1. Item.fits /\ Item \in Tags
    BY <1>1, <1>3 DEF OpenIn, Items, Lines, Tags, Links, Embeds, Others
  <2>2. Item.fits \in BOOLEAN
    BY <2>1 DEF Tags
  <2>3. QED
    BY <2>1, <2>2
<1>7. ASSUME ~Is(mode', "nobb"), NEW from \in Seq(Elements), Traced(from, st, path)
      PROVE  Traced(from, Append(st, t), path')
  <2>1. Bbcode(mode)
    BY <1>1, <1>2, <1>5, <1>7, CurrentIs DEF Plain, Wikicode, Stackable
  <2>2. ASSUME p.name \in {"table", "tr"}
        PROVE  \E s \in Paths : Traced(from, SubSeq(st, 1, Len(st) - 1), s) /\ path \in Within(p, s) /\ Len(st) >= 2
    <3>1. Len(st) >= 2
      <4>1. p # Nowhere
        BY <2>2 DEF Nowhere
      <4>2. QED
        BY <1>1, <4>1, StackFacts
    <3>2. \E s \in Paths : Traced(from, SubSeq(st, 1, Len(st) - 1), s) /\ path \in Within(p, s)
      BY <1>1, <1>7, <3>1, LastPath, Zenon
    <3>3. QED
      BY <3>1, <3>2, Zenon
  <2> HIDE DEF st, p, t
  <2>3. CASE Item.syntax = "bbcode" /\ path' = IF Bbcode(mode) THEN BBOpened ELSE simple_parse(path)
    <3>1. t.name \in table_only => Is(mode, "bbtable")
      BY <1>2, <1>3, <2>3 DEF TableMode
    <3>2. path' \in Within(t, path)
      BY <1>1, <1>2, <1>3, <1>6, <2>1, <2>3, <3>1, BBOpensWithin
    <3>3. path' \in Paths
      BY <1>1, <1>2, <3>2, WithinSimple
    <3>4. QED
      BY <1>1, <1>2, <1>7, <3>2, <3>3, TracedPush DEF st
  <2>4. CASE Item.syntax = "html" /\ path' = HtmlOpened
    <3>1. t.name \in table_only => Is(mode, "htmltable")
      BY <1>2, <1>3, <2>4 DEF TableMode
    <3>2. CASE t.name \notin {"td", "th"}
      <4>1. ASSUME t.name \in {"tr", "caption"} PROVE Top(path) = Element("table", "html")
        <5>1. p.name = "table" /\ p.syntax = "html"
          BY <1>3, <2>4, <4>1 DEF OpenIn
        <5>2. PICK s \in Paths : path \in Within(p, s)
          BY <2>2, <5>1, Zenon
        <5>3. Within(p, s) = {Child(s, "table", "html")}
          <6>1. p.name \in pairs /\ p.name \notin {"nowiki", "tr"}
            BY <5>1 DEF pairs
          <6>2. QED
            BY <5>1, <6>1 DEF Within, HtmlWithin
        <5>4. path = Child(s, "table", "html")
          BY <5>2, <5>3
        <5>5. "table" \in ElementNames /\ "html" \in Types
          BY WithinNames
        <5>6. Top(Child(s, "table", "html")) = Element("table", "html")
          BY <5>5, TopOfChild
        <5>7. QED
          BY <5>4, <5>6
      <4>2. path' \in Within(t, path)
        BY <1>1, <1>2, <1>3, <2>4, <3>1, <3>2, <4>1, HtmlOpens
      <4>3. path' \in Paths
        BY <1>1, <1>2, <4>2, WithinSimple
      <4>4. QED
        BY <1>1, <1>2, <1>7, <4>2, <4>3, TracedPush DEF st
    <3>3. CASE t.name \in {"td", "th"}
      <4>1. p.name = "tr" /\ p.syntax = "html"
        BY <1>3, <2>4, <3>3 DEF OpenIn
      <4>2. PICK s \in Paths : Traced(from, SubSeq(st, 1, Len(st) - 1), s) /\ path \in Within(p, s) /\ Len(st) >= 2
        BY <2>2, <4>1, Zenon
      <4>3. Within(p, s) = IF Top(s) = Element("table", "html") THEN {s, Child(s, "tr", "html")} ELSE {}
        <5>1. p.name \notin pairs \cup {"nowiki", "td", "th", "caption"}
          BY <4>1 DEF pairs
        <5>2. QED
          BY <4>1, <5>1 DEF Within, HtmlWithin
      <4>4. Top(s) = Element("table", "html") /\ path \in {s, Child(s, "tr", "html")}
        BY <4>2, <4>3
      <4> DEFINE r == Child(s, "tr", "html")
      <4>5. r \in Within(p, s)
        BY <4>3, <4>4
      <4>6. path' = Child(r, t.name, "html")
        BY <1>3, <2>4, <3>1, <3>3, <4>4, HtmlCellOpens DEF table_only
      <4> HIDE DEF r
      <4>7. Traced(from, st, r) /\ r \in Paths
        BY <1>1, <4>2, <4>5, LastReplace DEF st, p
      <4>8. Within(t, r) = {Child(r, t.name, "html")}
        <5>1. t.name \notin {"nowiki", "tr"} \cup pairs
          BY <3>3 DEF pairs
        <5>2. t.syntax = "html"
          BY <1>3, <2>4
        <5>3. QED
          BY <3>3, <5>1, <5>2 DEF Within, HtmlWithin
      <4>9. path' \in Within(t, r)
        BY <4>6, <4>8
      <4>10. path' \in Paths
        BY <1>2, <4>7, <4>9, WithinSimple
      <4>11. QED
        BY <1>1, <1>2, <4>7, <4>9, <4>10, TracedPush DEF st
    <3>4. QED
      BY <3>2, <3>3
  <2>5. QED
    BY <2>3, <2>4
<1>8. QED
  BY <1>2, <1>3, <1>4, <1>5, <1>7 DEF Goes, IsLine

(* A tag that needs no end, and an item of a list, open no more than there is. *)
LEMMA OpenedHereGoes ==
  ASSUME TypeOK, Reading, Stack # <<>>, OpenedHere(Stack, Item, Meet(Stack, Item)), Moded(Plain, Stack, mode),
         mode' = After(mode, ModeTag),
         \/ Item.syntax = "html" /\ path' = HtmlOpened
         \/ Item.syntax = "bbcode" /\ path' = IF Bbcode(mode) THEN BBOpened ELSE simple_parse(path)
  PROVE  Goes
<1> DEFINE st == Stack
           p == st[Len(st)]
<1>1. /\ OpenStack(st) /\ Item \in Items /\ path \in Paths /\ mode \in Seq(Modes)
      /\ Call.line \in Seq(Elements)
  BY StackItem
<1>2. Item.item = "open" /\ OpenIn(p, Item) /\ Meet(st, Item) = st /\ Item.name \in {"br", "hr", "*"}
  BY DEF OpenedHere, noclose
<1>3. mode' = mode
  <2>1. ModeOf(Item) = "none"
    BY <1>2 DEF ModeOf
  <2>2. ModeTag.item = "open" /\ ModeTag.mode = "none"
    BY <1>2, <2>1 DEF ModeTag
  <2>3. "none" \notin Modes
    BY DEF Modes
  <2>4. QED
    BY <2>2, <2>3 DEF After, Closes
<1>4. ASSUME ~Is(mode', "nobb"), NEW from \in Seq(Elements), Traced(from, st, path)
      PROVE  Traced(from, st, path')
  <2>1. p.name \notin {"code", "nowiki"} /\ mode \in Plain
    BY <1>1, <1>2, ModeNow DEF OpenIn
  <2>2. Bbcode(mode)
    BY <1>1, <1>3, <1>4, <2>1, CurrentIs DEF Plain, Wikicode, Stackable
  <2>3. CASE path' \in Stays(path)
    BY <1>1, <1>4, <2>3, TracedStays
  <2>4. CASE Item.syntax = "html" /\ path' = HtmlOpened
    <3>1. Item.name \notin pairs \cup {"table", "nowiki"} \cup table_only \cup list_items
      BY <1>2 DEF pairs, table_only, list_items
    <3>2. Item.name \in noclose => HtmlOpened = path
      BY <3>1 DEF HtmlOpened
    <3>3. Item.name = "*" => HtmlOpened = simple_parse(path)
      <4>1. "*" \notin noclose \cup formatting_pairs
        BY DEF noclose, formatting_pairs
      <4>2. QED
        BY <3>1, <4>1 DEF HtmlOpened
    <3>4. QED
      BY <1>2, <2>3, <2>4, <3>2, <3>3 DEF noclose, Stays
  <2>5. CASE Item.syntax = "bbcode" /\ path' = BBOpened /\ Item.name # "*"
    <3>1. Item.name \notin BBPairs \cup {"list", "rule", "break", "img", "url", "*"} /\ Item.name \notin {"td", "th", "tr"}
      BY <1>2, <2>5 DEF BBPairs, simple_pairs
    <3>2. BBOpens = <<"text">>
      BY <3>1 DEF BBOpens, BBPairs
    <3>3. BBOpened = simple_parse(path)
      BY <3>2 DEF BBOpened
    <3>4. QED
      BY <2>3, <2>5, <3>3 DEF Stays
  <2>6. CASE Item.syntax = "bbcode" /\ path' = BBOpened /\ Item.name = "*"
    <3>1. p.name = "list" /\ p.syntax = "bbcode"
      BY <1>2, <2>6 DEF OpenIn
    <3>2. Is(mode, "bblist")
      BY <1>1, <3>1, InsideModes
    <3>3. Len(st) >= 2
      <4>1. p # Nowhere
        BY <3>1 DEF Nowhere
      <4>2. QED
        BY <1>1, <4>1, StackFacts
    <3>4. \E s \in Paths : Traced(from, SubSeq(st, 1, Len(st) - 1), s) /\ path \in Within(p, s)
      BY <1>1, <1>4, <3>3, LastPath, Zenon
    <3> HIDE DEF p
    <3>5. PICK s \in Paths : Traced(from, SubSeq(st, 1, Len(st) - 1), s) /\ path \in Within(p, s)
      BY <3>4, Zenon
    <3>6. Within(p, s) = {Child(s, "ul", "bbcode"), Child(Child(s, "ul", "bbcode"), "li", "bbcode")}
      <4>1. p.name \notin simple_pairs
        BY <3>1 DEF simple_pairs
      <4>2. QED
        BY <3>1, <4>1 DEF Within, BBWithin
    <3>7. BBOpened \in Within(p, s)
      BY <2>6, <3>2, <3>5, <3>6, BBItem
    <3>8. QED
      BY <1>1, <2>6, <3>3, <3>5, <3>7, LastReplace DEF p
  <2>7. QED
    BY <2>2, <2>4, <2>5, <2>6
<1>5. QED
  BY <1>2, <1>3, <1>4 DEF Goes, IsLine

LEMMA OpenGoes ==
  ASSUME TypeOK, TypeOK', TraceInv, openHtml \/ openBB
  PROVE  ItemGoes
<1>1. /\ Reading /\ Read /\ UNCHANGED text /\ mode' = After(mode, ModeTag) /\ Item.item = "open"
      /\ \/ Item.syntax = "html" /\ path' = HtmlOpened
         \/ Item.syntax = "bbcode" /\ path' = IF Bbcode(mode) THEN BBOpened ELSE simple_parse(path)
  BY DEF openHtml, openBB, Tag, Tagged, Meets, Apply
<1>2. OnWiki(mode')
  BY <1>1, TagOnWiki DEF TraceInv
<1>3. ASSUME Stack # <<>>, Meet(Stack, Item) # <<>>, Moded(Plain, Stack, mode) PROVE Goes
  <2>1. OpenedHere(Stack, Item, Meet(Stack, Item)) \/ OpenedIn(Stack, Item, Meet(Stack, Item))
    BY <1>1, <1>3, StackItem DEF Left, Linked_, Begun, ClosedIn
  <2>2. QED
    BY <1>1, <1>3, <2>1, OpenedGoes, OpenedHereGoes
<1>4. QED
  BY <1>1, <1>2, <1>3 DEF ItemGoes

(* A page that is embedded begins with a text and a line of its own; when the call for it *)
(* returns, the text of its parent has met an embedded page.                               *)
(* A page begins with no tag open, and the one it is met on stands behind it. *)
LEMMA EmbedThen ==
  ASSUME TypeOK, embed
  PROVE  /\ Reading /\ Item.item = "embed" /\ UNCHANGED <<text, path, mode>>
         /\ Call' = Frame(Item.page, path, mode) /\ Call' \in Calls /\ Stack' = <<Nowhere>>
         /\ Len(frames) \in Nat \ {0} /\ Len(frames') = Len(frames) + 1
         /\ \A i \in 1..(Len(frames) - 1) : frames'[i] = frames[i]
         /\ frames'[Len(frames)] = Gone
         /\ mode \in Plain /\ path \in Paths
<1>1. Reading /\ ~Css /\ Item.item = "embed" /\ ~IsText /\ UNCHANGED <<text, path, mode>>
  BY DEF embed, Tagged, Meets
<1> DEFINE g == [frames EXCEPT ![Len(frames)] = Gone]
           f == Frame(Item.page, path, mode)
           n == Len(frames)
<1>2. frames' = Append(g, f)
  BY DEF embed
<1>3. Gone \in Calls
  BY <1>1, GoneFacts
<1>4. frames \in Seq(Calls) /\ n \in Nat \ {0} /\ Item.page \in Pages
  BY <1>1, CallFacts, ItemFacts DEF TypeOK
<1>5. Len(g) = n /\ g[n] = Gone /\ (\A i \in 1..(n - 1) : g[i] = frames[i]) /\ g \in Seq(Calls)
  BY <1>3, <1>4
<1>6. f \in Calls /\ f.at = 1 /\ f.page = Item.page
  <2>1. f \in Calls /\ f.at = 1
    BY <1>1, <1>4, FrameFacts
  <2>2. QED
    BY <2>1 DEF Frame
<1> HIDE DEF g, f
<1>7. Len(frames') = n + 1 /\ frames'[n + 1] = f /\ \A i \in 1..n : frames'[i] = g[i]
  BY <1>2, <1>4, <1>5, <1>6
<1>8. Call' = f
  BY <1>7 DEF Call
<1>9. Stack' = <<Nowhere>>
  <2>1. Stack' = OpenTags(text'[Call'.page], 0)
    BY <1>6, <1>8 DEF Stack
  <2>2. text'[Call'.page] \in Seq(Items)
    <3>1. text \in [Pages -> Seq(Items)]
      BY DEF TypeOK
    <3>2. QED
      BY <1>1, <1>4, <1>6, <1>8, <3>1
  <2>3. QED
    BY <2>1, <2>2, OpenTagsEquation
<1>10. \A i \in 1..(n - 1) : frames'[i] = frames[i]
  BY <1>4, <1>5, <1>7
<1>11. frames'[n] = Gone
  BY <1>4, <1>5, <1>7
<1>12. mode \in Plain /\ path \in Paths
  BY <1>1, StackItem DEF IsText, Css, Plain
<1>13. QED
  BY <1>1, <1>4, <1>6, <1>7, <1>8, <1>9, <1>10, <1>11, <1>12 DEF f

LEMMA EmbedTrace ==
  ASSUME TypeOK, TypeOK', TraceInv, embed
  PROVE  TraceInv'
<1> DEFINE n == Len(frames)
<1>1. /\ Reading /\ Item.item = "embed" /\ UNCHANGED <<text, path, mode>>
      /\ Stack' = <<Nowhere>> /\ n \in Nat \ {0} /\ Len(frames') = n + 1
      /\ \A i \in 1..(n - 1) : frames'[i] = frames[i]
      /\ frames'[n] = Gone /\ mode \in Plain /\ path \in Paths
  BY EmbedThen
<1>2. Gone.page = Call.page /\ Gone.at = Call.at + 1
  BY <1>1, GoneFacts
<1>3. Call'.line = path
  <2>1. Call' = Frame(Item.page, path, mode)
    BY EmbedThen
  <2>2. QED
    BY <2>1 DEF Frame
<1>4. OuterEmbeds'
  <2>1. ASSUME NEW i \in 1..n PROVE EmbedMet(text[frames'[i].page], frames'[i].at)
    <3>1. CASE i \in 1..(n - 1)
      BY <1>1, <3>1 DEF OuterEmbeds, TraceInv
    <3>2. CASE i = n
      <4>1. Item = text[Call.page][Call.at] /\ Call.at \in 1..Len(text[Call.page])
        BY <1>1, ItemFacts
      <4>2. Call.at \in 1..((Call.at + 1) - 1)
        BY <4>1
      <4>3. EmbedMet(text[Call.page], Call.at + 1)
        BY <1>1, <4>1, <4>2 DEF EmbedMet
      <4>4. QED
        BY <1>1, <1>2, <3>2, <4>3
    <3>3. QED
      BY <1>1, <3>1, <3>2
  <2>2. Len(frames') - 1 = n
    BY <1>1
  <2>3. \A i \in 1..(Len(frames') - 1) : EmbedMet(text'[frames'[i].page], frames'[i].at)
    BY <1>1, <2>1, <2>2
  <2>4. QED
    BY <2>3 DEF OuterEmbeds
<1>5. Followed'
  <2>1. Len(<<Nowhere>>) = 1 /\ Plain \subseteq Seq(Modes)
    BY DEF Plain
  <2>2. Moded(Plain, <<Nowhere>>, mode)
    BY <1>1, <2>1, ChainOne DEF Moded
  <2>3. Traced(path, <<Nowhere>>, path)
    BY <1>1, <2>1, TracedOne DEF Stays
  <2>4. QED
    BY <1>1, <1>3, <2>2, <2>3 DEF Followed
<1>6. OnWiki(mode')
  BY <1>1 DEF TraceInv
<1>7. QED
  BY <1>4, <1>5, <1>6 DEF TraceInv

(* The page that goes on has met the one that returns. *)
LEMMA ReturnThen ==
  ASSUME TypeOK, TraceInv, embeddedReturns
  PROVE  /\ UNCHANGED <<text, path, mode>> /\ Call' \in Calls /\ OuterEmbeds' /\ ~Alone'
         /\ text'[Call'.page] \in Seq(Items) /\ Call'.at \in 1..(Len(text'[Call'.page]) + 1)
<1>1. UNCHANGED <<text, path, mode>>
  BY DEF embeddedReturns
<1> DEFINE k == Len(frames) - 1
<1>2. k \in Nat \ {0} /\ k \in 0..Len(frames) /\ k \in 1..Len(frames) /\ frames \in Seq(Calls)
  BY CallFacts DEF embeddedReturns, Embedded, TypeOK
<1>3. frames' = SubSeq(frames, 1, k)
  BY DEF embeddedReturns
<1>4. \A i \in 1..k : EmbedMet(text[frames[i].page], frames[i].at)
  BY DEF TraceInv, OuterEmbeds
<1> HIDE DEF k
<1>5. Len(frames') = k /\ \A i \in 1..k : frames'[i] = frames[i]
  BY <1>2, <1>3, FrontItems
<1>6. \A i \in 1..k : EmbedMet(text'[frames'[i].page], frames'[i].at)
  BY <1>1, <1>4, <1>5
<1>7. OuterEmbeds'
  BY <1>2, <1>5, <1>6 DEF OuterEmbeds
<1>8. Call' = frames[k] /\ Call' = frames'[k] /\ k \in 1..k
  BY <1>2, <1>5 DEF Call
<1>9. ~Alone'
  BY <1>6, <1>8 DEF Alone
<1>10. /\ frames[k] \in Calls /\ text[frames[k].page] \in Seq(Items)
       /\ frames[k].at \in 1..(Len(text[frames[k].page]) + 1)
  <2>1. frames[k] \in Calls /\ frames[k].at \in 1..(Len(text[frames[k].page]) + 1) /\ text \in [Pages -> Seq(Items)]
    BY <1>2 DEF TypeOK
  <2>2. QED
    BY <2>1 DEF Calls
<1>11. QED
  BY <1>1, <1>7, <1>8, <1>9, <1>10

LEMMA ReturnTrace ==
  ASSUME TypeOK, TypeOK', TraceInv, embeddedReturns
  PROVE  TraceInv'
<1>1. UNCHANGED <<text, path, mode>> /\ OuterEmbeds' /\ ~Alone'
  BY ReturnThen
<1>2. OnWiki(mode')
  BY <1>1 DEF TraceInv
<1>3. QED
  BY <1>1, <1>2 DEF TraceInv

LEMMA InitTrace == Init => TraceInv
<1> SUFFICES ASSUME Init PROVE TraceInv
  OBVIOUS
<1>0. TypeOK
  BY InitInv DEF Inv
<1>1. path = <<Root>> /\ mode = <<>> /\ frames = <<Frame(Main, path, <<>>)>>
  BY DEF Init
<1> DEFINE f == Frame(Main, path, <<>>)
<1>2. f.at = 1 /\ f.line = path
  BY DEF Frame
<1> HIDE DEF f
<1>3. frames = <<f>> /\ Len(frames) = 1 /\ Call = f
  BY <1>1 DEF Call, f
<1>4. Stack = <<Nowhere>>
  <2>1. Stack = OpenTags(text[Call.page], 0)
    BY <1>2, <1>3 DEF Stack
  <2>2. text[Call.page] \in Seq(Items)
    BY <1>0, CallFacts
  <2>3. QED
    BY <2>1, <2>2, OpenTagsEquation
<1>5. <<>> \in Plain /\ path \in Paths
  <2>1. <<>> \in Seq(Modes) /\ Len(<<>>) = 0 /\ 1..0 = {}
    OBVIOUS
  <2>2. Wikicode(<<>>) /\ ~Is(<<>>, "css")
    BY <2>1 DEF Wikicode, Current, Raw, Is
  <2>3. path \in Paths
    BY <1>0, <1>1 DEF TypeOK, Paths
  <2>4. QED
    BY <2>1, <2>2, <2>3 DEF Plain
<1>6. Followed
  <2>1. Len(<<Nowhere>>) = 1 /\ Plain \subseteq Seq(Modes)
    BY DEF Plain
  <2>2. Moded(Plain, <<Nowhere>>, mode)
    BY <1>1, <1>5, <2>1, ChainOne DEF Moded
  <2>3. Traced(path, <<Nowhere>>, path)
    BY <1>5, <2>1, TracedOne DEF Stays
  <2>4. QED
    BY <1>2, <1>3, <1>4, <2>2, <2>3 DEF Followed
<1>7. OnWiki(mode) /\ OuterEmbeds
  <2>1. Len(<<>>) = 0 /\ 2..0 = {}
    OBVIOUS
  <2>2. OnWiki(<<>>)
    BY <2>1 DEF OnWiki
  <2>3. 1..(Len(frames) - 1) = {}
    BY <1>3
  <2>4. QED
    BY <1>1, <2>2, <2>3 DEF OuterEmbeds
<1>8. QED
  BY <1>6, <1>7 DEF TraceInv

LEMMA NextTrace == TypeOK /\ TypeOK' /\ TraceInv /\ [Next]_vars => TraceInv'
<1> SUFFICES ASSUME TypeOK, TypeOK', TraceInv, [Next]_vars PROVE TraceInv'
  OBVIOUS
<1>1. CASE \/ listLine \/ indentLine \/ blankLine \/ headerLine \/ openTable \/ tableLine
           \/ plainLine \/ ruleLine \/ rawLine
  BY <1>1, LinesTrace
<1>2. CASE readText \/ inlineCell
  BY <1>2, ReadTextGoes, ItemTrace
<1>3. CASE readCss
  BY <1>3, ReadCssGoes, ItemTrace
<1>4. CASE readRaw
  BY <1>4, ReadRawGoes, ItemTrace
<1>5. CASE closeHtml \/ closeBB
  BY <1>5, CloseGoes, ItemTrace
<1>6. CASE openHtml \/ openBB
  BY <1>6, OpenGoes, ItemTrace
<1>7. CASE readLink \/ skipEmbed
  BY <1>7, ReadLinkGoes, ItemTrace
<1>8. CASE embed
  BY <1>8, EmbedTrace
<1>9. CASE embeddedReturns
  BY <1>9, ReturnTrace
<1>10. CASE UNCHANGED vars
  BY <1>10 DEF vars, TraceInv, OuterEmbeds, Followed, Stack, Alone, OnCells, Call
<1>11. QED
  BY <1>1, <1>2, <1>3, <1>4, <1>5, <1>6, <1>7, <1>8, <1>9, <1>10 DEF Next

(* The items behind, and the tags that they leave open. *)
LEMMA PastFacts ==
  ASSUME TypeOK
  PROVE  /\ Len(Past(Call)) = Call.at - 1 /\ \A i \in 1..(Call.at - 1) : Past(Call)[i] = text[Call.page][i]
         /\ Tidy(Past(Call)) => Stack = <<Nowhere>>
<1> DEFINE t == text[Call.page]
           k == Call.at - 1
           s == Past(Call)
<1>1. t \in Seq(Items) /\ k \in 0..Len(t) /\ k \in Nat
  <2>1. t \in Seq(Items) /\ Call.at \in 1..(Len(t) + 1)
    BY CallFacts
  <2>2. QED
    BY <2>1
<1>2. s = SubSeq(t, 1, k)
  BY DEF Past
<1>3. Len(s) = k /\ \A i \in 1..k : s[i] = t[i]
  BY <1>1, <1>2, FrontItems
<1>4. ASSUME Tidy(s) PROVE Stack = <<Nowhere>>
  <2>1. OpenTags(s, k) = <<Nowhere>>
    BY <1>3, <1>4 DEF Tidy
  <2>2. OpenTags(s, k) = OpenTags(t, k)
    BY <1>1, <1>2, OpenTagsOfFront
  <2>3. QED
    BY <2>1, <2>2 DEF Stack
<1>5. QED
  BY <1>3, <1>4

(* Where the text of a call is behind its line, in the terms of the property. *)
LEMMA TraceOfLine ==
  ASSUME TypeOK, TraceInv
  PROVE  TagsLeaveNoTrace
<1> SUFFICES ASSUME BetweenLines, Tidy(Past(Call)), ~HasItem(Past(Call), {"embed"}),
                    ~OnThisLine(Past(Call), {"pipe", "exclamation"}), ~Is(mode, "nobb")
             PROVE  path \in Stays(Call.line)
  BY DEF TagsLeaveNoTrace, Stays
<1>1. /\ Len(Past(Call)) = Call.at - 1 /\ \A i \in 1..(Call.at - 1) : Past(Call)[i] = text[Call.page][i]
      /\ Stack = <<Nowhere>>
  BY PastFacts
<1>2. Alone
  BY <1>1 DEF Alone, EmbedMet, HasItem
<1>3. ~OnCells
  <2>1. Call.at \in Nat
    BY CallFacts
  <2>2. QED
    BY <1>1, <2>1 DEF OnCells, CellMet, OnThisLine
<1>4. Stack # <<>> /\ Len(Stack) = 1
  BY <1>1
<1>5. Traced(Call.line, Stack, path)
  BY <1>2, <1>3, <1>4 DEF TraceInv, Followed, BetweenLines
<1>6. QED
  BY <1>4, <1>5, TracedOne

(* A line whose tags are in order leaves the cursor where the line began, or in the paragraph *)
(* that it has begun there: whatever else the page holds, whatever pages it is embedded in,    *)
(* and however its tags are nested.                                                            *)
THEOREM TagsLeaveNone == Spec => []TagsLeaveNoTrace
<1>1. Init => TraceInv
  BY InitTrace
<1>2. TypeOK /\ TypeOK' /\ TraceInv /\ [Next]_vars => TraceInv'
  BY NextTrace
<1>3. TypeOK /\ TraceInv => TagsLeaveNoTrace
  BY TraceOfLine
<1>4. QED
  BY <1>1, <1>2, <1>3, TypeCorrect, PTL DEF Spec

-----------------------------------------------------------------------------
(* The elements of lists *)

ListNames == list_tags \cup list_items
Listless(p) == p \in Seq(Elements) /\ \A i \in 1..Len(p) : p[i].name \notin ListNames

(* What stands at place i of what a list has opened, and a path on which that is opened. *)
NameAt(list, i) ==
  LET mark == list[(i + 1) \div 2] IN IF i % 2 = 1 THEN ListOf(mark) ELSE ItemOf(mark)
OnList(q, base, list) ==
  /\ q \in Seq(Elements) /\ Len(q) = Len(base) + 2 * Len(list)
  /\ \A i \in 1..Len(base) : q[i] = base[i]
  /\ \A i \in 1..(2 * Len(list)) : q[Len(base) + i].name = NameAt(list, i)

(* The names of lists and those of their items differ, and open neither blocks nor tables. *)
LEMMA ListNameFacts ==
  /\ \A mark : ListOf(mark) \in list_tags /\ ItemOf(mark) \in list_items
  /\ list_tags \cap list_items = {} /\ ListNames \cap (blocks \cup table_only) = {}
  /\ {"p", "pre", "table", "caption", "tr", "td", "th"} \cap ListNames = {}
BY DEF ListOf, ItemOf, list_tags, list_items, ListNames, blocks, table_only

LEMMA NameAtFacts ==
  ASSUME NEW list, NEW i \in Nat
  PROVE  /\ i % 2 = 1 => NameAt(list, i) \in list_tags
         /\ i % 2 = 0 => NameAt(list, i) \in list_items
         /\ NameAt(list, i) \in ListNames
<1>1. i % 2 = 1 \/ i % 2 = 0
  OBVIOUS
<1>2. /\ i % 2 = 1 => NameAt(list, i) \in list_tags
      /\ i % 2 = 0 => NameAt(list, i) \in list_items
  BY <1>1, ListNameFacts DEF NameAt
<1>3. QED
  BY <1>1, <1>2 DEF ListNames

LEMMA OnNoList ==
  ASSUME NEW base \in Seq(Elements), NEW q
  PROVE  OnList(q, base, <<>>) <=> q = base
<1>1. Len(<<>>) = 0 /\ 2 * 0 = 0 /\ Len(base) \in Nat /\ 1..0 = {}
  OBVIOUS
<1>2. ASSUME OnList(q, base, <<>>) PROVE q = base
  <2>1. q \in Seq(Elements) /\ Len(q) = Len(base) /\ \A i \in 1..Len(base) : q[i] = base[i]
    BY <1>1, <1>2 DEF OnList
  <2>2. QED
    BY <2>1, SeqEqual
<1>3. OnList(base, base, <<>>)
  BY <1>1 DEF OnList
<1>4. QED
  BY <1>2, <1>3

(* With a list the path is at the item of its last mark. *)
LEMMA OnListTop ==
  ASSUME NEW base \in Paths, NEW list \in Seq(Marks), NEW q, OnList(q, base, list)
  PROVE  /\ q \in Paths /\ Len(base) \in Nat \ {0} /\ Len(list) \in Nat
         /\ list # <<>> => /\ Top(q).name \in list_items /\ Len(list) \in Nat \ {0}
                           /\ Len(q) >= Len(base) + 2
<1>1. Len(base) \in Nat \ {0} /\ Len(list) \in Nat /\ q \in Seq(Elements) /\ Len(q) = Len(base) + 2 * Len(list)
  BY EmptySeq DEF Paths, OnList
<1>2. q # <<>>
  BY <1>1, EmptySeq
<1>3. ASSUME list # <<>>
      PROVE  Top(q).name \in list_items /\ Len(list) \in Nat \ {0} /\ Len(q) >= Len(base) + 2
  <2>1. Len(list) \in Nat \ {0}
    BY <1>1, <1>3, EmptySeq
  <2> DEFINE i == 2 * Len(list)
  <2>2. i \in 1..(2 * Len(list)) /\ i \in Nat /\ i % 2 = 0 /\ Len(q) = Len(base) + i /\ i >= 2
    BY <1>1, <2>1
  <2>3. q[Len(base) + i].name = NameAt(list, i)
    BY <2>2 DEF OnList
  <2> HIDE DEF i
  <2>4. Top(q).name = NameAt(list, i)
    BY <2>2, <2>3 DEF Top
  <2>5. QED
    BY <1>1, <2>1, <2>2, <2>4, NameAtFacts
<1>4. QED
  BY <1>1, <1>2, <1>3 DEF Paths

-----------------------------------------------------------------------------
(* What a line begins with: it goes on at the base, or in a paragraph that is begun there. *)

Wider(base) == {base} \cup (IF At(base, blocks \cup table_only) THEN {Child(base, "p", "wiki")} ELSE {})
Going(p, base, list) == \E b \in Wider(base) : OnList(p, b, list)

LEMMA WiderFacts ==
  ASSUME NEW base \in Paths, NEW b \in Wider(base)
  PROVE  /\ b \in Paths /\ Wider(b) \subseteq Wider(base)
         /\ Listless(base) => Listless(b)
         /\ b # base => b = Child(base, "p", "wiki") /\ ~At(b, {"table"})
<1> DEFINE c == Child(base, "p", "wiki")
<1>1. /\ c \in Paths /\ Len(c) = Len(base) + 1 /\ Len(base) \in Nat \ {0}
      /\ c[Len(base) + 1] = Element("p", "wiki") /\ (\A i \in 1..Len(base) : c[i] = base[i])
      /\ \A names : At(c, names) <=> "p" \in names
  BY TypeNames, ChildIs
<1> HIDE DEF c
<1>2. CASE b = base
  BY <1>2
<1>3. CASE b # base
  <2>1. b = c /\ At(base, blocks \cup table_only)
    BY <1>3 DEF Wider, c
  <2>2. ~At(b, blocks \cup table_only) /\ ~At(b, {"table"})
    BY <1>1, <2>1 DEF blocks, table_only
  <2>3. Wider(b) = {b}
    BY <2>2 DEF Wider
  <2>4. Listless(base) => Listless(b)
    <3>1. Element("p", "wiki").name = "p" /\ "p" \notin ListNames
      BY ListNameFacts DEF Element
    <3>2. QED
      BY <1>1, <2>1, <3>1 DEF Listless, Paths
  <2>5. QED
    BY <1>1, <2>1, <2>2, <2>3, <2>4 DEF c
<1>4. QED
  BY <1>2, <1>3

LEMMA StaysGoing ==
  ASSUME NEW base \in Paths, NEW list \in Seq(Marks), NEW q, OnList(q, base, list), NEW p \in Stays(q)
  PROVE  Going(p, base, list)
<1>1. CASE p = q
  BY <1>1 DEF Going, Wider
<1>2. CASE p # q
  <2>1. p = simple_parse(q) /\ At(q, blocks)
    BY <1>2 DEF Stays, simple_parse
  <2>2. list = <<>>
    <3>1. list # <<>> => Top(q).name \in list_items
      BY OnListTop
    <3>2. At(q, blocks) => Top(q).name \in blocks
      BY DEF At
    <3>3. list_items \cap blocks = {}
      BY DEF list_items, blocks
    <3>4. QED
      BY <2>1, <3>1, <3>2, <3>3
  <2>3. q = base
    BY <2>2, OnNoList DEF Paths
  <2>4. p = Child(base, "p", "wiki")
    BY <2>1, <2>3 DEF simple_parse, becomeChild, Child, Paths
  <2>5. p \in Wider(base)
    BY <2>1, <2>3, <2>4 DEF Wider, At
  <2>6. p \in Paths
    BY <2>5, WiderFacts
  <2>7. OnList(p, p, <<>>)
    BY <2>6, OnNoList DEF Paths
  <2>8. QED
    BY <2>2, <2>5, <2>7 DEF Going
<1>3. QED
  BY <1>1, <1>2

(* A paragraph that is begun behind the parts of a table. *)
LEMMA PartGoing ==
  ASSUME NEW base \in Paths, NEW list \in Seq(Marks), NEW q, Going(q, base, list), At(q, table_only)
  PROVE  Going(becomeChild(q, "p", "wiki"), base, list)
<1>1. PICK b \in Wider(base) : OnList(q, b, list)
  BY DEF Going
<1>2. b \in Paths /\ Wider(b) \subseteq Wider(base)
  BY WiderFacts
<1>3. list = <<>>
  <2>1. list # <<>> => Top(q).name \in list_items
    BY <1>1, <1>2, OnListTop
  <2>2. Top(q).name \in table_only
    BY DEF At
  <2>3. list_items \cap table_only = {}
    BY DEF list_items, table_only
  <2>4. QED
    BY <2>1, <2>2, <2>3
<1>4. q = b
  BY <1>1, <1>2, <1>3, OnNoList DEF Paths
<1> DEFINE c == Child(q, "p", "wiki")
<1>5. becomeChild(q, "p", "wiki") = c
  BY <1>2, <1>4 DEF becomeChild, Child, Paths
<1>6. c \in Wider(b)
  BY <1>4 DEF Wider, At
<1>7. c \in Wider(base)
  BY <1>2, <1>6
<1> HIDE DEF c
<1>8. c \in Paths
  BY <1>7, WiderFacts
<1>9. OnList(c, c, <<>>)
  BY <1>8, OnNoList DEF Paths
<1>10. QED
  BY <1>3, <1>5, <1>7, <1>9 DEF Going

(* Where nothing is indented, and no list is made of tags. *)
LEMMA LineGoing ==
  ASSUME NEW base \in Paths, Call.list \in Seq(Marks), NEW q, OnList(q, base, Call.list), path \in Stays(q),
         ~Is(Closed(mode, "wikitableline"), "wikiindent"), ~InList(Closed(mode, "wikitableline")),
         NEW isCell, NEW isList
  PROVE  /\ Going(Ended, base, Call.list)
         /\ Going(LinePath(isCell, isList), base, Call.list)
<1>1. q \in Paths
  BY OnListTop
<1>2. Ended \in Stays(q)
  BY <1>1, SimpleStays DEF Ended
<1>3. Going(Ended, base, Call.list)
  BY <1>2, StaysGoing
<1>4. \/ LinePath(isCell, isList) = Ended
      \/ At(Ended, table_only) /\ LinePath(isCell, isList) = becomeChild(Ended, "p", "wiki")
  BY DEF LinePath
<1>5. QED
  BY <1>3, <1>4, PartGoing

-----------------------------------------------------------------------------
(* The end of a list *)

(* One turn for each mark, and one more for whatever of the base it would go on to close. *)
LEMMA TurnsOfList ==
  ASSUME NEW base \in Paths, NEW list \in Seq(Marks), NEW q, OnList(q, base, list)
  PROVE  /\ Cardinality(Turns(q, Len(base))) <= Len(list)
         /\ \A k \in 0..(Len(base) - 1) :
              Cardinality(Turns(q, k)) <= Len(list) =>
                \E i \in (k + 1)..Len(q) : q[i].name \notin list_tags \cup list_items
<1> DEFINE n == Len(base)
           m == Len(list)
<1>1. n \in Nat \ {0} /\ m \in Nat /\ Len(q) = n + 2 * m /\ Len(q) \in Nat
  BY OnListTop DEF OnList
<1>2. \A i \in 1..(2 * m) : q[n + i].name = NameAt(list, i)
  BY DEF OnList
<1> HIDE DEF n, m
<1>3. \A i \in 1..(2 * m) : /\ i % 2 = 1 => q[n + i].name \in list_tags /\ q[n + i].name \notin list_items
                            /\ i % 2 = 0 => q[n + i].name \in list_items
  BY <1>1, <1>2, NameAtFacts, ListNameFacts
<1>4. Cardinality(Turns(q, n)) <= m
  <2> DEFINE T == Turns(q, n)
             f == [i \in T |-> (i - n) \div 2]
  <2>1. ASSUME NEW i \in T PROVE (i - n) \in 1..(2 * m) /\ (i - n) % 2 = 0 /\ i \in Nat
    <3>1. i \in (n + 1)..Len(q) /\ (q[i].name \in list_items \/ i = Len(q) \/ q[i + 1].name \notin list_items)
      BY DEF Turns
    <3> HIDE DEF T
    <3> DEFINE d == i - n
    <3>2. d \in 1..(2 * m) /\ n + d = i /\ i \in Nat /\ d \in Nat
      BY <1>1, <3>1
    <3> HIDE DEF d
    <3>3. ASSUME d % 2 = 1 PROVE FALSE
      <4>1. q[i].name \notin list_items
        BY <1>3, <3>2, <3>3
      <4>2. d + 1 \in 1..(2 * m) /\ (d + 1) % 2 = 0 /\ n + (d + 1) = i + 1 /\ i # Len(q)
        BY <1>1, <3>2, <3>3
      <4>3. q[i + 1].name \in list_items
        BY <1>3, <4>2
      <4>4. QED
        BY <3>1, <4>1, <4>2, <4>3
    <3>4. d % 2 = 0
      BY <3>2, <3>3
    <3>5. QED
      BY <3>2, <3>4 DEF d
  <2> HIDE DEF T
  <2>2. f \in [T -> 1..m]
    BY <1>1, <2>1
  <2>3. ASSUME NEW a \in T, NEW b \in T, f[a] = f[b] PROVE a = b
    <3>1. f[a] = (a - n) \div 2 /\ f[b] = (b - n) \div 2
      OBVIOUS
    <3>2. a \in Nat /\ b \in Nat /\ (a - n) % 2 = 0 /\ (b - n) % 2 = 0 /\ a - n \in Nat /\ b - n \in Nat
      BY <2>1
    <3> HIDE DEF f
    <3>3. (a - n) \div 2 = (b - n) \div 2
      BY <2>3, <3>1
    <3>4. QED
      BY <1>1, <3>2, <3>3
  <2> HIDE DEF f
  <2>4. f \in Injection(T, 1..m)
    BY <2>2, <2>3, Fun_IsInj
  <2>5. IsFiniteSet(1..m) /\ Cardinality(1..m) = m
    BY <1>1, FS_Interval
  <2>6. QED
    BY <2>4, <2>5, FS_Injection DEF T
<1>5. ASSUME NEW k \in 0..(n - 1), Cardinality(Turns(q, k)) <= m,
             \A i \in (k + 1)..Len(q) : q[i].name \in list_tags \cup list_items
      PROVE  FALSE
  <2> DEFINE T == Turns(q, k)
             g == [j \in 0..m |-> n + 2 * j]
  <2>1. T = {i \in (k + 1)..Len(q) : q[i].name \in list_items \/ i = Len(q) \/ q[i + 1].name \notin list_items}
    BY DEF Turns
  <2> HIDE DEF T
  <2>2. ASSUME NEW j \in 0..m PROVE n + 2 * j \in T
    <3>1. n + 2 * j \in (k + 1)..Len(q)
      BY <1>1
    <3>2. CASE j = 0
      <4>1. n \in (k + 1)..Len(q) /\ n + 2 * j = n
        BY <1>1, <3>1, <3>2
      <4>2. n # Len(q) => q[n + 1].name \notin list_items
        <5>1. n # Len(q) => 1 \in 1..(2 * m) /\ 1 % 2 = 1
          BY <1>1
        <5>2. QED
          BY <1>3, <5>1
      <4>3. QED
        BY <2>1, <4>1, <4>2
    <3>3. CASE j # 0
      <4>1. 2 * j \in 1..(2 * m) /\ (2 * j) % 2 = 0
        BY <1>1, <3>3
      <4>2. q[n + 2 * j].name \in list_items
        BY <1>3, <4>1
      <4>3. QED
        BY <2>1, <3>1, <4>2
    <3>4. QED
      BY <3>2, <3>3
  <2>3. g \in [0..m -> T]
    BY <2>2
  <2>4. \A a, b \in 0..m : g[a] = g[b] => a = b
    BY <1>1
  <2> HIDE DEF g
  <2>5. g \in Injection(0..m, T)
    BY <2>3, <2>4, Fun_IsInj
  <2>6. IsFiniteSet(1..Len(q)) /\ T \in SUBSET (1..Len(q))
    <3>1. IsFiniteSet(1..Len(q))
      BY <1>1, FS_Interval
    <3>2. T \subseteq 1..Len(q)
      BY <1>1, <2>1
    <3>3. QED
      BY <3>1, <3>2
  <2>7. IsFiniteSet(T) /\ Cardinality(T) \in Nat
    BY <2>6, FS_Subset, FS_CardinalityType
  <2>8. Cardinality(0..m) = m + 1
    BY <1>1, FS_Interval
  <2>9. Cardinality(0..m) <= Cardinality(T)
    BY <2>5, <2>7, FS_Injection
  <2>10. QED
    BY <1>1, <1>5, <2>7, <2>8, <2>9 DEF T
<1>6. QED
  BY <1>4, <1>5 DEF n, m

LEMMA EndListsBack ==
  ASSUME TypeOK, NEW base \in Paths, NEW q, OnList(q, base, Call.list)
  PROVE  EndLists(q) = base
<1> DEFINE list == Call.list
           n == Len(base)
           ends == Endings(q, Len(list))
           k == CHOOSE l \in ends : \A j \in ends : l <= j
<1>1. list \in Seq(Marks) /\ OnList(q, base, list)
  BY CallFacts
<1> HIDE DEF list
<1>2. n \in Nat \ {0} /\ Len(list) \in Nat /\ Len(q) = n + 2 * Len(list) /\ q \in Paths /\ Len(q) \in Nat
  BY <1>1, OnListTop DEF OnList
<1>3. ends = {l \in 0..Len(q) : /\ \A i \in (l + 1)..Len(q) : q[i].name \in list_tags \cup list_items
                                /\ Cardinality(Turns(q, l)) <= Len(list)}
  BY DEF Endings
<1>4. n \in ends
  <2>1. n \in 0..Len(q)
    BY <1>2
  <2>2. ASSUME NEW i \in (n + 1)..Len(q) PROVE q[i].name \in list_tags \cup list_items
    <3>1. i - n \in 1..(2 * Len(list)) /\ n + (i - n) = i /\ i - n \in Nat
      BY <1>2
    <3>2. q[i].name = NameAt(list, i - n)
      BY <1>1, <3>1 DEF OnList
    <3>3. QED
      BY <3>1, <3>2, NameAtFacts DEF ListNames
  <2>3. Cardinality(Turns(q, n)) <= Len(list)
    BY <1>1, TurnsOfList
  <2>4. QED
    BY <1>3, <2>1, <2>2, <2>3
<1>5. \A l \in ends : n <= l
  <2> SUFFICES ASSUME NEW l \in ends, l < n PROVE FALSE
    BY <1>2, <1>3
  <2>1. l \in 0..(n - 1)
    BY <1>2, <1>3
  <2>2. \E i \in (l + 1)..Len(q) : q[i].name \notin list_tags \cup list_items
    BY <1>1, <1>3, <2>1, TurnsOfList
  <2>3. QED
    BY <1>3, <2>2
<1>6. EndLists(q) = SubSeq(q, 1, k)
  BY DEF EndLists, ends, list
<1> HIDE DEF ends
<1>7. k = n
  <2>1. k \in ends /\ \A j \in ends : k <= j
    BY <1>4, <1>5
  <2>2. k <= n /\ n <= k /\ k \in Nat
    BY <1>3, <1>4, <1>5, <2>1
  <2> HIDE DEF k
  <2>3. QED
    BY <1>2, <2>2
<1> HIDE DEF k
<1>8. n \in 0..Len(q) /\ q \in Seq(Elements) /\ base \in Seq(Elements)
  BY <1>2 DEF Paths
<1>9. /\ SubSeq(q, 1, n) \in Seq(Elements) /\ Len(SubSeq(q, 1, n)) = n
      /\ \A i \in 1..n : SubSeq(q, 1, n)[i] = q[i]
  BY <1>8, FrontItems
<1>10. \A i \in 1..n : SubSeq(q, 1, n)[i] = base[i]
  BY <1>9 DEF OnList
<1> DEFINE s == SubSeq(q, 1, n)
<1> HIDE DEF s
<1>11. s = base
  <2>1. s \in Seq(Elements) /\ Len(s) = Len(base) /\ \A i \in 1..Len(s) : s[i] = base[i]
    BY <1>9, <1>10 DEF s
  <2>2. QED
    BY <1>8, <2>1, SeqEqual
<1>12. QED
  BY <1>6, <1>7, <1>11 DEF s

-----------------------------------------------------------------------------
(* A list that goes on *)

LEMMA SameIs ==
  ASSUME NEW list \in Seq(Marks), NEW marks \in Seq(Marks)
  PROVE  LET k == Same(list, marks) IN
         /\ k \in 0..Len(list) /\ k <= Len(marks) /\ \A i \in 1..k : list[i] = marks[i]
         /\ list # <<>> /\ marks # <<>> /\ list[1] = marks[1] => k >= 1
<1> DEFINE equal == {k \in 0..Len(list) : k <= Len(marks) /\ \A i \in 1..k : list[i] = marks[i]}
           same == Same(list, marks)
<1>1. Len(list) \in Nat /\ Len(marks) \in Nat
  OBVIOUS
<1>2. 0 \in equal /\ equal \subseteq 0..Len(list)
  BY <1>1
<1>3. \E k \in equal : \A j \in equal : j <= k
  BY <1>1, <1>2, GreatestNumber
<1>4. same \in equal /\ \A j \in equal : j <= same
  BY <1>3 DEF Same
<1>5. ASSUME list # <<>>, marks # <<>>, list[1] = marks[1] PROVE 1 \in equal
  BY <1>1, <1>5, EmptySeq
<1> HIDE DEF same
<1>6. QED
  BY <1>4, <1>5 DEF same

(* The last element of a list is exchanged for another of its name. *)
LEMMA OnListLast ==
  ASSUME NEW base \in Paths, NEW list \in Seq(Marks), list # <<>>, NEW q, OnList(q, base, list),
         NEW r \in Seq(Elements), Len(r) = Len(q), \A i \in 1..(Len(q) - 1) : r[i] = q[i],
         r[Len(q)].name = q[Len(q)].name
  PROVE  OnList(r, base, list)
<1> DEFINE n == Len(base)
           m == 2 * Len(list)
<1>1. n \in Nat \ {0} /\ m \in Nat /\ m >= 2 /\ Len(q) = n + m
  <2>1. n \in Nat \ {0} /\ Len(list) \in Nat \ {0}
    BY OnListTop
  <2>2. Len(q) = n + m
    BY DEF OnList
  <2>3. QED
    BY <2>1, <2>2
<1>2. /\ \A i \in 1..n : q[i] = base[i]
      /\ \A i \in 1..m : q[n + i].name = NameAt(list, i)
  BY DEF OnList
<1> HIDE DEF n, m
<1>3. \A i \in 1..n : r[i] = base[i]
  BY <1>1, <1>2
<1>4. ASSUME NEW i \in 1..m PROVE r[n + i].name = NameAt(list, i)
  <2>1. CASE i = m
    BY <1>1, <1>2, <2>1
  <2>2. CASE i # m
    <3>1. n + i \in 1..(Len(q) - 1)
      BY <1>1, <2>2
    <3>2. QED
      BY <1>2, <3>1
  <2>3. QED
    BY <2>1, <2>2
<1>5. QED
  BY <1>1, <1>3, <1>4 DEF OnList, n, m

LEMMA AnotherIs ==
  ASSUME NEW q \in Paths, Len(q) >= 2, NEW name \in ElementNames, NEW type \in Types
  PROVE  LET r == becomeChild(becomeParent(q), name, type) IN
         /\ r \in Seq(Elements) /\ Len(r) = Len(q) /\ r[Len(q)].name = name
         /\ \A i \in 1..(Len(q) - 1) : r[i] = q[i]
<1> DEFINE k == Len(q) - 1
           f == SubSeq(q, 1, k)
<1>1. q \in Seq(Elements) /\ q # <<>> /\ k \in 0..Len(q) /\ k \in Nat \ {0} /\ Len(q) = k + 1
  <2>1. q \in Seq(Elements) /\ q # <<>>
    BY DEF Paths
  <2>2. Len(q) \in Nat /\ Len(q) >= 2
    BY <2>1
  <2>3. k \in 0..Len(q) /\ k \in Nat \ {0} /\ Len(q) = k + 1
    BY <2>2, OneLess
  <2>4. QED
    BY <2>1, <2>3
<1>2. becomeParent(q) = f
  BY <1>1 DEF becomeParent
<1> HIDE DEF k
<1>3. f \in Seq(Elements) /\ Len(f) = k /\ \A i \in 1..k : f[i] = q[i]
  BY <1>1, FrontItems
<1> HIDE DEF f
<1>4. f \in Paths
  BY <1>1, <1>3, EmptySeq DEF Paths
<1>5. /\ becomeChild(f, name, type) \in Paths /\ Len(becomeChild(f, name, type)) = k + 1
      /\ becomeChild(f, name, type)[k + 1] = Element(name, type)
      /\ \A i \in 1..k : becomeChild(f, name, type)[i] = f[i]
  BY <1>3, <1>4, ChildIs
<1>6. Element(name, type).name = name
  BY DEF Element
<1>7. QED
  BY <1>1, <1>2, <1>3, <1>5, <1>6 DEF k, Paths

LEMMA OnListAgain ==
  ASSUME NEW base \in Paths, NEW list \in Seq(Marks), NEW q, OnList(q, base, list),
         list = <<>> => ~At(base, list_items)
  PROVE  OnList(Again(q), base, list)
<1>1. CASE list = <<>>
  <2>1. q = base
    BY <1>1, OnNoList DEF Paths
  <2>2. QED
    BY <1>1, <2>1 DEF Again
<1>2. CASE list # <<>>
  <2>1. q \in Paths /\ Top(q).name \in list_items /\ Len(q) >= 2
    BY <1>2, OnListTop
  <2>2. At(q, list_items) /\ Top(q).name = q[Len(q)].name
    BY <2>1 DEF At, Paths, Top
  <2> DEFINE r == becomeChild(becomeParent(q), Top(q).name, "none")
  <2>3. Again(q) = r
    BY <2>2 DEF Again
  <2>4. /\ r \in Seq(Elements) /\ Len(r) = Len(q) /\ r[Len(q)].name = Top(q).name
        /\ \A i \in 1..(Len(q) - 1) : r[i] = q[i]
    BY <2>1, TypeNames, AnotherIs
  <2> HIDE DEF r
  <2>5. OnList(r, base, list)
    BY <1>2, <2>2, <2>4, OnListLast
  <2>6. QED
    BY <2>3, <2>5
<1>3. QED
  BY <1>1, <1>2

LEMMA OnListTagtype ==
  ASSUME NEW base \in Paths, NEW list \in Seq(Marks), list # <<>>, NEW q, OnList(q, base, list), NEW type \in Types
  PROVE  OnList(setTagtype(q, type), base, list)
<1> DEFINE n == Len(q)
           e == [q[n] EXCEPT !.type = type]
           r == [q EXCEPT ![n] = e]
<1>1. q \in Seq(Elements) /\ q # <<>> /\ n \in 1..Len(q) /\ q[n] \in Elements /\ n \in Nat
  BY OnListTop, NotEmpty DEF Paths
<1>2. e \in Elements /\ e.name = q[n].name
  BY <1>1 DEF Elements
<1>3. setTagtype(q, type) = r
  BY <1>1 DEF setTagtype
<1> HIDE DEF e, n
<1>4. r \in Seq(Elements) /\ Len(r) = Len(q) /\ r[n] = e /\ \A i \in 1..Len(q) : i # n => r[i] = q[i]
  BY <1>1, <1>2
<1> HIDE DEF r
<1>5. \A i \in 1..(Len(q) - 1) : r[i] = q[i]
  BY <1>1, <1>4 DEF n
<1>6. OnList(r, base, list)
  BY <1>2, <1>4, <1>5, OnListLast DEF n
<1>7. QED
  BY <1>3, <1>6

(* The elements of the first marks, and those of the marks that follow. *)
LEMMA OnListFront ==
  ASSUME NEW base \in Paths, NEW list \in Seq(Marks), NEW q, OnList(q, base, list),
         NEW marks \in Seq(Marks), NEW k \in 0..Len(list), k <= Len(marks), \A i \in 1..k : list[i] = marks[i]
  PROVE  OnList(Drop(q, 2 * (Len(list) - k)), base, SubSeq(marks, 1, k))
<1> DEFINE n == Len(base)
           l == n + 2 * k
           front == SubSeq(marks, 1, k)
           h == SubSeq(q, 1, l)
<1>1. n \in Nat \ {0} /\ Len(list) \in Nat /\ q \in Seq(Elements) /\ Len(q) = n + 2 * Len(list) /\ Len(marks) \in Nat
  BY OnListTop DEF OnList
<1>2. Drop(q, 2 * (Len(list) - k)) = h
  BY <1>1 DEF Drop
<1>3. /\ \A i \in 1..n : q[i] = base[i]
      /\ \A i \in 1..(2 * Len(list)) : q[n + i].name = NameAt(list, i)
  BY DEF OnList
<1>4. Len(front) = k /\ \A i \in 1..k : front[i] = list[i]
  <2>1. k \in 0..Len(marks)
    BY <1>1
  <2>2. QED
    BY <2>1, FrontItems
<1> HIDE DEF n, front
<1>5. l \in 0..Len(q) /\ l \in Nat
  BY <1>1
<1>6. h \in Seq(Elements) /\ Len(h) = l /\ \A i \in 1..l : h[i] = q[i]
  BY <1>1, <1>5, FrontItems
<1> HIDE DEF h
<1>7. \A i \in 1..n : h[i] = base[i]
  BY <1>1, <1>3, <1>6
<1>8. ASSUME NEW i \in 1..(2 * k) PROVE h[n + i].name = NameAt(front, i)
  <2>1. n + i \in 1..l /\ i \in 1..(2 * Len(list)) /\ (i + 1) \div 2 \in 1..k
    BY <1>1
  <2>2. h[n + i].name = NameAt(list, i)
    BY <1>3, <1>6, <2>1
  <2>3. QED
    BY <1>4, <2>1, <2>2 DEF NameAt
<1>9. OnList(h, base, front)
  BY <1>4, <1>6, <1>7, <1>8 DEF OnList, n
<1>10. QED
  BY <1>2, <1>9 DEF front

LEMMA OnListMore ==
  ASSUME NEW base \in Paths, NEW marks \in Seq(Marks), NEW k \in 0..Len(marks),
         NEW q, OnList(q, base, SubSeq(marks, 1, k))
  PROVE  OnList(Nested(q, SubSeq(marks, k + 1, Len(marks))), base, marks)
<1> DEFINE n == Len(base)
           front == SubSeq(marks, 1, k)
           rest == SubSeq(marks, k + 1, Len(marks))
           m == 2 * Len(rest)
           e(i) == LET mark == rest[(i + 1) \div 2]
                   IN Element(IF i % 2 = 1 THEN ListOf(mark) ELSE ItemOf(mark), "none")
           s == [i \in 1..m |-> e(i)]
<1>1. Len(marks) \in Nat /\ k \in Nat
  OBVIOUS
<1>2. /\ front \in Seq(Marks) /\ Len(front) = k /\ \A i \in 1..k : front[i] = marks[i]
  BY FrontItems
<1>3. /\ rest \in Seq(Marks) /\ Len(rest) = Len(marks) - k
      /\ \A i \in 1..(Len(marks) - k) : rest[i] = marks[k + i]
  BY <1>1
<1> HIDE DEF front
<1>4. q \in Paths /\ n \in Nat \ {0} /\ Len(q) = n + 2 * k
  BY <1>2, OnListTop DEF OnList, front
<1>5. /\ \A i \in 1..n : q[i] = base[i]
      /\ \A i \in 1..(2 * k) : q[n + i].name = NameAt(front, i)
  BY <1>2 DEF OnList, front
<1> HIDE DEF n, rest
<1>6. m \in Nat /\ m = 2 * (Len(marks) - k)
  BY <1>1, <1>3
<1>7. ASSUME NEW i \in 1..m PROVE e(i) \in Elements /\ e(i).name = NameAt(marks, 2 * k + i)
  <2>1. (i + 1) \div 2 \in 1..(Len(marks) - k) /\ (2 * k + i) % 2 = i % 2 /\ ((2 * k + i) + 1) \div 2 = k + ((i + 1) \div 2)
    BY <1>1, <1>6
  <2>2. rest[(i + 1) \div 2] = marks[((2 * k + i) + 1) \div 2]
    <3> DEFINE j == (i + 1) \div 2
               l == ((2 * k + i) + 1) \div 2
    <3>1. j \in 1..(Len(marks) - k) /\ l = k + j
      BY <2>1
    <3> HIDE DEF j, l
    <3>2. rest[j] = marks[l]
      BY <1>3, <3>1
    <3>3. QED
      BY <3>2 DEF j, l
  <2>3. \A mark : ListOf(mark) \in ElementNames /\ ItemOf(mark) \in ElementNames
    BY ListNameFacts, TypeNames
  <2>4. QED
    BY <2>1, <2>2, <2>3, TypeNames DEF NameAt, Element, Elements
<1> HIDE DEF m, e
<1>8. s \in Seq(Elements) /\ Len(s) = m /\ \A i \in 1..m : s[i] = e(i)
  BY <1>6, <1>7
<1>9. Nested(q, rest) = q \o s
  BY <1>4 DEF Nested, s, e, m, Paths
<1> HIDE DEF s
<1> DEFINE r == q \o s
<1>10. /\ r \in Seq(Elements) /\ Len(r) = Len(q) + m
       /\ \A i \in 1..Len(r) : r[i] = IF i <= Len(q) THEN q[i] ELSE s[i - Len(q)]
  <2>1. q \in Seq(Elements)
    BY <1>4 DEF Paths
  <2>2. QED
    BY <1>6, <1>8, <2>1
<1> HIDE DEF r
<1>11. Len(r) = n + 2 * Len(marks)
  BY <1>1, <1>4, <1>6, <1>10
<1>12. \A i \in 1..n : r[i] = base[i]
  BY <1>1, <1>4, <1>5, <1>6, <1>10
<1>13. ASSUME NEW i \in 1..(2 * Len(marks)) PROVE r[n + i].name = NameAt(marks, i)
  <2>1. n + i \in 1..Len(r) /\ i \in Nat
    BY <1>1, <1>4, <1>11
  <2>2. CASE i <= 2 * k
    <3>1. r[n + i] = q[n + i] /\ i \in 1..(2 * k) /\ (i + 1) \div 2 \in 1..k
      BY <1>1, <1>4, <1>10, <2>1, <2>2
    <3>2. QED
      BY <1>2, <1>5, <3>1 DEF NameAt
  <2>3. CASE i > 2 * k
    <3> DEFINE d == i - 2 * k
    <3>1. d \in 1..m /\ 2 * k + d = i /\ r[n + i] = s[d]
      <4>1. d \in 1..m /\ 2 * k + d = i /\ (n + i) - Len(q) = d /\ ~(n + i <= Len(q))
        BY <1>1, <1>4, <1>6, <2>1, <2>3
      <4> HIDE DEF d
      <4>2. QED
        BY <1>10, <2>1, <4>1
    <3> HIDE DEF d
    <3>2. QED
      BY <1>7, <1>8, <3>1
  <2>4. QED
    BY <1>1, <2>1, <2>2, <2>3
<1>14. QED
  BY <1>9, <1>10, <1>11, <1>12, <1>13 DEF OnList, r, n, rest

(* A line of a list goes on with the list before it, or opens one of its own. *)
LEMMA ListGoesOn ==
  ASSUME NEW base \in Paths, NEW list \in Seq(Marks), NEW marks \in Seq(Marks), marks # <<>>,
         NEW q, OnList(q, base, list), list = <<>> \/ marks[1] = list[1] \/ ~At(base, list_items)
  PROVE  OnList(setTagtype(ListPath(q, list, marks), "wiki"), base, marks)
<1> DEFINE same == Same(list, marks)
<1>1. /\ same \in 0..Len(list) /\ same <= Len(marks) /\ \A i \in 1..same : list[i] = marks[i]
      /\ list # <<>> /\ list[1] = marks[1] => same >= 1
  BY SameIs
<1>2. Len(list) \in Nat /\ Len(marks) \in Nat \ {0} /\ q \in Paths
  BY EmptySeq, OnListTop
<1> HIDE DEF same
<1>3. CASE same = Len(list) /\ same = Len(marks)
  <2>1. list = marks
    BY <1>1, <1>2, <1>3, SeqEqual
  <2>2. Top(q).name \in list_items /\ Len(q) >= 2 /\ Top(q) = q[Len(q)]
    BY <1>2, <2>1, OnListTop DEF Top
  <2>3. At(q, list_items)
    BY <1>2, <2>2 DEF At, Paths
  <2> DEFINE r == becomeChild(becomeParent(q), ItemOf(marks[same]), "none")
  <2>4. ListPath(q, list, marks) = r
    BY <1>3, <2>3 DEF ListPath, same
  <2>5. /\ r \in Seq(Elements) /\ Len(r) = Len(q) /\ r[Len(q)].name = ItemOf(marks[same])
        /\ \A i \in 1..(Len(q) - 1) : r[i] = q[i]
    BY <1>2, <2>2, ListNameFacts, TypeNames, AnotherIs
  <2> HIDE DEF r
  <2>6. q[Len(q)].name = ItemOf(marks[same])
    <3> DEFINE i == 2 * same
    <3>1. i \in 1..(2 * Len(list)) /\ i % 2 = 0 /\ (i + 1) \div 2 = same /\ Len(q) = Len(base) + i
      BY <1>2, <1>3 DEF OnList
    <3> HIDE DEF i
    <3>2. q[Len(base) + i].name = NameAt(list, i)
      BY <3>1 DEF OnList
    <3>3. QED
      BY <2>1, <3>1, <3>2 DEF NameAt
  <2>7. OnList(r, base, marks)
    BY <2>1, <2>5, <2>6, OnListLast
  <2>8. QED
    BY <2>4, <2>7, OnListTagtype, TypeNames
<1>4. CASE ~(same = Len(list) /\ same = Len(marks))
  <2> DEFINE higher == Drop(q, 2 * (Len(list) - same))
             front == SubSeq(marks, 1, same)
             h == IF same < Len(list) THEN Again(higher) ELSE higher
             rest == SubSeq(marks, same + 1, Len(marks))
  <2>1. OnList(higher, base, front)
    BY <1>1, OnListFront
  <2>2. front \in Seq(Marks) /\ Len(front) = same
    BY <1>1, <1>2, FrontItems
  <2> HIDE DEF higher, front
  <2>3. OnList(h, base, front)
    <3>1. ASSUME same < Len(list) PROVE OnList(Again(higher), base, front)
      <4>1. ASSUME front = <<>> PROVE ~At(base, list_items)
        <5>1. same = 0 /\ list # <<>>
          BY <1>2, <2>2, <3>1, <4>1
        <5>2. QED
          BY <1>1, <5>1
      <4>2. QED
        BY <2>1, <2>2, <4>1, OnListAgain
    <3>2. QED
      BY <2>1, <3>1
  <2>4. ListPath(q, list, marks) = Nested(h, rest)
    BY <1>4 DEF ListPath, same, higher
  <2> HIDE DEF h
  <2>5. OnList(Nested(h, rest), base, marks)
    BY <1>1, <1>2, <2>3, OnListMore DEF front
  <2>6. QED
    BY <2>4, <2>5, OnListTagtype, TypeNames
<1>5. QED
  BY <1>3, <1>4

-----------------------------------------------------------------------------
(* What opens no element of a list *)

LEMMA ListlessFront ==
  ASSUME NEW p, Listless(p), NEW k \in 0..Len(p)
  PROVE  Listless(SubSeq(p, 1, k))
<1> DEFINE f == SubSeq(p, 1, k)
<1>1. p \in Seq(Elements) /\ Len(p) \in Nat /\ \A i \in 1..Len(p) : p[i].name \notin ListNames
  BY DEF Listless
<1>2. f \in Seq(Elements) /\ Len(f) = k /\ \A i \in 1..k : f[i] = p[i]
  BY <1>1, FrontItems
<1> HIDE DEF f
<1>3. Listless(f)
  BY <1>1, <1>2 DEF Listless
<1>4. QED
  BY <1>3 DEF f

LEMMA ListlessNothing == Listless(<<>>)
BY DEF Listless

LEMMA ListlessParent ==
  ASSUME NEW p, Listless(p)
  PROVE  Listless(becomeParent(p))
<1>1. CASE p = <<>>
  BY <1>1 DEF becomeParent
<1>2. CASE p # <<>>
  <2>1. Len(p) - 1 \in 0..Len(p)
    <3>1. p \in Seq(Elements)
      BY DEF Listless
    <3>2. Len(p) \in Nat \ {0}
      BY <1>2, <3>1, NotEmpty
    <3>3. QED
      BY <3>2
  <2>2. QED
    BY <1>2, <2>1, ListlessFront DEF becomeParent
<1>3. QED
  BY <1>1, <1>2

LEMMA ListlessClimb ==
  ASSUME NEW p, Listless(p), NEW positions \in SUBSET (1..Len(p))
  PROVE  Listless(ClimbTo(p, positions))
<1>1. p \in Seq(Elements) /\ Len(p) \in Nat
  BY DEF Listless
<1>2. CASE positions = {}
  BY <1>1, <1>2, ListlessFront DEF ClimbTo
<1>3. CASE positions # {}
  <2>1. PICK k \in positions : ClimbTo(p, positions) = SubSeq(p, 1, k)
    BY <1>1, <1>3, ClimbIsFront, Zenon
  <2>2. k \in 0..Len(p)
    BY <1>1
  <2>3. QED
    BY <2>1, <2>2, ListlessFront
<1>4. QED
  BY <1>2, <1>3

LEMMA ListlessChild ==
  ASSUME NEW p, Listless(p), NEW name \in {"p", "pre", "table", "caption", "tr", "td", "th"}, NEW type \in Types
  PROVE  Listless(becomeChild(p, name, type))
<1>1. CASE p = <<>>
  BY <1>1 DEF becomeChild
<1>2. CASE p # <<>>
  <2> DEFINE c == Child(p, name, type)
  <2>1. p \in Paths /\ name \in ElementNames /\ name \notin ListNames
    BY <1>2, PartNames, ListNameFacts DEF Listless, Paths, ElementNames, pairs
  <2>2. /\ c \in Paths /\ Len(c) = Len(p) + 1 /\ c[Len(p) + 1] = Element(name, type)
        /\ Len(p) \in Nat /\ \A i \in 1..Len(p) : c[i] = p[i]
    BY <2>1, ChildIs
  <2>3. becomeChild(p, name, type) = c
    BY <1>2 DEF becomeChild, Child
  <2> HIDE DEF c
  <2>4. c[Len(p) + 1].name \notin ListNames
    BY <2>1, <2>2 DEF Element
  <2>5. QED
    BY <2>2, <2>3, <2>4 DEF Listless, Paths
<1>3. QED
  BY <1>1, <1>2

LEMMA ListlessSimple ==
  ASSUME NEW p, Listless(p)
  PROVE  Listless(simple_parse(p))
BY ListlessChild, TypeNames DEF simple_parse

LEMMA ListlessRow ==
  ASSUME NEW p, Listless(p), NEW type \in Types
  PROVE  /\ Listless(endCell(p, type)) /\ Listless(AssertTable(endRow(p, type), type))
         /\ Listless(startRow(p, type))
<1> DEFINE inner == IF inStack(p, "table") /\ ~At(p, {"table"})
                    THEN ClimbTo(p, Cells(p, type)) ELSE p
<1>1. Listless(inner)
  BY NamedPositions, ListlessClimb
<1>2. endCell(p, type) \in {inner, becomeParent(inner)}
  BY DEF endCell
<1> HIDE DEF inner
<1>3. Listless(endCell(p, type))
  BY <1>1, <1>2, ListlessParent
<1>4. endRow(p, type) \in {endCell(p, type), becomeParent(endCell(p, type))}
  BY DEF endRow
<1>5. Listless(endRow(p, type))
  BY <1>3, <1>4, ListlessParent
<1>6. Listless(AssertTable(endRow(p, type), type))
  BY <1>5, ListlessNothing DEF AssertTable
<1>7. QED
  BY <1>3, <1>6, ListlessChild DEF startRow

LEMMA ListlessParts ==
  ASSUME NEW p, Listless(p), NEW type \in Types
  PROVE  /\ Listless(startTable(p, type)) /\ Listless(endTable(p, type)) /\ Listless(startCaption(p, type))
         /\ Listless(startRow(p, type)) /\ Listless(startCell(p, type)) /\ Listless(startHeader(p, type))
<1>1. Listless(startTable(p, type))
  BY ListlessChild DEF startTable
<1>2. Listless(endTable(p, type)) /\ Listless(startCaption(p, type)) /\ Listless(startRow(p, type))
  BY ListlessRow, ListlessParent, ListlessChild DEF endTable, startCaption
<1>3. Listless(InRow(p, type))
  <2>1. InRow(p, type) \in {endCell(p, type), startRow(endCell(p, type), type)}
    BY DEF InRow
  <2>2. QED
    BY <2>1, ListlessRow
<1>4. Listless(startCell(p, type)) /\ Listless(startHeader(p, type))
  BY <1>3, ListlessChild DEF startCell, startHeader
<1>5. QED
  BY <1>1, <1>2, <1>4

LEMMA ListlessHeader ==
  ASSUME NEW p, Listless(p)
  PROVE  Listless(HeaderPath(p))
<1>1. p \in Seq(Elements)
  BY DEF Listless
<1>2. PICK k \in 0..Len(p) : HeaderPath(p) = SubSeq(p, 1, k)
  BY <1>1, HeaderPathCloses, Zenon
<1>3. QED
  BY <1>2, ListlessFront

-----------------------------------------------------------------------------
(* The modes of the page while nothing is indented: those of tables, and of the line of one. *)

PageModes(list) ==
  {m \in Seq({"wikitable", "wikitableline"}) :
     \A i \in 1..Len(m) : m[i] = "wikitableline" => i = Len(m) /\ list = <<>>}
OfTables == Seq({"wikitable"})

LEMMA ModesOfPage ==
  ASSUME NEW list
  PROVE  /\ PageModes(list) \in SUBSET Plain /\ OfTables \subseteq PageModes(list)
         /\ PageModes(list) \subseteq PageModes(<<>>)
         /\ \A m \in PageModes(list) : /\ ~Is(m, "nobb") /\ ~Is(m, "wikiindent") /\ ~InList(m)
                                       /\ Is(m, "wikitableline") => list = <<>>
<1>1. ASSUME NEW m \in PageModes(list)
      PROVE  /\ m \in Plain /\ ~Is(m, "nobb") /\ ~Is(m, "wikiindent") /\ ~InList(m) /\ m \in PageModes(<<>>)
             /\ Is(m, "wikitableline") => list = <<>>
  <2>1. m \in Seq({"wikitable", "wikitableline"}) /\ \A i \in 1..Len(m) : m[i] \in {"wikitable", "wikitableline"}
    BY DEF PageModes
  <2>2. m \in Seq(Modes)
    <3>1. {"wikitable", "wikitableline"} \subseteq Modes
      BY DEF Modes
    <3>2. QED
      BY <2>1, <3>1
  <2>3. /\ ~Is(m, "nobb") /\ ~Is(m, "wikiindent") /\ ~Is(m, "css")
        /\ ~Is(m, "htmlul") /\ ~Is(m, "htmlol") /\ ~Is(m, "bblist") /\ ~Is(m, "wikilist")
    BY <2>1 DEF Is
  <2>4. Wikicode(m)
    <3>1. CASE m = <<>>
      BY <3>1 DEF Wikicode, Current, Raw
    <3>2. CASE m # <<>>
      <4>1. Len(m) \in 1..Len(m)
        BY <2>2, <3>2, EmptySeq
      <4>2. Current(m) \in {"wikitable", "wikitableline"}
        BY <2>1, <3>2, <4>1 DEF Current
      <4>3. QED
        BY <4>2 DEF Wikicode, Raw
    <3>3. QED
      BY <3>1, <3>2
  <2>5. Is(m, "wikitableline") => list = <<>>
    BY DEF Is, PageModes
  <2>6. m \in PageModes(<<>>)
    BY DEF PageModes
  <2>7. QED
    BY <2>2, <2>3, <2>4, <2>5, <2>6 DEF Plain, InList
<1>2. ASSUME NEW m \in OfTables PROVE m \in PageModes(list)
  <2>1. m \in Seq({"wikitable", "wikitableline"}) /\ \A i \in 1..Len(m) : m[i] = "wikitable"
    BY DEF OfTables
  <2>2. QED
    BY <2>1 DEF PageModes
<1>3. QED
  BY <1>1, <1>2

(* What lines do to them. *)
LEMMA PageLineModes ==
  ASSUME NEW list, mode \in PageModes(list)
  PROVE  /\ Closed(mode, "wikitableline") \in OfTables /\ LineModes = Closed(mode, "wikitableline")
         /\ ~Is(Closed(mode, "wikitableline"), "wikiindent") /\ ~InList(Closed(mode, "wikitableline"))
<1> DEFINE m == Closed(mode, "wikitableline")
<1>1. mode \in Seq(Modes) /\ mode \in Seq({"wikitable", "wikitableline"})
  BY ModesOfPage DEF Plain, PageModes
<1>2. m \in OfTables
  <2>1. CASE "wikitableline" = Current(mode)
    <3>1. mode # <<>>
      BY <2>1 DEF Current
    <3> DEFINE k == Len(mode) - 1
               n == SubSeq(mode, 1, k)
    <3>2. m = n
      BY <2>1 DEF Closed, After, Closes
    <3>3. k \in 0..Len(mode) /\ k = Len(mode) - 1 /\ Len(mode) \in Nat
      BY <1>1, <3>1, EmptySeq
    <3> HIDE DEF k
    <3>4. n \in Seq(Modes) /\ Len(n) = k /\ \A i \in 1..k : n[i] = mode[i]
      BY <1>1, <3>3, FrontItems
    <3> HIDE DEF n
    <3>5. \A i \in 1..k : n[i] = "wikitable"
      <4> SUFFICES ASSUME NEW i \in 1..k PROVE n[i] = "wikitable"
        OBVIOUS
      <4>1. i \in 1..Len(mode) /\ i # Len(mode)
        BY <3>3
      <4>2. mode[i] \in {"wikitable", "wikitableline"} /\ (mode[i] = "wikitableline" => i = Len(mode))
        BY <1>1, <4>1 DEF PageModes
      <4>3. QED
        BY <3>4, <4>1, <4>2
    <3>6. QED
      BY <3>2, <3>4, <3>5 DEF OfTables
  <2>2. CASE "wikitableline" # Current(mode)
    <3>1. m = mode
      BY <2>2 DEF Closed, After, Closes
    <3>2. \A i \in 1..Len(mode) : mode[i] = "wikitable"
      <4> SUFFICES ASSUME NEW i \in 1..Len(mode), mode[i] # "wikitable" PROVE FALSE
        OBVIOUS
      <4>1. mode[i] = "wikitableline" /\ i = Len(mode) /\ mode # <<>>
        BY <1>1, EmptySeq DEF PageModes
      <4>2. QED
        BY <2>2, <4>1 DEF Current
    <3>3. QED
      BY <1>1, <3>1, <3>2 DEF OfTables
  <2>3. QED
    BY <2>1, <2>2
<1> HIDE DEF m
<1>3. ~Is(m, "wikiindent") /\ ~InList(m)
  BY <1>2, ModesOfPage
<1>4. LineModes = m
  BY <1>3 DEF LineModes, m
<1>5. QED
  BY <1>2, <1>3, <1>4 DEF m

LEMMA TableModesGo ==
  ASSUME NEW m \in OfTables
  PROVE  /\ Append(m, "wikitable") \in OfTables /\ Closed(m, "wikitable") \in OfTables
         /\ Append(m, "wikitableline") \in PageModes(<<>>)
         /\ Closed(Append(m, "wikitableline"), "wikitable") = Append(m, "wikitableline")
<1>1. m \in Seq(Modes) /\ Len(m) \in Nat
  BY ModesOfPage DEF Plain, OfTables
<1>2. Append(m, "wikitable") \in OfTables
  BY DEF OfTables
<1>3. Closed(m, "wikitable") \in OfTables
  <2>1. CASE m = <<>>
    <3>1. Current(m) = "normal"
      BY <2>1 DEF Current
    <3>2. QED
      BY <3>1 DEF Closed, After, Closes
  <2>2. CASE m # <<>>
    <3>1. Len(m) - 1 \in 0..Len(m)
      BY <1>1, <2>2, EmptySeq
    <3>2. SubSeq(m, 1, Len(m) - 1) \in OfTables
      BY <3>1, FrontItems DEF OfTables
    <3>3. QED
      BY <3>2 DEF Closed, After, Closes
  <2>3. QED
    BY <2>1, <2>2
<1> DEFINE n == Append(m, "wikitableline")
<1>4. /\ n \in Seq({"wikitable", "wikitableline"}) /\ Len(n) = Len(m) + 1 /\ \A i \in 1..Len(m) : n[i] = "wikitable"
  <2>1. m \in Seq({"wikitable", "wikitableline"}) /\ \A i \in 1..Len(m) : m[i] = "wikitable"
    BY DEF OfTables
  <2>2. QED
    BY <2>1
<1>5. Current(n) = "wikitableline"
  BY <1>1, AppendedMode DEF Modes
<1> HIDE DEF n
<1>6. n \in PageModes(<<>>)
  BY <1>1, <1>4 DEF PageModes
<1>7. Closed(n, "wikitable") = n
  BY <1>5 DEF Closed, After, Closes
<1>8. QED
  BY <1>2, <1>3, <1>6, <1>7 DEF n

-----------------------------------------------------------------------------
(* Where the cursor is: within tags that were met on the list of the call, around which is the base. *)

PlacedAt(base, F, list, st, m, p) ==
  /\ Moded(F, st, m) /\ ~Is(m, "nobb")
  /\ \E q \in Seq(Elements) : OnList(q, base, list) /\ Traced(q, st, p)

LEMMA PlacedHere ==
  ASSUME NEW base, NEW F \in SUBSET Plain, NEW list, NEW st, Len(st) = 1,
         NEW m \in F, ~Is(m, "nobb"), NEW p \in Paths, NEW q, OnList(q, base, list), p \in Stays(q)
  PROVE  PlacedAt(base, F, list, st, m, p)
<1>1. Moded(F, st, m)
  <2>1. F \subseteq Seq(Modes)
    BY DEF Plain
  <2>2. QED
    BY <2>1, ChainOne DEF Moded
<1>2. q \in Seq(Elements) /\ Traced(q, st, p)
  BY TracedOne DEF OnList
<1>3. QED
  BY <1>1, <1>2 DEF PlacedAt

LEMMA PlacedThere ==
  ASSUME NEW base, NEW F \in SUBSET Plain, NEW list, NEW st, OpenStack(st), Len(st) = 1,
         NEW m, NEW p, PlacedAt(base, F, list, st, m, p)
  PROVE  m \in F /\ m \in Plain /\ p \in Paths /\ \E q \in Seq(Elements) : OnList(q, base, list) /\ p \in Stays(q)
<1>1. st # <<>>
  BY EmptySeq
<1>2. m \in F /\ m \in Plain
  BY <1>1, ModeNow DEF PlacedAt
<1>3. PICK q \in Seq(Elements) : OnList(q, base, list) /\ Traced(q, st, p)
  BY DEF PlacedAt
<1>4. p \in Stays(q) /\ p \in Paths
  BY <1>3, TracedOne
<1>5. QED
  BY <1>2, <1>3, <1>4

Indent == [item |-> "line", first |-> "indent"]
IndentMet(t, a) == \E i \in 1..(a - 1) : t[i] = Indent
Indented == IndentMet(text[Call.page], Call.at)

(* On the page itself, while nothing of it is indented and no page is embedded in it. *)
OnPage == Stack # <<>> /\ Alone /\ ~Embedded /\ ~Indented
PagePlaced(list, st, m, p) ==
  \E base \in Paths : Listless(base) /\ PlacedAt(base, PageModes(list), list, st, m, p)
PageInv == OnPage /\ path # <<>> => PagePlaced(Call.list, Stack, mode, path)

(* In a page that is embedded where it leaves no trace: the list is that of a line before. *)
Friendly(call) ==
  /\ ~Is(call.modes, "wikitableline") /\ ~Is(call.modes, "wikiindent")
  /\ ~Is(call.modes, "nobb") /\ ~InList(call.modes)
  /\ ~(Is(call.modes, "wikitable") /\ At(call.from, {"table"}))
InEmbedded == Stack # <<>> /\ Embedded /\ Contained(text[Call.page]) /\ Friendly(Call)
EmbedPlaced(from, modes, list, st, m, p) ==
  \E base \in Wider(from) : PlacedAt(base, {modes}, list, st, m, p)
ListedAt(t, a, list) ==
  list # <<>> => \E i \in 1..(a - 1) : /\ t[i].item = "list" /\ t[i].marks = list
                                       /\ \A j \in i..(a - 1) : t[j].item # "line"
EmbeddedInv ==
  InEmbedded /\ path # <<>> =>
    /\ Call.from \in Paths /\ Call.modes \in Plain
    /\ EmbedPlaced(Call.from, Call.modes, Call.list, Stack, mode, path)
    /\ ListedAt(text[Call.page], Call.at, Call.list)
ListInv == PageInv /\ EmbeddedInv

LEMMA ReadThen ==
  ASSUME TypeOK, Reading, UNCHANGED text, NEW f, f.page = Call.page, f.at = Call.at + 1,
         frames' = [frames EXCEPT ![Len(frames)] = f]
  PROVE  /\ Call' = f /\ Stack' = Meet(Stack, Item) /\ (Stack' # <<>> => Stack # <<>>)
         /\ Alone' <=> (Alone /\ Item.item # "embed")
         /\ Embedded' <=> Embedded
         /\ Indented' <=> (Indented \/ Item = Indent)
         /\ text[Call.page]' = text[Call.page]
<1>1. /\ Call' = f /\ Stack' = Meet(Stack, Item)
      /\ Alone' <=> (Alone /\ Item.item # "embed")
  BY StackThen
<1>2. Stack' # <<>> => Stack # <<>>
  BY <1>1 DEF Meet
<1>3. Len(frames') = Len(frames)
  BY DEF TypeOK
<1>4. Embedded' <=> Embedded
  BY <1>3 DEF Embedded
<1>5. text[Call.page]' = text[Call.page]
  BY <1>1
<1> DEFINE t == text[Call.page]
           a == Call.at
<1>6. Item = t[a] /\ a \in Nat \ {0}
  BY CallFacts DEF Item
<1>7. Indented' <=> IndentMet(t, a + 1)
  BY <1>1 DEF Indented
<1> HIDE DEF t, a
<1>8. IndentMet(t, a + 1) <=> (IndentMet(t, a) \/ t[a] = Indent)
  BY <1>6 DEF IndentMet
<1>9. QED
  BY <1>1, <1>2, <1>4, <1>5, <1>6, <1>7, <1>8 DEF Indented, t, a

LEMMA ListedOn ==
  ASSUME NEW t, NEW a \in Nat \ {0}, NEW list, ListedAt(t, a, list), t[a].item # "line"
  PROVE  ListedAt(t, a + 1, list)
<1> SUFFICES ASSUME list # <<>>
             PROVE  \E i \in 1..((a + 1) - 1) : /\ t[i].item = "list" /\ t[i].marks = list
                                                /\ \A j \in i..((a + 1) - 1) : t[j].item # "line"
  BY DEF ListedAt
<1>1. PICK i \in 1..(a - 1) : /\ t[i].item = "list" /\ t[i].marks = list
                              /\ \A j \in i..(a - 1) : t[j].item # "line"
  BY DEF ListedAt
<1>2. i \in 1..((a + 1) - 1) /\ \A j \in i..((a + 1) - 1) : j \in i..(a - 1) \/ j = a
  OBVIOUS
<1>3. QED
  BY <1>1, <1>2

LEMMA ListedHere ==
  ASSUME NEW t, NEW a \in Nat \ {0}, NEW list, list # <<>> => t[a].item = "list" /\ t[a].marks = list
  PROVE  ListedAt(t, a + 1, list)
<1>1. a \in 1..((a + 1) - 1) /\ \A j \in a..((a + 1) - 1) : j = a
  OBVIOUS
<1>2. QED
  BY <1>1 DEF ListedAt

(* What a page is made of that leaves no trace. *)
LEMMA ContainedFacts ==
  ASSUME TypeOK, Contained(text[Call.page])
  PROVE  /\ Alone
         /\ Reading => /\ Item.item \notin {"pipe", "exclamation", "embed"}
                       /\ Item.item = "line" => Item.first = "plain"
<1> DEFINE t == text[Call.page]
<1>1. t \in Seq(Items) /\ Call.at \in 1..(Len(t) + 1)
  BY CallFacts
<1>2. /\ \A i \in 1..Len(t) : t[i].item \notin {"pipe", "exclamation", "embed"}
      /\ \A i \in 1..Len(t) : t[i].item = "line" => t[i].first = "plain"
  BY DEF Contained, HasItem
<1>3. Alone
  <2>1. \A i \in 1..(Call.at - 1) : i \in 1..Len(t)
    BY <1>1
  <2>2. QED
    BY <1>2, <2>1 DEF Alone, EmbedMet
<1>4. Reading => Item = t[Call.at] /\ Call.at \in 1..Len(t)
  BY ItemFacts
<1>5. QED
  BY <1>2, <1>3, <1>4

LEMMA PlacedGoes ==
  ASSUME Stack # <<>>, Goes, Item.item \notin {"pipe", "exclamation"}, path' # <<>>,
         NEW base, NEW F \in SUBSET Plain, NEW list, PlacedAt(base, F, list, Stack, mode, path)
  PROVE  PlacedAt(base, F, list, Meet(Stack, Item), mode', path')
<1>1. Moded(F, Meet(Stack, Item), mode') /\ ~Is(mode', "nobb")
  BY DEF PlacedAt, Goes
<1>2. PICK q \in Seq(Elements) : OnList(q, base, list) /\ Traced(q, Stack, path)
  BY DEF PlacedAt
<1>3. Traced(q, Meet(Stack, Item), path')
  BY <1>1, <1>2 DEF Goes
<1>4. QED
  BY <1>1, <1>2, <1>3 DEF PlacedAt

LEMMA ReadCall ==
  ASSUME TypeOK, Reading, UNCHANGED text, Read
  PROVE  /\ Call' = Gone /\ Gone.page = Call.page /\ Gone.at = Call.at + 1 /\ Gone.list = Call.list
         /\ Gone.from = Call.from /\ Gone.modes = Call.modes
         /\ Stack' = Meet(Stack, Item) /\ (Stack' # <<>> => Stack # <<>>)
         /\ Alone' <=> (Alone /\ Item.item # "embed")
         /\ Embedded' <=> Embedded
         /\ Indented' <=> (Indented \/ Item = Indent)
<1>1. Call \in Calls
  BY CallFacts
<1>2. /\ Gone.page = Call.page /\ Gone.at = Call.at + 1 /\ Gone.list = Call.list
      /\ Gone.from = Call.from /\ Gone.modes = Call.modes
  BY <1>1 DEF Gone, Calls
<1>3. frames' = [frames EXCEPT ![Len(frames)] = Gone]
  BY DEF Read
<1> DEFINE f == Gone
<1>4. f.page = Call.page /\ f.at = Call.at + 1 /\ frames' = [frames EXCEPT ![Len(frames)] = f]
  BY <1>2, <1>3
<1> HIDE DEF f
<1>5. /\ Call' = f /\ Stack' = Meet(Stack, Item) /\ (Stack' # <<>> => Stack # <<>>)
      /\ Alone' <=> (Alone /\ Item.item # "embed")
      /\ Embedded' <=> Embedded
      /\ Indented' <=> (Indented \/ Item = Indent)
  BY <1>4, ReadThen
<1>6. QED
  BY <1>2, <1>5 DEF f

(* What is read within a line leaves base, list and the modes around as they were. *)
LEMMA ItemListed ==
  ASSUME TypeOK, TraceInv, ListInv, ItemGoes, Item.item \notin {"pipe", "exclamation"}
  PROVE  ListInv'
<1>0. Reading /\ UNCHANGED text /\ Read /\ path # <<>>
  BY DEF ItemGoes, Reading
<1>1. /\ Call'.page = Call.page /\ Call'.at = Call.at + 1 /\ Call'.list = Call.list
      /\ Call'.from = Call.from /\ Call'.modes = Call.modes
      /\ Stack' = Meet(Stack, Item) /\ (Stack' # <<>> => Stack # <<>>)
      /\ Alone' <=> (Alone /\ Item.item # "embed")
      /\ Embedded' <=> Embedded
      /\ Indented' <=> (Indented \/ Item = Indent)
  BY <1>0, ReadCall
<1>2. ASSUME Stack' # <<>>, Alone, Item.item # "embed" PROVE Goes
  BY <1>1, <1>2 DEF ItemGoes, TraceInv, Followed
<1>3. ASSUME OnPage', path' # <<>> PROVE PagePlaced(Call'.list, Stack', mode', path')
  <2>1. OnPage /\ Goes
    BY <1>1, <1>2, <1>3 DEF OnPage
  <2>2. PICK base \in Paths : Listless(base) /\ PlacedAt(base, PageModes(Call.list), Call.list, Stack, mode, path)
    BY <1>0, <2>1 DEF ListInv, PageInv, PagePlaced
  <2>3. PlacedAt(base, PageModes(Call.list), Call.list, Meet(Stack, Item), mode', path')
    BY <1>3, <2>1, <2>2, PlacedGoes, ModesOfPage DEF OnPage
  <2>4. QED
    BY <1>1, <2>2, <2>3 DEF PagePlaced
<1>4. ASSUME InEmbedded', path' # <<>>
      PROVE  /\ Call'.from \in Paths /\ Call'.modes \in Plain
             /\ EmbedPlaced(Call'.from, Call'.modes, Call'.list, Stack', mode', path')
             /\ ListedAt(text'[Call'.page], Call'.at, Call'.list)
  <2>1. InEmbedded
    BY <1>0, <1>1, <1>4 DEF InEmbedded, Friendly
  <2>2. Alone /\ Item.item # "embed"
    BY <1>0, <2>1, ContainedFacts DEF InEmbedded
  <2>3. Goes
    BY <1>2, <1>4, <2>2 DEF InEmbedded
  <2>4. /\ Call.from \in Paths /\ Call.modes \in Plain
        /\ EmbedPlaced(Call.from, Call.modes, Call.list, Stack, mode, path)
        /\ ListedAt(text[Call.page], Call.at, Call.list)
    BY <1>0, <2>1 DEF ListInv, EmbeddedInv
  <2>5. PICK base \in Wider(Call.from) : PlacedAt(base, {Call.modes}, Call.list, Stack, mode, path)
    BY <2>4 DEF EmbedPlaced
  <2>6. {Call.modes} \in SUBSET Plain
    BY <2>4
  <2>7. PlacedAt(base, {Call.modes}, Call.list, Meet(Stack, Item), mode', path')
    BY <1>4, <2>1, <2>3, <2>5, <2>6, PlacedGoes DEF InEmbedded
  <2>8. EmbedPlaced(Call.from, Call.modes, Call.list, Meet(Stack, Item), mode', path')
    BY <2>5, <2>7 DEF EmbedPlaced
  <2>9. ListedAt(text[Call.page], Call.at + 1, Call.list)
    <3>1. text[Call.page][Call.at].item # "line" /\ Call.at \in Nat \ {0}
      BY <2>3, CallFacts DEF Goes, IsLine, Item
    <3>2. QED
      BY <2>4, <3>1, ListedOn
  <2>10. QED
    BY <1>0, <1>1, <2>4, <2>8, <2>9
<1>5. PageInv'
  BY <1>3 DEF PageInv
<1>6. EmbeddedInv'
  BY <1>4 DEF EmbeddedInv
<1>7. QED
  BY <1>5, <1>6 DEF ListInv

LEMMA BegunOnly ==
  ASSUME TypeOK, Reading, Stack # <<>>, Meet(Stack, Item) # <<>>,
         Item.item \in {"line", "list", "pipe", "exclamation"}
  PROVE  Len(Stack) = 1 /\ Meet(Stack, Item) = Stack /\ OpenStack(Stack)
<1>1. Begun(Stack, Item, Meet(Stack, Item)) /\ OpenStack(Stack)
  BY StackItem DEF Left, Linked_, OpenedHere, OpenedIn, ClosedIn
<1>2. QED
  BY <1>1 DEF Begun

(* A cell begins in the line of a table, which no list goes on to. *)
LEMMA InlineListed ==
  ASSUME TypeOK, TypeOK', TraceInv, ListInv, inlineCell
  PROVE  ListInv'
<1>0. /\ Reading /\ UNCHANGED text /\ Read /\ mode' = mode /\ Item.item \in {"pipe", "exclamation"} /\ path # <<>>
      /\ path' = IF ~Wikicode(mode) \/ ~Is(mode, "wikitableline") THEN simple_parse(path)
                 ELSE IF Item.item = "pipe" THEN startCell(path, "wiki") ELSE startHeader(path, "wiki")
  BY DEF inlineCell, Meets, Reading
<1>1. /\ Call'.page = Call.page /\ Call'.list = Call.list
      /\ Call'.from = Call.from /\ Call'.modes = Call.modes
      /\ Stack' = Meet(Stack, Item) /\ (Stack' # <<>> => Stack # <<>>)
      /\ Alone' <=> (Alone /\ Item.item # "embed")
      /\ Embedded' <=> Embedded
      /\ Indented' <=> (Indented \/ Item = Indent)
  BY <1>0, ReadCall
<1>2. ASSUME OnPage', path' # <<>> PROVE PagePlaced(Call'.list, Stack', mode', path')
  <2>1. OnPage /\ Meet(Stack, Item) # <<>>
    BY <1>1, <1>2 DEF OnPage
  <2>2. Len(Stack) = 1 /\ Meet(Stack, Item) = Stack /\ OpenStack(Stack)
    BY <1>0, <2>1, BegunOnly DEF OnPage
  <2>3. PICK base \in Paths : Listless(base) /\ PlacedAt(base, PageModes(Call.list), Call.list, Stack, mode, path)
    BY <1>0, <2>1 DEF ListInv, PageInv, PagePlaced
  <2>4. /\ mode \in PageModes(Call.list) /\ mode \in Plain
        /\ \E q \in Seq(Elements) : OnList(q, base, Call.list) /\ path \in Stays(q)
    BY <2>2, <2>3, ModesOfPage, PlacedThere
  <2>5. PICK q \in Seq(Elements) : OnList(q, base, Call.list) /\ path \in Stays(q)
    BY <2>4
  <2>6. ~Is(mode, "nobb") /\ PageModes(Call.list) \in SUBSET Plain /\ Call.list \in Seq(Marks) /\ path' \in Paths
    BY <1>2, <2>4, ModesOfPage, CallFacts DEF TypeOK, Paths
  <2>7. CASE path' = simple_parse(path)
    <3>1. q \in Paths
      BY <2>5, <2>6, OnListTop
    <3>2. path' \in Stays(q)
      BY <2>5, <2>7, <3>1, SimpleStays
    <3>3. PlacedAt(base, PageModes(Call.list), Call.list, Stack, mode, path')
      BY <2>2, <2>4, <2>5, <2>6, <3>2, PlacedHere
    <3>4. QED
      BY <1>0, <1>1, <2>2, <2>3, <3>3 DEF PagePlaced
  <2>8. CASE Is(mode, "wikitableline") /\ path' \in {startCell(path, "wiki"), startHeader(path, "wiki")}
    <3>1. Call.list = <<>>
      BY <2>4, <2>8, ModesOfPage
    <3>2. q = base
      BY <2>5, <3>1, OnNoList DEF Paths
    <3>3. Listless(path)
      BY <2>3, <2>5, <3>2, ListlessSimple DEF Stays
    <3>4. Listless(path')
      BY <2>8, <3>3, ListlessParts, TypeNames
    <3>5. OnList(path', path', Call.list) /\ path' \in Stays(path')
      BY <2>6, <3>1, OnNoList DEF Paths, Stays
    <3>6. PlacedAt(path', PageModes(Call.list), Call.list, Stack, mode, path')
      BY <2>2, <2>4, <2>6, <3>5, PlacedHere
    <3>7. QED
      BY <1>0, <1>1, <2>2, <2>6, <3>4, <3>6 DEF PagePlaced
  <2>9. QED
    BY <1>0, <2>7, <2>8
<1>3. ~InEmbedded'
  <2>1. InEmbedded' => Contained(text[Call.page])
    BY <1>0, <1>1 DEF InEmbedded
  <2>2. QED
    BY <1>0, <2>1, ContainedFacts
<1>4. PageInv'
  BY <1>2 DEF PageInv
<1>5. EmbeddedInv'
  BY <1>3 DEF EmbeddedInv
<1>6. QED
  BY <1>4, <1>5 DEF ListInv

-----------------------------------------------------------------------------
(* Lines *)

Listed(p) == \E b \in Paths : Listless(b) /\ OnList(p, b, Call.list)

(* What a line finds on the page, and in a page that is embedded. *)
LEMMA PageLine ==
  ASSUME TypeOK, ListInv, Reading, OnPage, Len(Stack) = 1
  PROVE  /\ mode \in PageModes(Call.list) /\ mode \in Plain
         /\ Listed(Ended) /\ \A isCell, isList : Listed(LinePath(isCell, isList))
<1>1. path # <<>> /\ OpenStack(Stack) /\ Call.list \in Seq(Marks)
  BY StackItem, CallFacts DEF Reading
<1>2. PICK base \in Paths : Listless(base) /\ PlacedAt(base, PageModes(Call.list), Call.list, Stack, mode, path)
  BY <1>1 DEF ListInv, PageInv, PagePlaced
<1>3. /\ mode \in PageModes(Call.list) /\ mode \in Plain
      /\ \E q \in Seq(Elements) : OnList(q, base, Call.list) /\ path \in Stays(q)
  BY <1>1, <1>2, ModesOfPage, PlacedThere
<1>4. PICK q \in Seq(Elements) : OnList(q, base, Call.list) /\ path \in Stays(q)
  BY <1>3
<1>5. ~Is(Closed(mode, "wikitableline"), "wikiindent") /\ ~InList(Closed(mode, "wikitableline"))
  BY <1>3, PageLineModes
<1>6. \A b \in Wider(base) : b \in Paths /\ Listless(b)
  BY <1>2, WiderFacts
<1>7. \A p : Going(p, base, Call.list) => Listed(p)
  BY <1>6 DEF Going, Listed
<1>8. ASSUME NEW isCell, NEW isList PROVE Listed(Ended) /\ Listed(LinePath(isCell, isList))
  BY <1>1, <1>4, <1>5, <1>7, LineGoing
<1>9. QED
  BY <1>3, <1>8

LEMMA EmbeddedLine ==
  ASSUME TypeOK, ListInv, Reading, InEmbedded, Len(Stack) = 1
  PROVE  /\ mode = Call.modes /\ mode \in Plain /\ Call.from \in Paths /\ LineModes = mode
         /\ \A isCell, isList : Going(LinePath(isCell, isList), Call.from, Call.list)
         /\ ListedAt(text[Call.page], Call.at, Call.list)
<1>1. path # <<>> /\ OpenStack(Stack) /\ Call.list \in Seq(Marks)
  BY StackItem, CallFacts DEF Reading
<1>2. /\ Call.from \in Paths /\ Call.modes \in Plain
      /\ EmbedPlaced(Call.from, Call.modes, Call.list, Stack, mode, path)
      /\ ListedAt(text[Call.page], Call.at, Call.list)
  BY <1>1 DEF ListInv, EmbeddedInv
<1>3. PICK base \in Wider(Call.from) : PlacedAt(base, {Call.modes}, Call.list, Stack, mode, path)
  BY <1>2 DEF EmbedPlaced
<1>4. base \in Paths /\ Wider(base) \subseteq Wider(Call.from) /\ {Call.modes} \in SUBSET Plain
  BY <1>2, <1>3, WiderFacts
<1>5. /\ mode \in {Call.modes} /\ mode \in Plain
      /\ \E q \in Seq(Elements) : OnList(q, base, Call.list) /\ path \in Stays(q)
  BY <1>1, <1>3, <1>4, PlacedThere
<1>6. PICK q \in Seq(Elements) : OnList(q, base, Call.list) /\ path \in Stays(q)
  BY <1>5
<1>7. /\ ~Is(mode, "wikitableline") /\ ~Is(mode, "wikiindent") /\ ~InList(mode)
  BY <1>5 DEF InEmbedded, Friendly
<1>8. Closed(mode, "wikitableline") = mode
  <2>1. "wikitableline" # Current(mode)
    <3>1. CASE mode = <<>>
      BY <3>1 DEF Current
    <3>2. CASE mode # <<>>
      <4>1. Len(mode) \in 1..Len(mode)
        BY <1>5, <3>2, EmptySeq DEF Plain
      <4>2. QED
        BY <1>7, <3>2, <4>1 DEF Current, Is
    <3>3. QED
      BY <3>1, <3>2
  <2>2. QED
    BY <2>1 DEF Closed, After, Closes
<1>9. LineModes = mode
  BY <1>7, <1>8 DEF LineModes
<1>10. ASSUME NEW isCell, NEW isList PROVE Going(LinePath(isCell, isList), Call.from, Call.list)
  <2>1. Going(LinePath(isCell, isList), base, Call.list)
    BY <1>1, <1>4, <1>6, <1>7, <1>8, LineGoing
  <2>2. QED
    BY <1>4, <2>1 DEF Going
<1>11. QED
  BY <1>2, <1>5, <1>9, <1>10

(* What it leaves to the next. *)
PageLeaves(list) ==
  OnPage /\ Len(Stack) = 1 /\ path' # <<>> /\ Item # Indent =>
    mode' \in PageModes(list) /\ \E b \in Paths : Listless(b) /\ OnList(path', b, list)
EmbeddedLeaves(list) ==
  InEmbedded /\ Len(Stack) = 1 /\ path' # <<>> =>
    /\ mode' = mode /\ Going(path', Call.from, list)
    /\ list # <<>> => Item.item = "list" /\ Item.marks = list

LEMMA LineListed ==
  ASSUME TypeOK, TypeOK', ListInv, Reading, UNCHANGED text, IsLine(Item),
         NEW list \in Seq(Marks), ReadLine(list), PageLeaves(list), EmbeddedLeaves(list)
  PROVE  ListInv'
<1> DEFINE c == Call
           a == Call.at + 1
           p == path'
           f == [c EXCEPT !.at = a, !.list = list, !.line = p]
<1>1. frames' = [frames EXCEPT ![Len(frames)] = f]
  BY DEF ReadLine
<1>2. c \in Calls
  BY CallFacts
<1> HIDE DEF c, a, p
<1>3. f.page = c.page /\ f.at = a /\ f.list = list /\ f.from = c.from /\ f.modes = c.modes
  BY <1>2 DEF Calls
<1> HIDE DEF f
<1>4. /\ Call' = f /\ Stack' = Meet(Stack, Item) /\ (Stack' # <<>> => Stack # <<>>)
      /\ Alone' <=> (Alone /\ Item.item # "embed")
      /\ Embedded' <=> Embedded
      /\ Indented' <=> (Indented \/ Item = Indent)
  BY <1>1, <1>3, ReadThen DEF c, a
<1>5. /\ Call'.page = Call.page /\ Call'.at = Call.at + 1 /\ Call'.list = list
      /\ Call'.from = Call.from /\ Call'.modes = Call.modes
  BY <1>3, <1>4 DEF c, a
<1>6. ASSUME Stack' # <<>> PROVE Len(Stack) = 1 /\ Stack' = Stack
  BY <1>4, <1>6, BegunOnly DEF IsLine
<1>7. ASSUME OnPage', path' # <<>> PROVE PagePlaced(Call'.list, Stack', mode', path')
  <2>1. OnPage /\ Item # Indent /\ Len(Stack) = 1 /\ Stack' = Stack
    BY <1>4, <1>6, <1>7 DEF OnPage
  <2>2. mode' \in PageModes(list) /\ \E b \in Paths : Listless(b) /\ OnList(path', b, list)
    BY <1>7, <2>1 DEF PageLeaves
  <2>3. PICK b \in Paths : Listless(b) /\ OnList(path', b, list)
    BY <2>2
  <2>4. path' \in Paths /\ path' \in Stays(path') /\ ~Is(mode', "nobb") /\ PageModes(list) \in SUBSET Plain
    BY <1>7, <2>2, ModesOfPage DEF TypeOK, Paths, Stays
  <2>5. PlacedAt(b, PageModes(list), list, Stack, mode', path')
    BY <2>1, <2>2, <2>3, <2>4, PlacedHere
  <2>6. QED
    BY <1>5, <2>1, <2>3, <2>5 DEF PagePlaced
<1>8. ASSUME InEmbedded', path' # <<>>
      PROVE  /\ Call'.from \in Paths /\ Call'.modes \in Plain
             /\ EmbedPlaced(Call'.from, Call'.modes, Call'.list, Stack', mode', path')
             /\ ListedAt(text'[Call'.page], Call'.at, Call'.list)
  <2>1. InEmbedded /\ Len(Stack) = 1 /\ Stack' = Stack
    BY <1>4, <1>5, <1>6, <1>8 DEF InEmbedded, Friendly
  <2>2. /\ mode' = mode /\ Going(path', Call.from, list)
        /\ list # <<>> => Item.item = "list" /\ Item.marks = list
    BY <1>8, <2>1 DEF EmbeddedLeaves
  <2>3. mode = Call.modes /\ mode \in Plain /\ Call.from \in Paths
    BY <2>1, EmbeddedLine
  <2>4. PICK b \in Wider(Call.from) : OnList(path', b, list)
    BY <2>2 DEF Going
  <2>5. /\ path' \in Paths /\ path' \in Stays(path') /\ ~Is(mode', "nobb")
        /\ {mode} \in SUBSET Plain /\ mode' \in {mode}
    BY <1>8, <2>1, <2>2, <2>3 DEF TypeOK, Paths, Stays, InEmbedded, Friendly
  <2>6. PlacedAt(b, {mode}, list, Stack, mode', path')
    BY <2>1, <2>4, <2>5, PlacedHere
  <2>7. EmbedPlaced(Call.from, Call.modes, list, Stack, mode', path')
    BY <2>3, <2>4, <2>6 DEF EmbedPlaced
  <2>8. ListedAt(text[Call.page], Call.at + 1, list)
    <3>1. Call.at \in Nat \ {0} /\ Item = text[Call.page][Call.at]
      BY CallFacts DEF Item
    <3>2. QED
      BY <2>2, <3>1, ListedHere
  <2>9. QED
    BY <1>5, <2>1, <2>3, <2>7, <2>8
<1>9. PageInv'
  BY <1>7 DEF PageInv
<1>10. EmbeddedInv'
  BY <1>8 DEF EmbeddedInv
<1>11. QED
  BY <1>9, <1>10 DEF ListInv

LEMMA PageEnds ==
  ASSUME TypeOK, ListInv, Reading, OnPage, Len(Stack) = 1
  PROVE  /\ mode \in PageModes(Call.list)
         /\ Listless(EndLists(Ended)) /\ \A isCell, isList : Listless(EndLists(LinePath(isCell, isList)))
<1>1. \A p : Listed(p) => Listless(EndLists(p))
  BY EndListsBack DEF Listed
<1>2. QED
  BY <1>1, PageLine

LEMMA PageLeft ==
  ASSUME TypeOK',
         OnPage /\ Len(Stack) = 1 /\ path' # <<>> => Listless(path') /\ mode' \in PageModes(<<>>)
  PROVE  PageLeaves(<<>>)
<1> SUFFICES ASSUME OnPage, Len(Stack) = 1, path' # <<>>
             PROVE  mode' \in PageModes(<<>>) /\ \E b \in Paths : Listless(b) /\ OnList(path', b, <<>>)
  BY DEF PageLeaves
<1>1. Listless(path') /\ mode' \in PageModes(<<>>)
  OBVIOUS
<1>2. path' \in Paths /\ path' \in Seq(Elements)
  BY DEF TypeOK, Paths
<1>3. OnList(path', path', <<>>)
  BY <1>2, OnNoList
<1>4. QED
  BY <1>1, <1>2, <1>3

LEMMA OtherNotEmbedded ==
  ASSUME TypeOK, Reading, Item.item = "line", Item.first # "plain", NEW list
  PROVE  EmbeddedLeaves(list)
BY ContainedFacts DEF EmbeddedLeaves, InEmbedded

LEMMA ListLineListed ==
  ASSUME TypeOK, TypeOK', ListInv, listLine
  PROVE  ListInv'
<1> DEFINE marks == Item.marks
           list == Call.list
<1>1. /\ Reading /\ UNCHANGED text /\ Item.item = "list" /\ mode' = LineModes /\ ReadLine(marks)
      /\ path' = setTagtype(ListPath(LinePath(FALSE, TRUE), list, marks), "wiki")
  BY DEF listLine, ListLine, Meets
<1>2. marks \in Seq(Marks) /\ marks # <<>> /\ list \in Seq(Marks)
  BY <1>1, ItemFacts, CallFacts
<1> HIDE DEF marks, list
<1>3. ASSUME OnPage, Len(Stack) = 1
      PROVE  mode' \in PageModes(marks) /\ \E b \in Paths : Listless(b) /\ OnList(path', b, marks)
  <2>1. mode \in PageModes(list) /\ Listed(LinePath(FALSE, TRUE))
    BY <1>1, <1>3, PageLine DEF list
  <2>2. mode' \in PageModes(marks)
    BY <1>1, <2>1, PageLineModes, ModesOfPage
  <2>3. PICK b \in Paths : Listless(b) /\ OnList(LinePath(FALSE, TRUE), b, list)
    BY <2>1 DEF Listed, list
  <2>4. ~At(b, list_items)
    <3>1. Len(b) \in 1..Len(b)
      BY EmptySeq DEF Paths
    <3>2. QED
      BY <2>3, <3>1 DEF Listless, At, Top, ListNames
  <2>5. OnList(path', b, marks)
    BY <1>1, <1>2, <2>3, <2>4, ListGoesOn
  <2>6. QED
    BY <2>2, <2>3, <2>5
<1>4. ASSUME InEmbedded, Len(Stack) = 1
      PROVE  mode' = mode /\ Going(path', Call.from, marks)
  <2>1. /\ LineModes = mode /\ Call.from \in Paths /\ Going(LinePath(FALSE, TRUE), Call.from, list)
        /\ ListedAt(text[Call.page], Call.at, list)
    BY <1>1, <1>4, EmbeddedLine DEF list
  <2>2. PICK b \in Wider(Call.from) : OnList(LinePath(FALSE, TRUE), b, list)
    BY <2>1 DEF Going
  <2>3. b \in Paths
    BY <2>1, <2>2, WiderFacts
  <2>4. ASSUME list # <<>> PROVE marks[1] = list[1]
    <3> DEFINE t == text[Call.page]
               a == Call.at
    <3>1. t[a] = Item /\ a \in 1..Len(t) /\ t \in Seq(Items) /\ Contained(t) /\ ListedAt(t, a, list)
      BY <1>1, <1>4, <2>1, ItemFacts, CallFacts DEF InEmbedded
    <3> HIDE DEF t, a
    <3>2. PICK i \in 1..(a - 1) : /\ t[i].item = "list" /\ t[i].marks = list
                                  /\ \A j \in i..(a - 1) : t[j].item # "line"
      BY <2>4, <3>1 DEF ListedAt
    <3>3. i \in 1..Len(t) /\ a \in 1..Len(t) /\ i < a /\ t[a].item = "list" /\ t[a].marks = marks
      BY <1>1, <3>1, <3>2 DEF marks
    <3>4. ~HasItem(SubSeq(t, i, a), {"line"})
      <4> DEFINE s == SubSeq(t, i, a)
      <4>1. Len(s) = (a - i) + 1 /\ \A j \in 1..((a - i) + 1) : s[j] = t[(i + j) - 1]
        BY <3>1, <3>3
      <4> HIDE DEF s
      <4>2. ASSUME NEW j \in 1..Len(s) PROVE s[j].item # "line"
        <5>1. s[j] = t[(i + j) - 1] /\ ((i + j) - 1 \in i..(a - 1) \/ (i + j) - 1 = a)
          BY <3>3, <4>1
        <5>2. QED
          BY <3>2, <3>3, <5>1
      <4>3. QED
        BY <4>2 DEF HasItem, s
    <3>5. t[i].marks[1] = t[a].marks[1]
      BY <3>1, <3>2, <3>3, <3>4 DEF Contained
    <3>6. QED
      BY <3>2, <3>3, <3>5
  <2>5. OnList(path', b, marks)
    BY <1>1, <1>2, <2>2, <2>3, <2>4, ListGoesOn
  <2>6. QED
    BY <1>1, <2>1, <2>2, <2>5 DEF Going
<1>5. PageLeaves(marks)
  BY <1>3 DEF PageLeaves
<1>6. EmbeddedLeaves(marks)
  BY <1>1, <1>4 DEF EmbeddedLeaves, marks
<1>7. QED
  BY <1>1, <1>2, <1>5, <1>6, LineListed DEF IsLine

LEMMA IndentListed ==
  ASSUME TypeOK, TypeOK', ListInv, indentLine
  PROVE  ListInv'
<1>1. /\ Reading /\ UNCHANGED text /\ Item.item = "line" /\ Item.first = "indent" /\ ReadLine(Call.list)
  BY DEF indentLine, Line, Meets
<1>2. Item = Indent
  <2>1. Item \in Items
    BY <1>1, ItemFacts
  <2>2. Item \in [item : {"line"}, first : Firsts]
    BY <1>1, <2>1 DEF Items, Lines, Tags, Links, Embeds, Others
  <2>3. QED
    BY <1>1, <2>2 DEF Indent
<1>3. PageLeaves(Call.list) /\ EmbeddedLeaves(Call.list) /\ Call.list \in Seq(Marks)
  BY <1>1, <1>2, OtherNotEmbedded, CallFacts DEF PageLeaves
<1>4. QED
  BY <1>1, <1>3, LineListed DEF IsLine

LEMMA BlankListed ==
  ASSUME TypeOK, TypeOK', ListInv, blankLine
  PROVE  ListInv'
<1> DEFINE ended == EndLists(Ended)
           inner == IF At(ended, {"p"}) THEN becomeParent(ended) ELSE ended
<1>1. /\ Reading /\ UNCHANGED text /\ Item.item = "line" /\ Item.first = "blank" /\ ReadLine(<<>>)
      /\ mode' = mode /\ path' = becomeChild(inner, "p", "wiki")
  BY DEF blankLine, Line, Meets
<1>2. ASSUME OnPage, Len(Stack) = 1 PROVE Listless(path') /\ mode' \in PageModes(<<>>)
  <2>1. Listless(ended) /\ mode \in PageModes(Call.list)
    BY <1>1, <1>2, PageEnds
  <2> HIDE DEF ended
  <2>2. Listless(inner)
    BY <2>1, ListlessParent
  <2> HIDE DEF inner
  <2>3. Listless(path')
    BY <1>1, <2>2, ListlessChild, TypeNames
  <2>4. QED
    BY <1>1, <2>1, <2>3, ModesOfPage
<1>3. PageLeaves(<<>>) /\ EmbeddedLeaves(<<>>) /\ <<>> \in Seq(Marks)
  BY <1>1, <1>2, PageLeft, OtherNotEmbedded
<1>4. QED
  BY <1>1, <1>3, LineListed DEF IsLine

LEMMA PartListed ==
  ASSUME TypeOK, TypeOK', ListInv, headerLine \/ openTable \/ tableLine \/ ruleLine
  PROVE  ListInv'
<1> DEFINE ended == EndLists(LinePath(FALSE, FALSE))
           inner == EndLists(LinePath(TRUE, FALSE))
<1>1. /\ Reading /\ UNCHANGED text /\ Item.item = "line" /\ Item.first # "plain" /\ ReadLine(<<>>)
      /\ \/ mode' = LineModes /\ path' \in {HeaderPath(ended), ended}
         \/ mode' = Append(LineModes, "wikitable") /\ path' = startTable(ended, "wiki")
         \/ /\ path' = TablePart(inner)
            /\ \/ mode' = Append(LineModes, "wikitableline")
               \/ mode' = Closed(Append(LineModes, "wikitableline"), "wikitable")
  BY DEF headerLine, openTable, tableLine, ruleLine, Line, Meets, TableParts
<1>2. ASSUME OnPage, Len(Stack) = 1 PROVE Listless(path') /\ mode' \in PageModes(<<>>)
  <2>1. Listless(ended) /\ Listless(inner) /\ mode \in PageModes(Call.list)
    BY <1>1, <1>2, PageEnds
  <2> HIDE DEF ended, inner
  <2>2. LineModes \in OfTables
    BY <2>1, PageLineModes
  <2>3. /\ LineModes \in PageModes(<<>>) /\ Append(LineModes, "wikitable") \in PageModes(<<>>)
        /\ Append(LineModes, "wikitableline") \in PageModes(<<>>)
        /\ Closed(Append(LineModes, "wikitableline"), "wikitable") \in PageModes(<<>>)
    BY <2>2, TableModesGo, ModesOfPage
  <2>4. Listless(HeaderPath(ended)) /\ Listless(startTable(ended, "wiki"))
    BY <2>1, ListlessHeader, ListlessParts, TypeNames
  <2>5. Listless(TablePart(inner))
    BY <2>1, ListlessParts, TypeNames DEF TablePart
  <2>6. QED
    BY <1>1, <2>1, <2>3, <2>4, <2>5
<1>3. PageLeaves(<<>>) /\ EmbeddedLeaves(<<>>) /\ <<>> \in Seq(Marks)
  BY <1>1, <1>2, PageLeft, OtherNotEmbedded
<1>4. QED
  BY <1>1, <1>3, LineListed DEF IsLine

LEMMA PlainListed ==
  ASSUME TypeOK, TypeOK', ListInv, plainLine
  PROVE  ListInv'
<1> DEFINE p == EndLists(LinePath(Item.first # "plain", FALSE))
           begun == IF Item.first = "plain" THEN p ELSE simple_parse(p)
           ends == Is(LineModes, "wikitable") /\ At(p, {"table"})
<1>1. /\ Reading /\ UNCHANGED text /\ Item.item = "line" /\ ReadLine(<<>>)
      /\ \/ ends /\ path' = endTable(p, "wiki") /\ mode' = Closed(LineModes, "wikitable")
         \/ ~ends /\ path' = begun /\ mode' = LineModes
  BY DEF plainLine, Line, Meets
<1>2. ASSUME OnPage, Len(Stack) = 1 PROVE Listless(path') /\ mode' \in PageModes(<<>>)
  <2>1. Listless(p) /\ mode \in PageModes(Call.list)
    BY <1>1, <1>2, PageEnds
  <2> HIDE DEF p, ends
  <2>2. LineModes \in OfTables
    BY <2>1, PageLineModes
  <2>3. LineModes \in PageModes(<<>>) /\ Closed(LineModes, "wikitable") \in PageModes(<<>>)
    BY <2>2, TableModesGo, ModesOfPage
  <2>4. Listless(begun) /\ Listless(endTable(p, "wiki"))
    BY <2>1, ListlessSimple, ListlessParts, TypeNames
  <2>5. QED
    BY <1>1, <2>3, <2>4
<1>3. ASSUME InEmbedded, Len(Stack) = 1 PROVE mode' = mode /\ Going(path', Call.from, <<>>)
  <2>1. Item.first = "plain"
    BY <1>1, <1>3, ContainedFacts DEF InEmbedded
  <2>2. /\ LineModes = mode /\ mode = Call.modes /\ Call.from \in Paths
        /\ Going(LinePath(Item.first # "plain", FALSE), Call.from, Call.list)
    BY <1>1, <1>3, EmbeddedLine
  <2>3. PICK b \in Wider(Call.from) : OnList(LinePath(Item.first # "plain", FALSE), b, Call.list)
    BY <2>2 DEF Going
  <2>4. b \in Paths /\ (b # Call.from => ~At(b, {"table"}))
    BY <2>2, <2>3, WiderFacts
  <2>5. p = b
    BY <2>3, <2>4, EndListsBack
  <2>6. ~ends
    BY <1>3, <2>2, <2>4, <2>5 DEF InEmbedded, Friendly
  <2> HIDE DEF p, ends
  <2>7. path' = b /\ mode' = mode
    BY <1>1, <2>1, <2>2, <2>5, <2>6
  <2>8. OnList(path', b, <<>>)
    BY <2>4, <2>7, OnNoList DEF Paths
  <2>9. QED
    BY <2>3, <2>7, <2>8 DEF Going
<1> HIDE DEF p, begun, ends
<1>4. PageLeaves(<<>>) /\ <<>> \in Seq(Marks)
  BY <1>2, PageLeft
<1>5. EmbeddedLeaves(<<>>)
  BY <1>3 DEF EmbeddedLeaves
<1>6. QED
  BY <1>1, <1>4, <1>5, LineListed DEF IsLine

LEMMA RawListed ==
  ASSUME TypeOK, TypeOK', ListInv, rawLine
  PROVE  ListInv'
<1>1. /\ Reading /\ UNCHANGED text /\ IsLine(Item) /\ ReadLine(Call.list) /\ ~Wikicode(mode)
  BY DEF rawLine, Meets, IsLine
<1>2. ASSUME Len(Stack) = 1 PROVE ~OnPage /\ ~InEmbedded
  <2>1. OnPage => mode \in Plain
    BY <1>1, <1>2, PageLine
  <2>2. InEmbedded => mode \in Plain
    BY <1>1, <1>2, EmbeddedLine
  <2>3. QED
    BY <1>1, <2>1, <2>2 DEF Plain
<1>3. PageLeaves(Call.list) /\ EmbeddedLeaves(Call.list) /\ Call.list \in Seq(Marks)
  BY <1>2, CallFacts DEF PageLeaves, EmbeddedLeaves
<1>4. QED
  BY <1>1, <1>3, LineListed

-----------------------------------------------------------------------------
(* Steps *)

(* Nothing of a style sheet is read while the tags are in order. *)
LEMMA CssListed ==
  ASSUME TypeOK, ListInv, readCss
  PROVE  ListInv'
<1>0. Reading /\ UNCHANGED text /\ Read /\ path # <<>> /\ path' = path /\ Is(mode, "css")
  BY DEF readCss, Css, Reading
<1>1. /\ Call'.page = Call.page /\ Call'.from = Call.from /\ Call'.modes = Call.modes
      /\ (Stack' # <<>> => Stack # <<>>) /\ (Alone' => Alone)
      /\ Embedded' <=> Embedded
      /\ Indented' <=> (Indented \/ Item = Indent)
  BY <1>0, ReadCall
<1>2. OpenStack(Stack)
  BY <1>0, StackItem
<1>3. ASSUME OnPage PROVE FALSE
  <2>1. PICK base \in Paths : PlacedAt(base, PageModes(Call.list), Call.list, Stack, mode, path)
    BY <1>0, <1>3 DEF ListInv, PageInv, PagePlaced
  <2>2. PageModes(Call.list) \in SUBSET Plain /\ Moded(PageModes(Call.list), Stack, mode)
    BY <2>1, ModesOfPage DEF PlacedAt
  <2>3. QED
    BY <1>0, <1>2, <1>3, <2>2, ModeNow DEF OnPage
<1>4. ASSUME InEmbedded PROVE FALSE
  <2>1. Call.modes \in Plain /\ EmbedPlaced(Call.from, Call.modes, Call.list, Stack, mode, path)
    BY <1>0, <1>4 DEF ListInv, EmbeddedInv
  <2>2. {Call.modes} \in SUBSET Plain /\ Moded({Call.modes}, Stack, mode)
    BY <2>1 DEF EmbedPlaced, PlacedAt
  <2>3. QED
    BY <1>0, <1>2, <1>4, <2>2, ModeNow DEF InEmbedded
<1>5. OnPage' => OnPage
  BY <1>1 DEF OnPage
<1>6. InEmbedded' => InEmbedded
  BY <1>0, <1>1 DEF InEmbedded, Friendly
<1>7. PageInv' /\ EmbeddedInv'
  BY <1>3, <1>4, <1>5, <1>6 DEF PageInv, EmbeddedInv
<1>8. QED
  BY <1>7 DEF ListInv

(* A page begins where it is met. *)
LEMMA EmbedListed ==
  ASSUME TypeOK, embed
  PROVE  ListInv'
<1>1. /\ UNCHANGED <<text, path, mode>> /\ Stack' = <<Nowhere>>
      /\ Len(frames) \in Nat \ {0} /\ Len(frames') = Len(frames) + 1
      /\ mode \in Plain /\ path \in Paths
  BY EmbedThen
<1>2. Call'.list = <<>> /\ Call'.from = path /\ Call'.modes = mode
  <2>1. Call' = Frame(Item.page, path, mode)
    BY EmbedThen
  <2>2. QED
    BY <2>1 DEF Frame
<1>3. ASSUME Friendly(Call)' PROVE EmbedPlaced(path, mode, <<>>, <<Nowhere>>, mode, path)
  <2>1. ~Is(mode, "nobb")
    BY <1>2, <1>3 DEF Friendly
  <2>2. OnList(path, path, <<>>) /\ path \in Stays(path) /\ path \in Wider(path)
    BY <1>1, OnNoList DEF Paths, Stays, Wider
  <2>3. Len(<<Nowhere>>) = 1 /\ {mode} \in SUBSET Plain /\ mode \in {mode}
    BY <1>1
  <2>4. PlacedAt(path, {mode}, <<>>, <<Nowhere>>, mode, path)
    BY <1>1, <2>1, <2>2, <2>3, PlacedHere
  <2>5. QED
    BY <2>2, <2>4 DEF EmbedPlaced
<1>4. ASSUME InEmbedded'
      PROVE  /\ Call'.from \in Paths /\ Call'.modes \in Plain
             /\ EmbedPlaced(Call'.from, Call'.modes, Call'.list, Stack', mode', path')
             /\ ListedAt(text'[Call'.page], Call'.at, Call'.list)
  <2>1. EmbedPlaced(path, mode, <<>>, <<Nowhere>>, mode, path)
    BY <1>3, <1>4 DEF InEmbedded
  <2>2. QED
    BY <1>1, <1>2, <2>1 DEF ListedAt
<1>5. EmbeddedInv'
  BY <1>4 DEF EmbeddedInv
<1>6. PageInv'
  BY <1>1 DEF PageInv, OnPage, Embedded
<1>7. QED
  BY <1>5, <1>6 DEF ListInv

(* A page that is contained meets none that could return. *)
LEMMA ReturnListed ==
  ASSUME TypeOK, TraceInv, embeddedReturns
  PROVE  ListInv'
<1> DEFINE t == text'[Call'.page]
           a == Call'.at
<1>1. t \in Seq(Items) /\ a \in 1..(Len(t) + 1) /\ EmbedMet(t, a) /\ ~Alone'
  BY ReturnThen DEF Alone
<1> HIDE DEF a
<1>2. ~Contained(t)
  BY <1>1 DEF Contained, HasItem, EmbedMet
<1>3. PageInv' /\ EmbeddedInv'
  BY <1>1, <1>2 DEF PageInv, OnPage, EmbeddedInv, InEmbedded
<1>4. QED
  BY <1>3 DEF ListInv

LEMMA InitListed == Init => ListInv
<1> SUFFICES ASSUME Init PROVE ListInv
  OBVIOUS
<1>0. TypeOK
  BY InitInv DEF Inv
<1>1. path = <<Root>> /\ mode = <<>> /\ frames = <<Frame(Main, path, <<>>)>>
  BY DEF Init
<1> DEFINE f == Frame(Main, path, <<>>)
<1>2. f.at = 1 /\ f.list = <<>>
  BY DEF Frame
<1> HIDE DEF f
<1>3. Len(frames) = 1 /\ Call = f
  BY <1>1 DEF Call, f
<1>4. Stack = <<Nowhere>>
  <2>1. Stack = OpenTags(text[Call.page], 0)
    BY <1>2, <1>3 DEF Stack
  <2>2. text[Call.page] \in Seq(Items)
    BY <1>0, CallFacts
  <2>3. QED
    BY <2>1, <2>2, OpenTagsEquation
<1>5. mode \in PageModes(<<>>) /\ ~Is(mode, "nobb") /\ PageModes(<<>>) \in SUBSET Plain
  <2>1. mode \in OfTables
    BY <1>1 DEF OfTables
  <2>2. QED
    BY <2>1, ModesOfPage
<1>6. path \in Paths /\ Listless(path)
  <2>1. path \in Seq(Elements) /\ Len(path) = 1 /\ path[1] = Root
    BY <1>0, <1>1 DEF TypeOK
  <2>2. Root.name \notin ListNames
    BY DEF Root, Element, ListNames, list_tags, list_items
  <2>3. QED
    BY <1>1, <2>1, <2>2 DEF Paths, Listless
<1>7. OnList(path, path, <<>>) /\ path \in Stays(path) /\ Len(<<Nowhere>>) = 1
  BY <1>6, OnNoList DEF Paths, Stays
<1>8. PlacedAt(path, PageModes(<<>>), <<>>, <<Nowhere>>, mode, path)
  BY <1>5, <1>6, <1>7, PlacedHere
<1>9. PageInv
  BY <1>2, <1>3, <1>4, <1>6, <1>8 DEF PageInv, PagePlaced
<1>10. EmbeddedInv
  BY <1>3 DEF EmbeddedInv, InEmbedded, Embedded
<1>11. QED
  BY <1>9, <1>10 DEF ListInv

LEMMA NextListed == TypeOK /\ TypeOK' /\ TraceInv /\ ListInv /\ [Next]_vars => ListInv'
<1> SUFFICES ASSUME TypeOK, TypeOK', TraceInv, ListInv, [Next]_vars PROVE ListInv'
  OBVIOUS
<1>1. CASE listLine
  BY <1>1, ListLineListed
<1>2. CASE indentLine
  BY <1>2, IndentListed
<1>3. CASE blankLine
  BY <1>3, BlankListed
<1>4. CASE headerLine \/ openTable \/ tableLine \/ ruleLine
  BY <1>4, PartListed
<1>5. CASE plainLine
  BY <1>5, PlainListed
<1>6. CASE rawLine
  BY <1>6, RawListed
<1>7. CASE readText
  <2>1. Item.item \notin {"pipe", "exclamation"}
    BY <1>7 DEF readText, Meets
  <2>2. QED
    BY <1>7, <2>1, ReadTextGoes, ItemListed
<1>8. CASE inlineCell
  BY <1>8, InlineListed
<1>9. CASE readCss
  BY <1>9, CssListed
<1>10. CASE readRaw
  <2>1. Item.item \notin {"pipe", "exclamation"}
    BY <1>10 DEF readRaw, Meets
  <2>2. QED
    BY <1>10, <2>1, ReadRawGoes, ItemListed
<1>11. CASE closeHtml \/ closeBB
  <2>1. Item.item \notin {"pipe", "exclamation"}
    BY <1>11 DEF closeHtml, closeBB, Tag, Tagged, Meets
  <2>2. QED
    BY <1>11, <2>1, CloseGoes, ItemListed
<1>12. CASE openHtml \/ openBB
  <2>1. Item.item \notin {"pipe", "exclamation"}
    BY <1>12 DEF openHtml, openBB, Tag, Tagged, Meets
  <2>2. QED
    BY <1>12, <2>1, OpenGoes, ItemListed
<1>13. CASE readLink \/ skipEmbed
  <2>1. Item.item \notin {"pipe", "exclamation"}
    BY <1>13 DEF readLink, skipEmbed, Tagged, Meets
  <2>2. QED
    BY <1>13, <2>1, ReadLinkGoes, ItemListed
<1>14. CASE embed
  BY <1>14, EmbedListed
<1>15. CASE embeddedReturns
  BY <1>15, ReturnListed
<1>16. CASE UNCHANGED vars
  BY <1>16 DEF vars, ListInv, PageInv, OnPage, EmbeddedInv, InEmbedded, Embedded, Indented, Alone, Stack, Call
<1>17. QED
  BY <1>1, <1>2, <1>3, <1>4, <1>5, <1>6, <1>7, <1>8, <1>9, <1>10, <1>11, <1>12, <1>13, <1>14, <1>15, <1>16 DEF Next

-----------------------------------------------------------------------------
(* What follows *)

LEMMA NamesOfList ==
  ASSUME NEW base \in Paths, NEW list \in Seq(Marks), NEW q, OnList(q, base, list)
  PROVE  Names(q) = Names(Nested(base, list))
<1> DEFINE r == Nested(base, list)
<1>1. Len(list) \in Nat /\ base \in Seq(Elements)
  BY DEF Paths
<1>2. SubSeq(list, 1, 0) = <<>> /\ SubSeq(list, 0 + 1, Len(list)) = list
  OBVIOUS
<1>3. OnList(base, base, SubSeq(list, 1, 0))
  BY <1>1, <1>2, OnNoList
<1>4. 0 \in 0..Len(list)
  BY <1>1
<1>5. OnList(Nested(base, SubSeq(list, 0 + 1, Len(list))), base, list)
  BY <1>3, <1>4, OnListMore
<1>6. OnList(r, base, list)
  BY <1>2, <1>5
<1> HIDE DEF r
<1> DEFINE n == Len(base)
           m == 2 * Len(list)
<1>7. /\ n \in Nat /\ m \in Nat /\ Len(q) = n + m /\ Len(r) = n + m
      /\ \A i \in 1..n : q[i] = base[i] /\ r[i] = base[i]
      /\ \A i \in 1..m : q[n + i].name = NameAt(list, i) /\ r[n + i].name = NameAt(list, i)
  BY <1>1, <1>6 DEF OnList
<1> HIDE DEF n, m
<1>8. ASSUME NEW i \in 1..Len(q) PROVE q[i].name = r[i].name
  <2>1. CASE i <= n
    BY <1>7, <2>1
  <2>2. CASE i > n
    <3>1. i - n \in 1..m /\ n + (i - n) = i
      BY <1>7, <2>2
    <3>2. QED
      BY <1>7, <3>1
  <2>3. QED
    BY <1>7, <2>1, <2>2
<1>9. QED
  BY <1>7, <1>8 DEF Names, r

LEMMA ListOfPage ==
  ASSUME TypeOK, ListInv
  PROVE  ListAgrees
<1> SUFFICES ASSUME BetweenLines, ~Embedded, Tidy(Past(Call)), ~Has(Past(Call), "indent"),
                    ~HasItem(Past(Call), {"embed"})
             PROVE  \E n \in 0..Len(path) :
                      /\ \A i \in 1..n : path[i].name \notin list_tags \cup list_items
                      /\ Names(path) = Names(Nested(SubSeq(path, 1, n), Call.list))
  BY DEF ListAgrees
<1> DEFINE list == Call.list
<1>1. Stack = <<Nowhere>> /\ Alone /\ ~Indented /\ path # <<>> /\ list \in Seq(Marks)
  BY PastFacts, CallFacts DEF Alone, EmbedMet, Indented, IndentMet, Indent, Has, HasItem, BetweenLines
<1>2. Stack # <<>> /\ Len(Stack) = 1 /\ OpenStack(Stack)
  BY <1>1, StackNow
<1>3. PICK base \in Paths : Listless(base) /\ PlacedAt(base, PageModes(list), list, Stack, mode, path)
  BY <1>1, <1>2 DEF ListInv, PageInv, PagePlaced, OnPage
<1> HIDE DEF list
<1>4. PICK q \in Seq(Elements) : OnList(q, base, list) /\ path \in Stays(q)
  <2>1. PageModes(list) \in SUBSET Plain
    BY ModesOfPage
  <2>2. QED
    BY <1>2, <1>3, <2>1, PlacedThere
<1>5. PICK b \in Wider(base) : OnList(path, b, list)
  BY <1>1, <1>3, <1>4, StaysGoing DEF Going
<1>6. b \in Paths /\ Listless(b)
  BY <1>3, <1>5, WiderFacts
<1> DEFINE n == Len(b)
           s == SubSeq(path, 1, n)
<1>7. n \in 0..Len(path) /\ path \in Seq(Elements) /\ \A i \in 1..n : path[i] = b[i]
  <2>1. n \in Nat /\ Len(list) \in Nat
    BY <1>1, <1>6 DEF Paths
  <2>2. Len(path) = n + 2 * Len(list) /\ path \in Seq(Elements) /\ \A i \in 1..n : path[i] = b[i]
    BY <1>5 DEF OnList
  <2> HIDE DEF n
  <2>3. QED
    BY <2>1, <2>2
<1>8. s \in Seq(Elements) /\ Len(s) = n /\ \A i \in 1..n : s[i] = path[i]
  BY <1>7, FrontItems
<1> HIDE DEF s
<1>9. s = b
  <2>1. Len(s) = Len(b) /\ b \in Seq(Elements) /\ \A i \in 1..Len(s) : s[i] = b[i]
    BY <1>6, <1>7, <1>8 DEF Paths
  <2>2. QED
    BY <1>8, <2>1, SeqEqual
<1>10. Names(path) = Names(Nested(b, list))
  BY <1>1, <1>5, <1>6, NamesOfList
<1>11. \A i \in 1..n : path[i].name \notin list_tags \cup list_items
  BY <1>6, <1>7 DEF Listless, ListNames
<1>12. QED
  BY <1>7, <1>9, <1>10, <1>11 DEF s, list

LEMMA NoTraceOfPage ==
  ASSUME TypeOK, ListInv, embeddedReturns, Contained(text[Call.page]), Friendly(Call)
  PROVE  /\ mode = Call.modes
         /\ path \in {Call.from, simple_parse(Call.from), becomeChild(Call.from, "p", "wiki")}
<1> DEFINE t == text[Call.page]
           list == Call.list
<1>1. t \in Seq(Items) /\ Call.at = Len(t) + 1 /\ Len(t) \in Nat /\ list \in Seq(Marks)
  <2>1. t \in Seq(Items) /\ Call.at \in 1..(Len(t) + 1) /\ list \in Seq(Marks)
    BY CallFacts
  <2>2. Call.at > Len(t)
    BY DEF embeddedReturns, AtEnd
  <2>3. QED
    BY <2>1, <2>2
<1>2. Stack = <<Nowhere>>
  BY <1>1 DEF Contained, Tidy, Stack
<1>3. Stack # <<>> /\ Len(Stack) = 1 /\ OpenStack(Stack)
  BY <1>2, StackNow
<1>4. /\ Call.from \in Paths /\ Call.modes \in Plain
      /\ EmbedPlaced(Call.from, Call.modes, list, Stack, mode, path)
      /\ ListedAt(t, Call.at, list)
  BY <1>3 DEF ListInv, EmbeddedInv, InEmbedded, embeddedReturns
<1>5. list = <<>>
  <2>1. SUFFICES ASSUME list # <<>> PROVE FALSE
    OBVIOUS
  <2> HIDE DEF list, t
  <2>2. PICK i \in 1..(Call.at - 1) : /\ t[i].item = "list"
                                      /\ \A j \in i..(Call.at - 1) : t[j].item # "line"
    BY <1>4, <2>1 DEF ListedAt
  <2>3. Call.at - 1 = Len(t)
    BY <1>1
  <2>4. Contained(t)
    BY DEF t
  <2>5. QED
    BY <2>2, <2>3, <2>4 DEF Contained
<1>6. PICK b \in Wider(Call.from) : PlacedAt(b, {Call.modes}, list, Stack, mode, path)
  BY <1>4 DEF EmbedPlaced
<1>7. b \in Paths /\ (b # Call.from => b = Child(Call.from, "p", "wiki"))
  BY <1>4, <1>6, WiderFacts
<1>8. mode \in {Call.modes} /\ \E q \in Seq(Elements) : OnList(q, b, list) /\ path \in Stays(q)
  <2>1. {Call.modes} \in SUBSET Plain
    BY <1>4
  <2>2. QED
    BY <1>3, <1>6, <2>1, PlacedThere
<1>9. path \in {b, simple_parse(b)}
  BY <1>5, <1>7, <1>8, OnNoList DEF Paths, Stays
<1>10. CASE b = Call.from
  BY <1>8, <1>9, <1>10
<1>11. CASE b # Call.from
  <2>1. b = becomeChild(Call.from, "p", "wiki")
    BY <1>4, <1>7, <1>11 DEF becomeChild, Child, Paths
  <2>2. ~At(b, blocks)
    <3>1. At(b, blocks) <=> "p" \in blocks
      BY <1>4, <1>7, <1>11, TypeNames, ChildIs
    <3>2. QED
      BY <3>1 DEF blocks
  <2>3. QED
    BY <1>8, <1>9, <2>1, <2>2 DEF simple_parse
<1>12. QED
  BY <1>10, <1>11

LEMMA ListInvariance == Spec => []ListInv
<1>1. Init => TraceInv /\ ListInv
  BY InitTrace, InitListed
<1>2. TypeOK /\ TypeOK' /\ TraceInv /\ ListInv /\ [Next]_vars => TraceInv' /\ ListInv'
  BY NextTrace, NextListed
<1>3. QED
  BY <1>1, <1>2, TypeCorrect, PTL DEF Spec

(* While the tags of a page are in order and nothing of it is indented, the elements of lists   *)
(* that are open are those of the marks of the list, innermost, whatever lines it is made of:   *)
(* any line that ends the list closes all of them and nothing else.                             *)
THEOREM ListsAgree == Spec => []ListAgrees
<1>1. TypeOK /\ ListInv => ListAgrees
  BY ListOfPage
<1>2. QED
  BY <1>1, TypeCorrect, ListInvariance, PTL

(* A tidy page of plain lines and of lists that end in it leaves the modes it was met with, and *)
(* the cursor where it was met or in a paragraph that it has begun there, however its tags and  *)
(* its lists are nested, and whatever the pages around it hold.                                 *)
THEOREM EmbeddedLeaveNone == Spec => EmbeddedLeavesNoTrace
<1>1. TypeOK /\ ListInv /\ [Next]_vars =>
        [/\ embeddedReturns /\ Contained(text[Call.page])
         /\ ~Is(Call.modes, "wikitableline") /\ ~Is(Call.modes, "wikiindent")
         /\ ~Is(Call.modes, "nobb") /\ ~InList(Call.modes)
         /\ ~(Is(Call.modes, "wikitable") /\ At(Call.from, {"table"}))
         => /\ mode = Call.modes
            /\ path \in {Call.from, simple_parse(Call.from), becomeChild(Call.from, "p", "wiki")}]_vars
  BY NoTraceOfPage DEF Friendly
<1>2. QED
  BY <1>1, TypeCorrect, ListInvariance, PTL DEF Spec, EmbeddedLeavesNoTrace
=============================================================================
