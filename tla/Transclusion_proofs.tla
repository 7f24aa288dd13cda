------------------------ MODULE Transclusion_proofs ------------------------
(***************************************************************************)
(* Proofs about Transclusion, for any pages with any texts: the lineage    *)
(* names the calls that are open, and so, where links are spelled as       *)
(* encoder() would, no transclusion goes on for ever; and the one stack of *)
(* modes holds what is open in the calls, where the pages are well-formed. *)
(***************************************************************************)
EXTENDS Transclusion, NumberFacts, FiniteSetTheorems, SequenceTheorems, TLAPS

IInv == TypeOK /\ LineageIsCallStack

(* Moving on in the innermost call changes the page of none. *)
LEMMA MovedFacts ==
  ASSUME frames \in Seq(Frames), Len(frames) \in Nat \ {0},
         NEW at \in Nat \ {0}, NEW checked \in BOOLEAN
  PROVE  /\ Moved(at, checked) \in Seq(Frames)
         /\ Len(Moved(at, checked)) = Len(frames)
         /\ \A i \in 1..Len(frames) : Moved(at, checked)[i].page = frames[i].page
<1> DEFINE frame == [Top EXCEPT !.at = at, !.checked = checked]
<1>1. Len(frames) \in 1..Len(frames) /\ Top \in Frames
  BY DEF Top
<1>2. frame \in Frames /\ frame.page = Top.page
  BY <1>1 DEF Frames
<1>3. Moved(at, checked) = [frames EXCEPT ![Len(frames)] = frame]
  BY <1>1 DEF Moved, Top
<1> HIDE DEF frame
<1>4. QED
  BY <1>1, <1>2, <1>3, ExceptSeq DEF Top

LEMMA TopFacts ==
  ASSUME TypeOK
  PROVE  /\ Len(frames) \in 1..Len(frames)
         /\ Top.page \in Pages /\ Top.at \in Nat \ {0}
         /\ text[Top.page] \in Seq(Items)
<1>1. Len(frames) \in 1..Len(frames) /\ frames \in Seq(Frames)
  BY DEF TypeOK
<1>2. Top \in Frames
  BY <1>1, ElementOfSeq DEF Top
<1>3. Top.page \in Pages /\ Top.at \in Nat \ {0}
  BY <1>2 DEF Frames
<1>4. QED
  BY <1>1, <1>3 DEF TypeOK

(* Opening and closing modes leaves a stack of modes. *)
LEMMA AfterFacts ==
  ASSUME NEW modes \in Seq(Modes), NEW tag
  PROVE  After(modes, tag) \in Seq(Modes)
<1>1. CASE Closes(modes, tag)
  <2>1. SubSeq(modes, 1, Len(modes) - 1) \in Seq(Modes)
    BY SubSeqProperties, Len(modes) \in Nat
  <2>2. QED
    BY <1>1, <2>1 DEF After
<1>2. CASE ~Closes(modes, tag)
  BY <1>2 DEF After
<1>3. QED
  BY <1>1, <1>2

LEMMA InitIInv == Init => IInv
<1> SUFFICES ASSUME Init PROVE IInv
  OBVIOUS
<1>1. PICK page \in Existing : frames = <<Frame(page)>> /\ lineage = <<decoder(<<page, "encoded">>)>>
  BY DEF Init
<1>2. page \in Pages /\ Frame(page) \in Frames /\ Frame(page).page = page
  BY PagesAssumption DEF Frame, Frames
<1>3. decoder(<<page, "encoded">>) \in Names /\ decoder(<<page, "encoded">>)[1] = page
  BY <1>2 DEF decoder, Names
<1>4. TypeOK
  BY <1>1, <1>2, <1>3, TextsAssumption, DepthAssumption DEF Init, TypeOK
<1>5. LineageIsCallStack
  BY <1>1, <1>2, <1>3 DEF LineageIsCallStack, encoder
<1>6. QED
  BY <1>4, <1>5 DEF IInv

(* A step of the innermost call that stays in it. *)
LEMMA StayIInv ==
  ASSUME IInv, leaveOut \/ readTag \/ readRaw \/ skipLink \/ finish
  PROVE  /\ IInv'
         /\ Len(frames') = Len(frames) /\ UNCHANGED <<text, lineage>>
         /\ \A i \in 1..Len(frames) : frames'[i].page = frames[i].page
         /\ outcome' = "rendering" => outcome = "rendering"
         /\ outcome' # "overflow"
<1> USE DEF IInv
<1>1. UNCHANGED <<text, lineage>>
  BY DEF leaveOut, readTag, readRaw, skipLink, finish
<1>2. outcome = "rendering" /\ outcome' \in {"rendering", "rendered", "aborted", "undefined"}
  BY DEF leaveOut, readTag, readRaw, skipLink, finish, Parsing, Reading, ReadingLink
<1>3. mode' \in Seq(Modes)
  BY AfterFacts DEF TypeOK, leaveOut, readTag, readRaw, skipLink, finish
<1>4. frames' = frames \/ \E at \in Nat \ {0}, checked \in BOOLEAN : frames' = Moved(at, checked)
  <2>1. Top.at \in Nat \ {0} /\ Len(TextOf(Top)) \in Nat
    BY TopFacts DEF TextOf
  <2>2. \A i \in Ends : i + 1 \in Nat \ {0}
    BY <2>1 DEF Ends
  <2>3. CASE leaveOut
    BY <2>2, <2>3 DEF leaveOut, Skipped
  <2>4. CASE readTag \/ readRaw \/ skipLink
    <3>1. frames' = frames \/ frames' = Moved(Top.at + 1, FALSE)
      BY <2>4 DEF readTag, readRaw, skipLink, ToNext
    <3>2. Top.at + 1 \in Nat \ {0} /\ FALSE \in BOOLEAN
      BY <2>1
    <3>3. QED
      BY <3>1, <3>2
  <2>5. CASE finish
    BY <2>5 DEF finish
  <2>6. QED
    BY <2>3, <2>4, <2>5
<1>5. /\ frames' \in Seq(Frames) /\ Len(frames') = Len(frames)
      /\ \A i \in 1..Len(frames) : frames'[i].page = frames[i].page
  BY <1>4, MovedFacts DEF TypeOK
<1>6. TypeOK'
  BY <1>1, <1>2, <1>3, <1>5 DEF TypeOK
<1>7. LineageIsCallStack'
  BY <1>1, <1>2, <1>5 DEF LineageIsCallStack, encoder
<1>8. QED
  BY <1>1, <1>2, <1>5, <1>6, <1>7

(* The link that is read leads to a page. *)
LEMMA LinkFacts ==
  ASSUME IInv, ReadingLink
  PROVE  /\ outcome = "rendering"
         /\ Top.page \in Pages /\ Top.at \in 1..Len(text[Top.page])
         /\ Item = text[Top.page][Top.at]
         /\ Item.to \in Names
         /\ Item.to[1] \in Pages /\ encoder(Item.to) \in Names
<1>1. outcome = "rendering" /\ ~AtEnd /\ Item.item = "link"
  BY DEF ReadingLink, Reading, Parsing
<1>2. Top.page \in Pages /\ Top.at \in Nat \ {0}
  BY TopFacts DEF IInv
<1>3. text[Top.page] \in Seq(Items)
  BY TopFacts DEF IInv
<1>4. Top.at \in 1..Len(text[Top.page]) /\ Item = text[Top.page][Top.at]
  BY <1>1, <1>2, <1>3 DEF AtEnd, TextOf, Item
<1>5. Item \in Items
  BY <1>3, <1>4, ElementOfSeq
<1>6. Item.to \in Names
  BY <1>1, <1>5 DEF Items, Links, OpenTags, CloseTags
<1>7. Item.to[1] \in Pages /\ encoder(Item.to) \in Names
  BY <1>6 DEF Names, encoder
<1>8. QED
  BY <1>1, <1>2, <1>4, <1>6, <1>7

LEMMA TranscludeIInv ==
  ASSUME IInv, transclude
  PROVE  IInv'
<1> USE DEF IInv
<1> DEFINE to == encoder(Item.to)
           moved == Moved(Top.at + 1, FALSE)
<1>1. ReadingLink
  BY DEF transclude
<1>2. outcome = "rendering" /\ Top.at \in Nat /\ to \in Names /\ to[1] \in Pages /\ encoder(to) = <<to[1], "encoded">>
  BY <1>1, LinkFacts, TopFacts DEF encoder
<1>3. /\ moved \in Seq(Frames) /\ Len(moved) = Len(frames)
      /\ \A i \in 1..Len(frames) : moved[i].page = frames[i].page
  <2>1. frames \in Seq(Frames) /\ Len(frames) \in Nat \ {0} /\ Top.at + 1 \in Nat \ {0}
    BY <1>2 DEF TypeOK
  <2>2. QED
    BY <2>1, MovedFacts
<1>4. Frame(to[1]) \in Frames /\ Frame(to[1]).page = to[1]
  BY <1>2 DEF Frame, Frames
<1> HIDE DEF moved
<1>5. /\ lineage' = Append(lineage, to) /\ UNCHANGED <<text, mode>>
      /\ \/ frames' = Append(moved, Frame(to[1])) /\ Len(frames) < MaxDepth /\ outcome' = outcome
         \/ frames' = frames /\ outcome' \in {"undefined", "overflow"}
  BY DEF transclude, moved, TypeOK
<1> HIDE DEF to
<1>6. TypeOK'
  <2>1. lineage' \in Seq(Names)
    BY <1>2, <1>5 DEF TypeOK
  <2>2. frames' \in Seq(Frames) /\ Len(frames') \in 1..MaxDepth
    <3>1. Len(frames) \in 1..MaxDepth /\ frames \in Seq(Frames) /\ MaxDepth \in Nat
      BY DepthAssumption DEF TypeOK
    <3>2. CASE frames' = Append(moved, Frame(to[1])) /\ Len(frames) < MaxDepth
      <4>1. frames' \in Seq(Frames) /\ Len(frames') = Len(frames) + 1
        BY <1>3, <1>4, <3>2
      <4>2. QED
        BY <3>1, <3>2, <4>1
    <3>3. QED
      BY <1>5, <3>1, <3>2
  <2>3. outcome' \in {"rendering", "rendered", "aborted", "undefined", "overflow"}
    BY <1>2, <1>5
  <2>4. QED
    BY <1>5, <2>1, <2>2, <2>3 DEF TypeOK
<1>7. LineageIsCallStack'
  <2>1. CASE frames' = Append(moved, Frame(to[1])) /\ outcome' = outcome
    <3> SUFFICES ASSUME NEW i \in 1..Len(frames')
                 PROVE  encoder(lineage'[i]) = <<frames'[i].page, "encoded">>
      BY <1>2, <1>3, <1>5, <2>1 DEF LineageIsCallStack, TypeOK
    <3>1. Len(frames') = Len(frames) + 1 /\ Len(lineage) = Len(frames)
      BY <1>2, <1>3, <2>1 DEF LineageIsCallStack, TypeOK
    <3>2. CASE i = Len(frames) + 1
      BY <1>2, <1>3, <1>4, <1>5, <2>1, <3>1, <3>2 DEF TypeOK
    <3>3. CASE i \in 1..Len(frames)
      <4>1. frames'[i].page = frames[i].page /\ lineage'[i] = lineage[i]
        BY <1>3, <1>5, <2>1, <3>1, <3>3 DEF TypeOK
      <4>2. QED
        BY <1>2, <3>3, <4>1 DEF LineageIsCallStack, encoder
    <3>4. QED
      BY <3>1, <3>2, <3>3 DEF TypeOK
  <2>2. QED
    BY <1>5, <2>1 DEF LineageIsCallStack
<1>8. QED
  BY <1>6, <1>7

LEMMA ReturnIInv ==
  ASSUME IInv, embeddedReturns
  PROVE  /\ IInv' /\ UNCHANGED <<text, mode, outcome>>
         /\ Len(frames') = Len(frames) - 1 /\ Len(lineage') = Len(lineage) - 1
         /\ Len(frames) = Len(lineage)
         /\ \A i \in 1..Len(frames') : frames'[i] = frames[i] /\ lineage'[i] = lineage[i]
<1> USE DEF IInv
<1>1. /\ outcome = "rendering" /\ Len(frames) > 1 /\ UNCHANGED <<text, mode, outcome>>
      /\ frames' = SubSeq(frames, 1, Len(frames) - 1)
      /\ lineage' = SubSeq(lineage, 1, Len(lineage) - 1)
  BY DEF embeddedReturns, Embedded
<1>2. Len(lineage) = Len(frames) /\ Len(frames) \in Nat
  BY <1>1 DEF LineageIsCallStack, TypeOK
<1>3. /\ frames' \in Seq(Frames) /\ Len(frames') = Len(frames) - 1
      /\ \A i \in 1..Len(frames') : frames'[i] = frames[i]
  BY <1>1, <1>2, SubSeqProperties DEF TypeOK
<1>4. /\ lineage' \in Seq(Names) /\ Len(lineage') = Len(lineage) - 1
      /\ \A i \in 1..Len(lineage') : lineage'[i] = lineage[i]
  BY <1>1, <1>2, SubSeqProperties DEF TypeOK
<1>5. TypeOK'
  <2>1. Len(frames') \in 1..MaxDepth
    BY <1>1, <1>2, <1>3, DepthAssumption DEF TypeOK
  <2>2. QED
    BY <1>1, <1>3, <1>4, <2>1 DEF TypeOK
<1>6. LineageIsCallStack'
  BY <1>1, <1>2, <1>3, <1>4 DEF LineageIsCallStack, encoder
<1>7. QED
  BY <1>1, <1>2, <1>3, <1>4, <1>5, <1>6

(* Of any pages with any texts, all variables stay in their ranges, and the lineage names just *)
(* the pages whose calls of parse() are open.                                                  *)
THEOREM Invariance == Spec => []IInv
<1>1. IInv /\ [Next]_vars => IInv'
  <2> SUFFICES ASSUME IInv, [Next]_vars PROVE IInv'
    OBVIOUS
  <2>1. CASE leaveOut \/ readTag \/ readRaw \/ skipLink \/ finish
    BY <2>1, StayIInv
  <2>2. CASE transclude
    BY <2>2, TranscludeIInv
  <2>3. CASE embeddedReturns
    BY <2>3, ReturnIInv
  <2>4. CASE UNCHANGED vars
    BY <2>4 DEF vars, IInv, TypeOK, LineageIsCallStack, encoder
  <2>5. QED
    BY <2>1, <2>2, <2>3, <2>4 DEF Next
<1>2. QED
  BY InitIInv, <1>1, PTL DEF Spec

(* The lineage, which the circularity check looks at, is always the stack of calls. *)
THEOREM LineageNamesCalls == Spec => []LineageIsCallStack
BY Invariance, PTL DEF IInv

(* If all links are spelled as encoder() would, a page is transcluded only if no call for it *)
(* is open yet.                                                                              *)
LEMMA CallsDifferStep ==
  ASSUME LinksEncoded, IInv, CallsDiffer, [Next]_vars
  PROVE  CallsDiffer'
<1>1. CASE leaveOut \/ readTag \/ readRaw \/ skipLink \/ finish
  <2>1. /\ Len(frames') = Len(frames) /\ UNCHANGED <<text, lineage>>
        /\ \A i \in 1..Len(frames) : frames'[i].page = frames[i].page
        /\ outcome' = "rendering" => outcome = "rendering"
    BY <1>1, StayIInv
  <2>2. Len(frames) \in Nat
    BY DEF IInv, TypeOK
  <2>3. QED
    BY <2>1, <2>2 DEF CallsDiffer, encoder
<1>2. CASE transclude
  <2> DEFINE to == encoder(Item.to)
             moved == Moved(Top.at + 1, FALSE)
  <2>1. ReadingLink /\ ~InLineage(Item.to)
    BY <1>2 DEF transclude, IsText
  <2>2. /\ outcome = "rendering" /\ Top.page \in Pages /\ Top.at \in 1..Len(text[Top.page])
        /\ Item = text[Top.page][Top.at] /\ Item.to \in Names
    BY <2>1, LinkFacts
  <2>3. Item.to = to /\ ~InLineage(to) /\ to = <<to[1], "encoded">>
    <3>1. Item.item = "link"
      BY <2>1 DEF ReadingLink
    <3>2. Item.to = encoder(Item.to)
      BY <2>2, <3>1 DEF LinksEncoded, CallsDiffer
    <3>3. QED
      BY <2>1, <3>2 DEF encoder
  <2>4. /\ moved \in Seq(Frames) /\ Len(moved) = Len(frames)
        /\ \A i \in 1..Len(frames) : moved[i].page = frames[i].page
    <3>1. frames \in Seq(Frames) /\ Len(frames) \in Nat \ {0} /\ Top.at + 1 \in Nat \ {0}
      BY TopFacts DEF IInv, TypeOK
    <3>2. QED
      BY <3>1, MovedFacts
  <2> HIDE DEF moved
  <2>5. /\ lineage' = Append(lineage, to) /\ UNCHANGED <<text, mode>>
        /\ \/ frames' = Append(moved, Frame(to[1])) /\ to[1] \in Existing /\ outcome' = outcome
           \/ frames' = frames /\ outcome' \in {"undefined", "overflow"}
    BY <1>2 DEF transclude, moved, Found
  <2> HIDE DEF to
  <2>6. /\ Len(frames) = Len(lineage) /\ Len(frames) \in Nat /\ lineage \in Seq(Names)
        /\ \A i \in 1..Len(frames) : encoder(lineage[i]) = <<frames[i].page, "encoded">>
    BY <2>2 DEF IInv, TypeOK, LineageIsCallStack
  <2>7. \A i \in 2..Len(frames) : frames[i].page # to[1]
    BY <2>3, <2>6 DEF CallsDiffer, InLineage
  <2>8. \A i \in 2..Len(lineage') : lineage'[i] = encoder(lineage'[i])
    <3>1. encoder(to) = to
      BY <2>3 DEF encoder
    <3>2. \A i \in 2..Len(lineage) : lineage[i] = encoder(lineage[i]) /\ lineage'[i] = lineage[i]
      BY <2>5, <2>6 DEF CallsDiffer
    <3>3. Len(lineage') = Len(lineage) + 1 /\ lineage'[Len(lineage) + 1] = to
      BY <2>5, <2>6
    <3>4. QED
      BY <2>6, <3>1, <3>2, <3>3 DEF encoder
  <2>9. CASE frames' = frames /\ outcome' \in {"undefined", "overflow"}
    BY <2>5, <2>8, <2>9 DEF CallsDiffer
  <2>10. CASE frames' = Append(moved, Frame(to[1])) /\ to[1] \in Existing /\ outcome' = outcome
    <3>1. /\ Len(frames') = Len(frames) + 1 /\ frames'[Len(frames) + 1].page = to[1]
          /\ \A i \in 1..Len(frames) : frames'[i].page = frames[i].page
      BY <2>4, <2>6, <2>10 DEF Frame
    <3>2. \A i \in 1..Len(frames') : frames'[i].page \in Existing
      BY <2>6, <2>10, <3>1 DEF CallsDiffer
    <3>3. ASSUME NEW i \in 2..Len(frames'), NEW j \in 2..Len(frames'),
                 frames'[i].page = frames'[j].page
          PROVE  i = j
      <4>1. frames'[Len(frames) + 1].page = to[1]
        BY <3>1
      <4>2. CASE i \in 2..Len(frames) /\ j \in 2..Len(frames)
        <5>1. frames[i].page = frames[j].page
          BY <2>6, <3>1, <3>3, <4>2
        <5>2. QED
          BY <2>2, <4>2, <5>1 DEF CallsDiffer
      <4>3. CASE i = Len(frames) + 1 /\ j \in 2..Len(frames)
        BY <2>6, <2>7, <3>1, <3>3, <4>1, <4>3
      <4>4. CASE j = Len(frames) + 1 /\ i \in 2..Len(frames)
        BY <2>6, <2>7, <3>1, <3>3, <4>1, <4>4
      <4>5. QED
        <5>1. (i = Len(frames) + 1 \/ i \in 2..Len(frames)) /\ (j = Len(frames) + 1 \/ j \in 2..Len(frames))
          BY <2>6, <3>1
        <5>2. QED
          BY <4>2, <4>3, <4>4, <5>1
    <3>4. QED
      BY <2>5, <2>8, <3>2, <3>3 DEF CallsDiffer
  <2>11. QED
    BY <2>5, <2>9, <2>10
<1>3. CASE embeddedReturns
  <2>1. /\ UNCHANGED <<text, mode, outcome>>
        /\ Len(frames') = Len(frames) - 1 /\ Len(lineage') = Len(lineage) - 1
        /\ Len(frames) = Len(lineage)
        /\ \A i \in 1..Len(frames') : frames'[i] = frames[i] /\ lineage'[i] = lineage[i]
    BY <1>3, ReturnIInv
  <2>2. Len(frames) \in Nat /\ Len(frames') \in Nat
    BY <2>1, ReturnIInv, <1>3 DEF IInv, TypeOK
  <2>3. \A i \in 1..Len(frames') : frames'[i].page \in Existing
    BY <2>1, <2>2 DEF CallsDiffer
  <2>4. \A i \in 2..Len(lineage') : lineage'[i] = encoder(lineage'[i])
    BY <2>1, <2>2 DEF CallsDiffer, encoder
  <2>5. outcome = "rendering" => \A i, j \in 2..Len(frames') : frames'[i].page = frames'[j].page => i = j
    BY <2>1, <2>2 DEF CallsDiffer
  <2>6. QED
    BY <2>1, <2>3, <2>4, <2>5 DEF CallsDiffer, encoder
<1>4. CASE UNCHANGED vars
  BY <1>4 DEF vars, CallsDiffer, encoder
<1>5. QED
  BY <1>1, <1>2, <1>3, <1>4 DEF Next

(* Calls for different pages that exist, and the first: no more than there are pages and one. *)
LEMMA StackSuffices ==
  ASSUME LinksEncoded, Cardinality(Existing) < MaxDepth, IInv, CallsDiffer,
         outcome # "overflow", [Next]_vars
  PROVE  outcome' # "overflow"
<1> SUFFICES ASSUME outcome' = "overflow" PROVE FALSE
  OBVIOUS
<1> DEFINE to == encoder(Item.to)
<1>1. transclude
  BY StayIInv, ReturnIInv DEF Next, vars
<1>2. to[1] \in Existing /\ Len(frames) = MaxDepth /\ ReadingLink /\ ~InLineage(Item.to) /\ outcome = "rendering"
  BY <1>1, LinkFacts DEF transclude, Found, IsText
<1>3. /\ Top.page \in Pages /\ Top.at \in 1..Len(text[Top.page]) /\ Item = text[Top.page][Top.at]
  BY <1>2, LinkFacts
<1>4. Item.to = to /\ to = <<to[1], "encoded">>
  BY <1>2, <1>3 DEF LinksEncoded, CallsDiffer, ReadingLink, encoder
<1> HIDE DEF to
<1>5. /\ Len(lineage) = MaxDepth /\ MaxDepth \in Nat \ {0}
      /\ \A i \in 1..MaxDepth : encoder(lineage[i]) = <<frames[i].page, "encoded">>
  BY <1>2, DepthAssumption DEF IInv, LineageIsCallStack
<1>6. \A i \in 2..MaxDepth : frames[i].page # to[1]
  BY <1>2, <1>4, <1>5 DEF CallsDiffer, InLineage
<1> DEFINE page == [i \in 1..MaxDepth |-> IF i = 1 THEN to[1] ELSE frames[i].page]
<1>7. page \in [1..MaxDepth -> Existing]
  BY <1>2, <1>5 DEF CallsDiffer
<1>8. IsFiniteSet(1..MaxDepth) /\ Cardinality(1..MaxDepth) = MaxDepth
  BY <1>5, FS_Interval
<1>9. IsFiniteSet(Existing)
  BY PagesAssumption, FS_Subset
<1> HIDE DEF page
<1>10. PICK i \in 1..MaxDepth, j \in 1..MaxDepth : i # j /\ page[i] = page[j]
  BY <1>7, <1>8, <1>9, FS_PigeonHole
<1>11. QED
  BY <1>2, <1>5, <1>6, <1>10 DEF page, CallsDiffer

(* If all links are spelled as encoder() would, and the stack has room for one call more than *)
(* there are pages, every circular transclusion is found: whatever the texts, none overflows. *)
THEOREM CircularFound ==
  ASSUME LinksEncoded, Cardinality(Existing) < MaxDepth
  PROVE  Spec => []CircularStops
<1> DEFINE Inv == CallsDiffer /\ CircularStops
<1>1. Init => Inv
  <2> SUFFICES ASSUME Init PROVE Inv
    OBVIOUS
  <2>1. PICK page \in Existing : frames = <<Frame(page)>> /\ lineage = <<decoder(<<page, "encoded">>)>>
    BY DEF Init
  <2>2. Len(frames) = 1 /\ Len(lineage) = 1 /\ frames[1].page = page
    BY <2>1 DEF Frame
  <2>3. QED
    BY <2>2 DEF Init, CallsDiffer, CircularStops, encoder
<1>2. IInv /\ Inv /\ [Next]_vars => Inv'
  BY CallsDifferStep, StackSuffices DEF CircularStops
<1>3. QED
  BY <1>1, <1>2, Invariance, PTL DEF Spec
-----------------------------------------------------------------------------
(* What tags do to a stack of modes *)

LEMMA ItemTypes ==
  ASSUME NEW x \in Items
  PROVE  /\ x.item \in {"link", "open", "close"}
         /\ x.item # "link" => x.mode \in Modes /\ x.mode # "normal"
         /\ \A m : x.item = "close" /\ x.mode = m => x = [item |-> "close", mode |-> m]
<1>1. Tags \subseteq Modes
  BY TextsAssumption
<1>2. CASE x \in Links
  BY <1>2 DEF Links
<1>3. CASE x \in OpenTags
  BY <1>1, <1>3 DEF OpenTags, Modes
<1>4. CASE x \in CloseTags
  BY <1>1, <1>4 DEF CloseTags, Modes
<1>5. QED
  BY <1>2, <1>3, <1>4 DEF Items

LEMMA AfterItem ==
  ASSUME NEW q \in Seq(Modes), NEW x \in Items
  PROVE  /\ x.item = "link" => After(q, x) = q
         /\ x.item = "open" => After(q, x) = Append(q, x.mode)
         /\ Closes(q, x) => After(q, x) = SubSeq(q, 1, Len(q) - 1)
  BY ItemTypes DEF After, Closes

(* A stack without the mode on top. *)
LEMMA FrontFacts ==
  ASSUME NEW q \in Seq(Modes), q # <<>>
  PROVE  /\ Len(q) \in Nat \ {0}
         /\ SubSeq(q, 1, Len(q) - 1) \in Seq(Modes)
         /\ Len(SubSeq(q, 1, Len(q) - 1)) = Len(q) - 1
         /\ \A i \in 1..(Len(q) - 1) : SubSeq(q, 1, Len(q) - 1)[i] = q[i]
<1>1. Len(q) \in Nat \ {0}
  OBVIOUS
<1>2. SubSeq(q, 1, Len(q) - 1) \in Seq(Modes) /\ Len(SubSeq(q, 1, Len(q) - 1)) = Len(q) - 1
  <2>1. Len(q) - 1 \in 0..Len(q) /\ (Len(q) - 1) - 1 + 1 = Len(q) - 1
    BY <1>1
  <2>2. SubSeq(q, 1, Len(q) - 1) \in Seq(Modes)
    BY <2>1, SubSeqProperties
  <2>3. Len(SubSeq(q, 1, Len(q) - 1)) = Len(q) - 1
    BY <1>1, <2>1
  <2>4. QED
    BY <2>2, <2>3
<1>3. \A i \in 1..(Len(q) - 1) : SubSeq(q, 1, Len(q) - 1)[i] = q[i]
  BY <1>1
<1>4. QED
  BY <1>1, <1>2, <1>3

(* Whatever closes a mode closes the one on top. *)
LEMMA CloseFacts ==
  ASSUME NEW q \in Seq(Modes), NEW x, Closes(q, x), x.mode \in Modes, x.mode # "normal"
  PROVE  /\ Len(q) \in Nat \ {0} /\ q # <<>> /\ q[Len(q)] = x.mode
         /\ SubSeq(q, 1, Len(q) - 1) \in Seq(Modes)
         /\ Len(SubSeq(q, 1, Len(q) - 1)) = Len(q) - 1
         /\ \A i \in 1..(Len(q) - 1) : SubSeq(q, 1, Len(q) - 1)[i] = q[i]
<1>1. q # <<>> /\ q[Len(q)] = x.mode
  BY DEF Closes, Current
<1>2. QED
  BY <1>1, FrontFacts, Zenon

(* A stack that stands on another. *)
LEMMA OnTop ==
  ASSUME NEW base \in Seq(Modes), NEW own \in Seq(Modes), NEW x \in Items,
         Stackable(base), ~Complains(own, x), x.item = "close" => Closes(own, x)
  PROVE  /\ base \o own \in Seq(Modes)
         /\ After(base \o own, x) = base \o After(own, x)
         /\ ~Complains(base \o own, x)
<1>1. base \o own \in Seq(Modes) /\ Len(base \o own) = Len(base) + Len(own) /\ Len(base) \in Nat /\ Len(own) \in Nat
  BY ConcatProperties
<1>2. own # <<>> => base \o own # <<>> /\ Current(base \o own) = Current(own)
  <2>1. SUFFICES ASSUME own # <<>> PROVE base \o own # <<>> /\ Current(base \o own) = Current(own)
    OBVIOUS
  <2>2. Len(own) \in Nat \ {0}
    BY <2>1
  <2>3. (base \o own)[Len(base) + Len(own)] = own[Len(own)] /\ base \o own # <<>>
    BY <1>1, <2>2
  <2>4. QED
    BY <1>1, <2>1, <2>3 DEF Current
<1>3. own = <<>> => base \o own = base
  OBVIOUS
<1>4. x.item = "close" => Closes(base \o own, x) /\ own # <<>>
  <2>1. SUFFICES ASSUME x.item = "close" PROVE Closes(base \o own, x) /\ own # <<>>
    OBVIOUS
  <2>2. x.mode \in Modes /\ x.mode # "normal"
    BY <2>1, ItemTypes
  <2>3. own # <<>>
    BY <2>1, <2>2 DEF Closes, Current
  <2>4. QED
    BY <1>2, <2>1, <2>3 DEF Closes
<1>5. ~Complains(base \o own, x)
  BY <1>2, <1>3, <1>4 DEF Complains, Closes, Stackable
<1>6. After(base \o own, x) = base \o After(own, x)
  <2>1. CASE x.item = "link"
    BY <1>1, <2>1, AfterItem
  <2>2. CASE x.item = "open"
    <3>1. After(base \o own, x) = Append(base \o own, x.mode) /\ After(own, x) = Append(own, x.mode)
      BY <1>1, <2>2, AfterItem
    <3>2. x.mode \in Modes
      BY <2>2, ItemTypes
    <3>3. Append(base \o own, x.mode) = base \o Append(own, x.mode)
      BY <1>1, <3>2
    <3>4. QED
      BY <3>1, <3>3
  <2>3. CASE x.item = "close"
    <3>1. /\ After(base \o own, x) = SubSeq(base \o own, 1, Len(base \o own) - 1)
          /\ After(own, x) = SubSeq(own, 1, Len(own) - 1)
      BY <1>1, <1>4, <2>3, AfterItem
    <3>2. Len(own) \in Nat \ {0}
      BY <1>4, <2>3
    <3>3. SubSeq(base \o own, 1, Len(base \o own) - 1) = base \o SubSeq(own, 1, Len(own) - 1)
      BY <1>1, <3>2
    <3>4. QED
      BY <3>1, <3>3
  <2>4. QED
    BY <2>1, <2>2, <2>3, ItemTypes
<1>7. QED
  BY <1>1, <1>5, <1>6

-----------------------------------------------------------------------------
(* What is open after the items of a text *)

LEMMA OpenAfterEquation ==
  ASSUME NEW t \in Seq(Items)
  PROVE  /\ OpenAfter(t) \in [0..Len(t) -> Seq(Modes)]
         /\ OpenAfter(t)[0] = <<>>
         /\ \A n \in 1..Len(t) : OpenAfter(t)[n] = After(OpenAfter(t)[n - 1], t[n])
<1> DEFINE X == Seq(Modes)
           step == [n \in 1..Len(t) |-> [q \in X |-> After(q, t[n])]]
<1>1. Len(t) \in Nat /\ <<>> \in X
  OBVIOUS
<1>2. step \in Steps(X, Len(t))
  BY AfterFacts DEF Steps
<1>3. \A n \in 1..Len(t), q \in X : step[n][q] = After(q, t[n])
  OBVIOUS
<1> HIDE DEF X, step
<1>4. PICK f : Recursive(f, X, <<>>, Len(t), step)
  BY <1>1, <1>2, Recursion, Zenon
<1>5. /\ f \in [0..Len(t) -> X] /\ f[0] = <<>>
      /\ \A n \in 1..Len(t) : f[n] = step[n][f[n - 1]]
  BY <1>4 DEF Recursive
<1>6. \A n \in 1..Len(t) : f[n] = After(f[n - 1], t[n])
  BY <1>1, <1>3, <1>5
<1>7. f = [n \in 0..Len(t) |-> IF n = 0 THEN <<>> ELSE After(f[n - 1], t[n])]
  BY <1>1, <1>5, <1>6
<1> DEFINE g == CHOOSE open : open = [n \in 0..Len(t) |-> IF n = 0 THEN <<>> ELSE After(open[n - 1], t[n])]
<1>8. g = [n \in 0..Len(t) |-> IF n = 0 THEN <<>> ELSE After(g[n - 1], t[n])]
  BY <1>7, Zenon
<1>9. OpenAfter(t) = g
  BY Zenon DEF OpenAfter
<1> HIDE DEF g
<1>10. g[0] = <<>> /\ \A n \in 1..Len(t) : g[n] = After(g[n - 1], t[n])
  BY <1>1, <1>8
<1>11. DOMAIN g = 0..Len(t) /\ g = [n \in 0..Len(t) |-> g[n]]
  <2>1. DOMAIN g = 0..Len(t)
    BY <1>8
  <2>2. QED
    BY <1>8, <2>1
<1>12. \A n \in 0..Len(t) : g[n] \in X
  <2> DEFINE P == {n \in 0..Len(t) : g[n] \in X}
  <2>1. 0 \in P
    BY <1>1, <1>10
  <2>2. ASSUME NEW n \in 0..(Len(t) - 1), n \in P PROVE n + 1 \in P
    <3>1. n + 1 \in 1..Len(t) /\ (n + 1) - 1 = n
      BY <1>1
    <3>2. g[n + 1] = After(g[n], t[n + 1])
      BY <1>10, <3>1
    <3>3. g[n] \in Seq(Modes)
      BY <2>2 DEF X
    <3>4. QED
      BY <3>1, <3>2, <3>3, AfterFacts DEF X
  <2> HIDE DEF P
  <2>3. \A n \in 0..Len(t) : n \in P
    BY <1>1, <2>1, <2>2, Upwards
  <2>4. QED
    BY <2>3 DEF P
<1>13. QED
  BY <1>9, <1>10, <1>11, <1>12 DEF X

(* The parts of being well-formed, one item at a time. *)
LEMMA WellFormedFacts ==
  ASSUME NEW t \in Seq(Items), WellFormed(t)
  PROVE  /\ OpenAfter(t)[Len(t)] = <<>>
         /\ \A n \in 1..Len(t) :
              /\ t[n].item = "open" => ~Is(OpenAfter(t)[n - 1], t[n].mode)
              /\ t[n].item = "close" => Closes(OpenAfter(t)[n - 1], t[n])
              /\ ~Complains(OpenAfter(t)[n - 1], t[n])
  BY Zenon DEF WellFormed

(* One more item: a link leaves what is open, a tag adds its mode, or takes off the mode on top. *)
LEMMA OneItem ==
  ASSUME NEW t \in Seq(Items), WellFormed(t), NEW n \in 1..Len(t)
  PROVE  LET q == OpenAfter(t)[n - 1]
             r == OpenAfter(t)[n]
         IN /\ q \in Seq(Modes) /\ r \in Seq(Modes) /\ r = After(q, t[n])
            /\ \/ t[n].item = "link" /\ r = q
               \/ t[n].item = "open" /\ ~Is(q, t[n].mode) /\ r = Append(q, t[n].mode)
               \/ /\ t[n].item = "close" /\ Closes(q, t[n]) /\ Len(q) \in Nat \ {0} /\ q[Len(q)] = t[n].mode
                  /\ Len(r) = Len(q) - 1 /\ \A i \in 1..(Len(q) - 1) : r[i] = q[i]
<1>0. PICK q, r : q = OpenAfter(t)[n - 1] /\ r = OpenAfter(t)[n]
  OBVIOUS
<1>1. t[n] \in Items /\ n - 1 \in 0..Len(t) /\ n \in 0..Len(t)
  OBVIOUS
<1>2. q \in Seq(Modes) /\ r \in Seq(Modes) /\ r = After(q, t[n])
  BY <1>0, <1>1, OpenAfterEquation
<1>3. /\ t[n].item = "open" => ~Is(q, t[n].mode)
      /\ t[n].item = "close" => Closes(q, t[n])
  BY <1>0, WellFormedFacts
<1>4. CASE t[n].item = "link"
  BY <1>0, <1>1, <1>2, <1>4, AfterItem
<1>5. CASE t[n].item = "open"
  BY <1>0, <1>1, <1>2, <1>3, <1>5, AfterItem
<1>6. CASE t[n].item = "close"
  <2>1. t[n].mode \in Modes /\ t[n].mode # "normal"
    BY <1>1, <1>6, ItemTypes
  <2>2. r = SubSeq(q, 1, Len(q) - 1)
    BY <1>1, <1>2, <1>3, <1>6, AfterItem
  <2>3. /\ Len(q) \in Nat \ {0} /\ q[Len(q)] = t[n].mode
        /\ Len(r) = Len(q) - 1 /\ \A i \in 1..(Len(q) - 1) : r[i] = q[i]
    BY <1>2, <1>3, <1>6, <2>1, <2>2, CloseFacts, Zenon
  <2>4. QED
    BY <1>0, <1>2, <1>3, <1>6, <2>3
<1>7. QED
  BY <1>1, <1>4, <1>5, <1>6, ItemTypes

(* No mode is open twice. *)
Distinct(q) == \A i, j \in 1..Len(q) : q[i] = q[j] => i = j

LEMMA OpenOnce ==
  ASSUME NEW t \in Seq(Items), WellFormed(t)
  PROVE  \A n \in 0..Len(t) : Distinct(OpenAfter(t)[n])
<1> DEFINE P == {n \in 0..Len(t) : Distinct(OpenAfter(t)[n])}
<1>1. 0 \in P /\ Len(t) \in Nat
  BY OpenAfterEquation DEF Distinct
<1>2. ASSUME NEW n \in 0..(Len(t) - 1), n \in P PROVE n + 1 \in P
  <2>1. n + 1 \in 1..Len(t) /\ (n + 1) - 1 = n
    BY <1>1
  <2>2. PICK q, r : q = OpenAfter(t)[n] /\ r = OpenAfter(t)[n + 1]
    OBVIOUS
  <2>3. /\ q \in Seq(Modes) /\ r \in Seq(Modes)
        /\ \/ r = q
           \/ ~Is(q, t[n + 1].mode) /\ r = Append(q, t[n + 1].mode)
           \/ /\ Len(q) \in Nat \ {0}
              /\ Len(r) = Len(q) - 1 /\ \A i \in 1..(Len(q) - 1) : r[i] = q[i]
    BY <2>1, <2>2, OneItem
  <2>4. Distinct(q)
    BY <1>2, <2>2
  <2>5. Distinct(r)
    <3>1. CASE r = q
      BY <2>4, <3>1
    <3>2. CASE ~Is(q, t[n + 1].mode) /\ r = Append(q, t[n + 1].mode)
      <4>1. /\ Len(q) \in Nat /\ Len(r) = Len(q) + 1 /\ r[Len(q) + 1] = t[n + 1].mode
            /\ \A i \in 1..Len(q) : r[i] = q[i] /\ q[i] # t[n + 1].mode
        BY <2>3, <3>2 DEF Is
      <4>2. QED
        BY <2>4, <4>1 DEF Distinct
    <3>3. CASE /\ Len(q) \in Nat \ {0}
               /\ Len(r) = Len(q) - 1 /\ \A i \in 1..(Len(q) - 1) : r[i] = q[i]
      BY <2>4, <3>3 DEF Distinct
    <3>4. QED
      BY <2>3, <3>1, <3>2, <3>3
  <2>6. QED
    BY <2>1, <2>2, <2>5
<1> HIDE DEF P
<1>3. \A n \in 0..Len(t) : n \in P
  BY <1>1, <1>2, Upwards
<1>4. QED
  BY <1>3 DEF P

(* What is open stays open, below all that is opened later, till its mode is closed. *)
Below(q, r) == Len(q) <= Len(r) /\ \A i \in 1..Len(q) : r[i] = q[i]

LEMMA StaysBelow ==
  ASSUME NEW t \in Seq(Items), WellFormed(t),
         NEW first \in 0..Len(t), NEW last \in first..Len(t), NEW q, q = OpenAfter(t)[first],
         q # <<>>, \A i \in (first + 1)..last : t[i] # [item |-> "close", mode |-> q[Len(q)]]
  PROVE  Below(q, OpenAfter(t)[last])
<1> DEFINE P == {n \in 0..(last - first) : Below(q, OpenAfter(t)[first + n])}
<1>0. q \in Seq(Modes) /\ Len(q) \in Nat \ {0} /\ Len(t) \in Nat
  <2>1. q \in Seq(Modes)
    BY OpenAfterEquation
  <2>2. QED
    BY <2>1
<1>1. 0 \in P /\ last - first \in Nat
  <2>1. first + 0 = first /\ 0 \in 0..(last - first) /\ last - first \in Nat
    OBVIOUS
  <2>2. Below(q, OpenAfter(t)[first + 0])
    BY <1>0, <2>1 DEF Below
  <2>3. QED
    BY <2>1, <2>2
<1>2. ASSUME NEW n \in 0..((last - first) - 1), n \in P PROVE n + 1 \in P
  <2>1. PICK k \in 1..Len(t) : k = first + (n + 1)
    BY <1>0
  <2>2. k - 1 = first + n /\ k \in (first + 1)..last
    BY <1>0, <2>1
  <2>3. PICK p, r : p = OpenAfter(t)[k - 1] /\ r = OpenAfter(t)[k]
    OBVIOUS
  <2>4. t[k] \in Items
    BY <2>1
  <2>5. /\ p \in Seq(Modes) /\ r \in Seq(Modes)
        /\ \/ r = p
           \/ r = Append(p, t[k].mode)
           \/ /\ t[k].item = "close" /\ Len(p) \in Nat \ {0} /\ p[Len(p)] = t[k].mode
              /\ Len(r) = Len(p) - 1 /\ \A i \in 1..(Len(p) - 1) : r[i] = p[i]
    BY <2>1, <2>3, OneItem
  <2>6. Below(q, p)
    BY <1>2, <2>2, <2>3
  <2>7. Below(q, r)
    <3>1. CASE r = p
      BY <2>6, <3>1
    <3>2. CASE r = Append(p, t[k].mode)
      BY <1>0, <2>5, <2>6, <3>2 DEF Below
    <3>3. CASE /\ t[k].item = "close" /\ Len(p) \in Nat \ {0} /\ p[Len(p)] = t[k].mode
               /\ Len(r) = Len(p) - 1 /\ \A i \in 1..(Len(p) - 1) : r[i] = p[i]
      <4>1. Len(p) # Len(q)
        <5>1. SUFFICES ASSUME Len(p) = Len(q) PROVE FALSE
          OBVIOUS
        <5>2. t[k].mode = q[Len(q)]
          BY <1>0, <2>6, <3>3, <5>1 DEF Below
        <5>3. t[k] = [item |-> "close", mode |-> q[Len(q)]]
          BY <2>4, <3>3, <5>2, ItemTypes
        <5>4. QED
          BY <2>2, <5>3
      <4>2. QED
        BY <1>0, <2>6, <3>3, <4>1 DEF Below
    <3>4. QED
      BY <2>5, <3>1, <3>2, <3>3
  <2>8. QED
    BY <1>1, <2>1, <2>3, <2>7
<1> HIDE DEF P
<1>3. last - first \in P
  <2>1. \A n \in 0..(last - first) : n \in P
    BY <1>1, <1>2, Upwards
  <2>2. last - first \in 0..(last - first)
    BY <1>1
  <2>3. QED
    BY <2>1, <2>2
<1>4. first + (last - first) = last
  OBVIOUS
<1>5. QED
  BY <1>3, <1>4 DEF P

(* The first closing tag of the mode on top closes it, and leaves what was below it. *)
LEMMA ClosedBehind ==
  ASSUME NEW t \in Seq(Items), WellFormed(t), NEW first \in 0..Len(t), OpenAfter(t)[first] # <<>>
  PROVE  LET q == OpenAfter(t)[first]
             ends == {i \in (first + 1)..Len(t) : t[i] = [item |-> "close", mode |-> q[Len(q)]]}
         IN /\ ends # {}
            /\ \A e \in ends : (\A i \in ends : e <= i) => OpenAfter(t)[e] = SubSeq(q, 1, Len(q) - 1)
<1> PICK q : q = OpenAfter(t)[first]
  OBVIOUS
<1> PICK ends : ends = {i \in (first + 1)..Len(t) : t[i] = [item |-> "close", mode |-> q[Len(q)]]}
  OBVIOUS
<1>0. q \in Seq(Modes) /\ Len(q) \in Nat \ {0} /\ Len(t) \in Nat
  <2>1. q \in Seq(Modes)
    BY OpenAfterEquation
  <2>2. QED
    BY <2>1
<1>1. ends # {}
  <2>1. SUFFICES ASSUME ends = {} PROVE FALSE
    OBVIOUS
  <2>2. Below(q, OpenAfter(t)[Len(t)])
    <3>1. Len(t) \in first..Len(t)
      BY <1>0
    <3>2. \A i \in (first + 1)..Len(t) : t[i] # [item |-> "close", mode |-> q[Len(q)]]
      BY <2>1
    <3>3. QED
      BY <3>1, <3>2, StaysBelow
  <2>3. OpenAfter(t)[Len(t)] = <<>>
    BY WellFormedFacts
  <2>4. QED
    BY <1>0, <2>2, <2>3 DEF Below
<1>2. ASSUME NEW e \in ends, \A i \in ends : e <= i
      PROVE  OpenAfter(t)[e] = SubSeq(q, 1, Len(q) - 1)
  <2>1. e \in (first + 1)..Len(t) /\ t[e] = [item |-> "close", mode |-> q[Len(q)]]
    OBVIOUS
  <2>2. e \in 1..Len(t) /\ e - 1 \in first..Len(t) /\ e - 1 \in 0..Len(t)
    BY <1>0, <2>1
  <2>3. PICK p, r : p = OpenAfter(t)[e - 1] /\ r = OpenAfter(t)[e]
    OBVIOUS
  <2>4. Below(q, p)
    <3>1. \A i \in (first + 1)..(e - 1) : t[i] # [item |-> "close", mode |-> q[Len(q)]]
      BY <1>0, <1>2, <2>1
    <3>2. QED
      BY <2>2, <2>3, <3>1, StaysBelow
  <2>5. t[e].item = "close" /\ t[e].mode = q[Len(q)]
    BY <2>1
  <2>6. /\ p \in Seq(Modes) /\ r \in Seq(Modes) /\ Len(p) \in Nat \ {0} /\ p[Len(p)] = q[Len(q)]
        /\ Len(r) = Len(p) - 1 /\ \A i \in 1..(Len(p) - 1) : r[i] = p[i]
    BY <2>2, <2>3, <2>5, OneItem
  <2>7. Distinct(p)
    BY <2>2, <2>3, OpenOnce
  <2>8. Len(p) = Len(q)
    <3>1. Len(q) \in 1..Len(p) /\ Len(p) \in 1..Len(p) /\ Len(q) \in 1..Len(q)
      BY <1>0, <2>4, <2>6 DEF Below
    <3>2. p[Len(q)] = q[Len(q)]
      BY <2>4, <3>1 DEF Below
    <3>3. QED
      BY <2>6, <2>7, <3>1, <3>2 DEF Distinct
  <2>9. Len(r) = Len(q) - 1 /\ \A i \in 1..(Len(q) - 1) : r[i] = q[i]
    BY <1>0, <2>4, <2>6, <2>8 DEF Below
  <2>10. r = SubSeq(q, 1, Len(q) - 1)
    BY <1>0, <2>6, <2>9
  <2>11. QED
    BY <2>3, <2>10
<1>3. QED
  BY <1>1, <1>2

-----------------------------------------------------------------------------
(* The stacks of several calls, one on top of the other *)

LEMMA JoinedEquation ==
  ASSUME NEW stacks, NEW n \in Nat, Len(stacks) = n, \A i \in 1..n : stacks[i] \in Seq(Modes)
  PROVE  /\ \A i \in 0..n : Joined(stacks)[i] \in Seq(Modes)
         /\ Joined(stacks)[0] = <<>>
         /\ \A i \in 1..n : Joined(stacks)[i] = Joined(stacks)[i - 1] \o stacks[i]
<1> DEFINE X == Seq(Modes)
           next(i, q) == q \o stacks[i]
           step == [i \in 1..n |-> [q \in X |-> next(i, q)]]
           up == Joined(stacks)
<1>1. \A i \in 1..n, q \in X : next(i, q) \in X
  BY ConcatProperties
<1>2. <<>> \in X
  OBVIOUS
<1> HIDE DEF X, next
<1>3. step \in Steps(X, n)
  BY <1>1 DEF Steps
<1>4. \A i \in 1..n, q \in X : step[i][q] = next(i, q)
  OBVIOUS
<1> HIDE DEF step
<1>5. PICK f : Recursive(f, X, <<>>, n, step)
  BY <1>2, <1>3, Recursion, Zenon
<1>6. f \in [0..n -> X] /\ f[0] = <<>> /\ \A i \in 1..n : f[i - 1] \in X /\ f[i] = next(i, f[i - 1])
  <2>1. f \in [0..n -> X] /\ f[0] = <<>> /\ \A i \in 1..n : f[i] = step[i][f[i - 1]]
    BY <1>5, Zenon DEF Recursive
  <2>2. \A i \in 1..n : i - 1 \in 0..n
    OBVIOUS
  <2>3. \A i \in 1..n : f[i - 1] \in X
    BY <2>1, <2>2
  <2>4. \A i \in 1..n : f[i] = next(i, f[i - 1])
    BY <1>4, <2>1, <2>3, Zenon
  <2>5. QED
    BY <2>1, <2>3, <2>4
<1>7. f = [i \in 0..n |-> IF i = 0 THEN <<>> ELSE next(i, f[i - 1])]
  <2>1. \A i \in 0..n : i # 0 => i \in 1..n
    OBVIOUS
  <2>2. \A i \in 0..n : f[i] = IF i = 0 THEN <<>> ELSE next(i, f[i - 1])
    BY <1>6, <2>1
  <2>3. QED
    BY <1>6, <2>2
<1>8. up = [i \in 0..n |-> IF i = 0 THEN <<>> ELSE next(i, up[i - 1])]
  BY <1>7, Zenon DEF Joined, next
<1> HIDE DEF up
<1>9. up[0] = <<>> /\ \A i \in 1..n : up[i] = next(i, up[i - 1])
  BY <1>8
<1>10. \A i \in 0..n : up[i] \in X
  <2> DEFINE P == {i \in 0..n : up[i] \in X}
  <2>1. 0 \in P
    BY <1>2, <1>9
  <2>2. ASSUME NEW i \in 0..(n - 1), i \in P PROVE i + 1 \in P
    BY <1>1, <1>9, <2>2
  <2> HIDE DEF P
  <2>3. \A i \in 0..n : i \in P
    BY <2>1, <2>2, Upwards
  <2>4. QED
    BY <2>3 DEF P
<1>11. QED
  BY <1>9, <1>10 DEF up, X, next

(* What the first calls have open does not depend on those after them. *)
StackList(stacks) == Len(stacks) \in Nat /\ \A i \in 1..Len(stacks) : stacks[i] \in Seq(Modes)
Alike(stacks, others, n) ==
  n \in Nat /\ n <= Len(stacks) /\ n <= Len(others) /\ \A i \in 1..n : stacks[i] = others[i]
LEMMA JoinedSame ==
  ASSUME NEW stacks, StackList(stacks), NEW others, StackList(others), NEW n, Alike(stacks, others, n)
  PROVE  \A i \in 0..n : Joined(stacks)[i] = Joined(others)[i]
<1> USE DEF StackList, Alike
<1> DEFINE P == {i \in 0..n : Joined(stacks)[i] = Joined(others)[i]}
<1> PICK m, k : m = Len(stacks) /\ k = Len(others)
  OBVIOUS
<1>1. /\ Joined(stacks)[0] = Joined(others)[0]
      /\ \A i \in 1..m : Joined(stacks)[i] = Joined(stacks)[i - 1] \o stacks[i]
      /\ \A i \in 1..k : Joined(others)[i] = Joined(others)[i - 1] \o others[i]
  <2>1. Joined(stacks)[0] = <<>> /\ \A i \in 1..m : Joined(stacks)[i] = Joined(stacks)[i - 1] \o stacks[i]
    BY JoinedEquation
  <2>2. Joined(others)[0] = <<>> /\ \A i \in 1..k : Joined(others)[i] = Joined(others)[i - 1] \o others[i]
    BY JoinedEquation
  <2>3. QED
    BY <2>1, <2>2
<1>2. 0 \in P
  BY <1>1
<1>3. ASSUME NEW i \in 0..(n - 1), i \in P PROVE i + 1 \in P
  <2>1. i + 1 \in 1..n /\ (i + 1) - 1 = i /\ i + 1 \in 1..m /\ i + 1 \in 1..k
    OBVIOUS
  <2>2. PICK j : j = i + 1
    OBVIOUS
  <2>3. Joined(stacks)[j] = Joined(stacks)[i] \o stacks[j]
    BY <1>1, <2>1, <2>2
  <2>4. Joined(others)[j] = Joined(others)[i] \o others[j]
    BY <1>1, <2>1, <2>2
  <2>5. stacks[j] = others[j] /\ Joined(stacks)[i] = Joined(others)[i]
    BY <1>3, <2>1, <2>2
  <2>6. Joined(stacks)[j] = Joined(others)[j]
    BY <2>3, <2>4, <2>5
  <2>7. QED
    BY <2>1, <2>2, <2>6
<1> HIDE DEF P
<1>4. \A i \in 0..n : i \in P
  BY <1>2, <1>3, Upwards
<1>5. QED
  BY <1>4 DEF P

-----------------------------------------------------------------------------
(* The calls share one stack *)

LeftOutBy(n) == IF n > 1 THEN "noinclude" ELSE "includeonly"
Stack(t, frame) == OpenAfter(t[frame.page])[frame.at - 1]
Stacks(t, calls) == [i \in 1..Len(calls) |-> Stack(t, calls[i])]
All(t, calls) == Joined(Stacks(t, calls))

Sound(t) ==
  \A p \in Pages :
    /\ WellFormed(t[p])
    /\ \A n \in 1..Len(t[p]) : t[p][n].item = "link" => ~Is(OpenAfter(t[p])[n - 1], "noinclude")

(* The stack m is what the calls have open.  What a call leaves out is open in none but the     *)
(* innermost, in which it has just been opened; it is open in none below either, as the pages   *)
(* that transclude others have no <noinclude> open.  No call but the innermost is in a raw text. *)
Shares(t, calls, m) ==
  /\ \A i \in 1..Len(calls) : calls[i].at \in 1..(Len(t[calls[i].page]) + 1)
  /\ \A i \in 1..(Len(calls) - 1) :
       /\ ~Is(Stack(t, calls[i]), LeftOutBy(i))
       /\ Stackable(All(t, calls)[i]) /\ ~Is(All(t, calls)[i], "noinclude")
  /\ Is(Stack(t, calls[Len(calls)]), LeftOutBy(Len(calls))) =>
       /\ ~calls[Len(calls)].checked
       /\ Current(Stack(t, calls[Len(calls)])) = LeftOutBy(Len(calls))
  /\ m = All(t, calls)[Len(calls)]

LEMMA CallStacks ==
  ASSUME NEW t \in [Pages -> Seq(Items)], NEW calls \in Seq(Frames),
         \A i \in 1..Len(calls) : calls[i].at \in 1..(Len(t[calls[i].page]) + 1)
  PROVE  /\ \A i \in 1..Len(calls) : calls[i].page \in Pages /\ Stack(t, calls[i]) \in Seq(Modes)
         /\ \A i \in 0..Len(calls) : All(t, calls)[i] \in Seq(Modes)
         /\ All(t, calls)[0] = <<>>
         /\ \A i \in 1..Len(calls) : All(t, calls)[i] = All(t, calls)[i - 1] \o Stack(t, calls[i])
         /\ \A i \in 1..Len(calls) : Stacks(t, calls)[i] = Stack(t, calls[i])
         /\ Len(Stacks(t, calls)) = Len(calls)
<1>1. ASSUME NEW i \in 1..Len(calls) PROVE Stack(t, calls[i]) \in Seq(Modes) /\ calls[i].page \in Pages
  <2>1. calls[i] \in Frames
    OBVIOUS
  <2>2. PICK p \in Pages, at \in Nat : p = calls[i].page /\ at = calls[i].at
    BY <2>1 DEF Frames
  <2>3. t[p] \in Seq(Items) /\ at \in 1..(Len(t[p]) + 1)
    BY <2>2
  <2>4. at - 1 \in 0..Len(t[p])
    BY <2>3
  <2>5. OpenAfter(t[p])[at - 1] \in Seq(Modes)
    BY <2>3, <2>4, OpenAfterEquation
  <2>6. QED
    BY <2>2, <2>5 DEF Stack
<1>2. PICK n \in Nat : n = Len(calls)
  OBVIOUS
<1>3. Len(Stacks(t, calls)) = n /\ \A i \in 1..n : Stacks(t, calls)[i] = Stack(t, calls[i])
  BY <1>2 DEF Stacks
<1>4. \A i \in 1..n : Stacks(t, calls)[i] \in Seq(Modes)
  BY <1>1, <1>2, <1>3, Zenon
<1>5. /\ \A i \in 0..n : All(t, calls)[i] \in Seq(Modes)
      /\ All(t, calls)[0] = <<>>
      /\ \A i \in 1..n : All(t, calls)[i] = All(t, calls)[i - 1] \o Stacks(t, calls)[i]
  BY <1>3, <1>4, JoinedEquation, Zenon DEF All
<1>6. \A i \in 1..n : All(t, calls)[i] = All(t, calls)[i - 1] \o Stack(t, calls[i])
  BY <1>3, <1>5, Zenon
<1>7. QED
  BY <1>1, <1>2, <1>3, <1>5, <1>6, Zenon

(* Of two lists of calls that begin alike, so do the stacks. *)
LEMMA SameCalls ==
  ASSUME NEW t \in [Pages -> Seq(Items)], NEW calls \in Seq(Frames), NEW others \in Seq(Frames),
         \A i \in 1..Len(calls) : calls[i].at \in 1..(Len(t[calls[i].page]) + 1),
         \A i \in 1..Len(others) : others[i].at \in 1..(Len(t[others[i].page]) + 1),
         NEW n \in Nat, n <= Len(calls), n <= Len(others), \A i \in 1..n : calls[i] = others[i]
  PROVE  \A i \in 0..n : All(t, calls)[i] = All(t, others)[i]
<1>1. PICK m \in Nat, k \in Nat : m = Len(calls) /\ k = Len(others)
  OBVIOUS
<1>2. /\ Len(Stacks(t, calls)) = m
      /\ \A i \in 1..m : Stacks(t, calls)[i] = Stack(t, calls[i]) /\ Stack(t, calls[i]) \in Seq(Modes)
  BY <1>1, CallStacks, Zenon
<1>3. /\ Len(Stacks(t, others)) = k
      /\ \A i \in 1..k : Stacks(t, others)[i] = Stack(t, others[i]) /\ Stack(t, others[i]) \in Seq(Modes)
  BY <1>1, CallStacks, Zenon
<1>4. \A i \in 1..n : i \in 1..m /\ i \in 1..k
  BY <1>1
<1>5. \A i \in 1..n : Stacks(t, calls)[i] = Stacks(t, others)[i]
  BY <1>2, <1>3, <1>4, Zenon
<1>6. /\ \A i \in 1..m : Stacks(t, calls)[i] \in Seq(Modes)
      /\ \A i \in 1..k : Stacks(t, others)[i] \in Seq(Modes)
  BY <1>2, <1>3, Zenon
<1>7. n <= m /\ n <= k
  BY <1>1
<1>8. \A i \in 0..n : Joined(Stacks(t, calls))[i] = Joined(Stacks(t, others))[i]
  <2>1. StackList(Stacks(t, calls)) /\ StackList(Stacks(t, others))
    BY <1>2, <1>3, <1>6 DEF StackList
  <2>2. Alike(Stacks(t, calls), Stacks(t, others), n)
    BY <1>2, <1>3, <1>5, <1>7 DEF Alike
  <2>3. QED
    BY <2>1, <2>2, JoinedSame, Zenon
<1>9. QED
  BY <1>8 DEF All

(* What is open below the innermost call, and in it. *)
LEMMA SharedParts ==
  ASSUME NEW t \in [Pages -> Seq(Items)], NEW calls \in Seq(Frames), calls # <<>>,
         NEW m, Shares(t, calls, m), NEW n, n = Len(calls)
  PROVE  /\ n \in Nat \ {0} /\ n - 1 \in 0..n /\ n \in 1..n
         /\ All(t, calls)[n - 1] \in Seq(Modes) /\ Stack(t, calls[n]) \in Seq(Modes)
         /\ m = All(t, calls)[n - 1] \o Stack(t, calls[n]) /\ m \in Seq(Modes)
         /\ Stackable(All(t, calls)[n - 1]) /\ ~Is(All(t, calls)[n - 1], LeftOutBy(n))
         /\ calls[n].page \in Pages /\ calls[n].at \in 1..(Len(t[calls[n].page]) + 1)
         /\ calls[n] \in Frames
<1>1. n \in Nat \ {0} /\ n - 1 \in 0..n /\ n \in 1..n /\ calls[n] \in Frames
  OBVIOUS
<1>2. \A i \in 1..n : calls[i].at \in 1..(Len(t[calls[i].page]) + 1)
  BY DEF Shares
<1>3. /\ All(t, calls)[n - 1] \in Seq(Modes) /\ Stack(t, calls[n]) \in Seq(Modes) /\ calls[n].page \in Pages
      /\ All(t, calls)[n] = All(t, calls)[n - 1] \o Stack(t, calls[n])
      /\ All(t, calls)[0] = <<>> /\ All(t, calls)[n] \in Seq(Modes)
  <2>1. n \in 0..n
    BY <1>1
  <2>2. QED
    BY <1>1, <1>2, <2>1, CallStacks, Zenon
<1>4. m = All(t, calls)[n]
  BY DEF Shares
<1>5. Stackable(All(t, calls)[n - 1]) /\ ~Is(All(t, calls)[n - 1], LeftOutBy(n))
  <2>1. CASE n = 1
    <3>1. All(t, calls)[n - 1] = <<>>
      BY <1>3, <2>1
    <3>2. QED
      BY <3>1 DEF Stackable, Current, Raw, Is
  <2>2. CASE n # 1
    <3>1. n - 1 \in 1..(n - 1) /\ n > 1
      BY <1>1, <2>2
    <3>2. QED
      BY <3>1 DEF Shares, LeftOutBy
  <2>3. QED
    BY <2>1, <2>2
<1>6. QED
  BY <1>1, <1>2, <1>3, <1>4, <1>5, Zenon

(* The innermost call moves on. *)
LEMMA SharedMove ==
  ASSUME NEW t \in [Pages -> Seq(Items)], NEW calls \in Seq(Frames), calls # <<>>,
         NEW m, Shares(t, calls, m), NEW n, n = Len(calls),
         NEW others \in Seq(Frames), Len(others) = n, \A i \in 1..(n - 1) : others[i] = calls[i],
         others[n].page = calls[n].page, others[n].at \in 1..(Len(t[calls[n].page]) + 1),
         Is(Stack(t, others[n]), LeftOutBy(n)) =>
           ~others[n].checked /\ Current(Stack(t, others[n])) = LeftOutBy(n)
  PROVE  Shares(t, others, All(t, calls)[n - 1] \o Stack(t, others[n]))
<1>1. n \in Nat \ {0} /\ n - 1 \in Nat /\ n \in 1..n /\ n - 1 <= n /\ n - 1 \in 0..(n - 1)
  OBVIOUS
<1>2. \A i \in 1..n : calls[i].at \in 1..(Len(t[calls[i].page]) + 1)
  BY DEF Shares
<1>3. \A i \in 1..n : others[i].at \in 1..(Len(t[others[i].page]) + 1)
  <2>1. \A i \in 1..n : i = n \/ i \in 1..(n - 1)
    BY <1>1
  <2>2. QED
    BY <1>2, <2>1, Zenon
<1>4. \A i \in 0..(n - 1) : All(t, others)[i] = All(t, calls)[i]
  <2>1. \A i \in 1..Len(calls) : calls[i].at \in 1..(Len(t[calls[i].page]) + 1)
    BY <1>2
  <2>2. \A i \in 1..Len(others) : others[i].at \in 1..(Len(t[others[i].page]) + 1)
    BY <1>3
  <2>3. n - 1 <= Len(calls) /\ n - 1 <= Len(others)
    BY <1>1
  <2>4. QED
    BY <1>1, <2>1, <2>2, <2>3, SameCalls, Zenon
<1>5. All(t, others)[n] = All(t, calls)[n - 1] \o Stack(t, others[n])
  <2>1. All(t, others)[n] = All(t, others)[n - 1] \o Stack(t, others[n])
    BY <1>1, <1>3, CallStacks, Zenon
  <2>2. All(t, others)[n - 1] = All(t, calls)[n - 1]
    BY <1>1, <1>4, Zenon
  <2>3. QED
    BY <2>1, <2>2, Zenon
<1>6. \A i \in 1..(n - 1) :
        /\ ~Is(Stack(t, others[i]), LeftOutBy(i))
        /\ Stackable(All(t, others)[i]) /\ ~Is(All(t, others)[i], "noinclude")
  <2>1. \A i \in 1..(n - 1) : i \in 0..(n - 1)
    BY <1>1
  <2>2. QED
    BY <1>4, <2>1, Zenon DEF Shares
<1>7. QED
  BY <1>3, <1>5, <1>6, Zenon DEF Shares

(* A page is embedded: its call has nothing open. *)
LEMMA SharedCall ==
  ASSUME NEW t \in [Pages -> Seq(Items)], NEW calls \in Seq(Frames), calls # <<>>,
         NEW m, Shares(t, calls, m), NEW n, n = Len(calls),
         ~Is(Stack(t, calls[n]), LeftOutBy(n)), Stackable(m), ~Is(m, "noinclude"),
         NEW frame \in Frames, frame.at = 1
  PROVE  Shares(t, Append(calls, frame), m)
<1>1. n \in Nat \ {0} /\ n \in 1..n /\ n + 1 \in 1..(n + 1) /\ n \in 0..n /\ (n + 1) - 1 = n
  OBVIOUS
<1>2. PICK more : more = Append(calls, frame)
  OBVIOUS
<1>3. more \in Seq(Frames) /\ Len(more) = n + 1 /\ more[n + 1] = frame /\ \A i \in 1..n : more[i] = calls[i]
  BY <1>1, <1>2
<1>4. frame.page \in Pages /\ t[frame.page] \in Seq(Items)
  BY DEF Frames
<1>5. \A i \in 1..n : calls[i].at \in 1..(Len(t[calls[i].page]) + 1)
  BY DEF Shares
<1>6. \A i \in 1..(n + 1) : more[i].at \in 1..(Len(t[more[i].page]) + 1)
  <2>1. \A i \in 1..(n + 1) : i = n + 1 \/ i \in 1..n
    BY <1>1
  <2>2. frame.at \in 1..(Len(t[frame.page]) + 1)
    BY <1>4
  <2>3. QED
    BY <1>3, <1>5, <2>1, <2>2, Zenon
<1>7. Stack(t, frame) = <<>>
  BY <1>4, OpenAfterEquation DEF Stack
<1>8. \A i \in 0..n : All(t, more)[i] = All(t, calls)[i]
  <2>1. \A i \in 1..Len(calls) : calls[i].at \in 1..(Len(t[calls[i].page]) + 1)
    BY <1>5
  <2>2. \A i \in 1..Len(more) : more[i].at \in 1..(Len(t[more[i].page]) + 1)
    BY <1>3, <1>6
  <2>3. n <= Len(calls) /\ n <= Len(more) /\ n \in Nat
    BY <1>1, <1>3
  <2>4. QED
    BY <1>3, <2>1, <2>2, <2>3, SameCalls, Zenon
<1>9. m = All(t, calls)[n] /\ m \in Seq(Modes)
  <2>1. m = All(t, calls)[n]
    BY DEF Shares
  <2>2. QED
    BY <1>1, <1>5, <2>1, CallStacks, Zenon
<1>10. m = All(t, more)[n + 1]
  <2>1. All(t, more)[n + 1] = All(t, more)[(n + 1) - 1] \o Stack(t, more[n + 1])
    BY <1>1, <1>3, <1>6, CallStacks, Zenon
  <2>2. All(t, more)[n + 1] = m \o <<>>
    BY <1>1, <1>3, <1>7, <1>8, <1>9, <2>1
  <2>3. QED
    BY <1>9, <2>2
<1>11. \A i \in 1..n :
         /\ ~Is(Stack(t, more[i]), LeftOutBy(i))
         /\ Stackable(All(t, more)[i]) /\ ~Is(All(t, more)[i], "noinclude")
  <2>1. \A i \in 1..n : (i = n \/ i \in 1..(n - 1)) /\ i \in 0..n
    BY <1>1
  <2>2. \A i \in 1..(n - 1) :
          /\ ~Is(Stack(t, calls[i]), LeftOutBy(i))
          /\ Stackable(All(t, calls)[i]) /\ ~Is(All(t, calls)[i], "noinclude")
    BY DEF Shares
  <2>3. QED
    BY <1>3, <1>8, <1>9, <2>1, <2>2, Zenon
<1>12. ~Is(Stack(t, more[n + 1]), LeftOutBy(n + 1))
  BY <1>3, <1>7 DEF Is
<1>13. Shares(t, more, m)
  BY <1>1, <1>3, <1>6, <1>10, <1>11, <1>12 DEF Shares
<1>14. QED
  BY <1>2, <1>13

(* An embedded page is at its end: its call has nothing open. *)
LEMMA SharedReturn ==
  ASSUME NEW t \in [Pages -> Seq(Items)], Sound(t), NEW calls \in Seq(Frames),
         NEW m, Shares(t, calls, m), NEW n, n = Len(calls), n > 1,
         calls[n].at = Len(t[calls[n].page]) + 1
  PROVE  Shares(t, SubSeq(calls, 1, n - 1), m)
<1>1. n \in Nat \ {0} /\ n - 1 \in 1..(n - 1) /\ n \in 1..n /\ n - 1 \in Nat /\ n - 1 \in 0..(n - 1) /\ n - 1 \in 0..n
  OBVIOUS
<1>2. PICK fewer : fewer = SubSeq(calls, 1, n - 1)
  OBVIOUS
<1>3. fewer \in Seq(Frames) /\ Len(fewer) = n - 1 /\ \A i \in 1..(n - 1) : fewer[i] = calls[i]
  BY <1>1, <1>2
<1>4. \A i \in 1..n : calls[i].at \in 1..(Len(t[calls[i].page]) + 1)
  BY DEF Shares
<1>5. \A i \in 1..(n - 1) : i \in 1..n /\ i \in 0..(n - 1) /\ i \in 1..((n - 1) - 1) \cup {n - 1}
  BY <1>1
<1>6. \A i \in 1..(n - 1) : fewer[i].at \in 1..(Len(t[fewer[i].page]) + 1)
  BY <1>3, <1>4, <1>5, Zenon
<1>7. \A i \in 0..(n - 1) : All(t, fewer)[i] = All(t, calls)[i]
  <2>1. \A i \in 1..Len(calls) : calls[i].at \in 1..(Len(t[calls[i].page]) + 1)
    BY <1>4
  <2>2. \A i \in 1..Len(fewer) : fewer[i].at \in 1..(Len(t[fewer[i].page]) + 1)
    BY <1>3, <1>6
  <2>3. n - 1 <= Len(calls) /\ n - 1 <= Len(fewer) /\ n - 1 \in Nat
    BY <1>1, <1>3
  <2>4. QED
    BY <1>3, <2>1, <2>2, <2>3, SameCalls, Zenon
<1>8. m = All(t, fewer)[n - 1]
  <2>1. Stack(t, calls[n]) = <<>>
    <3>1. PICK p \in Pages : p = calls[n].page
      BY <1>1, <1>4, CallStacks, Zenon
    <3>2. t[p] \in Seq(Items) /\ WellFormed(t[p])
      BY DEF Sound
    <3>3. OpenAfter(t[p])[Len(t[p])] = <<>>
      BY <3>2, WellFormedFacts
    <3>4. calls[n].at - 1 = Len(t[p])
      BY <3>1, <3>2
    <3>5. QED
      BY <3>1, <3>3, <3>4 DEF Stack
  <2>2. /\ All(t, calls)[n] = All(t, calls)[n - 1] \o Stack(t, calls[n])
        /\ All(t, calls)[n - 1] \in Seq(Modes)
    BY <1>1, <1>4, CallStacks, Zenon
  <2>3. m = All(t, calls)[n]
    BY DEF Shares
  <2>4. m = All(t, calls)[n - 1]
    BY <2>1, <2>2, <2>3
  <2>5. QED
    BY <1>1, <1>7, <2>4
<1>9. \A i \in 1..(n - 1) :
        /\ ~Is(Stack(t, fewer[i]), LeftOutBy(i))
        /\ Stackable(All(t, fewer)[i]) /\ ~Is(All(t, fewer)[i], "noinclude")
  BY <1>3, <1>5, <1>7, Zenon DEF Shares
<1>10. \A i \in 1..((n - 1) - 1) : i \in 1..(n - 1)
  BY <1>1
<1>11. Shares(t, fewer, m)
  BY <1>1, <1>3, <1>6, <1>8, <1>9, <1>10, Zenon DEF Shares
<1>12. QED
  BY <1>2, <1>11

(* The page that was asked for begins with nothing open. *)
LEMMA SharedFirst ==
  ASSUME NEW t \in [Pages -> Seq(Items)], NEW frame \in Frames, frame.at = 1
  PROVE  Shares(t, <<frame>>, <<>>)
<1>1. PICK calls : calls = <<frame>>
  OBVIOUS
<1>2. calls \in Seq(Frames) /\ Len(calls) = 1 /\ calls[1] = frame
  BY <1>1
<1>3. frame.page \in Pages /\ t[frame.page] \in Seq(Items)
  BY DEF Frames
<1>4. frame.at \in 1..(Len(t[frame.page]) + 1)
  BY <1>3
<1>5. \A i \in 1..Len(calls) : calls[i].at \in 1..(Len(t[calls[i].page]) + 1)
  BY <1>2, <1>4
<1>6. Stack(t, frame) = <<>>
  BY <1>3, OpenAfterEquation DEF Stack
<1>7. All(t, calls)[1] = <<>>
  <2>1. All(t, calls)[1] = All(t, calls)[1 - 1] \o Stack(t, calls[1]) /\ All(t, calls)[0] = <<>>
    <3>1. 1 \in 1..Len(calls)
      BY <1>2
    <3>2. QED
      BY <1>2, <1>5, <3>1, CallStacks, Zenon
  <2>2. All(t, calls)[1] = <<>> \o <<>>
    BY <1>2, <1>6, <2>1
  <2>3. QED
    BY <2>2
<1>8. ~Is(Stack(t, calls[1]), LeftOutBy(1))
  BY <1>2, <1>6 DEF Is
<1>9. Shares(t, calls, <<>>)
  BY <1>2, <1>5, <1>7, <1>8 DEF Shares
<1>10. QED
  BY <1>1, <1>9

(* The innermost call comes to an item. *)
LEMMA ReadItem ==
  ASSUME NEW t \in [Pages -> Seq(Items)], Sound(t), NEW calls \in Seq(Frames), calls # <<>>,
         NEW m, Shares(t, calls, m), calls[Len(calls)].at <= Len(t[calls[Len(calls)].page])
  PROVE  LET n == Len(calls)
             p == calls[n].page
             at == calls[n].at
         IN /\ p \in Pages /\ at \in 1..Len(t[p]) /\ at + 1 \in 1..(Len(t[p]) + 1) /\ t[p][at] \in Items
            /\ ~Complains(m, t[p][at])
            /\ After(m, t[p][at]) = All(t, calls)[n - 1] \o OpenAfter(t[p])[at]
            /\ t[p][at].item = "link" =>
                 OpenAfter(t[p])[at] = OpenAfter(t[p])[at - 1] /\ ~Is(OpenAfter(t[p])[at - 1], "noinclude")
            /\ ~Is(OpenAfter(t[p])[at - 1], LeftOutBy(n)) /\ Is(OpenAfter(t[p])[at], LeftOutBy(n)) =>
                 Current(OpenAfter(t[p])[at]) = LeftOutBy(n)
<1>0. PICK n, p, at : n = Len(calls) /\ p = calls[n].page /\ at = calls[n].at
  OBVIOUS
<1>1. PICK base, own : base = All(t, calls)[n - 1] /\ own = OpenAfter(t[p])[at - 1]
  OBVIOUS
<1>2. /\ base \in Seq(Modes) /\ own \in Seq(Modes) /\ m = base \o own /\ Stackable(base)
      /\ p \in Pages /\ at \in 1..(Len(t[p]) + 1)
  <2>1. /\ All(t, calls)[n - 1] \in Seq(Modes) /\ Stack(t, calls[n]) \in Seq(Modes)
        /\ m = All(t, calls)[n - 1] \o Stack(t, calls[n])
        /\ Stackable(All(t, calls)[n - 1]) /\ ~Is(All(t, calls)[n - 1], LeftOutBy(n))
        /\ calls[n].page \in Pages /\ calls[n].at \in 1..(Len(t[calls[n].page]) + 1)
    BY <1>0, SharedParts, Zenon
  <2>2. own = Stack(t, calls[n])
    BY <1>0, <1>1 DEF Stack
  <2>3. QED
    BY <1>0, <1>1, <2>1, <2>2, Zenon
<1>3. t[p] \in Seq(Items) /\ WellFormed(t[p])
  BY <1>2 DEF Sound
<1>4. at \in 1..Len(t[p]) /\ at + 1 \in 1..(Len(t[p]) + 1) /\ t[p][at] \in Items
  BY <1>0, <1>2, <1>3
<1>5. PICK x, next : x = t[p][at] /\ next = OpenAfter(t[p])[at]
  OBVIOUS
<1>6. /\ next \in Seq(Modes) /\ next = After(own, x)
      /\ \/ x.item = "link" /\ next = own
         \/ x.item = "open" /\ next = Append(own, x.mode)
         \/ /\ x.item = "close" /\ Len(own) \in Nat \ {0}
            /\ Len(next) = Len(own) - 1 /\ \A i \in 1..(Len(own) - 1) : next[i] = own[i]
  <2>1. PICK u \in Seq(Items) : u = t[p]
    BY <1>3
  <2>2. WellFormed(u) /\ at \in 1..Len(u)
    BY <1>3, <1>4, <2>1
  <2>3. LET q == OpenAfter(u)[at - 1]
            r == OpenAfter(u)[at]
        IN /\ q \in Seq(Modes) /\ r \in Seq(Modes) /\ r = After(q, u[at])
           /\ \/ u[at].item = "link" /\ r = q
              \/ u[at].item = "open" /\ ~Is(q, u[at].mode) /\ r = Append(q, u[at].mode)
              \/ /\ u[at].item = "close" /\ Closes(q, u[at]) /\ Len(q) \in Nat \ {0} /\ q[Len(q)] = u[at].mode
                 /\ Len(r) = Len(q) - 1 /\ \A i \in 1..(Len(q) - 1) : r[i] = q[i]
    BY <2>2, OneItem
  <2>4. own = OpenAfter(u)[at - 1] /\ next = OpenAfter(u)[at] /\ x = u[at]
    BY <1>1, <1>5, <2>1
  <2>5. QED
    BY <2>3, <2>4, Zenon
<1>7. ~Complains(own, x) /\ (x.item = "close" => Closes(own, x))
  BY <1>1, <1>3, <1>4, <1>5, WellFormedFacts
<1>8. After(m, x) = base \o next /\ ~Complains(m, x)
  <2>1. x \in Items
    BY <1>4, <1>5
  <2>2. After(base \o own, x) = base \o After(own, x) /\ ~Complains(base \o own, x)
    BY <1>2, <1>7, <2>1, OnTop, Zenon
  <2>3. QED
    BY <1>2, <1>6, <2>2, Zenon
<1>9. x.item = "link" => next = own /\ ~Is(own, "noinclude")
  BY <1>1, <1>2, <1>4, <1>5, <1>6 DEF Sound
<1>10. ASSUME ~Is(own, LeftOutBy(n)), Is(next, LeftOutBy(n)) PROVE Current(next) = LeftOutBy(n)
  <2>1. CASE next = own
    BY <1>10, <2>1
  <2>2. CASE next = Append(own, x.mode)
    <3>1. /\ Len(own) \in Nat /\ Len(next) = Len(own) + 1 /\ next[Len(own) + 1] = x.mode
          /\ \A i \in 1..Len(own) : next[i] = own[i]
      BY <1>2, <2>2
    <3>2. next # <<>>
      BY <3>1
    <3>3. PICK i \in 1..Len(next) : next[i] = LeftOutBy(n)
      BY <1>10 DEF Is
    <3>4. i = Len(next)
      BY <1>10, <3>1, <3>3 DEF Is
    <3>5. QED
      BY <3>2, <3>3, <3>4 DEF Current
  <2>3. CASE /\ Len(own) \in Nat \ {0}
             /\ Len(next) = Len(own) - 1 /\ \A i \in 1..(Len(own) - 1) : next[i] = own[i]
    BY <1>10, <2>3 DEF Is
  <2>4. QED
    BY <1>6, <2>1, <2>2, <2>3
<1>11. QED
  BY <1>0, <1>1, <1>2, <1>4, <1>5, <1>8, <1>9, <1>10

(* The innermost call has just opened the mode that it leaves out. *)
LEMMA LeaveOut ==
  ASSUME NEW t \in [Pages -> Seq(Items)], Sound(t), NEW calls \in Seq(Frames), calls # <<>>,
         NEW m, Shares(t, calls, m), Is(m, LeftOutBy(Len(calls)))
  PROVE  LET n == Len(calls)
             p == calls[n].page
             tag == [item |-> "close", mode |-> LeftOutBy(n)]
             ends == {i \in calls[n].at..Len(t[p]) : t[p][i] = tag}
         IN /\ ends # {} /\ ~Complains(m, tag)
            /\ \A e \in ends : (\A i \in ends : e <= i) =>
                 /\ After(m, tag) = All(t, calls)[n - 1] \o OpenAfter(t[p])[e]
                 /\ e + 1 \in 1..(Len(t[p]) + 1) /\ (e + 1) - 1 = e
                 /\ ~Is(OpenAfter(t[p])[e], LeftOutBy(n))
<1> PICK n, p, at, tag : /\ n = Len(calls) /\ p = calls[n].page /\ at = calls[n].at
                         /\ tag = [item |-> "close", mode |-> LeftOutBy(n)]
  OBVIOUS
<1> PICK ends : ends = {i \in at..Len(t[p]) : t[p][i] = tag}
  OBVIOUS
<1>1. PICK base, own : base = All(t, calls)[n - 1] /\ own = OpenAfter(t[p])[at - 1]
  OBVIOUS
<1>2. /\ base \in Seq(Modes) /\ own \in Seq(Modes) /\ m = base \o own /\ ~Is(base, LeftOutBy(n))
      /\ p \in Pages /\ at \in 1..(Len(t[p]) + 1)
  <2>1. /\ All(t, calls)[n - 1] \in Seq(Modes) /\ Stack(t, calls[n]) \in Seq(Modes)
        /\ m = All(t, calls)[n - 1] \o Stack(t, calls[n])
        /\ Stackable(All(t, calls)[n - 1]) /\ ~Is(All(t, calls)[n - 1], LeftOutBy(n))
        /\ calls[n].page \in Pages /\ calls[n].at \in 1..(Len(t[calls[n].page]) + 1)
    BY SharedParts, Zenon
  <2>2. own = Stack(t, calls[n])
    BY <1>1 DEF Stack
  <2>3. QED
    BY <1>1, <2>1, <2>2, Zenon
<1>3. t[p] \in Seq(Items) /\ WellFormed(t[p]) /\ Len(t[p]) \in Nat
  BY <1>2 DEF Sound
<1>4. Len(base) \in Nat /\ Len(own) \in Nat /\ Len(m) = Len(base) + Len(own)
  BY <1>2
<1>5. /\ \A i \in 1..Len(base) : m[i] = base[i]
      /\ \A i \in (Len(base) + 1)..(Len(base) + Len(own)) : m[i] = own[i - Len(base)] /\ i - Len(base) \in 1..Len(own)
      /\ \A i \in 1..Len(own) : m[Len(base) + i] = own[i]
  BY <1>2, <1>4
<1>6. Is(own, LeftOutBy(n))
  <2>1. PICK i \in 1..Len(m) : m[i] = LeftOutBy(n)
    BY DEF Is
  <2>2. i \in 1..Len(base) \/ i \in (Len(base) + 1)..(Len(base) + Len(own))
    BY <1>4
  <2>3. QED
    BY <1>2, <1>5, <2>1, <2>2 DEF Is
<1>7. Current(own) = LeftOutBy(n)
  BY <1>1, <1>6 DEF Shares, Stack
<1>8. own # <<>> /\ Len(own) \in Nat \ {0} /\ own[Len(own)] = LeftOutBy(n)
  <2>1. LeftOutBy(n) # "normal"
    BY DEF LeftOutBy
  <2>2. own # <<>>
    BY <1>7, <2>1 DEF Current
  <2>3. QED
    BY <1>2, <1>7, <2>2 DEF Current
<1>9. /\ ends # {}
      /\ \A e \in ends : (\A i \in ends : e <= i) => OpenAfter(t[p])[e] = SubSeq(own, 1, Len(own) - 1)
  <2>1. at - 1 \in 0..Len(t[p]) /\ (at - 1) + 1 = at
    BY <1>2, <1>3
  <2>2. PICK first \in 0..Len(t[p]) : first = at - 1
    BY <2>1
  <2>3. own = OpenAfter(t[p])[first]
    BY <1>1, <2>2
  <2>4. LET q == OpenAfter(t[p])[first]
            found == {i \in (first + 1)..Len(t[p]) : t[p][i] = [item |-> "close", mode |-> q[Len(q)]]}
        IN /\ found # {}
           /\ \A e \in found : (\A i \in found : e <= i) => OpenAfter(t[p])[e] = SubSeq(q, 1, Len(q) - 1)
    BY <1>3, <1>8, <2>3, ClosedBehind, Zenon
  <2>5. ends = {i \in (first + 1)..Len(t[p]) : t[p][i] = [item |-> "close", mode |-> own[Len(own)]]}
    BY <1>8, <2>1, <2>2
  <2>6. QED
    BY <2>3, <2>4, <2>5, Zenon
<1>10. Closes(m, tag) /\ m # <<>>
  <2>1. m # <<>> /\ m[Len(m)] = LeftOutBy(n)
    BY <1>2, <1>4, <1>5, <1>8
  <2>2. QED
    BY <2>1 DEF Closes, Current
<1>11. After(m, tag) = base \o SubSeq(own, 1, Len(own) - 1)
  <2>1. After(m, tag) = SubSeq(m, 1, Len(m) - 1)
    BY <1>10 DEF After
  <2>2. SubSeq(base \o own, 1, Len(base \o own) - 1) = base \o SubSeq(own, 1, Len(own) - 1)
    BY <1>2, <1>4, <1>8
  <2>3. QED
    BY <1>2, <2>1, <2>2
<1>12. ~Is(SubSeq(own, 1, Len(own) - 1), LeftOutBy(n))
  <2>1. /\ Len(SubSeq(own, 1, Len(own) - 1)) = Len(own) - 1
        /\ \A i \in 1..(Len(own) - 1) : SubSeq(own, 1, Len(own) - 1)[i] = own[i]
    BY <1>2, <1>8, FrontFacts, Zenon
  <2>2. Distinct(own)
    <3>1. at - 1 \in 0..Len(t[p])
      BY <1>2, <1>3
    <3>2. QED
      BY <1>1, <1>3, <3>1, OpenOnce
  <2>3. QED
    BY <1>8, <2>1, <2>2 DEF Is, Distinct
<1>13. ASSUME NEW e \in ends PROVE e + 1 \in 1..(Len(t[p]) + 1) /\ (e + 1) - 1 = e
  BY <1>2, <1>3
<1>14. ~Complains(m, tag)
  BY <1>10 DEF Complains
<1>15. QED
  BY <1>1, <1>2, <1>9, <1>11, <1>12, <1>13, <1>14

-----------------------------------------------------------------------------
(* Every step keeps it so. *)

LEMMA MovedCalls ==
  ASSUME TypeOK, NEW at \in Nat \ {0}, NEW checked \in BOOLEAN
  PROVE  /\ Moved(at, checked) \in Seq(Frames) /\ Len(Moved(at, checked)) = Len(frames)
         /\ \A i \in 1..(Len(frames) - 1) : Moved(at, checked)[i] = frames[i]
         /\ Moved(at, checked)[Len(frames)].page = frames[Len(frames)].page
         /\ Moved(at, checked)[Len(frames)].at = at /\ Moved(at, checked)[Len(frames)].checked = checked
<1> DEFINE n == Len(frames)
<1> DEFINE frame == [Top EXCEPT !.at = at, !.checked = checked]
<1>1. n \in Nat \ {0} /\ n \in 1..n /\ frames \in Seq(Frames) /\ frames[n] \in Frames
  BY DEF TypeOK
<1>2. frame \in Frames /\ frame.page = frames[n].page /\ frame.at = at /\ frame.checked = checked
  BY <1>1 DEF Frames, Top
<1>3. Moved(at, checked) = [frames EXCEPT ![n] = frame]
  BY <1>1 DEF Moved, Top
<1> HIDE DEF frame
<1>4. QED
  BY <1>1, <1>2, <1>3, ExceptSeq

(* The innermost call moves on to the item at, and the stack to what is open before it. *)
LEMMA MovesOn ==
  ASSUME TypeOK, Shares(text, frames, mode), NEW at, NEW checked \in BOOLEAN,
         NEW n, n = Len(frames), NEW p, p = frames[n].page,
         at \in 1..(Len(text[p]) + 1),
         Is(OpenAfter(text[p])[at - 1], LeftOutBy(n)) =>
           ~checked /\ Current(OpenAfter(text[p])[at - 1]) = LeftOutBy(n),
         NEW m, m = All(text, frames)[n - 1] \o OpenAfter(text[p])[at - 1]
  PROVE  Shares(text, Moved(at, checked), m)
<1>1. PICK others : others = Moved(at, checked)
  OBVIOUS
<1>2. at \in Nat \ {0}
  <2>1. p \in Pages /\ text[p] \in Seq(Items)
    BY TopFacts DEF Top
  <2>2. QED
    BY <2>1
<1>3. /\ others \in Seq(Frames) /\ Len(others) = n
      /\ \A i \in 1..(n - 1) : others[i] = frames[i]
      /\ others[n].page = p /\ others[n].at = at /\ others[n].checked = checked
  <2>1. /\ Moved(at, checked) \in Seq(Frames) /\ Len(Moved(at, checked)) = Len(frames)
        /\ \A i \in 1..(Len(frames) - 1) : Moved(at, checked)[i] = frames[i]
        /\ Moved(at, checked)[Len(frames)].page = frames[Len(frames)].page
        /\ Moved(at, checked)[Len(frames)].at = at /\ Moved(at, checked)[Len(frames)].checked = checked
    BY <1>2, MovedCalls, Zenon
  <2>2. QED
    BY <1>1, <2>1, Zenon
<1>4. text \in [Pages -> Seq(Items)] /\ frames \in Seq(Frames) /\ frames # <<>>
  BY DEF TypeOK
<1>5. Stack(text, others[n]) = OpenAfter(text[p])[at - 1]
  BY <1>3 DEF Stack
<1>6. Shares(text, others, All(text, frames)[n - 1] \o Stack(text, others[n]))
  BY <1>3, <1>4, <1>5, SharedMove
<1>7. QED
  BY <1>1, <1>5, <1>6

ShareInv ==
  /\ IInv
  /\ AllWellFormed /\ NoincludeStandsAlone =>
       /\ outcome # "aborted"
       /\ outcome = "rendering" => Shares(text, frames, mode)

(* Where the calls stand, in the words of the model. *)
LEMMA TopShared ==
  ASSUME IInv, AllWellFormed, NoincludeStandsAlone
  PROVE  /\ Sound(text) /\ text \in [Pages -> Seq(Items)] /\ frames \in Seq(Frames) /\ frames # <<>>
         /\ Len(frames) \in Nat \ {0} /\ LeftOut = LeftOutBy(Len(frames)) /\ Top = frames[Len(frames)]
         /\ Top.at \in Nat \ {0} /\ Top.page \in Pages /\ text[Top.page] \in Seq(Items)
<1>1. Sound(text)
  BY DEF AllWellFormed, NoincludeStandsAlone, Sound
<1>2. QED
  BY <1>1, TopFacts DEF IInv, TypeOK, LeftOut, Embedded, LeftOutBy, Top

LEMMA InitShare == Init => ShareInv
<1> SUFFICES ASSUME Init PROVE ShareInv
  OBVIOUS
<1>1. IInv
  BY InitIInv
<1>2. PICK page \in Existing : frames = <<Frame(page)>>
  BY DEF Init
<1>3. Frame(page) \in Frames /\ Frame(page).at = 1
  BY PagesAssumption DEF Frame, Frames
<1>4. text \in [Pages -> Seq(Items)] /\ mode = <<>> /\ outcome = "rendering"
  BY TextsAssumption DEF Init
<1>5. Shares(text, frames, mode)
  BY <1>2, <1>3, <1>4, SharedFirst
<1>6. QED
  BY <1>1, <1>4, <1>5 DEF ShareInv

(* An item that is not handled before it is read. *)
LEMMA ReadShare ==
  ASSUME IInv, AllWellFormed, NoincludeStandsAlone, Shares(text, frames, mode),
         Reading
  PROVE  /\ ~Complains(mode, Item)
         /\ Shares(text, Moved(Top.at + 1, FALSE), After(mode, Item))
         /\ Item.item = "link" => After(mode, Item) = mode
         /\ Top.at + 1 \in Nat \ {0}
         /\ ~Is(OpenAfter(text[Top.page])[Top.at - 1], LeftOutBy(Len(frames)))
         /\ Item.item = "link" => ~Is(OpenAfter(text[Top.page])[(Top.at + 1) - 1], LeftOutBy(Len(frames)))
         /\ Item.item = "link" => ~Is(OpenAfter(text[Top.page])[Top.at - 1], "noinclude")
<1>1. PICK n, p, at : n = Len(frames) /\ p = Top.page /\ at = Top.at
  OBVIOUS
<1>2. /\ Sound(text) /\ text \in [Pages -> Seq(Items)] /\ frames \in Seq(Frames) /\ frames # <<>>
      /\ n \in Nat \ {0} /\ LeftOut = LeftOutBy(n) /\ Top = frames[n]
      /\ at \in Nat \ {0} /\ p \in Pages /\ text[p] \in Seq(Items)
  BY <1>1, TopShared
<1>3. at <= Len(text[p]) /\ Item = text[p][at]
  BY <1>1, <1>2 DEF Reading, Parsing, AtEnd, TextOf, Item
<1>4. /\ at \in 1..Len(text[p]) /\ at + 1 \in 1..(Len(text[p]) + 1)
      /\ ~Complains(mode, text[p][at])
      /\ After(mode, text[p][at]) = All(text, frames)[n - 1] \o OpenAfter(text[p])[at]
      /\ text[p][at].item = "link" =>
           OpenAfter(text[p])[at] = OpenAfter(text[p])[at - 1] /\ ~Is(OpenAfter(text[p])[at - 1], "noinclude")
      /\ ~Is(OpenAfter(text[p])[at - 1], LeftOutBy(n)) /\ Is(OpenAfter(text[p])[at], LeftOutBy(n)) =>
           Current(OpenAfter(text[p])[at]) = LeftOutBy(n)
  <2>1. p = frames[n].page /\ at = frames[n].at /\ n = Len(frames)
    BY <1>1, <1>2
  <2>2. frames[Len(frames)].at <= Len(text[frames[Len(frames)].page])
    BY <1>3, <2>1
  <2>3. LET k == Len(frames)
            q == frames[k].page
            i == frames[k].at
        IN /\ q \in Pages /\ i \in 1..Len(text[q]) /\ i + 1 \in 1..(Len(text[q]) + 1) /\ text[q][i] \in Items
           /\ ~Complains(mode, text[q][i])
           /\ After(mode, text[q][i]) = All(text, frames)[k - 1] \o OpenAfter(text[q])[i]
           /\ text[q][i].item = "link" =>
                OpenAfter(text[q])[i] = OpenAfter(text[q])[i - 1] /\ ~Is(OpenAfter(text[q])[i - 1], "noinclude")
           /\ ~Is(OpenAfter(text[q])[i - 1], LeftOutBy(k)) /\ Is(OpenAfter(text[q])[i], LeftOutBy(k)) =>
                Current(OpenAfter(text[q])[i]) = LeftOutBy(k)
    BY <1>2, <2>2, ReadItem, Zenon
  <2>4. QED
    BY <2>1, <2>3, Zenon
<1>5. PICK base, own : base = All(text, frames)[n - 1] /\ own = OpenAfter(text[p])[at - 1]
  OBVIOUS
<1>6. base \in Seq(Modes) /\ own \in Seq(Modes) /\ mode = base \o own
  <2>1. text \in [Pages -> Seq(Items)] /\ frames \in Seq(Frames) /\ frames # <<>> /\ n = Len(frames)
    BY <1>1, <1>2
  <2>2. /\ All(text, frames)[n - 1] \in Seq(Modes) /\ Stack(text, frames[n]) \in Seq(Modes)
        /\ mode = All(text, frames)[n - 1] \o Stack(text, frames[n])
    BY <2>1, SharedParts
  <2>3. own = Stack(text, frames[n])
    BY <1>1, <1>2, <1>5 DEF Stack
  <2>4. QED
    BY <1>5, <2>2, <2>3, Zenon
<1>7. ~Is(own, LeftOutBy(n))
  <2>1. Top.checked \/ ~Is(mode, LeftOutBy(n))
    BY <1>2 DEF Reading, Handled
  <2>2. CASE Top.checked
    BY <1>1, <1>2, <1>5, <2>2 DEF Shares, Stack
  <2>3. CASE ~Is(mode, LeftOutBy(n))
    <3>1. /\ Len(base) \in Nat /\ Len(own) \in Nat /\ Len(mode) = Len(base) + Len(own)
          /\ \A i \in 1..Len(own) : mode[Len(base) + i] = own[i] /\ Len(base) + i \in 1..Len(mode)
      BY <1>6
    <3>2. QED
      BY <2>3, <3>1 DEF Is
  <2>4. QED
    BY <2>1, <2>2, <2>3
<1>8. (at + 1) - 1 = at
  BY <1>2
<1>9. Shares(text, Moved(at + 1, FALSE), After(mode, Item))
  <2>1. Is(OpenAfter(text[p])[(at + 1) - 1], LeftOutBy(n)) =>
           Current(OpenAfter(text[p])[(at + 1) - 1]) = LeftOutBy(n)
    BY <1>4, <1>5, <1>7, <1>8
  <2>2. After(mode, Item) = All(text, frames)[n - 1] \o OpenAfter(text[p])[(at + 1) - 1]
    BY <1>3, <1>4, <1>8
  <2>3. TypeOK /\ n = Len(frames) /\ p = frames[n].page
    BY <1>1, <1>2 DEF IInv
  <2>4. QED
    BY <1>4, <2>1, <2>2, <2>3, MovesOn
<1>10. Item.item = "link" => After(mode, Item) = mode
  BY <1>3, <1>4, <1>5, <1>6
<1>11. Item.item = "link" =>
         /\ ~Is(OpenAfter(text[p])[(at + 1) - 1], LeftOutBy(n))
         /\ ~Is(OpenAfter(text[p])[at - 1], "noinclude")
  BY <1>3, <1>4, <1>5, <1>7, <1>8
<1>12. ~Complains(mode, Item) /\ at + 1 \in Nat \ {0} /\ ~Is(OpenAfter(text[p])[at - 1], LeftOutBy(n))
  BY <1>2, <1>3, <1>4, <1>5, <1>7
<1>13. QED
  BY <1>1, <1>9, <1>10, <1>11, <1>12

(* What is left out has its end, and is closed behind it. *)
LEMMA LeaveOutShare ==
  ASSUME IInv, AllWellFormed, NoincludeStandsAlone, Shares(text, frames, mode), leaveOut
  PROVE  outcome' = "rendering" /\ Shares(text, frames', mode')
<1>1. PICK n, p, at : n = Len(frames) /\ p = Top.page /\ at = Top.at
  OBVIOUS
<1>2. /\ Sound(text) /\ text \in [Pages -> Seq(Items)] /\ frames \in Seq(Frames) /\ frames # <<>>
      /\ n \in Nat \ {0} /\ LeftOut = LeftOutBy(n) /\ Top = frames[n]
      /\ at \in Nat \ {0} /\ p \in Pages /\ text[p] \in Seq(Items)
  BY <1>1, TopShared
<1>3. Is(mode, LeftOutBy(n)) /\ outcome = "rendering"
  BY <1>2 DEF leaveOut, Handled, Parsing
<1>4. PICK ends : ends = Ends
  OBVIOUS
<1>5. ends = {i \in at..Len(text[p]) : text[p][i] = EndTag} /\ EndTag = [item |-> "close", mode |-> LeftOutBy(n)]
  BY <1>1, <1>2, <1>4 DEF Ends, TextOf, EndTag
<1>6. /\ ends # {} /\ ~Complains(mode, EndTag)
      /\ \A e \in ends : (\A i \in ends : e <= i) =>
           /\ After(mode, EndTag) = All(text, frames)[n - 1] \o OpenAfter(text[p])[e]
           /\ e + 1 \in 1..(Len(text[p]) + 1) /\ (e + 1) - 1 = e
           /\ ~Is(OpenAfter(text[p])[e], LeftOutBy(n))
  <2>1. p = frames[n].page /\ at = frames[n].at /\ n = Len(frames)
    BY <1>1, <1>2
  <2>2. Is(mode, LeftOutBy(Len(frames)))
    BY <1>3, <2>1
  <2>3. LET k == Len(frames)
            q == frames[k].page
            tag == [item |-> "close", mode |-> LeftOutBy(k)]
            found == {i \in frames[k].at..Len(text[q]) : text[q][i] = tag}
        IN /\ found # {} /\ ~Complains(mode, tag)
           /\ \A e \in found : (\A i \in found : e <= i) =>
                /\ After(mode, tag) = All(text, frames)[k - 1] \o OpenAfter(text[q])[e]
                /\ e + 1 \in 1..(Len(text[q]) + 1) /\ (e + 1) - 1 = e
                /\ ~Is(OpenAfter(text[q])[e], LeftOutBy(k))
    BY <1>2, <2>2, LeaveOut, Zenon
  <2>4. PICK tag : tag = [item |-> "close", mode |-> LeftOutBy(n)]
    OBVIOUS
  <2>5. ends = {i \in at..Len(text[p]) : text[p][i] = tag} /\ EndTag = tag
    BY <1>5, <2>4
  <2>6. LET found == {i \in at..Len(text[p]) : text[p][i] = tag}
        IN /\ found # {} /\ ~Complains(mode, tag)
           /\ \A e \in found : (\A i \in found : e <= i) =>
                /\ After(mode, tag) = All(text, frames)[n - 1] \o OpenAfter(text[p])[e]
                /\ e + 1 \in 1..(Len(text[p]) + 1) /\ (e + 1) - 1 = e
                /\ ~Is(OpenAfter(text[p])[e], LeftOutBy(n))
    BY <2>1, <2>3, <2>4, Zenon
  <2>7. QED
    BY <2>5, <2>6, Zenon
<1>7. Skipped /\ mode' = After(mode, EndTag) /\ outcome' = outcome
  BY <1>4, <1>6 DEF leaveOut
<1>8. PICK e \in ends : (\A i \in ends : e <= i) /\ frames' = Moved(e + 1, TRUE)
  BY <1>4, <1>7 DEF Skipped
<1>9. Shares(text, Moved(e + 1, TRUE), After(mode, EndTag))
  <2>1. TypeOK /\ n = Len(frames) /\ p = frames[n].page
    BY <1>1, <1>2 DEF IInv
  <2>2. /\ ~Is(OpenAfter(text[p])[(e + 1) - 1], LeftOutBy(n)) /\ e + 1 \in 1..(Len(text[p]) + 1)
        /\ After(mode, EndTag) = All(text, frames)[n - 1] \o OpenAfter(text[p])[(e + 1) - 1]
    BY <1>6, <1>8
  <2>3. QED
    BY <2>1, <2>2, MovesOn
<1>10. QED
  BY <1>3, <1>7, <1>8, <1>9

(* A link is followed where no <noinclude> is open, and outside of a raw text. *)
LEMMA TranscludeShare ==
  ASSUME IInv, IInv', AllWellFormed, NoincludeStandsAlone, Shares(text, frames, mode), transclude,
         outcome' = "rendering"
  PROVE  Shares(text, frames', mode')
<1>1. Reading /\ Item.item = "link" /\ ~Complains(mode, Item)
  BY DEF transclude, ReadingLink
<1>2. PICK page, moved : page = encoder(Item.to)[1] /\ moved = Moved(Top.at + 1, FALSE)
  OBVIOUS
<1>3. mode' = mode /\ frames' = Append(moved, Frame(page))
  BY <1>2 DEF transclude
<1>4. page \in Pages
  BY <1>2, LinkFacts DEF transclude, encoder
<1>5. /\ Shares(text, moved, mode) /\ Top.at + 1 \in Nat \ {0}
      /\ ~Is(OpenAfter(text[Top.page])[(Top.at + 1) - 1], LeftOutBy(Len(frames)))
      /\ ~Is(OpenAfter(text[Top.page])[Top.at - 1], "noinclude")
  <2>1. After(mode, Item) = mode /\ Shares(text, Moved(Top.at + 1, FALSE), After(mode, Item))
    BY <1>1, ReadShare
  <2>2. QED
    BY <1>1, <1>2, <2>1, ReadShare
<1>6. /\ moved \in Seq(Frames) /\ Len(moved) = Len(frames)
      /\ moved[Len(frames)].page = Top.page /\ moved[Len(frames)].at = Top.at + 1
  BY <1>2, <1>5, MovedCalls DEF IInv, Top
<1>7. /\ Len(frames) \in Nat \ {0} /\ text \in [Pages -> Seq(Items)] /\ Sound(text)
      /\ frames \in Seq(Frames) /\ frames # <<>> /\ Top = frames[Len(frames)]
  BY TopShared
<1>8. moved # <<>> /\ ~Is(Stack(text, moved[Len(moved)]), LeftOutBy(Len(moved)))
  BY <1>5, <1>6, <1>7 DEF Stack
<1>9. Stackable(mode)
  BY <1>1 DEF Complains, Closes
<1>10. ~Is(mode, "noinclude")
  <2>1. PICK base, own : base = All(text, frames)[Len(frames) - 1] /\ own = Stack(text, frames[Len(frames)])
    OBVIOUS
  <2>2. base \in Seq(Modes) /\ own \in Seq(Modes) /\ mode = base \o own
    BY <1>7, <2>1, SharedParts
  <2>3. ~Is(own, "noinclude")
    BY <1>5, <1>7, <2>1 DEF Stack
  <2>4. ~Is(base, "noinclude")
    <3>1. CASE Len(frames) = 1
      <4>1. Len(frames) - 1 = 0 /\ \A i \in 1..Len(frames) : frames[i].at \in 1..(Len(text[frames[i].page]) + 1)
        BY <3>1 DEF Shares
      <4>2. base = <<>>
        BY <1>7, <2>1, <4>1, CallStacks
      <4>3. QED
        BY <4>2 DEF Is
    <3>2. CASE Len(frames) # 1
      <4>1. Len(frames) - 1 \in 1..(Len(frames) - 1)
        <5>1. PICK k \in Nat \ {0} : k = Len(frames)
          BY <1>7, Zenon
        <5>2. QED
          BY <3>2, <5>1
      <4>2. QED
        BY <2>1, <4>1 DEF Shares
    <3>3. QED
      BY <3>1, <3>2
  <2>5. /\ Len(base) \in Nat /\ Len(own) \in Nat /\ Len(mode) = Len(base) + Len(own)
        /\ \A i \in 1..Len(base) : mode[i] = base[i]
        /\ \A i \in (Len(base) + 1)..(Len(base) + Len(own)) : mode[i] = own[i - Len(base)] /\ i - Len(base) \in 1..Len(own)
    BY <2>2
  <2>6. ASSUME NEW i \in 1..Len(mode) PROVE mode[i] # "noinclude"
    <3>1. i \in 1..Len(base) \/ i \in (Len(base) + 1)..(Len(base) + Len(own))
      BY <2>5
    <3>2. QED
      BY <2>3, <2>4, <2>5, <3>1 DEF Is
  <2>7. QED
    BY <2>6 DEF Is
<1>11. Frame(page) \in Frames /\ Frame(page).at = 1
  BY <1>4 DEF Frame, Frames
<1>12. Shares(text, Append(moved, Frame(page)), mode)
  BY <1>5, <1>6, <1>7, <1>8, <1>9, <1>10, <1>11, SharedCall
<1>13. QED
  BY <1>3, <1>12

(* An embedded page has closed what it has opened. *)
LEMMA ReturnShare ==
  ASSUME IInv, AllWellFormed, NoincludeStandsAlone, Shares(text, frames, mode), embeddedReturns
  PROVE  Shares(text, frames', mode')
<1>1. /\ Sound(text) /\ text \in [Pages -> Seq(Items)] /\ frames \in Seq(Frames) /\ frames # <<>>
      /\ Len(frames) \in Nat \ {0} /\ Top = frames[Len(frames)]
  BY TopShared
<1>2. Len(frames) > 1 /\ Top.at > Len(text[Top.page])
  BY DEF embeddedReturns, Embedded, AtEnd, TextOf
<1>3. frames[Len(frames)].at = Len(text[frames[Len(frames)].page]) + 1
  <2> DEFINE k == Len(text[frames[Len(frames)].page])
             at == frames[Len(frames)].at
  <2>1. k \in Nat
    BY <1>1, TopShared
  <2>2. at \in 1..(k + 1)
    BY <1>1 DEF Shares
  <2>3. at > k
    BY <1>1, <1>2
  <2> HIDE DEF k, at
  <2>4. at = k + 1
    BY <2>1, <2>2, <2>3
  <2>5. QED
    BY <2>4 DEF k, at
<1>4. Shares(text, SubSeq(frames, 1, Len(frames) - 1), mode)
  BY <1>1, <1>2, <1>3, SharedReturn
<1>5. QED
  BY <1>4 DEF embeddedReturns

LEMMA NextShare == ShareInv /\ IInv' /\ [Next]_vars => ShareInv'
<1> SUFFICES ASSUME ShareInv, IInv', [Next]_vars PROVE ShareInv'
  OBVIOUS
<1>1. text' = text
  BY DEF Next, vars, leaveOut, readTag, readRaw, skipLink, transclude, embeddedReturns, finish
<1>2. SUFFICES ASSUME AllWellFormed, NoincludeStandsAlone
               PROVE  outcome' # "aborted" /\ (outcome' = "rendering" => Shares(text, frames', mode'))
  BY <1>1 DEF ShareInv, AllWellFormed, NoincludeStandsAlone
<1>3. IInv /\ outcome # "aborted" /\ (outcome = "rendering" => Shares(text, frames, mode))
  BY <1>2 DEF ShareInv
<1>4. CASE UNCHANGED vars
  BY <1>3, <1>4 DEF vars
<1>5. ASSUME Next PROVE outcome = "rendering"
  BY <1>5 DEF Next, leaveOut, readTag, readRaw, skipLink, transclude, embeddedReturns, finish,
              ReadingLink, Reading, Parsing
<1>6. CASE leaveOut
  BY <1>2, <1>3, <1>5, <1>6, LeaveOutShare DEF Next
<1>7. CASE readTag \/ skipLink
  <2>1. Reading /\ (skipLink => Item.item = "link" /\ mode' = mode) /\ (readTag => mode' = After(mode, Item))
    BY <1>7 DEF readTag, skipLink, ReadingLink
  <2>2. frames' = Moved(Top.at + 1, FALSE) /\ outcome' = outcome
    BY <1>7 DEF readTag, skipLink, ToNext
  <2>3. Shares(text, Moved(Top.at + 1, FALSE), After(mode, Item)) /\ (Item.item = "link" => After(mode, Item) = mode)
    BY <1>2, <1>3, <1>5, <1>7, <2>1, ReadShare DEF Next
  <2>4. QED
    BY <1>3, <1>7, <2>1, <2>2, <2>3
<1>8. CASE readRaw
  <2>1. Reading /\ Complains(mode, Item) /\ outcome = "rendering"
    BY <1>8 DEF readRaw, Reading, Parsing
  <2>2. QED
    BY <1>2, <1>3, <2>1, ReadShare
<1>9. CASE transclude
  <2>1. outcome' # "aborted"
    BY <1>3, <1>9 DEF transclude
  <2>2. outcome = "rendering"
    BY <1>5, <1>9 DEF Next
  <2>3. QED
    BY <1>2, <1>3, <1>9, <2>1, <2>2, TranscludeShare
<1>10. CASE embeddedReturns
  <2>1. outcome' = outcome /\ outcome = "rendering"
    BY <1>10 DEF embeddedReturns
  <2>2. QED
    BY <1>2, <1>3, <1>10, <2>1, ReturnShare
<1>11. CASE finish
  BY <1>11 DEF finish
<1>12. QED
  BY <1>4, <1>6, <1>7, <1>8, <1>9, <1>10, <1>11 DEF Next

(* Whatever the texts and however deep they are nested: if the pages are well-formed and none    *)
(* transcludes another within its <noinclude>, the one stack that the nested calls share holds   *)
(* just what is open in them, the outermost page first, and none of them complains.              *)
THEOREM StackIsShared == Spec => []ModesAreOpenTags
<1>1. ShareInv => ModesAreOpenTags
  <2>1. OpenByCall = Stacks(text, frames)
    BY DEF OpenByCall, Stacks, OpenIn, Stack, TextOf
  <2>2. QED
    BY <2>1 DEF ShareInv, ModesAreOpenTags, Shares, All
<1>2. QED
  BY InitShare, NextShare, Invariance, <1>1, PTL DEF Spec
=============================================================================
