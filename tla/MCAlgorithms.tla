---------------------------- MODULE MCAlgorithms ----------------------------
(***************************************************************************)
(* The algorithms of the parser that keep no state between calls, each     *)
(* called once, with every input up to a bound.                            *)
(***************************************************************************)
EXTENDS Toc, Image, Markup, TagReader, HttpHeader, FiniteSetsExt

CONSTANTS
  MaxHeaders,     \* how many headers a page has
  MaxLevel,       \* the deepest level of a header
  MaxText,        \* how long a text is
  MaxTag,         \* how long a tag is behind its opening brackets
  Sizes,          \* the widths and heights of images
  MaxParts,       \* how many parts a form has
  MaxPieces       \* how many pieces there are of a request that is no form

ASSUME SizesAssumption == Sizes \subseteq Nat
ASSUME BoundsAssumption == {MaxHeaders, MaxLevel, MaxText, MaxTag, MaxParts, MaxPieces} \subseteq Nat

VARIABLES input, output
vars == <<input, output>>

None == <<>>
Upto(S, n) == UNION {[1..k -> S] : k \in 0..n}

(* wgMaxTocLevel in globalvars.h *)
MaxTocLevel == 2

Pages == {[kind |-> "page", levels |-> l] : l \in Upto(1..MaxLevel, MaxHeaders) \ {<<>>}}

Images ==
  {[kind |-> "image", asked |-> [width |-> a, height |-> b, framed |-> f, scale |-> s], w |-> w, h |-> h] :
     a \in Sizes \cup {0}, b \in Sizes \cup {0}, f \in BOOLEAN, s \in 1..3, w \in Sizes \cup {0}, h \in Sizes \cup {0}}

Headers ==
  {[kind |-> "header", text |-> <<"sign">> \o t, m_end |-> e] :
     t \in Upto({"sign", "line", "a"}, MaxText), e \in {0, 2, MaxText}}

CellTexts == Upto({"pipe", "line", "!", "open bracket", "close bracket"}, MaxText - 2)
Cells == {[kind |-> "cell", text |-> <<"a">> \o t] : t \in CellTexts}

(* The brackets that open, and what may matter behind them for a tag of this kind. *)
Opening(opener, behind) == [opener |-> opener, behind |-> behind]
Openings ==
  {Opening(<<"[">>, {"a", ":", " ", "=", ",", "]", "["}),
   Opening(<<"<">>, {"a", ":", " ", "line", "=", ">", "<"}),
   Opening(<<"[", "[">>, {"a", ":", "|", "=", "]"}),
   Opening(<<"{", "{">>, {"a", ":", "|", "=", "}", "{"}),
   Opening(<<"<", "!", "-", "-">>, {"a", "-", ">"})}
Behinds == {"zero", "=", " ", "a"}
TagTexts == UNION {{w.opener \o t : t \in Upto(w.behind, MaxTag)} : w \in Openings}
Tags == {[kind |-> "tag", text |-> t, behind |-> b] : t \in TagTexts, b \in Behinds}

(* Requests that are forms, of which the first n pieces have arrived, and any others. *)
Parts == [more : BOOLEAN, form : BOOLEAN, value : Upto({"data", "field", "blank", "text"}, 1)]
Firsts == [words : 1..4, slashes : 0..2]
Forms ==
  UNION {{[kind |-> "form", parts |-> ps, n |-> n, first |-> [words |-> 3, slashes |-> 1]] :
            n \in 0..Len(Form(ps))} : ps \in Upto(Parts, MaxParts)}
Requests ==
  {[kind |-> "request", first |-> f, data |-> <<"multipart", "blank">> \o d] :
     f \in {[words |-> 3, slashes |-> 1]}, d \in Upto(Pieces, MaxPieces)}
  \cup {[kind |-> "request", first |-> f, data |-> d] : f \in Firsts, d \in Upto(Pieces, 2)}

(* What a call returns; what it reads beyond its text may be one or another. *)
Results(in) ==
  CASE in.kind = "page" -> {render(in.levels, MaxTocLevel).items}
    [] in.kind = "image" -> {Size(in.asked, in.w, in.h)}
    [] in.kind = "header" -> find_match(in.text, 1, in.m_end)
    [] in.kind = "cell" -> {in_table_cell_style(in.text, 1)}
    [] in.kind = "tag" -> {readTag(in, 1)}
    [] in.kind = "form" -> {read(in.first, SubSeq(Form(in.parts), 1, in.n))}
    [] in.kind = "request" -> {read(in.first, in.data)}

Init ==
  /\ \/ input \in Pages
     \/ input \in Images
     \/ input \in Headers
     \/ input \in Cells
     \/ input \in Tags
     \/ input \in Forms
     \/ input \in Requests
  /\ output = None

Call ==
  /\ output = None
  /\ \E r \in Results(input) : output' = <<r>>
  /\ UNCHANGED input

Next == Call
Spec == Init /\ [][Next]_vars

-----------------------------------------------------------------------------
Called(kind) == output # None /\ input.kind = kind

(* However the levels of the headers of a page go up and down (toc.cpp, "beware of OBO error"),  *)
(* the table of contents has all that are not too deep, in the lists of their levels and, if no  *)
(* level is skipped, with the numbers that they should have.                                      *)
ContentsInOrder == Called("page") => InOrder(input.levels, MaxTocLevel, output[1])

(* An image is shown in the proportions of its file and as its link asks for, unless the file is *)
(* recorded with no width or height or a product of sizes is no int (image.cpp).                 *)
KeepsProportions == Called("image") => InProportion(input.asked, input.w, input.h, output[1])

(* A header that is closed as it is opened takes just its line, whatever the match before it has *)
(* left behind, and its section is edited up to the next one (find_match, extractSection).       *)
HeaderTakesItsLine ==
  Called("header") =>
    \A n \in 1..Len(input.text) :
      WellFormed(input.text, n) => TakesItsLine(input.text, n, output[1])

(* What is taken for the style of a table's cell is one; and without brackets, every style is    *)
(* found (in_table_cell_style).                                                                   *)
StyleStandsAlone ==
  Called("cell") =>
    /\ output[1] => HasStyle(input.text)
    /\ "open bracket" \notin {input.text[i] : i \in 1..Len(input.text)} =>
         (output[1] <=> HasStyle(input.text))

(* A tag ends with the first brackets that close it and has nothing from elsewhere; and what is  *)
(* no tag, though the stream has been moved beyond the text on the way, moves nothing (readTag). *)
TagIsWhole == Called("tag") => Whole(input, 1, output[1])

(* A form is read as it was written, however much of it has arrived when it is read: of what has *)
(* not arrived at most one value is stored, which is empty, as the marker at its end is missing.  *)
(* Whatever else a request has behind its header, no value has a marker in it (http_header.cpp). *)
FormIsRead ==
  /\ Called("form") => ReadRight(input.parts, input.n, output[1].postdata)
  /\ Called("request") =>
       \A i \in 1..Len(output[1].postdata) :
         {j \in 1..Len(output[1].postdata[i]) : output[1].postdata[i][j] \in Markers} = {}

(* Italics that are closed as they are opened become tags around the text between the markers:   *)
(* "convert these into html tags" (code.cpp:536).                                                 *)
QuotesBecomeTags ==
  Called("header") /\ WellFormed(input.text, 2) /\ LineEnd(input.text) > Len(input.text) =>
    replace_match(input.text, output[1]) = Italics(input.text)
=============================================================================
