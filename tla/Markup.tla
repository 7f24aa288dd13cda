------------------------------- MODULE Markup -------------------------------
(***************************************************************************)
(* How the parser looks ahead in a text: for the signs that close a header *)
(* or a stretch of italics (find_match() in src/src/htmlgen/code.h), and   *)
(* for the style of the cell of a table (in_table_cell_style() in          *)
(* src/src/htmlgen/code.cpp).  A text is a sequence of characters, by      *)
(* their classes; the stream may stand at any of them, at the zero behind  *)
(* the last, and one behind that.                                          *)
(***************************************************************************)
EXTENDS Integers, Sequences, FiniteSets

(* "sign" is the character that opens and closes: "=" or an apostrophe. *)
Char(text, i) == IF i \in 1..Len(text) THEN text[i] ELSE "zero"

(* The end of the run of signs that begins at i. *)
RunEnd(text, i) ==
  CHOOSE j \in i..Len(text) : /\ \A k \in i..j : text[k] = "sign"
                              /\ Char(text, j + 1) # "sign"

(* What is behind the zero is read as well: it may be a sign by chance.  If there is no closer, *)
(* m_end is what the last match has left there.  There is a match if it ends behind the start   *)
(* of the page, wherever that is.                                                               *)
find_match(text, from, m_end) ==
  LET start == RunEnd(text, from)
      opened == start - from + 1
      ends == {i \in (start + 2)..Len(text) : text[i] = "sign"}
      found(end, depth) == [start |-> start, end |-> end, depth |-> depth]
  IN IF ends # {}
     THEN LET end == CHOOSE i \in ends : \A j \in ends : i <= j
              closed == RunEnd(text, end) - end + 1
          IN {found(end, IF closed < opened THEN closed ELSE opened)}
     ELSE {found(m_end, 1), found(Len(text) + 2, 1)}

(* Variant: the title ends behind the sign that closes it. *)
HeaderWith(text, from, match) ==
  [title |-> SubSeq(text, (IF match.start = from THEN from + 2 ELSE match.start + 1), match.end),
   at |-> match.end + match.depth - 1]

(* What parse() makes of a match for a header: the title, and where the stream is then.  The    *)
(* loop that goes to the start of the match takes one step at least, so that after one sign the *)
(* first character of the title is left out; a match that ends before it starts is never met.   *)
Header(text, from, match) ==
  LET first == IF match.start = from THEN from + 2 ELSE match.start + 1
  IN IF match.end >= first
     THEN [title |-> SubSeq(text, first, match.end - 1), at |-> match.end + match.depth - 1]
     ELSE [title |-> SubSeq(text, first, Len(text)), at |-> Len(text) + 2]

(* replace_match(): both ends of the match are replaced by tags, the first first.  Tags are    *)
(* characters of their own here, as many as the tag has.                                        *)
Replaced(text, from, n, by) == SubSeq(text, 1, from - 1) \o by \o SubSeq(text, from + n, Len(text))
OpenTag == <<"open", "open", "open">>
CloseTag == <<"close", "close", "close", "close">>
replace_match(text, match) ==
  Replaced(Replaced(text, match.start, match.depth, OpenTag), match.end, match.depth, CloseTag)

-----------------------------------------------------------------------------
(* Is there a "|" in the rest of the line, that is not "||", with no "!!" before it, and no     *)
(* bracket?  A bracket that opens is pushed and never popped, as its closer is another          *)
(* character than the one that is pushed.  Variant: brackets do not matter.                     *)
in_table_cell_style_anywhere(text, from) ==
  LET stop(i) == text[i] \in {"line", "pipe"} \/ (text[i] = "!" /\ Char(text, i + 1) = "!")
      stops == {i \in (from + 1)..Len(text) : stop(i)}
      first == CHOOSE i \in stops : \A j \in stops : i <= j
  IN stops # {} /\ text[first] = "pipe" /\ Char(text, first + 1) # "pipe"

in_table_cell_style(text, from) ==
  LET open(i) == \E k \in (from + 1)..(i - 1) : text[k] = "open bracket"
      stop(i) == \/ text[i] = "line"
                 \/ ~open(i) /\ (text[i] = "pipe" \/ (text[i] = "!" /\ Char(text, i + 1) = "!"))
      stops == {i \in (from + 1)..Len(text) : stop(i)}
      first == CHOOSE i \in stops : \A j \in stops : i <= j
  IN stops # {} /\ text[first] = "pipe" /\ Char(text, first + 1) # "pipe"

(* CWikiEditor::extractSection(): from behind the character at which the stream is, up to the *)
(* next line that starts with "=".                                                             *)
Section(text, first) ==
  LET ends == {i \in first..Len(text) : text[i] = "line" /\ Char(text, i + 1) = "sign"}
      end == IF ends = {} THEN Len(text) + 1 ELSE CHOOSE i \in ends : \A j \in ends : i <= j
  IN SubSeq(text, first, end - 1)
extractSection(text, from) == Section(text, from + 1)

-----------------------------------------------------------------------------
(* What should come of a text with the stream at its first character. *)

LineEnd(text) ==
  LET lines == {i \in 1..Len(text) : text[i] = "line"}
  IN IF lines = {} THEN Len(text) + 1 ELSE CHOOSE i \in lines : \A j \in lines : i <= j

(* The line is closed by as many signs as it is opened by, with something else between them. *)
WellFormed(text, n) ==
  LET end == LineEnd(text) - 1 IN
  /\ end >= 2 * n + 1
  /\ \A i \in 1..n : text[i] = "sign" /\ text[end + 1 - i] = "sign"
  /\ \A i \in (n + 1)..(end - n) : text[i] # "sign"

(* What is behind the first line, and how much of it is ahead of the next line that starts with *)
(* a sign and of the end of the line before that.                                               *)
Rest(text) == SubSeq(text, LineEnd(text) + 1, Len(text))
Starts(rest) == {i \in 1..Len(rest) : rest[i] = "sign" /\ (i = 1 \/ rest[i - 1] = "line")}
UpToStart(rest) ==
  IF Starts(rest) = {} THEN Len(rest)
  ELSE (CHOOSE i \in Starts(rest) : \A j \in Starts(rest) : i <= j) - 2

(* A header of n signs takes just its line, and its title is what is between the signs (after a *)
(* single one, without its first character); and what is edited as its section is all that      *)
(* follows, up to the next line that starts with a sign.                                        *)
TakesItsLine(text, n, match) ==
  LET header == Header(text, 1, match)
      upTo == UpToStart(Rest(text))
  IN /\ match.depth = n
     /\ header.title = SubSeq(text, IF n = 1 THEN 3 ELSE n + 1, LineEnd(text) - 1 - n)
     /\ header.at = LineEnd(text) - 1
     /\ extractSection(text, header.at) =
          IF LineEnd(text) > Len(text) \/ upTo < 0 THEN <<>>
          ELSE <<"line">> \o SubSeq(Rest(text), 1, upTo)

(* Where a cell's style should end: at a "|" on the line that stands alone, outside of all       *)
(* brackets, if no cell is begun by "||" or "!!" before it.                                      *)
Count(text, class, j, k) == Cardinality({m \in j..k : text[m] = class})
Outside(text, k) ==
  \A j \in 2..k : \/ text[j] # "open bracket"
                  \/ Count(text, "open bracket", j, k) <= Count(text, "close bracket", j, k)
BeginsCell(text, k) == text[k] = "pipe" \/ (text[k] = "!" /\ Char(text, k + 1) = "!")
EndsStyle(text, i) ==
  /\ text[i] = "pipe" /\ Char(text, i + 1) # "pipe" /\ Outside(text, i)
  /\ \A k \in 2..(i - 1) : text[k] # "line" /\ (Outside(text, k) => ~BeginsCell(text, k))
HasStyle(text) == \E i \in 2..Len(text) : EndsStyle(text, i)

(* Markers of italics that are in pairs should become tags around what is between them. *)
Italics(text) == OpenTag \o SubSeq(text, 3, Len(text) - 2) \o CloseTag
=============================================================================
