----------------------------- MODULE ParserMode -----------------------------
(***************************************************************************)
(* CParserMode: the stack of modes of the parser                           *)
(* (src/src/parse/parser_mode.h and .cpp).  operator= is given the text of *)
(* a tag, which opens a mode, or closes the one on top; it is two          *)
(* operators here.                                                         *)
(***************************************************************************)
EXTENDS Naturals, Sequences

(* The keys of m_modes; "nobb" is opened by [nobb] and closed by [/noparse]. *)
Modes == {"htmltable", "htmlol", "htmlul", "bbtable", "bblist", "wikiindent", "wikitableline",
          "wikitable", "wikilist", "css", "htmlcode", "bbcode", "nowiki", "nobb", "noparse",
          "includeonly", "noinclude"}

Raw == {"css", "htmlcode", "bbcode", "noparse"}

Current(modes) == IF modes = <<>> THEN "normal" ELSE modes[Len(modes)]

Wikicode(modes) == Current(modes) \notin Raw \cup {"nowiki"}
Bbcode(modes) == Current(modes) \notin Raw \cup {"nobb"}
Stackable(modes) == Current(modes) \notin Raw

(* operator==: the mode is anywhere in the stack. *)
Is(modes, m) == \E i \in 1..Len(modes) : modes[i] = m

(* A tag is [item |-> "open" or "close", mode |-> ...]; whatever else the parser reads as a *)
(* tag, a link for one, is neither.                                                          *)
Closes(modes, tag) == tag.item = "close" /\ tag.mode = Current(modes)

(* operator= complains of all but the closing tag of a raw mode, and looks up the name of *)
(* the mode in the list mode_strings at an index that is the hash of the mode.            *)
Complains(modes, tag) == ~Closes(modes, tag) /\ ~Stackable(modes)

After(modes, tag) ==
  IF Closes(modes, tag) THEN SubSeq(modes, 1, Len(modes) - 1)
  ELSE IF tag.item = "open" /\ tag.mode \in Modes THEN Append(modes, tag.mode)
  ELSE modes
=============================================================================
