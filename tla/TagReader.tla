----------------------------- MODULE TagReader -----------------------------
(***************************************************************************)
(* CContainerStream::readTag(): a tag of one of the kinds of brackets that *)
(* the parser knows, taken from the place where the stream is              *)
(* (src/src/parse/container_stream.cpp, char_stream.cpp).                  *)
(*                                                                         *)
(* A text is a sequence of characters; behind the last there is a zero.    *)
(* The stream may be moved one beyond that zero before it complains, and   *)
(* what is there is read: it is a part of the input.  The delimiters that  *)
(* a kind of tag does not have are zero, and so the zero is one of them.   *)
(***************************************************************************)
EXTENDS Integers, Sequences

Tagger(opener, closer, can_abort, ns_delim, delims, attr_delims, attr_value_delim, is_wikicode) ==
  [opener |-> opener, closer |-> closer, can_abort |-> can_abort, ns_delim |-> ns_delim,
   delims |-> delims, attr_delims |-> attr_delims, attr_value_delim |-> attr_value_delim,
   is_wikicode |-> is_wikicode]

(* The order is that of ETagTypes, and it matters. *)
taggers ==
  << Tagger(<<"[">>, <<"]">>, TRUE, "zero", {"=", "zero"}, {",", "zero"}, "zero", FALSE),
     Tagger(<<"[">>, <<"]">>, TRUE, ":", {" ", "zero"}, {"zero"}, "zero", TRUE),
     Tagger(<<"<">>, <<">">>, TRUE, "zero", {" ", "line"}, {" ", "line"}, "=", FALSE),
     Tagger(<<"[", "[">>, <<"]", "]">>, TRUE, ":", {"|", "zero"}, {"|", "zero"}, "=", TRUE),
     Tagger(<<"{", "{">>, <<"}", "}">>, TRUE, ":", {"|", "zero"}, {"|", "zero"}, "=", TRUE),
     Tagger(<<"{", "{", "{">>, <<"}", "}", "}">>, TRUE, ":", {"|", "zero"}, {"|", "zero"}, "=", TRUE),
     Tagger(<<"<", "!", "-", "-">>, <<"-", "-", ">">>, FALSE, "zero", {"zero"}, {"zero"}, "zero", FALSE) >>

SingleBracketBBCode == 1
SingleBracketWikiLink == 2

(* The stream: its text, and what is read beyond it. *)
Char_(d, p) == IF p <= Len(d.text) THEN d.text[p]
               ELSE IF p = Len(d.text) + 1 THEN "zero" ELSE d.behind
Has(d, p, str) == p + Len(str) <= Len(d.text) + 1 /\ SubSeq(d.text, p, p + Len(str) - 1) = str
atEnd(d, p) == p > Len(d.text)
Space(c) == c \in {" ", "line"}

(* The last kind that is found counts: longer brackets come later. *)
Kinds(d, p, side) == {id \in DOMAIN taggers : Has(d, p, taggers[id][side])}
id_tag(d, p, side) == CHOOSE id \in Kinds(d, p, side) : \A k \in Kinds(d, p, side) : k <= id

no_abort(d, p, tagger) ==
  /\ tagger.can_abort
  /\ ~Has(d, p, tagger.closer)
  /\ tagger.is_wikicode \/ Char_(d, p) # Head(tagger.opener)

(* As far as none of these characters, the end of the tag or that of the text is met. *)
Until(d, p, tagger, stops) ==
  IF atEnd(d, p) THEN p
  ELSE CHOOSE q \in p..(Len(d.text) + 1) :
         /\ atEnd(d, q) \/ Char_(d, q) \in stops \/ ~no_abort(d, q, tagger)
         /\ \A k \in p..(q - 1) : Char_(d, k) \notin stops /\ no_abort(d, k, tagger)

Word(from, to) == [from |-> from, to |-> to]

(* The spaces before an attribute; the zero that ends the text is stepped on as well. *)
SkipSpace(d, p) ==
  IF atEnd(d, p) THEN p
  ELSE CHOOSE q \in p..(Len(d.text) + 1) : /\ ~Space(Char_(d, q))
                                           /\ \A k \in p..(q - 1) : Space(Char_(d, k))

(* One attribute: its words, where it ends, and whether it is there that another may follow. *)
Attribute(d, p, tagger) ==
  LET start == SkipSpace(d, p)
      name_end == Until(d, start, tagger, tagger.attr_delims \cup {tagger.attr_value_delim})
      valued == Char_(d, name_end) = tagger.attr_value_delim
      end == IF valued THEN Until(d, name_end, tagger, tagger.attr_delims) ELSE name_end
  IN [words |-> IF valued THEN [name |-> Word(start, name_end), value |-> Word(name_end + 1, end)]
                ELSE [name |-> Word(start, start), value |-> Word(start, end)],
      end |-> end,
      delimited |-> ~atEnd(d, end) /\ Char_(d, end) \in tagger.attr_delims]

(* The attributes from here on, and where the stream is behind them. *)
Attributes(d, p, tagger) ==
  LET from[q \in p..(Len(d.text) + 3)] ==
        LET attr == Attribute(d, q, tagger)
            rest == from[attr.end + 1]
        IN IF attr.delimited /\ Char_(d, attr.end + 1) # "zero"
           THEN [attributes |-> <<attr.words>> \o rest.attributes, at |-> rest.at]
           ELSE [attributes |-> <<attr.words>>, at |-> IF attr.delimited THEN attr.end + 1 ELSE attr.end]
  IN from[p]

(* The name with what is before it, from behind the brackets on: "interwiki:namespace:name". *)
Names(d, p, opened) ==
  LET names(tagger) == {tagger.ns_delim} \cup tagger.delims
      first == Until(d, p, taggers[opened], names(taggers[opened]))
      spaced == Char_(d, first) = taggers[opened].ns_delim
      id == IF ~spaced /\ opened = SingleBracketWikiLink THEN SingleBracketBBCode ELSE opened
      tagger == taggers[id]
      start == IF spaced THEN first + 1 ELSE p
      second == Until(d, start, tagger, names(tagger))
      again == ~atEnd(d, second) /\ Char_(d, second) = tagger.ns_delim
      third == IF again THEN Until(d, second + 1, tagger, names(tagger)) ELSE second
      nothing == Word(p, p)
  IN [id |-> id,
      interwiki |-> IF again /\ spaced THEN Word(p, first) ELSE nothing,
      namespace |-> IF again THEN Word(start, second) ELSE IF spaced THEN Word(p, first) ELSE nothing,
      name |-> Word(IF again THEN second + 1 ELSE start, third)]

(* Variant: the stream is left behind the tag, not on its last character. *)
TagEndBehind(at, tagger) == at + Len(tagger.closer)

TagEnd(at, tagger) == at + Len(tagger.closer) - 1

(* What is behind the name: its attributes, or nothing. *)
TagTail(d, name_end, tagger) ==
  LET more == Char_(d, name_end) \in tagger.delims
  IN IF more /\ Char_(d, name_end + 1) # "zero" THEN Attributes(d, name_end + 1, tagger)
     ELSE [attributes |-> <<>>, at |-> IF more THEN name_end + 1 ELSE name_end]

(* There is a tag if brackets close here, of its kind or a later one.  A stream that is beyond   *)
(* the zero finds none there, so that what is read there and one more step, which complains,     *)
(* come to the same.                                                                              *)
TagClosed(d, pos, names, tail) ==
  IF Kinds(d, tail.at, "closer") = {} \/ names.id > id_tag(d, tail.at, "closer")
  THEN [ok |-> FALSE, at |-> pos]
  ELSE [ok |-> TRUE, at |-> TagEnd(tail.at, taggers[names.id]), id |-> names.id,
        words |-> <<names.interwiki, names.namespace, names.name>>,
        attributes |-> tail.attributes]
TagNamed(d, pos, names) == TagClosed(d, pos, names, TagTail(d, names.name.to, taggers[names.id]))

readTag(d, pos) ==
  LET opened == id_tag(d, pos, "opener")
      behind_opener == pos + Len(taggers[opened].opener)
      ns_opener == Char_(d, behind_opener) = ":"
  IN IF Kinds(d, pos, "opener") = {} THEN [ok |-> FALSE, at |-> pos]
     ELSE TagNamed(d, pos, Names(d, IF ns_opener THEN behind_opener + 1 ELSE behind_opener, opened))

-----------------------------------------------------------------------------
(* A tag is what is between its brackets and the first that close it, with no word of it        *)
(* elsewhere; or there is none, and the stream is where it was.                                  *)
Whole(d, pos, tag) ==
  IF ~tag.ok THEN tag.at = pos
  ELSE LET tagger == taggers[tag.id]
           close == tag.at - Len(tagger.closer) + 1
           inside(word) == /\ pos + Len(tagger.opener) <= word.from
                           /\ word.from <= word.to /\ word.to <= close
       IN /\ Has(d, pos, tagger.opener) /\ Has(d, close, tagger.closer)
          /\ pos + Len(tagger.opener) <= close
          /\ \A p \in (pos + Len(tagger.opener))..(close - 1) : ~Has(d, p, tagger.closer)
          /\ \A i \in DOMAIN tag.words : inside(tag.words[i])
          /\ \A i \in DOMAIN tag.attributes :
               inside(tag.attributes[i].name) /\ inside(tag.attributes[i].value)
=============================================================================
