-------------------------- MODULE MCCodeGenerator --------------------------
(* Instances of CodeGenerator for TLC. *)
EXTENDS CodeGenerator

CONSTANT Inner

line(first) == [item |-> "line", first |-> first]
list(marks) == [item |-> "list", marks |-> marks]
html(name) == [item |-> "open", syntax |-> "html", name |-> name, fits |-> TRUE]
htmlEnd(name) == [item |-> "close", syntax |-> "html", name |-> name, fits |-> TRUE]
bb(name) == [item |-> "open", syntax |-> "bbcode", name |-> name, fits |-> TRUE]
bbEnd(name) == [item |-> "close", syntax |-> "bbcode", name |-> name, fits |-> TRUE]
some == [item |-> "text"]

FirstTexts == {<<line(f)>> : f \in Firsts \ {"plain", "sign"}}
              \cup {<<line(f), some>> : f \in {"plain", "sign"}}
ListTexts == {<<list(m)>> : m \in {<<"*">>, <<"*", "*">>, <<"*", "#">>, <<":">>, <<"*",":","*">>}}
Starts == FirstTexts \cup ListTexts
UpTo(items, n) == UNION {[1..k -> items] : k \in 0..n}
(* The union of two sets; TLC looks in the first without a search through all of it when it has *)
(* been counted.                                                                                *)
With(S, T) == IF Cardinality(S) = 0 THEN T ELSE S \cup T
Join(a, b, c) == a \o b \o c

(* Lines without tags. *)
Longer(texts) == {a \o b : a \in Starts \cup {<<>>}, b \in texts}
OneLine == Longer({<<>>})
TwoLines == Longer(OneLine)
ThreeLines == Longer(TwoLines)

(* Tags on one line, and what the next line makes of them. *)
SomeTags ==
  {html("b"), htmlEnd("b"), html("ul"), htmlEnd("ul"), html("nowiki"), htmlEnd("nowiki"), html("code"), htmlEnd("code"),
   html("div"), htmlEnd("div"), html("br"), html("li"),
   bb("b"), bbEnd("b"), bb("list"), bb("*"), bbEnd("list"), bb("rule"), bb("break"),
   [bb("list") EXCEPT !.fits = FALSE], [item |-> "link", texts |-> 2], some,
   [item |-> "pipe"], [item |-> "exclamation"], html("css"), htmlEnd("css")}
Befores == {<<line("plain")>>, <<list(<<"*">>)>>, <<line("opentable"), line("cell")>>}
Afters == {<<>>, <<list(<<"*">>)>>, <<line("plain"), some>>, <<line("header")>>}
FewTags == {html("i"), htmlEnd("i"), bb("b"), bbEnd("b"), bb("list"), bb("*"), bbEnd("list"), some}
TagTexts ==
  With({Join(a, b, <<>>) : a \in {<<line("plain")>>, <<list(<<"*">>)>>}, b \in UpTo(FewTags, 4)},
       {Join(a, b, c) : a \in Befores, b \in UpTo(SomeTags, 2), c \in Afters})

(* Tables by tags. *)
TableTexts ==
  LET html_ == <<html("table"), html("tr"), html("td"), some, htmlEnd("td"), htmlEnd("tr"), htmlEnd("table")>>
      bb_ == <<bb("table"), bb("tr"), bb("td"), some, bbEnd("td"), bbEnd("tr"), bbEnd("table")>>
      open == <<html("table"), html("td")>>
  IN {Join(a, b, c) : a \in Befores, b \in {html_, bb_}, c \in Afters}
     \cup {Join(<<line("indent")>>, a, Join(b, <<line("header")>>, <<line("plain")>>)) :
             a \in {open, <<bb("code")>>, open \o <<bb("code")>>, <<bb("code")>> \o open}, b \in {<<>>, <<line("indent")>>}}

(* Tables in tables, captions and header cells, and links. *)
MoreTexts ==
  LET caption == <<html("caption"), some, htmlEnd("caption")>>
      header == <<html("tr"), html("th"), some, htmlEnd("th"), html("td"), htmlEnd("td"), htmlEnd("tr")>>
      link == <<[item |-> "link", texts |-> 1]>>
      inner == <<line("opentable"), line("cell")>>
  IN {Join(a, <<html("table")>> \o b, <<htmlEnd("table")>>) : a \in Befores, b \in {caption, header}}
     \cup {Join(a, <<tag[1]>> \o link, <<tag[2]>> \o c) : a \in Befores, c \in Afters,
             tag \in {<<bb("code"), bbEnd("code")>>, <<html("b"), htmlEnd("b")>>, <<html("nowiki"), htmlEnd("nowiki")>>}}
     \cup {Join(a \o a, <<line("closetable")>>, b) : a \in {<<line("opentable")>>, inner}, b \in TwoLines}

Alone == {[p \in Pages |-> IF p = Main THEN t ELSE <<>>] : 
            t \in With(ThreeLines, With({<<line("opentable"), line("cell")>> \o b : b \in ThreeLines},
                       With(TagTexts, With(TableTexts, MoreTexts))))}

(* A page within a page.  One that starts its line makes it a "sign". *)
EmbedBefores == {<<line("sign")>>, <<list(<<"*">>)>>, <<line("opentable"), line("cell")>>}
Within ==
  {<<line("opentable")>>, <<line("opentable"), line("sign")>>, <<line("plain"), bb("nobb")>>, <<line("plain"), html("ul")>>,
   <<line("plain"), bb("list"), bb("*")>>, <<line("plain"), bb("list"), list(<<"*">>)>>}
ListsAndLine == {<<list(<<m>>), list(<<n>>), line("plain")>> : m, n \in {"*", ":"}}
Embedding ==
  {[p \in Pages |-> IF p = Main THEN Join(a, <<[item |-> "embed", page |-> Inner]>>, c) ELSE t] :
     a \in EmbedBefores, c \in Afters, t \in TwoLines \cup {<<line("sign"), [item |-> "embed", page |-> Main]>>} \cup {<<line("plain")>> \o b : b \in UpTo(SomeTags, 1)}}
  \cup {[p \in Pages |-> IF p = Main THEN a \o <<[item |-> "embed", page |-> Inner]>> ELSE t] :
          a \in EmbedBefores \cup Within,
          t \in TwoLines \cup ListsAndLine \cup {<<line("plain"), bb("list"), bbEnd("list")>>}}

MCTexts == With(Alone, Embedding)
=============================================================================
