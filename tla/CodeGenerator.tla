--------------------------- MODULE CodeGenerator ---------------------------
(***************************************************************************)
(* CCodeGenerator::parse(): the text of a page is turned into elements     *)
(* (src/src/htmlgen/code.cpp).  A text is a sequence of items: the starts  *)
(* of lines, each with what its first characters ask for, and tags, links  *)
(* and stretches of text.  A page that is transcluded is parsed by a call  *)
(* of its own, which shares the cursor and the modes with the call that    *)
(* meets it, but not the list.                                             *)
(***************************************************************************)
EXTENDS FiniteSets, Element, ParserMode

CONSTANTS
  Pages,  \* the pages: the one that is asked for, and those it transcludes
  Main,   \* the one that is asked for
  Texts   \* the texts that they may have

Marks == {"*", "#", ":", ";"}
ListOf(mark) == CASE mark = "*" -> "ul" [] mark = "#" -> "ol" [] OTHER -> "dl"
ItemOf(mark) == CASE mark = ":" -> "dd" [] mark = ";" -> "dt" [] OTHER -> "li"

(* What a line may start with: the cells of a table are those that "|" and "!" start.  A line *)
(* that starts with "=", "{" or "-", and is no header, table or rule, is a "sign", as is one    *)
(* that starts with a page to embed.                                                            *)
TableParts == {"closetable", "caption", "row", "cell", "headercell"}
Firsts == {"plain", "sign", "blank", "indent", "header", "rule", "opentable"} \cup TableParts

Lines == [item : {"line"}, first : Firsts] \cup [item : {"list"}, marks : Seq(Marks) \ {<<>>}]

pairs == {"b", "i", "span", "p", "pre", "code", "div", "table", "ul", "ol", "dl", "h2",
          "blockquote", "font"}
noclose == {"br", "hr"}
formatting_pairs == {"css", "nowiki"}
simple_pairs == {"b", "i", "p", "pre"}

(* The arguments of a tag, a number for a list for one, fit it or do not. *)
Syntaxes == {"html", "bbcode"}
Tags == [item : {"open", "close"}, syntax : Syntaxes, name : STRING, fits : BOOLEAN]
Links == [item : {"link"}, texts : Nat]
Embeds == [item : {"embed"}, page : Pages]
Others == [item : {"text", "pipe", "exclamation"}]
Items == Lines \cup Tags \cup Links \cup Embeds \cup Others

ASSUME MainAssumption == Main \in Pages
ASSUME TextsAssumption == Texts \subseteq [Pages -> Seq(Items)]
ASSUME EmbedsAssumption ==
  \A t \in Texts, p \in Pages : \A i \in 2..Len(t[p]) :
    /\ t[p][i].item = "embed" /\ t[p][i - 1].item = "line"
    => t[p][i - 1].first \notin {"plain", "blank"}

VARIABLES
  text,    \* the text of every page
  frames,  \* the calls of parse(), outermost first
  path,    \* the cursor: the open elements, and empty when all is lost
  mode     \* m_mode

vars == <<text, frames, path, mode>>

-----------------------------------------------------------------------------
(* One call: its page, the item that its stream is at, and its current_list; and, for the *)
(* properties, the cursor and the modes as they were when it began, and the cursor behind *)
(* the first character of its line.                                                        *)
Frame(page, from, modes) ==
  [page |-> page, at |-> 1, list |-> <<>>, from |-> from, modes |-> modes, line |-> from]

Call == frames[Len(frames)]
AtEnd == Call.at > Len(text[Call.page])
Item == text[Call.page][Call.at]
Embedded == Len(frames) > 1

Reading == path # <<>> /\ ~AtEnd
Css == Is(mode, "css")
Meets(items) == Reading /\ ~Css /\ Item.item \in items

Gone == [Call EXCEPT !.at = @ + 1]
Read == frames' = [frames EXCEPT ![Len(frames)] = Gone]
(* Variant: the end of a line is stepped over twice. *)
ReadLineTwice(list) ==
  LET on == [Call EXCEPT !.at = @ + 2, !.list = list, !.line = path']
  IN frames' = [frames EXCEPT ![Len(frames)] = on]
ReadLine(list) ==
  LET on == [Call EXCEPT !.at = @ + 1, !.list = list, !.line = path']
  IN frames' = [frames EXCEPT ![Len(frames)] = on]

(* Text stands in a paragraph of its own where the element is a block. *)
simple_parse(p) == IF At(p, blocks) THEN becomeChild(p, "p", "wiki") ELSE p

(* The modes that the parser opens and closes by name. *)
Opened(m) == After(mode, [item |-> "open", mode |-> m])
Closed(modes, m) == After(modes, [item |-> "close", mode |-> m])

-----------------------------------------------------------------------------
(* The first character of a line *)

(* The end of the line before. *)
Ended == IF Call.at = 1 \/ (Wikicode(mode) /\ ~inStack(path, "pre"))
         THEN path ELSE simple_parse(path)

Line(firsts) == Meets({"line"}) /\ Wikicode(mode) /\ Item.first \in firsts
ListLine == Meets({"list"}) /\ Wikicode(mode)

(* A line that is not empty ends what the line before has left open: the line of a table, *)
(* and indented text.                                                                     *)
LineModes ==
  LET ended == Closed(mode, "wikitableline")
  IN IF Is(ended, "wikiindent") THEN Closed(ended, "wikiindent") ELSE ended

InTable(modes) == Is(modes, "htmltable") \/ Is(modes, "bbtable") \/ Is(modes, "wikitable")
InList(modes) ==
  Is(modes, "htmlul") \/ Is(modes, "htmlol") \/ Is(modes, "bblist") \/ Is(modes, "wikilist")

LinePath(isCell, isList) ==
  LET modes == Closed(mode, "wikitableline") IN
  IF Is(modes, "wikiindent")
  THEN IF inStack(Ended, "pre") THEN becomeParent(ClimbTo(Ended, Named(Ended, {"pre"}))) ELSE Ended
  ELSE IF \/ InTable(modes) /\ ~isCell /\ At(Ended, table_only)
          \/ InList(modes) /\ ~isList /\ At(Ended, list_items)
       THEN becomeChild(Ended, "p", "wiki") ELSE Ended

(* A list goes on as far as the marks are the same. *)
Same(list, marks) ==
  LET equal == {k \in 0..Len(list) : k <= Len(marks) /\ \A i \in 1..k : list[i] = marks[i]}
  IN CHOOSE k \in equal : \A j \in equal : j <= k

Drop(p, n) == SubSeq(p, 1, IF n > Len(p) THEN 0 ELSE Len(p) - n)
Again(p) == IF At(p, list_items) THEN becomeChild(becomeParent(p), Top(p).name, "none") ELSE p
Nested(p, marks) ==
  IF p = <<>> THEN <<>>
  ELSE p \o [i \in 1..(2 * Len(marks)) |->
               LET mark == marks[(i + 1) \div 2]
               IN Element(IF i % 2 = 1 THEN ListOf(mark) ELSE ItemOf(mark), "none")]

(* Variant: one element is closed for every level of the list. *)
ListPathHalf(p, list, marks) ==
  LET same == Same(list, marks)
      higher == Drop(p, Len(list) - same)
  IN IF same = Len(list) /\ same = Len(marks)
     THEN becomeChild(IF At(p, list_items) THEN becomeParent(p) ELSE p,
                      ItemOf(marks[same]), "none")
     ELSE Nested(IF same < Len(list) THEN Again(higher) ELSE higher,
                 SubSeq(marks, same + 1, Len(marks)))

ListPath(p, list, marks) ==
  LET same == Same(list, marks)
      higher == Drop(p, 2 * (Len(list) - same))
  IN IF same = Len(list) /\ same = Len(marks)
     THEN becomeChild(IF At(p, list_items) THEN becomeParent(p) ELSE p,
                      ItemOf(marks[same]), "none")
     ELSE Nested(IF same < Len(list) THEN Again(higher) ELSE higher,
                 SubSeq(marks, same + 1, Len(marks)))

listLine ==
  /\ ListLine
  /\ mode' = LineModes
  /\ path' = setTagtype(ListPath(LinePath(FALSE, TRUE), Call.list, Item.marks), "wiki")
  /\ ReadLine(Item.marks)
  /\ UNCHANGED text

(* Any other line ends the list: for every mark an item is closed, if the cursor is at one, *)
(* and then a list, if it is at one.  Such a turn begins with each item, and with each list *)
(* that is not around one.                                                                  *)
Turns(p, k) ==
  {i \in (k + 1)..Len(p) :
     p[i].name \in list_items \/ i = Len(p) \/ p[i + 1].name \notin list_items}
Endings(p, n) ==
  {k \in 0..Len(p) : /\ \A i \in (k + 1)..Len(p) : p[i].name \in list_tags \cup list_items
                     /\ Cardinality(Turns(p, k)) <= n}
EndLists(p) ==
  LET ends == Endings(p, Len(Call.list))
  IN SubSeq(p, 1, CHOOSE k \in ends : \A j \in ends : k <= j)

(* White space ahead of a line makes it preformatted, and lets the list go on. *)
indentLine ==
  /\ Line({"indent"})
  /\ IF Is(mode, "wikiindent") THEN mode' = mode /\ path' = Ended
     ELSE mode' = Opened("wikiindent") /\ path' = becomeChild(Ended, "pre", "wiki")
  /\ ReadLine(Call.list)
  /\ UNCHANGED text

blankLine ==
  /\ Line({"blank"})
  /\ LET ended == EndLists(Ended)
         inner == IF At(ended, {"p"}) THEN becomeParent(ended) ELSE ended
     IN path' = becomeChild(inner, "p", "wiki")
  /\ mode' = mode
  /\ ReadLine(<<>>)
  /\ UNCHANGED text

(* A header stands in the page, in preformatted text or in a part of a table. *)
(* Variant: it closes all that is open in the page. *)
HeaderPathOut(p) == SubSeq(p, 1, 1)
HeaderPath(p) ==
  IF p = <<>> THEN <<>> ELSE ClimbTo(p, {1} \cup Named(p, {"pre"} \cup table_only))

headerLine ==
  /\ Line({"header"})
  /\ mode' = LineModes
  /\ path' = HeaderPath(EndLists(LinePath(FALSE, FALSE)))
  /\ ReadLine(<<>>)
  /\ UNCHANGED text

(* Variant: the table is opened after its mode is looked for. *)
openTableLate ==
  /\ Line({"opentable"})
  /\ mode' = LineModes
  /\ path' = startTable(EndLists(LinePath(FALSE, FALSE)), "wiki")
  /\ ReadLine(<<>>)
  /\ UNCHANGED text

openTable ==
  /\ Line({"opentable"})
  /\ mode' = Append(LineModes, "wikitable")
  /\ path' = startTable(EndLists(LinePath(FALSE, FALSE)), "wiki")
  /\ ReadLine(<<>>)
  /\ UNCHANGED text

(* A part of a table.  The end of the table is to end its mode, and finds that of its line. *)
TablePart(p) ==
  CASE Item.first = "closetable" -> endTable(p, "wiki")
    [] Item.first = "caption" -> startCaption(p, "wiki")
    [] Item.first = "row" -> startRow(p, "wiki")
    [] Item.first = "cell" -> startCell(p, "wiki")
    [] OTHER -> startHeader(p, "wiki")

tableLine ==
  /\ Line(TableParts) /\ Is(LineModes, "wikitable")
  /\ mode' = LET modes == Append(LineModes, "wikitableline")
             IN IF Item.first = "closetable" THEN Closed(modes, "wikitable") ELSE modes
  /\ path' = TablePart(EndLists(LinePath(TRUE, FALSE)))
  /\ ReadLine(<<>>)
  /\ UNCHANGED text

(* A plain line within a table, but outside of its parts, ends it. *)
(* Variant: the mode of the table that is ended is left open. *)
plainLineOpen ==
  /\ \/ Line({"plain"})
     \/ Line(TableParts) /\ ~Is(LineModes, "wikitable")
  /\ LET p == EndLists(LinePath(Item.first # "plain", FALSE))
         begun == IF Item.first = "plain" THEN p ELSE simple_parse(p)
     IN path' = IF Is(LineModes, "wikitable") /\ At(p, {"table"}) THEN endTable(p, "wiki") ELSE begun
  /\ mode' = LineModes
  /\ ReadLine(<<>>)
  /\ UNCHANGED text

plainLine ==
  /\ \/ Line({"plain"})
     \/ Line(TableParts) /\ ~Is(LineModes, "wikitable")
  /\ LET p == EndLists(LinePath(Item.first # "plain", FALSE))
         begun == IF Item.first = "plain" THEN p ELSE simple_parse(p)
     IN IF Is(LineModes, "wikitable") /\ At(p, {"table"})
        THEN path' = endTable(p, "wiki") /\ mode' = Closed(LineModes, "wikitable")
        ELSE path' = begun /\ mode' = LineModes
  /\ ReadLine(<<>>)
  /\ UNCHANGED text

(* Nor does a rule end the table, nor a line that starts as a header, a table or a rule would. *)
ruleLine ==
  /\ Line({"rule", "sign"})
  /\ mode' = LineModes
  /\ path' = EndLists(LinePath(FALSE, FALSE))
  /\ ReadLine(<<>>)
  /\ UNCHANGED text

(* Where wiki-code is off, lines are text. *)
rawLine ==
  /\ Meets({"line", "list"}) /\ ~Wikicode(mode)
  /\ path' = simple_parse(Ended)
  /\ mode' = mode
  /\ ReadLine(Call.list)
  /\ UNCHANGED text

-----------------------------------------------------------------------------
(* Within a line *)

readText ==
  /\ Meets({"text"})
  /\ path' = simple_parse(path)
  /\ mode' = mode
  /\ Read /\ UNCHANGED text

(* "|" or "||", and "!!", within the line of a table. *)
inlineCell ==
  /\ Meets({"pipe", "exclamation"})
  /\ path' = IF ~Wikicode(mode) \/ ~Is(mode, "wikitableline") THEN simple_parse(path)
             ELSE IF Item.item = "pipe" THEN startCell(path, "wiki") ELSE startHeader(path, "wiki")
  /\ mode' = mode
  /\ Read /\ UNCHANGED text

(* What mode a tag is the name of: "[nobb]" opens what "[/noparse]" closes. *)
ModeOf(tag) ==
  CASE tag.syntax = "html" /\ tag.name = "table" -> "htmltable"
    [] tag.syntax = "html" /\ tag.name = "ol" -> "htmlol"
    [] tag.syntax = "html" /\ tag.name = "ul" -> "htmlul"
    [] tag.syntax = "html" /\ tag.name = "code" -> "htmlcode"
    [] tag.syntax = "html" /\ tag.name \in {"css", "nowiki", "noparse"} -> tag.name
    [] tag.syntax = "bbcode" /\ tag.name = "table" -> "bbtable"
    [] tag.syntax = "bbcode" /\ tag.name = "list" -> "bblist"
    [] tag.syntax = "bbcode" /\ tag.name = "code" -> "bbcode"
    [] tag.syntax = "bbcode" /\ tag.item = "open" /\ tag.name = "nobb" -> "nobb"
    [] tag.syntax = "bbcode" /\ tag.item = "close" /\ tag.name = "noparse" -> "nobb"
    [] OTHER -> "none"
ModeTag == IF Item.item \in {"open", "close"} THEN [item |-> Item.item, mode |-> ModeOf(Item)]
           ELSE [item |-> "other", mode |-> "none"]
Tagged(items) == Meets(items) /\ ~Complains(mode, ModeTag)

(* The style sheet takes in all that there is up to its end. *)
readCss ==
  /\ Reading /\ Css
  /\ mode' = IF Item.item = "close" /\ ModeOf(Item) = "css" THEN Closed(mode, "css") ELSE mode
  /\ Read /\ UNCHANGED <<text, path>>

(* In a raw text the tag is to be left as text, and the complaint about it is worded with *)
(* an index that is far out of the range of its list.                                      *)
readRaw ==
  /\ Meets({"open", "close", "link", "embed"}) /\ Complains(mode, ModeTag)
  /\ path' \in {simple_parse(path), <<>>}
  /\ mode' = mode
  /\ Read /\ UNCHANGED text

Tag(item, syntax) == Tagged({item}) /\ Item.syntax = syntax
Apply(p) ==
  /\ path' = p
  /\ mode' = After(mode, ModeTag)
  /\ Read /\ UNCHANGED text

(* A tag of html closes the element of its name, if the cursor is at it; that of nowiki any. *)
HtmlClosed ==
  IF \/ Item.name = "nowiki"
     \/ Wikicode(mode) /\ At(path, {Item.name})
  THEN becomeParent(path) ELSE path
closeHtml == Tag("close", "html") /\ Apply(HtmlClosed)

(* A tag of BBCode closes the nearest of the elements that it may stand for, with all that *)
(* is open in it; if there is none, it is text.                                             *)
Closers(name) ==
  CASE name \in simple_pairs \cup {"td", "th", "tr"} -> {name}
    [] name = "code" -> {"pre"}
    [] name = "quote" -> {"blockquote"}
    [] name = "list" -> {"ol", "ul"}
    [] name = "size" -> {"font", "h2"}
    [] name = "color" -> {"span"}
    [] name = "table" -> {"table"}
    [] name = "url" -> {"a"}
    [] OTHER -> {}
(* Variant: it is found, and left open. *)
BBClosedNot ==
  IF \E name \in Closers(Item.name) : inStack(path, name)
  THEN ClimbTo(path, Named(path, Closers(Item.name)))
  ELSE simple_parse(path)
BBClosed ==
  IF \E name \in Closers(Item.name) : inStack(path, name)
  THEN becomeParent(ClimbTo(path, Named(path, Closers(Item.name))))
  ELSE simple_parse(path)
closeBB ==
  /\ Tag("close", "bbcode")
  /\ Apply(IF Bbcode(mode) \/ Item.name = "code" THEN BBClosed ELSE path)

(* Pairs of tags open an element; the parts of a table are looked at if its mode is on. *)
HtmlOpened ==
  CASE Item.name = "table" -> startTable(path, "html")
    [] Item.name \in pairs \ {"table"} -> becomeChild(path, Item.name, "html")
    [] Item.name \in noclose \cup (formatting_pairs \ {"nowiki"}) -> path
    [] Item.name = "nowiki" -> becomeChild(path, "span", "html")
    [] Item.name \in table_only /\ Is(mode, "htmltable") ->
         (CASE Item.name = "td" -> startCell(path, "html")
            [] Item.name = "th" -> startHeader(path, "html")
            [] Item.name = "tr" -> endRow(path, "html")
            [] OTHER -> startCaption(path, "html"))
    [] Item.name \in list_items /\ (Is(mode, "htmlol") \/ Is(mode, "htmlul")) -> <<>>
    [] OTHER -> simple_parse(path)
openHtml == Tag("open", "html") /\ Apply(HtmlOpened)

(* Tags of BBCode that stand for an element, and where they put the cursor; those that do  *)
(* not fit are text, but what they have opened by then, in the list and the rule, is open. *)
ListItem(p) ==
  IF inStack(p, "ol") \/ inStack(p, "ul") \/ inStack(p, "dl")
  THEN becomeChild(ClimbTo(p, Named(p, list_tags)), "li", "none") ELSE <<>>
BBOpens ==
  CASE Item.name \in simple_pairs -> <<"child", Item.name>>
    [] Item.name = "code" -> <<"child", "pre">>
    [] Item.name = "quote" -> <<"child", "blockquote">>
    [] Item.name = "list" -> <<"tried", IF Item.fits THEN "ul" ELSE "ol">>
    [] Item.name = "rule" -> <<"tried", "hr">>
    [] Item.name = "size" /\ Item.fits -> <<"child", "font">>
    [] Item.name = "color" /\ Item.fits -> <<"child", "span">>
    [] Item.name \in {"break", "img", "url"} -> <<"here">>
    [] Item.name = "table" -> <<"table">>
    [] Item.name \in {"td", "th", "tr"} /\ Is(mode, "bbtable") -> <<"child", Item.name>>
    [] Item.name = "*" /\ Is(mode, "bblist") -> <<"item">>
    [] OTHER -> <<"text">>
BBOpened ==
  LET opens == BBOpens
      at == CASE opens[1] \in {"child", "tried"} -> becomeChild(path, opens[2], "none")
              [] opens[1] = "here" -> path
              [] opens[1] = "table" -> startTable(path, "bbcode")
              [] opens[1] = "item" -> ListItem(path)
              [] OTHER -> path
  IN IF opens[1] = "text" \/ (opens[1] = "tried" /\ ~Item.fits)
     THEN simple_parse(at) ELSE setTagtype(at, "bbcode")
openBB ==
  /\ Tag("open", "bbcode")
  /\ Apply(IF Bbcode(mode) THEN BBOpened ELSE simple_parse(path))

(* A link with more than one text is found out when its element is open. *)
readLink ==
  /\ Tagged({"link"})
  /\ Apply(IF ~Wikicode(mode) THEN simple_parse(path)
           ELSE IF Item.texts <= 1 THEN path ELSE becomeChild(path, "a", "wiki"))

(* A page within a page. *)
InLineage(page) == \E i \in 1..Len(frames) : frames[i].page = page
IsText == ~Wikicode(mode) \/ InLineage(Item.page)

skipEmbed == Tagged({"embed"}) /\ IsText /\ Apply(simple_parse(path))

(* Variant: the embedded page goes on with the list of its parent. *)
embedInList ==
  /\ Tagged({"embed"}) /\ ~IsText
  /\ frames' = Append([frames EXCEPT ![Len(frames)] = Gone],
                      [Frame(Item.page, path, mode) EXCEPT !.list = Call.list])
  /\ UNCHANGED <<text, path, mode>>

embed ==
  /\ Tagged({"embed"}) /\ ~IsText
  /\ frames' = Append([frames EXCEPT ![Len(frames)] = Gone], Frame(Item.page, path, mode))
  /\ UNCHANGED <<text, path, mode>>

embeddedReturns ==
  /\ path # <<>> /\ AtEnd /\ Embedded
  /\ frames' = SubSeq(frames, 1, Len(frames) - 1)
  /\ UNCHANGED <<text, path, mode>>

-----------------------------------------------------------------------------
(* reinit(), and the content of a new page. *)
Init ==
  /\ text \in Texts
  /\ path = <<Root>>
  /\ frames = <<Frame(Main, <<Root>>, <<>>)>>
  /\ mode = <<>>

Next ==
  \/ listLine \/ indentLine \/ blankLine \/ headerLine \/ openTable \/ tableLine
  \/ plainLine \/ ruleLine \/ rawLine
  \/ readText \/ inlineCell \/ readCss \/ readRaw
  \/ closeHtml \/ closeBB \/ openHtml \/ openBB
  \/ readLink \/ skipEmbed \/ embed \/ embeddedReturns

Spec == Init /\ [][Next]_vars

-----------------------------------------------------------------------------
(* Properties *)

(* Every variable stays in its range, and every call of parse() is at a place of its text: *)
(* whatever names the tags of a text have, only elements that are known are made of them.  *)
ElementNames == pairs \cup list_tags \cup list_items \cup table_only \cup {"hr", "font", "a"}
Elements == [name : ElementNames, type : Types]
Calls == [page : Pages, at : Nat, list : Seq(Marks),
          from : Seq(Elements), modes : Seq(Modes), line : Seq(Elements)]
TypeOK ==
  /\ text \in [Pages -> Seq(Items)]
  /\ path \in Seq(Elements)
  /\ mode \in Seq(Modes)
  /\ frames \in Seq(Calls) /\ frames # <<>>
  /\ \A i \in 1..Len(frames) : frames[i].at \in 1..(Len(text[frames[i].page]) + 1)

(* What a text opens and closes: a text is tidy if every line of it closes the tags that it *)
(* opens, in their order, each where it may stand.  Left out are the tags known to leave a   *)
(* trace: a rule, a list whose number does not fit and a link with two texts, which stay     *)
(* open, and an <a>, whose end is that of such a link; a <code>, as its end is met with       *)
(* wiki-code off; a <div>, in which text opens a paragraph that </div> does not close; [break],*)
(* [img] and [url], which mark the element around them as one of BBCode; an item of a list by *)
(* html, at which an assertion fails; and a link in [code], of which the parser complains.     *)
OpenIn(parent, tag) ==
  LET inside(names) == parent.name \in names /\ parent.syntax = tag.syntax IN
  /\ tag.fits
  /\ tag.name \notin {"rule", "break", "img", "url", "div", "a", "css", "noparse", "nobb"} \cup list_items
  /\ parent.name \notin {"code", "nowiki"}
  /\ tag.name = "code" => tag.syntax = "bbcode"
  /\ tag.name = "caption" => tag.syntax = "html"
  /\ tag.name \in {"td", "th"} => inside({"tr"})
  /\ tag.name \in {"tr", "caption"} => inside({"table"})
  /\ parent.name \in {"table", "tr"} => inside({"table", "tr"})
  /\ tag.name = "*" => inside({"list"})

(* The tags that are open, innermost last, behind one item more, and behind the first n. *)
Nowhere == [syntax |-> "none", name |-> "none"]
Meet(stack, tag) ==
  LET parent == stack[Len(stack)]
      opened == [syntax |-> tag.syntax, name |-> tag.name]
  IN IF stack = <<>> THEN <<>>
     ELSE CASE tag.item = "text" -> stack
            [] tag.item = "link" /\ tag.texts <= 1 /\ parent.name # "code" -> stack
            [] tag.item \in {"line", "list", "pipe", "exclamation", "embed"} /\ Len(stack) = 1 -> stack
            [] tag.item = "open" /\ OpenIn(parent, tag) ->
                 IF tag.name \in noclose \cup {"*"} THEN stack ELSE Append(stack, opened)
            [] tag.item = "close" /\ parent = opened -> SubSeq(stack, 1, Len(stack) - 1)
            [] OTHER -> <<>>
OpenTags(items, n) ==
  LET open[i \in 0..Len(items)] == IF i = 0 THEN <<Nowhere>> ELSE Meet(open[i - 1], items[i])
  IN open[n]
Tidy(items) == OpenTags(items, Len(items)) = <<Nowhere>>

Past(call) == SubSeq(text[call.page], 1, call.at - 1)
IsLine(item) == item.item \in {"line", "list"}
Has(items, first) == \E i \in 1..Len(items) : items[i] = [item |-> "line", first |-> first]
HasItem(items, kinds) == \E i \in 1..Len(items) : items[i].item \in kinds
OnThisLine(items, kinds) ==
  \E i \in 1..Len(items) : items[i].item \in kinds /\ \A j \in i..Len(items) : ~IsLine(items[j])
BetweenLines == path # <<>> /\ (AtEnd \/ IsLine(Item))

(* Tags that are in order leave no trace: where a line ends that closes what it opens, the *)
(* cursor is where the line began, or in the paragraph that it has begun; where tags of     *)
(* BBCode are read, which [nobb] ends for the rest of the page.                             *)
TagsLeaveNoTrace ==
  /\ BetweenLines /\ Tidy(Past(Call)) /\ ~HasItem(Past(Call), {"embed"})
  /\ ~OnThisLine(Past(Call), {"pipe", "exclamation"}) /\ ~Is(mode, "nobb")
  => path \in {Call.line, simple_parse(Call.line)}

(* Lists are closed by what they have opened: while tags are in order and nothing is         *)
(* indented, no elements of lists are open but those of the marks of the list, around which   *)
(* is all that else is open.                                                                  *)
Names(p) == [i \in 1..Len(p) |-> p[i].name]
ListAgrees ==
  /\ BetweenLines /\ ~Embedded /\ Tidy(Past(Call))
  /\ ~Has(Past(Call), "indent") /\ ~HasItem(Past(Call), {"embed"})
  => \E n \in 0..Len(path) :
       /\ \A i \in 1..n : path[i].name \notin list_tags \cup list_items
       /\ Names(path) = Names(Nested(SubSeq(path, 1, n), Call.list))

(* A page leaves no trace in the one that transcludes it, if it is tidy, made of plain lines  *)
(* and of lists that go on with one mark and are followed by such a line.  The modes are those *)
(* it was met with, and the cursor is where it was met, or in a paragraph begun there; if it   *)
(* was not met on a line of a table, on one that is indented or in a table without a part,     *)
(* which its own first line would end, nor behind [nobb], nor in a list made of tags, in which *)
(* a paragraph is begun ahead of the end of its own list.                                      *)
Contained(items) ==
  /\ Tidy(items) /\ ~HasItem(items, {"pipe", "exclamation", "embed"})
  /\ \A i \in 1..Len(items) : items[i].item = "line" => items[i].first = "plain"
  /\ \A i \in 1..Len(items) : items[i].item = "list" =>
        \E j \in i..Len(items) : items[j].item = "line"
  /\ \A i, j \in 1..Len(items) :
       /\ i < j /\ items[i].item = "list" /\ items[j].item = "list"
       /\ ~HasItem(SubSeq(items, i, j), {"line"})
       => items[i].marks[1] = items[j].marks[1]
EmbeddedLeavesNoTrace ==
  [][/\ embeddedReturns /\ Contained(text[Call.page])
     /\ ~Is(Call.modes, "wikitableline") /\ ~Is(Call.modes, "wikiindent")
     /\ ~Is(Call.modes, "nobb") /\ ~InList(Call.modes)
     /\ ~(Is(Call.modes, "wikitable") /\ At(Call.from, {"table"}))
     => /\ mode = Call.modes
        /\ path \in {Call.from, simple_parse(Call.from), becomeChild(Call.from, "p", "wiki")}]_vars

(* A header closes no part of a table, and no preformatted text: "do not exit tables".  Only    *)
(* the text of an indented line before it ends, the nearest one, with the tables that are in it. *)
Kept == {"pre"} \cup table_only
EndsWithText(i) ==
  /\ Is(mode, "wikiindent")
  /\ \E j \in (Len(path') + 1)..i : path[j].name = "pre"
  /\ path[i].name = "pre" => \A j \in (i + 1)..Len(path) : path[j].name # "pre"
HeaderKeepsParts ==
  [][headerLine =>
       \A i \in (Len(path') + 1)..Len(path) : path[i].name \in Kept => EndsWithText(i)]_vars

(* What the tables of a text are at: the innermost last, "bare" before its first part.  A   *)
(* text has its tables in order in which the parts of a table stand in one, or where there   *)
(* has been none, and headers, blank lines and pages not in one that is bare; others are     *)
(* known to break off at an assertion.  The end of any table leaves its mode open, so that   *)
(* no part may follow when it was the outermost.  A bar in a row begins a cell and ends the  *)
(* list that it meets there, whose marks stay: the next list would close them once more.     *)
Cell == TableParts \ {"closetable"}
ListOn(items, n) ==
  \E j \in 1..(n - 1) :
    /\ items[j].item = "list"
    /\ \A k \in (j + 1)..(n - 1) : items[k].item = "line" => items[k].first = "indent"
TablesInOrder(items) ==
  LET tables[n \in 0..Len(items)] ==
        IF n = 0 THEN <<"none">>
        ELSE LET stack == tables[n - 1]
                 item == items[n]
                 last == stack[Len(stack)]
                 outer == SubSeq(stack, 1, Len(stack) - 1)
                 is(firsts) == item.item = "line" /\ item.first \in firsts
             IN IF stack = <<>> THEN <<>>
                ELSE CASE is({"opentable"}) -> Append(stack, "bare")
                       [] is(Cell) /\ last \in {"bare", "part"} -> Append(outer, "part")
                       [] is({"closetable"}) /\ last \in {"bare", "part"} -> [outer EXCEPT ![1] = "ended"]
                       [] is({"plain"}) /\ last = "bare" -> outer
                       [] is({"header", "blank"}) /\ last = "bare" -> <<>>
                       [] is(TableParts) /\ last = "ended" -> <<>>
                       [] /\ item.item \in {"pipe", "exclamation"}
                          /\ last \in {"bare", "ended"} \/ (last = "part" /\ ListOn(items, n)) -> <<>>
                       [] item.item = "embed" /\ last = "bare" -> <<>>
                       [] OTHER -> stack
  IN tables[Len(items)] # <<>>

(* A tidy text with its tables in order is read to its end: no assertion fails, and the stack *)
(* of elements is never taken from when it is empty.                                          *)
ContentIsKept ==
  /\ \A p \in Pages : Tidy(text[p])
  /\ TablesInOrder(text[Main])
  /\ \A p \in Pages \ {Main} : Contained(text[p])
  => path # <<>>

(* While a table is open, the lines that go on with it are looked for; where no table is made *)
(* of tags, at least.                                                                         *)
NoTableTags ==
  \A p \in Pages : \A i \in 1..Len(text[p]) :
    text[p][i].item \in {"open", "close"} => text[p][i].name # "table"
Tables(p) == {i \in 1..Len(p) : p[i].name = "table"}
TableModes(modes) == {i \in 1..Len(modes) : modes[i] = "wikitable"}
OpenTableGoesOn ==
  NoTableTags => Cardinality(Tables(path)) <= Cardinality(TableModes(mode))
=============================================================================
