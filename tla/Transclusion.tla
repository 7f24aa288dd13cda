---------------------------- MODULE Transclusion ----------------------------
(***************************************************************************)
(* CCodeGenerator::parse(): a page is parsed, and with it the pages that   *)
(* it transcludes, each by a call of parse() nested in the one that meets  *)
(* it (src/src/htmlgen/code.cpp).  The calls share the lineage, and the    *)
(* one stack of modes.                                                     *)
(*                                                                         *)
(* A text is a sequence of items: links that transclude a page, and tags   *)
(* that open and close a mode.                                             *)
(***************************************************************************)
EXTENDS Naturals, FiniteSets, ParserMode

CONSTANTS
  Pages,     \* the titles of pages
  Existing,  \* those that are in the database
  Plain,     \* the titles that encoder() leaves as they are
  Tags,      \* the modes that tags in the texts open and close
  Texts,     \* the texts that the pages may have
  MaxDepth   \* bound: the nested calls that the stack of the thread has room for

(* A title with a space, a quote or a "!" can be spelled in two ways: as it is (raw) or *)
(* the way encoder() writes it.                                                         *)
Names == (Pages \X {"encoded"}) \cup ((Pages \ Plain) \X {"raw"})
encoder(name) == <<name[1], "encoded">>
decoder(name) == IF name[1] \in Plain THEN name ELSE <<name[1], "raw">>

Links == [item : {"link"}, to : Names]
OpenTags == [item : {"open"}, mode : Tags]
CloseTags == [item : {"close"}, mode : Tags]
Items == Links \cup OpenTags \cup CloseTags

ASSUME PagesAssumption == IsFiniteSet(Pages) /\ Existing \subseteq Pages /\ Plain \subseteq Pages
ASSUME TextsAssumption == Tags \subseteq Modes \ {"css"} /\ Texts \subseteq [Pages -> Seq(Items)]
ASSUME DepthAssumption == MaxDepth \in Nat \ {0}

VARIABLES
  text,     \* the text of every page
  frames,   \* the calls of parse(), outermost first
  lineage,  \* the names of the pages being parsed
  mode,     \* m_mode
  outcome   \* what became of the rendering

vars == <<text, frames, lineage, mode, outcome>>

-----------------------------------------------------------------------------
(* One call: its page, the next item of its stream, and whether this turn of its loop *)
(* has been through the handler of <noinclude> or <includeonly>.                      *)
Frame(page) == [page |-> page, at |-> 1, checked |-> FALSE]
Frames == [page : Pages, at : Nat \ {0}, checked : BOOLEAN]

Top == frames[Len(frames)]
TextOf(frame) == text[frame.page]
AtEnd == Top.at > Len(TextOf(Top))
Item == TextOf(Top)[Top.at]
Embedded == Len(frames) > 1

Moved(at, checked) ==
  [frames EXCEPT ![Len(frames)] = [@ EXCEPT !.at = at, !.checked = checked]]
ToNext == frames' = Moved(Top.at + 1, FALSE)

(* What an embedded page leaves out, and what the page itself does. *)
LeftOut == IF Embedded THEN "noinclude" ELSE "includeonly"
Handled == Top.checked \/ ~Is(mode, LeftOut)

Parsing == outcome = "rendering" /\ ~AtEnd
Reading == Parsing /\ Handled

(* The search for the end of what is left out: past it, or past the end of the stream, *)
(* which throws through all calls.                                                     *)
EndTag == [item |-> "close", mode |-> LeftOut]
Ends == {i \in Top.at..Len(TextOf(Top)) : TextOf(Top)[i] = EndTag}
Skipped == \E i \in Ends : (\A j \in Ends : i <= j) /\ frames' = Moved(i + 1, TRUE)

(* Variant: the mode is not closed. *)
leaveOutKeeping ==
  /\ Parsing /\ ~Handled
  /\ Skipped
  /\ UNCHANGED <<text, lineage, mode, outcome>>

leaveOut ==
  /\ Parsing /\ ~Handled
  /\ \/ /\ ~Complains(mode, EndTag) /\ Skipped
        /\ mode' = After(mode, EndTag)
        /\ UNCHANGED outcome
     \/ /\ Ends = {} \/ Complains(mode, EndTag)
        /\ outcome' \in {"aborted"} \cup (IF Ends = {} THEN {} ELSE {"undefined"})
        /\ UNCHANGED <<frames, mode>>
  /\ UNCHANGED <<text, lineage>>

(* readTag() opens or closes a mode. *)
readTag ==
  /\ Reading /\ Item.item \in {"open", "close"} /\ ~Complains(mode, Item)
  /\ ToNext
  /\ mode' = After(mode, Item)
  /\ UNCHANGED <<text, lineage, outcome>>

(* It means to leave as text what stands in a raw text; but to word the complaint that it *)
(* catches, a list is read far out of its range.                                          *)
readRaw ==
  /\ Reading /\ Complains(mode, Item)
  /\ \/ ToNext /\ UNCHANGED outcome
     \/ outcome' = "undefined" /\ UNCHANGED frames
  /\ UNCHANGED <<text, lineage, mode>>

(* A link is text where wiki-code is off, and where its name is in the lineage. *)
InLineageTop(name) == lineage[Len(lineage)] = name  \* variant: only the page itself
InLineage(name) == \E i \in 1..Len(lineage) : lineage[i] = name
IsText == ~Wikicode(mode) \/ InLineage(Item.to)
ReadingLink == Reading /\ Item.item = "link" /\ ~Complains(mode, Item)

skipLink ==
  /\ ReadingLink /\ IsText
  /\ ToNext
  /\ UNCHANGED <<text, lineage, mode, outcome>>

(* lookup(), which takes the first row without asking whether there is one. *)
Found(page) == page \in Existing

(* Variant: the parser comes back to the link when the embedded page is done. *)
transcludeAgain ==
  /\ ReadingLink /\ ~IsText /\ Found(Item.to[1]) /\ Len(frames) < MaxDepth
  /\ lineage' = Append(lineage, encoder(Item.to))
  /\ frames' = Append(frames, Frame(Item.to[1]))
  /\ UNCHANGED <<text, mode, outcome>>

transclude ==
  /\ ReadingLink /\ ~IsText
  /\ LET to == encoder(Item.to) IN
     /\ lineage' = Append(lineage, to)
     /\ \/ /\ Found(to[1]) /\ Len(frames) < MaxDepth
           /\ frames' = Append(Moved(Top.at + 1, FALSE), Frame(to[1]))
           /\ UNCHANGED outcome
        \/ /\ ~Found(to[1])
           /\ outcome' = "undefined" /\ UNCHANGED frames
        \/ /\ Found(to[1]) /\ Len(frames) = MaxDepth
           /\ outcome' = "overflow" /\ UNCHANGED frames
  /\ UNCHANGED <<text, mode>>

(* Variant: the lineage is not popped. *)
embeddedReturnsNamed ==
  /\ outcome = "rendering" /\ AtEnd /\ Embedded
  /\ frames' = SubSeq(frames, 1, Len(frames) - 1)
  /\ UNCHANGED <<text, lineage, mode, outcome>>

embeddedReturns ==
  /\ outcome = "rendering" /\ AtEnd /\ Embedded
  /\ frames' = SubSeq(frames, 1, Len(frames) - 1)
  /\ lineage' = SubSeq(lineage, 1, Len(lineage) - 1)
  /\ UNCHANGED <<text, mode, outcome>>

finish ==
  /\ outcome = "rendering" /\ AtEnd /\ ~Embedded
  /\ outcome' = "rendered"
  /\ UNCHANGED <<text, frames, lineage, mode>>

-----------------------------------------------------------------------------
(* parse(title, args), of a page that the relay has found to exist. *)
Init ==
  /\ text \in Texts
  /\ \E page \in Existing :
       /\ frames = <<Frame(page)>>
       /\ lineage = <<decoder(<<page, "encoded">>)>>
  /\ mode = <<>>
  /\ outcome = "rendering"

Next == leaveOut \/ readTag \/ readRaw \/ skipLink \/ transclude \/ embeddedReturns \/ finish

Spec == Init /\ [][Next]_vars

(* The thread that renders runs on. *)
FairSpec == Spec /\ WF_vars(Next)

-----------------------------------------------------------------------------
(* Properties *)

(* Every variable stays in its range. *)
TypeOK ==
  /\ text \in [Pages -> Seq(Items)]
  /\ frames \in Seq(Frames) /\ Len(frames) \in 1..MaxDepth
  /\ lineage \in Seq(Names)
  /\ mode \in Seq(Modes)
  /\ outcome \in {"rendering", "rendered", "aborted", "undefined", "overflow"}

(* While pages are parsed, the lineage names just the pages whose calls are open, *)
(* in their order: what the circularity check looks at is what is on the stack.   *)
LineageIsCallStack ==
  outcome = "rendering" =>
    /\ Len(lineage) = Len(frames)
    /\ \A i \in 1..Len(frames) : encoder(lineage[i]) = <<frames[i].page, "encoded">>

(* A page that transcludes itself, directly or through others, is not parsed inside itself *)
(* for ever: "circular transclusion!" is found before the stack is full.                   *)
CircularStops == outcome # "overflow"

(* What CircularStops rests on, where every link is spelled as encoder() would: no page but *)
(* the one asked for has two calls open, and only pages that exist have any.               *)
LinksEncoded ==
  \A t \in Texts, p \in Pages : \A n \in 1..Len(t[p]) :
    t[p][n].item = "link" => t[p][n].to = encoder(t[p][n].to)

CallsDiffer ==
  /\ text \in Texts
  /\ \A i \in 1..Len(frames) : frames[i].page \in Existing
  /\ \A i \in 2..Len(lineage) : lineage[i] = encoder(lineage[i])
  /\ outcome = "rendering" =>
       \A i, j \in 2..Len(frames) : frames[i].page = frames[j].page => i = j

(* What is open after the first n items of a list. *)
OpenAfter(items) ==
  LET open[n \in 0..Len(items)] == IF n = 0 THEN <<>> ELSE After(open[n - 1], items[n])
  IN open

(* Tags are closed in the order in which they were opened, and none is opened in its like; *)
(* a raw text has no tags and no links.                                                    *)
WellFormed(items) ==
  LET open == OpenAfter(items) IN
  /\ open[Len(items)] = <<>>
  /\ \A n \in 1..Len(items) :
       /\ items[n].item = "open" => ~Is(open[n - 1], items[n].mode)
       /\ items[n].item = "close" => Closes(open[n - 1], items[n])
       /\ ~Complains(open[n - 1], items[n])

AllWellFormed == \A p \in Pages : WellFormed(text[p])

(* No page transcludes another within its <noinclude>. *)
NoincludeStandsAlone ==
  \A p \in Pages : \A n \in 1..Len(text[p]) :
    text[p][n].item = "link" => ~Is(OpenAfter(text[p])[n - 1], "noinclude")

(* The tags that are open in each of the calls, and those of the first calls together. *)
OpenIn(frame) == OpenAfter(TextOf(frame))[frame.at - 1]
OpenByCall == [i \in 1..Len(frames) |-> OpenIn(frames[i])]
Joined(stacks) ==
  LET upTo[i \in 0..Len(stacks)] == IF i = 0 THEN <<>> ELSE upTo[i - 1] \o stacks[i]
  IN upTo

(* If so, and if the pages are well-formed, the stack that their calls share holds at each *)
(* moment just the tags that are open in them, the outermost page first: no call leaves a  *)
(* mode to another or takes one away, and none complains.                                  *)
ModesAreOpenTags ==
  AllWellFormed /\ NoincludeStandsAlone =>
    /\ outcome # "aborted"
    /\ outcome = "rendering" => mode = Joined(OpenByCall)[Len(frames)]

(* Rendering ends. *)
RenderingEnds == <>(outcome # "rendering")
=============================================================================
