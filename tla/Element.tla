------------------------------ MODULE Element ------------------------------
(***************************************************************************)
(* CElement: a cursor in the tree of a page that is being built            *)
(* (src/src/htmlgen/element.h and .cpp).  What matters of it is the path   *)
(* of open elements from the content of the page, path[1], to the element  *)
(* that it stands at; m_dom_stack is the same path without its root.       *)
(*                                                                         *)
(* Operations take a path and give one.  The empty path stands for what    *)
(* there is no coming back from: a failed assertion, or the last element   *)
(* taken off an empty stack.                                               *)
(***************************************************************************)
EXTENDS Naturals, Sequences

Types == {"wiki", "html", "bbcode", "none"}
Element(name, type) == [name |-> name, type |-> type]
Root == Element("div", "none")

list_tags == {"ul", "ol", "dl"}
list_items == {"li", "dt", "dd"}
table_only == {"caption", "td", "th", "tr"}
blocks == {"div"}

Top(path) == path[Len(path)]
At(path, names) == path # <<>> /\ Top(path).name \in names
inStack(path, name) == \E i \in 2..Len(path) : path[i].name = name

becomeChild(path, name, type) ==
  IF path = <<>> THEN <<>> ELSE Append(path, Element(name, type))
becomeParent(path) ==
  IF path = <<>> THEN <<>> ELSE SubSeq(path, 1, Len(path) - 1)

(* setAttribute("tagtype", type) *)
setTagtype(path, type) ==
  IF path = <<>> THEN <<>> ELSE [path EXCEPT ![Len(path)].type = type]

(* becomeParent() again and again, up to the last of the positions. *)
ClimbTo(path, positions) ==
  SubSeq(path, 1, IF positions = {} THEN 0
                  ELSE CHOOSE i \in positions : \A j \in positions : j <= i)
Named(path, names) == {i \in 1..Len(path) : path[i].name \in names}

(* The parts of a table: each first closes what stands in its way. *)
Cells(path, type) ==
  {i \in 1..Len(path) : path[i].name \in table_only /\ path[i].type = type}
endCell(path, type) ==
  LET inner == IF inStack(path, "table") /\ ~At(path, {"table"})
               THEN ClimbTo(path, Cells(path, type)) ELSE path
  IN IF At(inner, {"td", "th", "caption"}) /\ Top(inner).type = type
     THEN becomeParent(inner) ELSE inner

endRow(path, type) ==
  LET inner == endCell(path, type)
  IN IF At(inner, {"tr"}) THEN becomeParent(inner) ELSE inner

(* Q_ASSERT(nodeName() == "table" && attribute("tagtype") == type) *)
AssertTable(path, type) ==
  IF path # <<>> /\ Top(path) = Element("table", type) THEN path ELSE <<>>

startTable(path, type) == becomeChild(path, "table", type)
endTable(path, type) == becomeParent(AssertTable(endRow(path, type), type))
startCaption(path, type) ==
  becomeChild(AssertTable(endRow(path, type), type), "caption", type)
startRow(path, type) == becomeChild(AssertTable(endRow(path, type), type), "tr", type)

InRow(path, type) ==
  LET inner == endCell(path, type)
  IN IF At(inner, {"tr"}) \/ inner = <<>> THEN inner ELSE startRow(inner, type)
startCell(path, type) == becomeChild(InRow(path, type), "td", type)
startHeader(path, type) == becomeChild(InRow(path, type), "th", type)
=============================================================================
