--------------------------- MODULE MCTransclusion ---------------------------
(* Instances of Transclusion for TLC: one page with a text of three items, a page with one of *)
(* two, and other pages that are empty or missing.                                            *)
EXTENDS Transclusion

CONSTANTS Long, Short

UpTo(items, n) == UNION {[1..k -> items] : k \in 0..n}
Include == {item \in Items : item.item = "link" \/ item.mode = "noinclude"}

MCTexts == {[p \in Pages |-> IF p = Long THEN a ELSE IF p = Short THEN b ELSE <<>>] :
              a \in UpTo(Items, 3), b \in UpTo(Include, 2)}
=============================================================================
