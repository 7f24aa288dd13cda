-------------------------------- MODULE Toc --------------------------------
(***************************************************************************)
(* CTocGenerator::render(): the table of contents of a page is made of its *)
(* headers in one pass, with a list for every level (src/src/htmlgen/toc.h *)
(* and .cpp).  A page is taken for the sequence of the levels of its       *)
(* headers.                                                                *)
(***************************************************************************)
EXTENDS Integers, SequencesExt

(* What a pass keeps: the level, the number of the list and those of its headers so far, and *)
(* how many lists are open in the page; and what it has put into them.                       *)
Pass(levels) ==
  [depth |-> Min(ToSet(levels)) - 1, numbering |-> <<>>, subcount |-> <<>>, lists |-> 0, items |-> <<>>]

(* Those of the first n of s that are in S. *)
SelectedTo(s, S, n) ==
  LET to[i \in 0..Len(s)] ==
        IF i = 0 THEN <<>>
        ELSE IF s[i] \in S THEN Append(to[i - 1], s[i]) ELSE to[i - 1]
  IN to[n]
Positive(counts) == SelectedTo(counts, Nat \ {0}, Len(counts))

Resized(counts, n) == [i \in 1..n |-> IF i <= Len(counts) THEN counts[i] ELSE 0]

(* One level deeper, on the way to a header of this level. *)
Deeper(pass, level, max) ==
  LET numbering == Append(pass.numbering, Positive(pass.subcount))
  IN [pass EXCEPT !.depth = @ + 1,
                  !.numbering = numbering,
                  !.subcount = Resized(@, level),
                  !.lists = IF Len(numbering) <= max THEN @ + 1 ELSE @]

(* Variant: the list is closed if the one around it is as deep as lists go. *)
HigherAtMost(pass, max) ==
  [pass EXCEPT !.depth = @ - 1,
               !.numbering = Front(@),
               !.subcount = Front(@),
               !.lists = IF Len(pass.numbering) - 1 <= max THEN @ - 1 ELSE @]

Higher(pass, max) ==
  [pass EXCEPT !.depth = @ - 1,
               !.numbering = Front(@),
               !.subcount = Front(@),
               !.lists = IF Len(pass.numbering) - 1 < max THEN @ - 1 ELSE @]

(* The level of the first header is set to the least of all. *)
Levels(levels) == [levels EXCEPT ![1] = Min(ToSet(levels))]

ToLevel(pass, level, max) ==
  LET steps == IF pass.depth < level THEN level - pass.depth ELSE pass.depth - level
      at[n \in 0..steps] ==
        IF n = 0 THEN pass
        ELSE IF pass.depth < level THEN Deeper(at[n - 1], level, max) ELSE Higher(at[n - 1], max)
  IN at[steps]

(* The header is listed if it is not too deep, under the next number of its level. *)
Listed(pass, level, max) ==
  LET counts == Append(Front(pass.subcount), Last(pass.subcount) + 1)
  IN IF pass.depth > max THEN pass
     ELSE [pass EXCEPT !.subcount = counts,
                       !.items = Append(@, [number |-> Append(Last(pass.numbering), Last(counts)),
                                            level |-> level, lists |-> pass.lists])]

Rendered(pass, level, max) == Listed(ToLevel(pass, level, max), level, max)

(* m_max_depth counts from the level of the first header. *)
render(all, m_max_depth) ==
  LET levels == Levels(all)
      max == levels[1] - 1 + m_max_depth
      pass[n \in 0..Len(levels)] ==
        IF n = 0 THEN Pass(levels)
        ELSE Rendered(pass[n - 1], levels[n], max)
  IN pass[Len(levels)]

-----------------------------------------------------------------------------
(* The number that a header should have: at every level down to its own, how many headers of *)
(* that level there have been since the last one of a higher level.                           *)
Since(levels, n, d) == {i \in 1..n : levels[i] = d /\ \A j \in i..n : levels[j] >= d}
NumberOf(levels, n) ==
  [k \in 1..(levels[n] - levels[1] + 1) |-> Cardinality(Since(levels, n, levels[1] + k - 1))]

(* Every header that is not too deep is in the list of its level, however the levels go up and *)
(* down; and if none is left out on the way down, it has the number that it should have.       *)
ListedTo(levels, max, n) ==
  SelectedTo([i \in 1..Len(levels) |-> i], {i \in 1..Len(levels) : levels[i] <= max}, n)
Skips(levels) == \E n \in 2..Len(levels) : levels[n] > levels[n - 1] + 1
AreListed(levels, max, headers, items) ==
  /\ Len(items) = Len(headers)
  /\ \A i \in 1..Len(items) :
       /\ items[i].level = levels[headers[i]]
       /\ items[i].lists = items[i].level - levels[1] + 1
       /\ ~Skips(levels) => items[i].number = NumberOf(levels, headers[i])
InOrder(all, m_max_depth, items) ==
  LET levels == Levels(all)
      max == levels[1] - 1 + m_max_depth
  IN AreListed(levels, max, ListedTo(levels, max, Len(levels)), items)
=============================================================================
