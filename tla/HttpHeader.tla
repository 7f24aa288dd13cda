----------------------------- MODULE HttpHeader -----------------------------
(***************************************************************************)
(* CHttpHeader::read(): what has arrived of a request, in one reading, is  *)
(* taken apart (src/src/httpio/http_header.cpp).  The first line is the    *)
(* number of its words and of the slashes in the last.  What is behind it  *)
(* is a sequence of pieces, each of which ends its line but for "text":    *)
(* fields, which have a colon, data, and the markers between the parts of  *)
(* a form, of which "longer" is one with more text behind it.              *)
(***************************************************************************)
EXTENDS Naturals, SequencesExt

Fields == {"multipart", "form", "field"}
Markers == {"marker", "end", "longer"}
Pieces == Fields \cup Markers \cup {"blank", "data", "text"}

Places(data) == 1..(Len(data) + 1)
Least(S) == CHOOSE i \in S : \A j \in S : i <= j

(* buf.readLine(), and the place behind it. *)
Behind(data, pos) ==
  Least({i \in Places(data) : \/ i = Len(data) + 1
                              \/ i > pos /\ data[i - 1] # "text"})
Line(data, pos) == SubSeq(data, pos, Behind(data, pos) - 1)

(* parseLine(): fields are read up to a line without a colon, which is read with them. *)
IsField(line) == \E i \in 1..Len(line) : line[i] \in Fields
FieldsFrom(data, pos) ==
  LET fields[p \in Places(data)] ==
        LET rest == fields[Behind(data, p)]
        IN IF IsField(Line(data, p)) THEN [rest EXCEPT !.keys = <<data[p]>> \o @]
           ELSE [keys |-> <<>>, end |-> Behind(data, p)]
  IN fields[pos]
HasKey(fields, key) == \E i \in 1..Len(fields.keys) : fields.keys[i] = key

(* data.indexOf(multipart_marker, pos), or 0 *)
indexOf(data, pos) ==
  LET found == {i \in pos..Len(data) : data[i] \in Markers}
  IN IF found = {} THEN 0 ELSE Least(found)

(* Each "form-data" of a part takes what is ahead of the next marker: the first of them all of  *)
(* it, others nothing; and all nothing, and without going on, if that marker has not arrived.  *)
(* Variant: the next marker is looked for in all of the data.                                  *)
partWhole(data, fields) ==
  LET forms == Cardinality({i \in 1..Len(fields.keys) : fields.keys[i] = "form"})
      nnext == indexOf(data, 1)
      none == nnext < fields.end
  IN [values |-> [i \in 1..forms |-> IF i > 1 \/ none THEN <<>>
                                     ELSE SubSeq(data, fields.end, nnext - 1)],
      end |-> IF forms = 0 \/ none THEN fields.end ELSE nnext]
part(data, fields) ==
  LET forms == Cardinality({i \in 1..Len(fields.keys) : fields.keys[i] = "form"})
      nnext == indexOf(data, fields.end)
      none == nnext < fields.end
  IN [values |-> [i \in 1..forms |-> IF i > 1 \/ none THEN <<>>
                                     ELSE SubSeq(data, fields.end, nnext - 1)],
      end |-> IF forms = 0 \/ none THEN fields.end ELSE nnext]

(* m_postdata *)
postdata(data, pos) ==
  LET from[p \in Places(data)] ==
        LET next == indexOf(data, p)
            line == Line(data, next)
            next_part == part(data, FieldsFrom(data, Behind(data, next)))
        IN CASE next = 0 \/ line = <<"end">> -> <<>>
             [] next # 0 /\ line = <<"marker">> -> next_part.values \o from[next_part.end]
             [] OTHER -> from[Behind(data, next)]
  IN from[pos]

(* The last word is to be the protocol and its version; without a path, it may be the path. *)
Accepted(first) == first.words \in {2, 3} /\ first.slashes = 1

Refused == [accepted |-> FALSE, postdata |-> <<>>]
read(first, data) ==
  LET fields == FieldsFrom(data, 1)
  IN IF ~Accepted(first) THEN Refused
     ELSE [accepted |-> TRUE,
           postdata |-> IF HasKey(fields, "multipart") THEN postdata(data, fields.end) ELSE <<>>]

-----------------------------------------------------------------------------
(* What is to be read of a form: the values of its parts that are "form-data". *)
Part(p) ==
  <<"marker">> \o (IF p.more THEN <<"field">> ELSE <<>>) \o (IF p.form THEN <<"form">> ELSE <<"field">>)
  \o <<"blank">> \o p.value
Form(parts) ==
  <<"field", "multipart", "blank">> \o FlattenSeq([i \in 1..Len(parts) |-> Part(parts[i])]) \o <<"end">>
Value(p) == IF p.form THEN <<p.value>> ELSE <<>>
Values(parts) == FlattenSeq([i \in 1..Len(parts) |-> Value(parts[i])])

(* Of a form that is there as far as its piece n, what is read is right, but that the value of *)
(* a part whose end is not there is empty; and all is read if all is there.                     *)
ReadRight(parts, n, values) ==
  LET k == Len(values) IN
  /\ \/ IsPrefix(values, Values(parts))
     \/ k > 0 /\ values[k] = <<>> /\ IsPrefix(Front(values), Values(parts))
  /\ n = Len(Form(parts)) => values = Values(parts)
=============================================================================
