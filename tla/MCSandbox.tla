----------------------------- MODULE MCSandbox -----------------------------
(* Instances of Sandbox for TLC. *)
EXTENDS Sandbox

CONSTANTS main, other

new == [op |-> "new"]
grow == [op |-> "grow"]
garbage == [op |-> "collect"]
round == [op |-> "again"]
need(m) == [op |-> "require", module |-> m]

chunk(steps, returns, answers) == [steps |-> steps, returns |-> returns, answers |-> answers]
Mains ==
  {chunk(s, r, "text") :
     s \in {<<>>, <<new, grow, garbage, new>>, <<new, new, grow, new, new>>, <<need(other), new, need(other)>>,
            <<grow, need(main)>>, <<round>>, <<new, round>>, <<new, garbage, round>>},
     r \in {"table", "number", "false", "nothing", "error"}}
  \cup {chunk(<<new>>, "table", a) : a \in {"other", "error"}}
Others ==
  {chunk(s, r, "error") :
     s \in {<<>>, <<new>>, <<need(main), new>>, <<need(other)>>},
     r \in {"table", "nil", "false", "nothing", "error"}}
  \cup {chunk(<<round>>, "table", "error")}
MCPrograms == {[m \in Modules |-> IF m = main THEN a ELSE b] :
                 a \in Mains \cup {NoPage}, b \in Others \cup {NoPage}}
=============================================================================
