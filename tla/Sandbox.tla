------------------------------ MODULE Sandbox ------------------------------
(***************************************************************************)
(* CLuaSandbox: the scripts of a wiki, which a page calls as it is         *)
(* rendered (src/src/htmlgen/lua_sandbox.h and .cpp).  A sandbox is made   *)
(* for one call and has a Lua state of its own; the count of the memory    *)
(* that scripts use is one for all of them.  The only caller gives the     *)
(* sandbox no parent, so that execScript() runs the script at once, and    *)
(* no thread and no time limit comes into it.                              *)
(***************************************************************************)
EXTENDS Integers, Sequences, FiniteSets

CONSTANTS
  Modules,     \* the names of modules
  Programs,    \* what the pages of that names may have in them
  Limit,       \* mem_limit * 1024
  Half,        \* half the range of an int
  MaxCalls,    \* how deep Lua lets C functions and chunks call each other
  MaxScripts   \* bound on the calls of scripts

(* A chunk does some steps, the last of which may go back to the first, and returns nothing, *)
(* or one value, or fails.                                                                    *)
Steps == [op : {"new", "grow", "collect", "again"}] \cup [op : {"require"}, module : Modules]
Values == {"nil", "false", "number", "table"}
Chunks == [steps : Seq(Steps), returns : Values \cup {"nothing", "error"},
           answers : {"text", "other", "error"}]
NoPage == [steps |-> <<>>, returns |-> "nothing", answers |-> "error"]

ASSUME SizesAssumption ==
  Limit \in Nat /\ Half \in Nat /\ MaxCalls \in Nat \ {0} /\ MaxScripts \in Nat
ASSUME ModulesAssumption == IsFiniteSet(Modules)
ASSUME LimitAssumption == Limit >= 8 /\ Half >= 2 * Limit
ASSUME ProgramsAssumption == Programs \subseteq [Modules -> Chunks \cup {NoPage}]

(* Lua asks for a thread as it starts, and for objects; sizes stand in for those of a byte. *)
ThreadSize == 3
ObjectSize == 2
TypeTag == 1

VARIABLES
  program,   \* what the pages of the modules have in them
  scripts,   \* how many calls of scripts there have been
  state,     \* "idle", "open", "running", "called", "ran" or "aborted"
  script,    \* m_module
  m_rval,
  calls,     \* the chunks that run in the sandbox, the script first
  loaded,    \* _LOADED: what require() has of each module
  mem_used,  \* the count of memory
  used,      \* the memory there is in use
  drift,     \* of all objects ever made, the sum of what Lua gives for the size of no block
  ran        \* how often the chunk of a module has begun, in this sandbox

memory == <<mem_used, used, drift>>
vars == <<program, scripts, state, script, m_rval, calls, loaded, mem_used, used, drift, ran>>

-----------------------------------------------------------------------------
(* mem_used += n - o, in an int *)
(* Variant: in an unbounded number. *)
Int32Wide(x) == x
Int32(x) == ((x + Half) % (2 * Half)) - Half
Count(o, n) == Int32(mem_used + n - o)

(* Variant: what is freed is not counted. *)
alloc_for_luaUp(o, n, real) ==
  /\ mem_used' = Int32(mem_used + n)
  /\ used' = used + n - real
  /\ drift' = drift + o - real

(* Lua asks for a new block with the type of the object in the place of the old size. *)
alloc_for_lua(o, n, real) ==
  /\ mem_used' = Count(o, n)
  /\ used' = used + n - real
  /\ drift' = drift + o - real
(* Variant: an allocation that takes the count to its limit is let through. *)
FitsJust == mem_used' <= Limit

Fits == mem_used' < Limit

(* assert(mem_used < mem_limit * 1024), and what goes on if it holds. *)
Asserted(goesOn) == state' = IF Fits THEN goesOn ELSE "aborted"

Frame(module) == [module |-> module, at |-> 1, failed |-> FALSE]
Chunk(module) == IF module \in Modules THEN program[module] ELSE NoPage
Top == calls[Len(calls)]
Done == Top.failed \/ Top.at > Len(Chunk(Top.module).steps)
Step == Chunk(Top.module).steps[Top.at]
Running(op) == state = "running" /\ ~Done /\ Step.op = op
Advance == calls' = [calls EXCEPT ![Len(calls)].at = @ + 1]

-----------------------------------------------------------------------------
(* The sandbox *)

(* CLuaSandbox(), setArguments() *)
open ==
  /\ state = "idle" /\ scripts < MaxScripts
  /\ scripts' = scripts + 1
  /\ script' \in Modules
  /\ alloc_for_lua(TypeTag, ThreadSize, 0) /\ Asserted("open")
  /\ m_rval' = "none"
  /\ loaded' = [m \in Modules |-> "nil"]
  /\ ran' = [m \in Modules |-> 0]
  /\ UNCHANGED <<program, calls>>

(* execScript() and run(), as far as the script. *)
run ==
  /\ state = "open"
  /\ IF program[script] = NoPage
     THEN /\ state' = "ran" /\ m_rval' = "missing"
          /\ UNCHANGED <<calls, ran>>
     ELSE /\ state' = "running" /\ calls' = <<Frame(script)>>
          /\ ran' = [ran EXCEPT ![script] = @ + 1]
          /\ UNCHANGED m_rval
  /\ UNCHANGED <<program, scripts, script, loaded, memory>>

(* What the chunk returns is to be the table with the function to call.  To index a number or *)
(* nil is an error outside of all protected calls, which ends the program; where there is      *)
(* nothing on the stack, what is indexed is whatever was there before.                         *)
returned ==
  /\ state = "running" /\ Len(calls) = 1 /\ Done
  /\ calls' = <<>>
  /\ LET returns == IF Top.failed THEN "error" ELSE Chunk(script).returns
     IN CASE returns = "error" -> state' = "ran" /\ m_rval' = "error"
          [] returns = "table" -> state' = "called" /\ UNCHANGED m_rval
          [] returns = "nothing" ->
               \/ state' = "aborted" /\ UNCHANGED m_rval
               \/ state' = "ran" /\ m_rval' \in {"text", "error"}
          [] OTHER -> state' = "aborted" /\ UNCHANGED m_rval
  /\ UNCHANGED <<program, scripts, script, loaded, ran, memory>>

(* lua_pcall() of the function; "result is not a string" *)
callFunction ==
  /\ state = "called"
  /\ state' = "ran"
  /\ m_rval' = IF Chunk(script).answers = "text" THEN "text" ELSE "error"
  /\ UNCHANGED <<program, scripts, script, calls, loaded, ran, memory>>

(* ~CLuaSandbox(): lua_close() gives everything back, each block with its size. *)
close ==
  /\ state = "ran"
  /\ alloc_for_lua(used, 0, used) /\ Asserted("idle")
  /\ UNCHANGED <<program, scripts, script, m_rval, calls, loaded, ran>>

-----------------------------------------------------------------------------
(* The steps of a chunk *)

newObject ==
  /\ Running("new")
  /\ alloc_for_lua(TypeTag, ObjectSize, 0) /\ Asserted("running")
  /\ Advance
  /\ UNCHANGED <<program, scripts, script, m_rval, loaded, ran>>

growBlock ==
  /\ Running("grow")
  /\ alloc_for_lua(ThreadSize, ThreadSize + 1, ThreadSize) /\ Asserted("running")
  /\ Advance
  /\ UNCHANGED <<program, scripts, script, m_rval, loaded, ran>>

(* A loop goes round.  Nothing limits how often: the 500 ms of execScript() hold only for a     *)
(* sandbox whose parent is the application.                                                     *)
goRound ==
  /\ Running("again")
  /\ calls' = [calls EXCEPT ![Len(calls)].at = 1]
  /\ UNCHANGED <<program, scripts, state, script, m_rval, loaded, ran, memory>>

(* All but the thread is garbage. *)
collect ==
  /\ Running("collect")
  /\ alloc_for_lua(used - ThreadSize, 0, used - ThreadSize) /\ Asserted("running")
  /\ Advance
  /\ UNCHANGED <<program, scripts, script, m_rval, loaded, ran>>

(* Variant: nothing is kept of a module that returns nil. *)
LoadedValues(module, returns) ==
  CASE returns \in {"nil", "error"} -> loaded[module]
    [] returns = "nothing" -> "modules"
    [] OTHER -> returns

(* What comes of a chunk that is required.  One that fails, and one that returns nil, counts   *)
(* as true.  Of one that returns nothing, the table of the modules itself is taken for the     *)
(* result, and taken off the stack, where it is then missed.                                    *)
Loaded(module, returns) ==
  CASE returns \in {"nil", "error"} -> IF loaded[module] = "nil" THEN "true" ELSE loaded[module]
    [] returns = "nothing" -> "modules"
    [] OTHER -> returns

(* lua_setfield() and lua_getfield(), with the frame of the chunk already gone. *)
Store(module, returns, frames) ==
  /\ loaded' = [loaded EXCEPT ![module] = Loaded(module, returns)]
  /\ calls' = IF returns = "nothing" THEN [frames EXCEPT ![Len(frames)].failed = TRUE] ELSE frames

Past == [calls EXCEPT ![Len(calls)].at = @ + 1]

(* lua_toboolean() of what there is of the module *)
IsLoaded(module) == loaded[module] \notin {"nil", "false"}

requireLoaded ==
  /\ Running("require") /\ IsLoaded(Step.module)
  /\ calls' = Past
  /\ UNCHANGED <<program, scripts, state, script, m_rval, loaded, ran, memory>>

(* A page that does not exist is an empty chunk. *)
require ==
  /\ Running("require") /\ ~IsLoaded(Step.module) /\ Len(calls) < MaxCalls
  /\ calls' = Append(Past, Frame(Step.module))
  /\ ran' = [ran EXCEPT ![Step.module] = @ + 1]
  /\ UNCHANGED <<program, scripts, state, script, m_rval, loaded, memory>>

(* Variant: what is too deep is tried again. *)
requireTooDeepAgain ==
  /\ Running("require") /\ ~IsLoaded(Step.module) /\ Len(calls) >= MaxCalls
  /\ UNCHANGED <<program, scripts, state, script, m_rval, calls, loaded, ran, memory>>

(* Lua has no room for a further call, which fails as the chunk would. *)
requireTooDeep ==
  /\ Running("require") /\ ~IsLoaded(Step.module) /\ Len(calls) >= MaxCalls
  /\ Store(Step.module, "error", Past)
  /\ UNCHANGED <<program, scripts, state, script, m_rval, ran, memory>>

requireReturns ==
  /\ state = "running" /\ Len(calls) > 1 /\ Done
  /\ Store(Top.module, IF Top.failed THEN "error" ELSE Chunk(Top.module).returns,
           SubSeq(calls, 1, Len(calls) - 1))
  /\ UNCHANGED <<program, scripts, state, script, m_rval, ran, memory>>

-----------------------------------------------------------------------------
Init ==
  /\ program \in Programs
  /\ scripts = 0 /\ state = "idle" /\ script \in Modules /\ m_rval = "none"
  /\ calls = <<>>
  /\ loaded = [m \in Modules |-> "nil"]
  /\ mem_used = 0 /\ used = 0 /\ drift = 0
  /\ ran = [m \in Modules |-> 0]

Next ==
  \/ open \/ run \/ returned \/ callFunction \/ close
  \/ newObject \/ growBlock \/ goRound \/ collect
  \/ requireLoaded \/ require \/ requireTooDeep \/ requireReturns

Spec == Init /\ [][Next]_vars

(* The thread of the server goes on with a script till it has it. *)
FairSpec == Spec /\ WF_vars(Next)

-----------------------------------------------------------------------------
(* Properties *)

(* The variables stay in their ranges; a chunk is at a step of its own or behind the last. *)
States == {"idle", "open", "running", "called", "ran", "aborted"}
TypeOK ==
  /\ program \in Programs
  /\ scripts \in 0..MaxScripts
  /\ state \in States
  /\ script \in Modules
  /\ m_rval \in {"none", "missing", "error", "text"}
  /\ calls \in Seq([module : Modules, at : Nat \ {0}, failed : BOOLEAN])
  /\ \A i \in 1..Len(calls) : calls[i].at <= Len(program[calls[i].module].steps) + 1
  /\ Len(calls) <= MaxCalls
  /\ loaded \in [Modules -> {"nil", "true", "modules"} \cup Values]
  /\ mem_used \in (-Half)..(Half - 1)
  /\ used \in Nat
  /\ drift \in Nat
  /\ ran \in [Modules -> Nat]

(* The count is what is in use, less all the types that Lua has ever given for sizes: it sinks *)
(* from script to script, as freeing an object takes off more than making it has put on.       *)
CountDrifts == mem_used = Int32(used - drift)

(* Until the count has sunk through half an int, the assertion fails, and ends the program,    *)
(* only for a script that has gone over the limit; and no script goes over it by more than     *)
(* that by which the count has sunk.                                                            *)
LimitLoosens ==
  drift <= Half => /\ mem_used >= Limit => used >= Limit
                   /\ state # "aborted" => used < Limit + drift

(* In a sandbox a module is run once, however often it is required, if no module requires      *)
(* itself in a circle: also one that fails, and one that gives nil or nothing, is loaded then.  *)
(* Only one that returns false is not, and is run again each time it is required.               *)
Needs(m) == {program[m].steps[i].module : i \in
               {j \in 1..Len(program[m].steps) : program[m].steps[j].op = "require"}}
Ranks(rank) == \A m \in Modules : \A n \in Needs(m) : rank[n] < rank[m]
Acyclic == \E rank \in [Modules -> 0..Cardinality(Modules)] : Ranks(rank)
LoadedOnce ==
  Acyclic => \A m \in Modules : program[m].returns # "false" => ran[m] <= 1

(* However its modules require each other, in circles and again after false, a script comes to *)
(* an end, and a page that has it to an answer, if none of them loops.  One that loops need     *)
(* not: there is no limit of time for it, as the only caller gives the sandbox no parent.       *)
Loops(m) == \E i \in 1..Len(program[m].steps) : program[m].steps[i].op = "again"
ScriptsEnd ==
  state = "open" /\ (\A m \in Modules : ~Loops(m)) ~> state \in {"ran", "aborted"}
=============================================================================
