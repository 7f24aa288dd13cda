--------------------------- MODULE Sandbox_proofs ---------------------------
(***************************************************************************)
(* Proofs about Sandbox, for any modules and programs, any limit, and any  *)
(* width of the count that has room for the limit twice: what the count of *)
(* memory is, how far the limit holds, and that modules are run once.      *)
(***************************************************************************)
EXTENDS Sandbox, SequenceTheorems, FiniteSetTheorems, TLAPS

-----------------------------------------------------------------------------
(* The arithmetic of an int *)

LEMMA SizesFacts == Limit \in Nat /\ Half \in Nat /\ Limit >= 8 /\ Half >= 2 * Limit
BY SizesAssumption, LimitAssumption

(* A multiple of m that is smaller than m is none of it. *)
LEMMA SmallMultiple ==
  ASSUME NEW m \in Nat \ {0}, NEW d \in Int, m * d < m, m * d > -m
  PROVE  d = 0
<1>1. CASE d >= 1
  <2>1. m * d >= m * 1
    BY <1>1
  <2>2. QED
    BY <2>1
<1>2. CASE d <= -1
  <2>1. m * d <= m * (-1)
    BY <1>2
  <2>2. QED
    BY <2>1
<1>3. QED
  BY <1>1, <1>2

LEMMA Division ==
  ASSUME NEW x \in Int, NEW m \in Nat \ {0}
  PROVE  /\ x \div m \in Int
         /\ x % m \in 0..(m - 1)
         /\ x = m * (x \div m) + (x % m)
OBVIOUS

(* Two numbers that differ by a multiple of m leave the same rest. *)
LEMMA SameRest ==
  ASSUME NEW m \in Nat \ {0}, NEW r \in 0..(m - 1), NEW s \in 0..(m - 1),
         NEW a \in Int, NEW b \in Int, NEW q \in Int,
         m * b + s = m * a + r + m * q
  PROVE  s = r
<1> DEFINE d == a + q - b
<1>1. d \in Int
  OBVIOUS
<1>2. m * d = m * a + m * q - m * b
  OBVIOUS
<1>3. m * a \in Int /\ m * b \in Int /\ m * q \in Int
  OBVIOUS
<1>4. m * d = s - r
  BY <1>2, <1>3
<1> HIDE DEF d
<1>5. d = 0
  BY <1>1, <1>4, SmallMultiple
<1>6. QED
  BY <1>4, <1>5

LEMMA ModPlusMultiple ==
  ASSUME NEW y \in Int, NEW q \in Int, NEW m \in Nat \ {0}
  PROVE  (y + m * q) % m = y % m
<1> DEFINE z == y + m * q
<1>1. m * q \in Int /\ z \in Int
  OBVIOUS
<1> DEFINE a == y \div m
           b == z \div m
           r == y % m
           s == z % m
<1>2. a \in Int /\ r \in 0..(m - 1) /\ y = m * a + r
  BY Division
<1>3. b \in Int /\ s \in 0..(m - 1) /\ z = m * b + s
  BY <1>1, Division
<1>4. z = y + m * q
  OBVIOUS
<1> HIDE DEF z, a, b, r, s
<1>5. m * a \in Int
  BY <1>2
<1>6. m * b + s = m * a + r + m * q
  BY <1>1, <1>2, <1>3, <1>4, <1>5
<1>7. s = r
  BY <1>2, <1>3, <1>6, SameRest
<1>8. QED
  BY <1>7 DEF z, r, s

LEMMA Int32Range ==
  ASSUME NEW x \in Int
  PROVE  /\ Int32(x) \in (-Half)..(Half - 1)
         /\ x \in (-Half)..(Half - 1) => Int32(x) = x
<1>1. (x + Half) % (2 * Half) \in 0..(2 * Half - 1)
  BY SizesFacts
<1>2. ASSUME x \in (-Half)..(Half - 1) PROVE (x + Half) % (2 * Half) = x + Half
  BY <1>2, SizesFacts
<1>3. QED
  BY <1>1, <1>2, SizesFacts DEF Int32

(* What is counted in steps is what would be counted at once. *)
LEMMA Int32Plus ==
  ASSUME NEW x \in Int, NEW k \in Int
  PROVE  Int32(Int32(x) + k) = Int32(x + k)
<1> DEFINE m == 2 * Half
           y == x + Half
           q == y \div m
           r == y % m
<1>1. m \in Nat \ {0} /\ y \in Int
  BY SizesFacts
<1>2. y = x + Half /\ Int32(x) = r - Half
  BY DEF Int32
<1> HIDE DEF m, y
<1>3. q \in Int /\ r \in 0..(m - 1) /\ y = m * q + r
  BY <1>1, Division
<1>4. m * (-q) = -(m * q) /\ m * q \in Int
  BY <1>1, <1>3
<1> HIDE DEF q, r
<1>5. Half \in Int
  BY SizesFacts
<1>6. Int32(x) + k + Half = (x + k + Half) + m * (-q)
  BY <1>1, <1>2, <1>3, <1>4, <1>5
<1>7. -q \in Int /\ x + k + Half \in Int
  BY <1>3, <1>5
<1>8. ((x + k + Half) + m * (-q)) % m = (x + k + Half) % m
  BY <1>1, <1>7, ModPlusMultiple
<1>9. (Int32(x) + k + Half) % m = (x + k + Half) % m
  BY <1>6, <1>8
<1>10. QED
  BY <1>9 DEF Int32, m

-----------------------------------------------------------------------------
(* The frames of the chunks that run *)

FrameType == [module : Modules, at : Nat \ {0}, failed : BOOLEAN]

(* The script is on the stack as long as it runs, and nothing is when nothing runs. *)
Stacked ==
  /\ state = "running" => calls # <<>>
  /\ state \in {"idle", "open", "called", "ran"} => calls = <<>>

LEMMA ProgramType ==
  ASSUME TypeOK, NEW m \in Modules
  PROVE  /\ Chunk(m) = program[m]
         /\ program[m].steps \in Seq(Steps)
         /\ Len(program[m].steps) \in Nat
         /\ program[m].returns \in Values \cup {"nothing", "error"}
<1>1. program[m] \in Chunks \cup {NoPage}
  BY ProgramsAssumption DEF TypeOK
<1>2. CASE program[m] \in Chunks
  BY <1>2, ProgramsAssumption DEF TypeOK, Chunks, Chunk
<1>3. CASE program[m] = NoPage
  BY <1>3 DEF NoPage, Chunk, Values
<1>4. QED
  BY <1>1, <1>2, <1>3

LEMMA TopFacts ==
  ASSUME TypeOK, calls # <<>>
  PROVE  /\ Len(calls) \in Nat \ {0}
         /\ Top \in FrameType
         /\ Top = calls[Len(calls)]
<1>1. calls \in Seq(FrameType)
  BY DEF TypeOK, FrameType
<1>2. Len(calls) \in Nat \ {0}
  BY <1>1, EmptySeq
<1>3. QED
  BY <1>1, <1>2 DEF Top

LEMMA RunningFacts ==
  ASSUME TypeOK, Stacked, NEW op, Running(op)
  PROVE  /\ state = "running" /\ Len(calls) \in Nat \ {0}
         /\ Top \in FrameType
         /\ Top.at \in 1..Len(program[Top.module].steps)
         /\ Step \in Steps /\ Step.op = op
         /\ op = "require" => Step.module \in Modules /\ Step.module \in Needs(Top.module)
<1>1. state = "running" /\ ~Done /\ Step.op = op
  BY DEF Running
<1>2. Len(calls) \in Nat \ {0} /\ Top \in FrameType
  BY <1>1, TopFacts DEF Stacked
<1>3. /\ Top.module \in Modules /\ Top.at \in Nat \ {0}
  BY <1>2 DEF FrameType
<1>4. /\ Chunk(Top.module) = program[Top.module]
      /\ program[Top.module].steps \in Seq(Steps)
      /\ Len(program[Top.module].steps) \in Nat
  BY <1>3, ProgramType
<1>5. Top.at \in 1..Len(program[Top.module].steps)
  BY <1>1, <1>3, <1>4 DEF Done
<1>6. Step = program[Top.module].steps[Top.at] /\ Step \in Steps
  BY <1>4, <1>5 DEF Step
<1>7. ASSUME op = "require" PROVE Step.module \in Modules
  BY <1>1, <1>6, <1>7 DEF Steps
<1>8. ASSUME op = "require" PROVE Step.module \in Needs(Top.module)
  BY <1>1, <1>5, <1>6, <1>8 DEF Needs
<1>9. QED
  BY <1>1, <1>2, <1>5, <1>6, <1>7, <1>8

(* Taking the top of the stack to another step leaves the rest of it as it is. *)
LEMMA MovedFacts ==
  ASSUME TypeOK, Stacked, NEW op, Running(op),
         NEW k \in 1..(Len(program[Top.module].steps) + 1),
         NEW s, s = [calls EXCEPT ![Len(calls)].at = k]
  PROVE  /\ s \in Seq(FrameType)
         /\ Len(s) = Len(calls)
         /\ s # <<>>
         /\ \A i \in 1..Len(s) : /\ s[i].module = calls[i].module
                                 /\ s[i].at <= Len(program[s[i].module].steps) + 1
<1>1. Len(calls) \in Nat \ {0} /\ Top \in FrameType
  BY RunningFacts
<1>2. calls \in Seq(FrameType)
      /\ \A i \in 1..Len(calls) : calls[i].at <= Len(program[calls[i].module].steps) + 1
  BY DEF TypeOK, FrameType
<1> DEFINE n == Len(calls)
           top == [calls[n] EXCEPT !.at = k]
<1>3. Len(program[Top.module].steps) \in Nat
  BY <1>1, ProgramType DEF FrameType
<1>4. /\ s = [calls EXCEPT ![n] = top] /\ top \in FrameType
      /\ top.module = Top.module /\ top.at = k
  <2>1. k \in Nat \ {0} /\ s = [calls EXCEPT ![n] = top]
    BY <1>3
  <2>2. calls[n] \in FrameType /\ Top = calls[n]
    BY <1>1 DEF Top
  <2>3. QED
    BY <2>1, <2>2 DEF FrameType
<1>5. n \in 1..Len(calls)
  BY <1>1
<1>6. /\ s \in Seq(FrameType) /\ Len(s) = Len(calls)
      /\ \A i \in 1..Len(calls) : s[i] = IF i = n THEN top ELSE calls[i]
  <2>1. s = [calls EXCEPT ![n] = top] /\ top \in FrameType
    BY <1>4
  <2>2. calls \in Seq(FrameType) /\ n \in 1..Len(calls)
    BY <1>2, <1>5
  <2> HIDE DEF n, top
  <2>3. QED
    BY <2>1, <2>2
<1>7. ASSUME NEW i \in 1..Len(calls)
      PROVE  /\ s[i].module = calls[i].module
             /\ s[i].at <= Len(program[s[i].module].steps) + 1
  <2>1. CASE i = n
    <3>1. s[i] = top /\ calls[i] = Top
      BY <1>6, <2>1 DEF Top
    <3> HIDE DEF top, n
    <3>2. k <= Len(program[Top.module].steps) + 1
      BY <1>3
    <3>3. QED
      BY <1>4, <3>1, <3>2
  <2>2. CASE i # n
    <3>1. s[i] = calls[i]
      BY <1>6, <2>2
    <3>2. QED
      BY <1>2, <3>1
  <2>3. QED
    BY <2>1, <2>2
<1>8. QED
  BY <1>1, <1>6, <1>7

(* Going on to the next step is such a move, and so is going back to the first. *)
LEMMA PastFacts ==
  ASSUME TypeOK, Stacked, NEW op, Running(op)
  PROVE  /\ Past \in Seq(FrameType)
         /\ Len(Past) = Len(calls)
         /\ Past # <<>>
         /\ \A i \in 1..Len(Past) : /\ Past[i].module = calls[i].module
                                    /\ Past[i].at <= Len(program[Past[i].module].steps) + 1
<1> DEFINE k == Top.at + 1
<1>1. /\ Top \in FrameType /\ Top.at \in 1..Len(program[Top.module].steps)
      /\ Len(program[Top.module].steps) \in Nat
  BY RunningFacts, ProgramType DEF FrameType
<1>2. k \in 1..(Len(program[Top.module].steps) + 1)
  BY <1>1
<1>3. Past = [calls EXCEPT ![Len(calls)].at = k]
  BY DEF Past, Top
<1> HIDE DEF k
<1>4. QED
  BY <1>2, <1>3, MovedFacts

LEMMA RoundFacts ==
  ASSUME TypeOK, Stacked, goRound
  PROVE  /\ calls' \in Seq(FrameType)
         /\ Len(calls') = Len(calls)
         /\ calls' # <<>>
         /\ \A i \in 1..Len(calls') : /\ calls'[i].module = calls[i].module
                                      /\ calls'[i].at <= Len(program[calls'[i].module].steps) + 1
<1> DEFINE s == calls'
<1>1. Running("again") /\ s = [calls EXCEPT ![Len(calls)].at = 1]
  BY DEF goRound
<1>2. 1 \in 1..(Len(program[Top.module].steps) + 1)
  <2>1. Top.at \in 1..Len(program[Top.module].steps) /\ Len(program[Top.module].steps) \in Nat
    BY <1>1, RunningFacts, ProgramType DEF FrameType
  <2>2. QED
    BY <2>1
<1> HIDE DEF s
<1>3. /\ s \in Seq(FrameType) /\ Len(s) = Len(calls) /\ s # <<>>
      /\ \A i \in 1..Len(s) : /\ s[i].module = calls[i].module
                              /\ s[i].at <= Len(program[s[i].module].steps) + 1
  BY <1>1, <1>2, MovedFacts
<1>4. QED
  BY <1>3 DEF s

LEMMA LoadedType ==
  ASSUME TypeOK, NEW m \in Modules, NEW returns \in Values \cup {"nothing", "error"}
  PROVE  /\ Loaded(m, returns) \in {"nil", "true", "modules"} \cup Values
         /\ returns # "false" /\ loaded[m] # "false" => Loaded(m, returns) \notin {"nil", "false"}
<1>1. loaded[m] \in {"nil", "true", "modules"} \cup Values
  BY DEF TypeOK
<1>2. QED
  BY <1>1 DEF Loaded, Values

-----------------------------------------------------------------------------
(* The memory *)

(* As long as there is a sandbox, its thread is in use. *)
Space == state \in {"open", "running", "called", "ran"} => used >= ThreadSize

MemoryInv == TypeOK /\ Stacked /\ Space /\ CountDrifts /\ LimitLoosens

LEMMA LeqTransitive ==
  ASSUME NEW a \in Nat, NEW b \in Nat, NEW c \in Nat, a <= b, b <= c
  PROVE  a <= c
OBVIOUS

LEMMA OverOnlyIfOver ==
  ASSUME NEW u \in Nat, NEW d \in Nat, NEW c \in Int, NEW l \in Nat, NEW h \in Nat,
         h >= 2 * l, c \in (-h)..(h - 1),
         u - d \in (-h)..(h - 1) => c = u - d
  PROVE  d <= h => (c >= l => u >= l)
OBVIOUS

LEMMA OverByDrift ==
  ASSUME NEW u0 \in Nat, NEW d0 \in Nat, NEW u \in Nat, NEW d \in Nat,
         NEW c \in Int, NEW l \in Nat, NEW h \in Nat,
         l >= 8, h >= 2 * l, d <= h, d0 <= d, u <= u0 + 3, u0 < l + d0, c < l,
         u - d \in (-h)..(h - 1) => c = u - d
  PROVE  u < l + d
<1>1. u - d < l + 3
  OBVIOUS
<1>2. u - d \in (-h)..(h - 1)
  BY <1>1
<1>3. QED
  BY <1>2

(* Before the count has sunk through half an int it does not wrap around: it was below the    *)
(* limit, and no step of Lua takes more than an object.                                         *)
LEMMA AllocStep ==
  ASSUME MemoryInv, state # "aborted",
         NEW o \in Nat, NEW n \in Nat, NEW real \in Nat, NEW goesOn,
         real <= used, real <= o, n <= real + ThreadSize,
         alloc_for_lua(o, n, real), Asserted(goesOn)
  PROVE  /\ mem_used' \in (-Half)..(Half - 1)
         /\ used' \in Nat /\ used' = used + n - real
         /\ drift' \in Nat
         /\ CountDrifts' /\ LimitLoosens'
<1>1. used \in Nat /\ drift \in Nat /\ mem_used \in Int /\ mem_used = Int32(used - drift)
  BY SizesFacts DEF MemoryInv, TypeOK, CountDrifts
<1>2. /\ mem_used' = Int32(mem_used + n - o)
      /\ used' = used + n - real /\ drift' = drift + o - real
  BY DEF alloc_for_lua, Count
<1>3. used' \in Nat /\ drift' \in Nat /\ drift <= drift' /\ used' <= used + ThreadSize
  BY <1>1, <1>2 DEF ThreadSize
<1>4. mem_used' = Int32(used' - drift')
  <2>1. mem_used + n - o = mem_used + (n - o)
    BY <1>1
  <2>2. (used - drift) + (n - o) = used' - drift'
    BY <1>1, <1>2
  <2>3. used - drift \in Int /\ n - o \in Int
    BY <1>1
  <2>4. QED
    BY <1>1, <1>2, <2>1, <2>2, <2>3, Int32Plus
<1>5. /\ mem_used' \in (-Half)..(Half - 1)
      /\ used' - drift' \in (-Half)..(Half - 1) => mem_used' = used' - drift'
  BY <1>3, <1>4, Int32Range
<1> DEFINE c == mem_used'
           u == used'
           d == drift'
<1>. c \in Int /\ u \in Nat /\ d \in Nat /\ u <= used + 3 /\ drift <= d
  BY <1>3, <1>5, SizesFacts DEF ThreadSize
<1>. c \in (-Half)..(Half - 1) /\ (u - d \in (-Half)..(Half - 1) => c = u - d)
  BY <1>5
<1> HIDE DEF c, u, d
<1>6. drift' <= Half => (mem_used' >= Limit => used' >= Limit)
  <2>1. d <= Half => (c >= Limit => u >= Limit)
    BY SizesFacts, OverOnlyIfOver
  <2>2. QED
    BY <2>1 DEF c, u, d
<1>7. ASSUME drift' <= Half, state' # "aborted" PROVE used' < Limit + drift'
  <2>1. mem_used' < Limit
    BY <1>7 DEF Asserted, Fits
  <2>2. drift <= Half
    BY <1>1, <1>3, <1>7, SizesFacts, LeqTransitive
  <2>3. used < Limit + drift
    BY <2>2 DEF MemoryInv, LimitLoosens
  <2>4. QED
    <3>1. c < Limit /\ d <= Half
      BY <1>7, <2>1 DEF c, d
    <3>2. u < Limit + d
      BY <1>1, <2>3, <3>1, SizesFacts, OverByDrift
    <3>3. QED
      BY <3>2 DEF u, d
<1>8. QED
  BY <1>2, <1>3, <1>4, <1>5, <1>6, <1>7 DEF CountDrifts, LimitLoosens

LEMMA MemoryKept ==
  ASSUME MemoryInv, UNCHANGED memory, state # "aborted" \/ state' = "aborted"
  PROVE  /\ mem_used' \in (-Half)..(Half - 1)
         /\ used' \in Nat /\ used' = used
         /\ drift' \in Nat
         /\ CountDrifts' /\ LimitLoosens'
BY DEF MemoryInv, TypeOK, memory, CountDrifts, LimitLoosens, Int32

-----------------------------------------------------------------------------
(* The steps, type and memory *)

(* The frames of a stack are those of modules, each at a step of its chunk or behind the last. *)
Frames(s) ==
  /\ s \in Seq(FrameType) /\ Len(s) <= MaxCalls
  /\ \A i \in 1..Len(s) : s[i].at <= Len(program[s[i].module].steps) + 1

LEMMA FrameFacts ==
  ASSUME TypeOK, NEW m \in Modules
  PROVE  /\ Frame(m) \in FrameType /\ Frame(m).module = m
         /\ Frame(m).at <= Len(program[Frame(m).module].steps) + 1
BY ProgramType DEF Frame, FrameType

LEMMA StoreFacts ==
  ASSUME TypeOK, NEW m \in Modules, NEW returns \in Values \cup {"nothing", "error"},
         NEW frames, Frames(frames), frames # <<>>, Store(m, returns, frames)
  PROVE  /\ loaded' \in [Modules -> {"nil", "true", "modules"} \cup Values]
         /\ Frames(calls') /\ calls' # <<>>
         /\ Len(calls') = Len(frames)
         /\ \A i \in 1..Len(frames) : calls'[i].module = frames[i].module
<1>1. loaded' \in [Modules -> {"nil", "true", "modules"} \cup Values]
  BY LoadedType DEF Store, TypeOK
<1>2. frames \in Seq(FrameType) /\ Len(frames) \in Nat \ {0}
  BY EmptySeq DEF Frames
<1> DEFINE n == Len(frames)
           top == [frames[n] EXCEPT !.failed = TRUE]
<1>3. /\ frames[n] \in FrameType
      /\ top \in FrameType /\ top.module = frames[n].module /\ top.at = frames[n].at
  <2>1. frames[n] \in FrameType
    BY <1>2
  <2>2. QED
    BY <2>1 DEF FrameType
<1>4. CASE returns = "nothing"
  <2>1. calls' = [frames EXCEPT ![n] = top]
    BY <1>4 DEF Store
  <2>2. n \in 1..Len(frames)
    BY <1>2
  <2> HIDE DEF top, n
  <2>3. /\ calls' \in Seq(FrameType) /\ Len(calls') = Len(frames)
        /\ \A i \in 1..Len(frames) : calls'[i] = IF i = n THEN top ELSE frames[i]
    BY <1>2, <1>3, <2>1, <2>2
  <2>4. \A i \in 1..Len(frames) : calls'[i].module = frames[i].module /\ calls'[i].at = frames[i].at
    BY <1>3, <2>3
  <2>5. calls' # <<>>
    BY <1>2, <2>3
  <2>6. QED
    BY <1>1, <2>3, <2>4, <2>5 DEF Frames
<1>5. CASE returns # "nothing"
  BY <1>1, <1>5 DEF Store
<1>6. QED
  BY <1>4, <1>5

LEMMA PastFrames ==
  ASSUME TypeOK, Stacked, NEW op, Running(op)
  PROVE  Frames(Past) /\ Past # <<>>
<1>1. Len(Past) = Len(calls) /\ Len(calls) <= MaxCalls
  BY PastFacts DEF TypeOK
<1>2. QED
  BY <1>1, PastFacts DEF Frames

LEMMA TypeOf ==
  ASSUME TypeOK', Stacked', Space', CountDrifts', LimitLoosens'
  PROVE  MemoryInv'
BY DEF MemoryInv

LEMMA SandboxStep ==
  ASSUME MemoryInv, open \/ run \/ returned \/ callFunction \/ close
  PROVE  MemoryInv'
<1> USE DEF TypeOK, Stacked, Space, States
<1>1. TypeOK /\ Stacked /\ Space /\ CountDrifts /\ LimitLoosens
  BY DEF MemoryInv
<1>2. CASE open
  <2>1. /\ mem_used' \in (-Half)..(Half - 1) /\ used' \in Nat /\ used' = used + ThreadSize
        /\ drift' \in Nat /\ CountDrifts' /\ LimitLoosens'
    <3>1. alloc_for_lua(1, 3, 0) /\ Asserted("open") /\ state # "aborted" /\ used \in Nat
      BY <1>1, <1>2 DEF open, TypeTag, ThreadSize
    <3>2. QED
      BY <3>1, AllocStep DEF ThreadSize
  <2>2. TypeOK'
    BY <1>1, <1>2, <2>1, SizesAssumption DEF open, Asserted
  <2>3. Stacked' /\ Space'
    BY <1>1, <1>2, <2>1 DEF open, Asserted, ThreadSize
  <2>4. QED
    BY <2>1, <2>2, <2>3, TypeOf
<1>3. CASE run
  <2>1. /\ mem_used' \in (-Half)..(Half - 1) /\ used' \in Nat /\ used' = used
        /\ drift' \in Nat /\ CountDrifts' /\ LimitLoosens'
    BY <1>3, MemoryKept DEF run
  <2>2. Frame(script) \in FrameType /\ Frame(script).at <= Len(program[Frame(script).module].steps) + 1
    BY <1>1, FrameFacts
  <2>3. CASE program[script] = NoPage
    BY <1>1, <1>3, <2>1, <2>3, TypeOf DEF run
  <2>4. CASE program[script] # NoPage
    <3>1. /\ calls' = <<Frame(script)>> /\ calls' \in Seq(FrameType) /\ Len(calls') = 1
          /\ calls'[1] = Frame(script) /\ calls' # <<>>
      <4>1. calls' = <<Frame(script)>>
        BY <1>3, <2>4 DEF run
      <4> DEFINE f == Frame(script)
      <4> HIDE DEF f
      <4>2. f \in FrameType
        BY <2>2 DEF f
      <4>3. /\ <<f>> \in Seq(FrameType) /\ Len(<<f>>) = 1 /\ <<f>>[1] = f /\ <<f>> # <<>>
        BY <4>2
      <4>4. QED
        BY <4>1, <4>3 DEF f
    <3>2. ran' \in [Modules -> Nat] /\ state' = "running"
      BY <1>1, <1>3, <2>4 DEF run
    <3>3. TypeOK'
      BY <1>1, <1>3, <2>1, <2>2, <3>1, <3>2, SizesAssumption DEF run, FrameType
    <3>4. QED
      BY <1>1, <1>3, <2>1, <3>1, <3>2, <3>3, TypeOf DEF run
  <2>5. QED
    BY <2>3, <2>4
<1>4. CASE returned
  <2>1. /\ mem_used' \in (-Half)..(Half - 1) /\ used' \in Nat /\ used' = used
        /\ drift' \in Nat /\ CountDrifts' /\ LimitLoosens'
    BY <1>4, MemoryKept DEF returned
  <2>2. state' \in {"ran", "called", "aborted"} /\ m_rval' \in {"none", "missing", "error", "text"}
    BY <1>1, <1>4 DEF returned
  <2>3. TypeOK'
    <3>1. calls' = <<>> /\ <<>> \in Seq(FrameType) /\ Len(<<>>) = 0
      BY <1>4 DEF returned
    <3>2. UNCHANGED <<program, scripts, script, loaded, ran>>
      BY <1>4 DEF returned
    <3>3. QED
      BY <1>1, <2>1, <2>2, <3>1, <3>2, SizesAssumption DEF FrameType
  <2>4. QED
    BY <1>1, <1>4, <2>1, <2>2, <2>3, TypeOf DEF returned
<1>5. CASE callFunction
  <2>1. /\ mem_used' \in (-Half)..(Half - 1) /\ used' \in Nat /\ used' = used
        /\ drift' \in Nat /\ CountDrifts' /\ LimitLoosens'
    BY <1>5, MemoryKept DEF callFunction
  <2>2. QED
    BY <1>1, <1>5, <2>1, TypeOf DEF callFunction
<1>6. CASE close
  <2>1. /\ mem_used' \in (-Half)..(Half - 1) /\ used' \in Nat /\ used' = used + 0 - used
        /\ drift' \in Nat /\ CountDrifts' /\ LimitLoosens'
    BY <1>1, <1>6, AllocStep DEF close, ThreadSize
  <2>2. QED
    BY <1>1, <1>6, <2>1, TypeOf DEF close, Asserted
<1>7. QED
  BY <1>2, <1>3, <1>4, <1>5, <1>6

(* A step of a chunk that leaves the memory leaves its invariant, if the stack is one of frames. *)
LEMMA StackStep ==
  ASSUME MemoryInv, state = "running", state' = "running",
         UNCHANGED <<program, scripts, script, m_rval, memory>>,
         Frames(calls'), calls' # <<>>,
         loaded' \in [Modules -> {"nil", "true", "modules"} \cup Values],
         ran' \in [Modules -> Nat]
  PROVE  MemoryInv'
<1>1. TypeOK /\ Space
  BY DEF MemoryInv
<1>2. /\ mem_used' \in (-Half)..(Half - 1) /\ used' \in Nat /\ used' = used
      /\ drift' \in Nat /\ CountDrifts' /\ LimitLoosens'
  BY MemoryKept
<1>3. TypeOK'
  BY <1>1, <1>2 DEF TypeOK, States, Frames, FrameType
<1>4. Stacked' /\ Space'
  BY <1>1, <1>2 DEF Stacked, Space
<1>5. QED
  BY <1>2, <1>3, <1>4, TypeOf

(* A step that asks for memory goes on with the chunk, or ends the program. *)
LEMMA MemoryStep ==
  ASSUME MemoryInv, NEW op, Running(op),
         NEW o \in Nat, NEW n \in Nat, NEW real \in Nat,
         real <= used, real <= o, n <= real + ThreadSize, used + n - real >= ThreadSize,
         alloc_for_lua(o, n, real), Asserted("running"), Advance,
         UNCHANGED <<program, scripts, script, m_rval, loaded, ran>>
  PROVE  MemoryInv'
<1>1. TypeOK /\ Stacked /\ state = "running"
  BY DEF MemoryInv, Running
<1>2. /\ mem_used' \in (-Half)..(Half - 1) /\ used' \in Nat /\ used' = used + n - real
      /\ drift' \in Nat /\ CountDrifts' /\ LimitLoosens'
  BY <1>1, AllocStep
<1>3. Frames(calls') /\ calls' # <<>>
  BY <1>1, PastFrames DEF Advance, Past
<1>4. state' \in {"running", "aborted"}
  BY DEF Asserted
<1>5. TypeOK'
  BY <1>1, <1>2, <1>3, <1>4 DEF TypeOK, States, Frames, FrameType
<1>6. Stacked' /\ Space'
  BY <1>2, <1>3, <1>4 DEF Stacked, Space
<1>7. QED
  BY <1>2, <1>5, <1>6, TypeOf

LEMMA ChunkStep ==
  ASSUME MemoryInv, newObject \/ growBlock \/ collect \/ goRound
  PROVE  MemoryInv'
<1>1. CASE newObject
  <2>1. used >= 3 /\ used \in Nat /\ Running("new")
    BY <1>1 DEF newObject, Running, MemoryInv, TypeOK, Space, ThreadSize
  <2>2. alloc_for_lua(1, 2, 0) /\ Asserted("running") /\ Advance
    BY <1>1 DEF newObject, TypeTag, ObjectSize
  <2>3. QED
    BY <1>1, <2>1, <2>2, MemoryStep DEF newObject, ThreadSize
<1>2. CASE growBlock
  <2>1. used >= 3 /\ used \in Nat /\ Running("grow")
    BY <1>2 DEF growBlock, Running, MemoryInv, TypeOK, Space, ThreadSize
  <2>2. alloc_for_lua(3, 4, 3) /\ Asserted("running") /\ Advance
    BY <1>2 DEF growBlock, ThreadSize
  <2>3. QED
    BY <1>2, <2>1, <2>2, MemoryStep DEF growBlock, ThreadSize
<1>3. CASE collect
  <2>1. used >= 3 /\ used \in Nat /\ Running("collect")
    BY <1>3 DEF collect, Running, MemoryInv, TypeOK, Space, ThreadSize
  <2>2. alloc_for_lua(used - 3, 0, used - 3) /\ Asserted("running") /\ Advance
    BY <1>3 DEF collect, ThreadSize
  <2>3. used - 3 \in Nat
    BY <2>1
  <2>4. QED
    BY <1>3, <2>1, <2>2, <2>3, MemoryStep DEF collect, ThreadSize
<1>4. CASE goRound
  <2>1. TypeOK /\ Stacked /\ Len(calls) <= MaxCalls
    BY DEF MemoryInv, TypeOK
  <2>2. Frames(calls') /\ calls' # <<>>
    <3>1. Len(calls') <= MaxCalls /\ program' = program
      BY <1>4, <2>1, RoundFacts DEF goRound
    <3>2. QED
      BY <1>4, <2>1, <3>1, RoundFacts DEF Frames
  <2>3. /\ state = "running" /\ state' = "running"
        /\ UNCHANGED <<program, scripts, script, m_rval, memory, loaded, ran>>
    BY <1>4 DEF goRound, Running
  <2>4. /\ loaded' \in [Modules -> {"nil", "true", "modules"} \cup Values]
        /\ ran' \in [Modules -> Nat]
    BY <2>1, <2>3 DEF TypeOK
  <2>5. QED
    BY <2>2, <2>3, <2>4, StackStep
<1>5. QED
  BY <1>1, <1>2, <1>3, <1>4

(* What is known of the stack and of what is loaded as a chunk requires or comes back. *)
LEMMA AppendFrames ==
  ASSUME TypeOK, NEW s, Frames(s), Len(s) < MaxCalls, NEW m \in Modules
  PROVE  /\ Frames(Append(s, Frame(m))) /\ Append(s, Frame(m)) # <<>>
         /\ Len(Append(s, Frame(m))) = Len(s) + 1
         /\ \A i \in 1..Len(s) : Append(s, Frame(m))[i] = s[i]
         /\ Append(s, Frame(m))[Len(s) + 1].module = m
<1> DEFINE f == Frame(m)
<1>1. /\ f \in FrameType /\ f.at <= Len(program[f.module].steps) + 1 /\ f.module = m
  BY FrameFacts
<1> HIDE DEF f
<1>2. s \in Seq(FrameType) /\ Len(s) \in Nat
  BY DEF Frames
<1>3. /\ Append(s, f) \in Seq(FrameType) /\ Len(Append(s, f)) = Len(s) + 1
      /\ \A i \in 1..Len(s) : Append(s, f)[i] = s[i]
      /\ Append(s, f)[Len(s) + 1] = f
  BY <1>1, <1>2
<1>4. Append(s, f) # <<>>
  BY <1>2, <1>3
<1>5. Len(s) + 1 <= MaxCalls
  BY <1>2, SizesAssumption
<1>6. QED
  BY <1>1, <1>3, <1>4, <1>5 DEF Frames, f

LEMMA FrontFrames ==
  ASSUME NEW s, Frames(s), Len(s) > 1
  PROVE  /\ Frames(SubSeq(s, 1, Len(s) - 1)) /\ SubSeq(s, 1, Len(s) - 1) # <<>>
         /\ Len(SubSeq(s, 1, Len(s) - 1)) = Len(s) - 1
         /\ \A i \in 1..(Len(s) - 1) : SubSeq(s, 1, Len(s) - 1)[i] = s[i]
<1> DEFINE t == SubSeq(s, 1, Len(s) - 1)
<1>1. s \in Seq(FrameType) /\ Len(s) \in Nat
  BY DEF Frames
<1>2. /\ t \in Seq(FrameType) /\ Len(t) = Len(s) - 1
      /\ \A i \in 1..(Len(s) - 1) : t[i] = s[i]
  BY <1>1
<1> HIDE DEF t
<1>3. t # <<>>
  BY <1>1, <1>2
<1>4. Len(t) <= MaxCalls
  BY <1>1, <1>2, SizesAssumption DEF Frames
<1>5. QED
  BY <1>1, <1>2, <1>3, <1>4 DEF Frames, t

(* Where a chunk that is required comes back to. *)
LEMMA ReturnFacts ==
  ASSUME MemoryInv, requireReturns
  PROVE  LET returns == IF Top.failed THEN "error" ELSE Chunk(Top.module).returns
             front == SubSeq(calls, 1, Len(calls) - 1)
         IN /\ state = "running" /\ Len(calls) \in Nat /\ Len(calls) > 1
            /\ Top.module \in Modules /\ Top = calls[Len(calls)]
            /\ returns \in Values \cup {"nothing", "error"}
            /\ Frames(front) /\ front # <<>> /\ Len(front) = Len(calls) - 1
            /\ \A i \in 1..(Len(calls) - 1) : front[i] = calls[i]
            /\ Store(Top.module, returns, front)
<1>1. TypeOK /\ state = "running" /\ calls # <<>> /\ Len(calls) > 1
  BY DEF MemoryInv, Stacked, requireReturns
<1>2. Frames(calls)
  BY <1>1 DEF TypeOK, Frames, FrameType
<1>3. Len(calls) \in Nat /\ Top = calls[Len(calls)] /\ Top.module \in Modules
  BY <1>1, TopFacts DEF FrameType
<1>4. Chunk(Top.module).returns \in Values \cup {"nothing", "error"}
  BY <1>1, <1>3, ProgramType
<1>5. QED
  BY <1>1, <1>2, <1>3, <1>4, FrontFrames DEF requireReturns

LEMMA RequireStep ==
  ASSUME MemoryInv, requireLoaded \/ require \/ requireTooDeep \/ requireReturns
  PROVE  MemoryInv'
<1>1. TypeOK /\ Stacked
  BY DEF MemoryInv
<1>2. /\ loaded \in [Modules -> {"nil", "true", "modules"} \cup Values]
      /\ ran \in [Modules -> Nat]
  BY <1>1 DEF TypeOK
<1>3. CASE requireLoaded
  <2>1. Frames(calls') /\ calls' # <<>> /\ state = "running"
    BY <1>1, <1>3, PastFrames, RunningFacts DEF requireLoaded
  <2>2. QED
    BY <1>2, <1>3, <2>1, StackStep DEF requireLoaded
<1>4. CASE require
  <2>1. Frames(Past) /\ state = "running" /\ Len(Past) = Len(calls) /\ Step.module \in Modules
    BY <1>1, <1>4, PastFrames, PastFacts, RunningFacts DEF require
  <2>2. Frames(calls') /\ calls' # <<>>
    BY <1>1, <1>4, <2>1, AppendFrames DEF require
  <2>3. ran' \in [Modules -> Nat]
    BY <1>2, <1>4, <2>1 DEF require
  <2>4. QED
    BY <1>2, <1>4, <2>1, <2>2, <2>3, StackStep DEF require
<1>5. CASE requireTooDeep
  <2>1. Frames(Past) /\ Past # <<>> /\ state = "running" /\ Step.module \in Modules
    BY <1>1, <1>5, PastFrames, RunningFacts DEF requireTooDeep
  <2>2. Frames(calls') /\ calls' # <<>> /\ loaded' \in [Modules -> {"nil", "true", "modules"} \cup Values]
    BY <1>1, <1>5, <2>1, StoreFacts DEF requireTooDeep
  <2>3. QED
    BY <1>2, <1>5, <2>1, <2>2, StackStep DEF requireTooDeep
<1>6. CASE requireReturns
  <2>1. /\ Frames(calls') /\ calls' # <<>> /\ state = "running"
        /\ loaded' \in [Modules -> {"nil", "true", "modules"} \cup Values]
    BY <1>1, <1>6, ReturnFacts, StoreFacts
  <2>2. QED
    BY <1>2, <1>6, <2>1, StackStep DEF requireReturns
<1>7. QED
  BY <1>3, <1>4, <1>5, <1>6

LEMMA MemoryInit == Init => MemoryInv
<1>1. SUFFICES ASSUME Init PROVE MemoryInv
  OBVIOUS
<1>2. 0 \in (-Half)..(Half - 1) /\ Int32(0) = 0
  BY SizesFacts, Int32Range
<1>3. TypeOK
  BY <1>1, <1>2, SizesAssumption DEF Init, TypeOK, States
<1>4. QED
  BY <1>1, <1>2, <1>3, SizesFacts DEF Init, MemoryInv, Stacked, Space, CountDrifts, LimitLoosens

LEMMA MemoryStutter == MemoryInv /\ UNCHANGED vars => MemoryInv'
BY DEF MemoryInv, vars, memory, TypeOK, Stacked, Space, CountDrifts, LimitLoosens,
       Int32, States

LEMMA MemoryInvariance == Spec => []MemoryInv
<1>1. Init => MemoryInv
  BY MemoryInit
<1>2. MemoryInv /\ [Next]_vars => MemoryInv'
  BY SandboxStep, ChunkStep, RequireStep, MemoryStutter DEF Next
<1>3. QED
  BY <1>1, <1>2, PTL DEF Spec

(* The variables stay in their ranges, whatever modules the wiki has and however they require  *)
(* each other: no chunk runs past its end, and no stack of them gets deeper than Lua allows.    *)
THEOREM TypeCorrect == Spec => []TypeOK
BY MemoryInvariance, PTL DEF MemoryInv

(* The count of the memory is what is in use less what Lua gave for the sizes of new blocks,   *)
(* taken as an int, after any scripts at all.                                                   *)
THEOREM CountIsUsed == Spec => []CountDrifts
BY MemoryInvariance, PTL DEF MemoryInv

(* The limit holds up to that by which the count has sunk, till it has sunk by half an int.    *)
THEOREM LimitHolds == Spec => []LimitLoosens
BY MemoryInvariance, PTL DEF MemoryInv

-----------------------------------------------------------------------------
(* Modules are run once *)

(* If modules do not require each other in a circle, each of the stack is below those under it. *)
Falling(rank) ==
  \A i, j \in 1..Len(calls) : i < j => rank[calls[j].module] < rank[calls[i].module]

(* A module that has begun, and does not return false, is loaded by now, or on the stack. *)
Begun ==
  \A m \in Modules : program[m].returns # "false" =>
    /\ ran[m] <= 1
    /\ loaded[m] # "false"
    /\ state = "open" => ran[m] = 0
    /\ state = "running" /\ ran[m] # 0 =>
         loaded[m] # "nil" \/ \E i \in 1..Len(calls) : calls[i].module = m

OnceInv ==
  \A rank \in [Modules -> 0..Cardinality(Modules)] : Ranks(rank) => Falling(rank) /\ Begun

LEMMA OnceInit == Init => OnceInv
BY DEF Init, OnceInv, Falling, Begun

LEMMA OnceSandbox ==
  ASSUME MemoryInv, OnceInv, open \/ run \/ returned \/ callFunction \/ close
  PROVE  OnceInv'
<1> SUFFICES ASSUME NEW rank \in [Modules -> 0..Cardinality(Modules)], Ranks(rank)'
             PROVE  (Falling(rank) /\ Begun)'
  BY DEF OnceInv
<1>1. program' = program
  BY DEF open, run, returned, callFunction, close
<1>2. Falling(rank) /\ Begun
  BY <1>1 DEF OnceInv, Ranks, Needs
<1>3. TypeOK /\ Stacked /\ ran \in [Modules -> Nat]
  BY DEF MemoryInv, TypeOK
<1>4. CASE open
  BY <1>2, <1>3, <1>4 DEF open, Asserted, Falling, Begun, Stacked
<1>5. CASE run
  <2>1. CASE program[script] = NoPage
    BY <1>2, <1>3, <1>5, <2>1 DEF run, Falling, Begun, Stacked
  <2>2. CASE program[script] # NoPage
    <3>1. /\ calls' = <<Frame(script)>> /\ Len(calls') = 1 /\ calls'[1].module = script
          /\ state' = "running" /\ script \in Modules
      BY <1>3, <1>5, <2>2 DEF run, Frame, TypeOK
    <3>2. /\ program' = program /\ loaded' = loaded
          /\ \A m \in Modules : program[m].returns # "false" =>
               /\ ran'[m] = IF m = script THEN 1 ELSE 0
               /\ loaded[m] # "false"
      <4>1. \A m \in Modules : program[m].returns # "false" => ran[m] = 0 /\ loaded[m] # "false"
        BY <1>2, <1>5 DEF run, Begun
      <4>2. ran' = [ran EXCEPT ![script] = @ + 1] /\ program' = program /\ loaded' = loaded
        BY <1>5, <2>2 DEF run
      <4>3. QED
        BY <1>3, <3>1, <4>1, <4>2
    <3>3. \A i, j \in 1..Len(calls') : ~(i < j)
      BY <3>1
    <3>4. Falling(rank)'
      BY <3>3 DEF Falling
    <3>5. Begun'
      BY <3>1, <3>2 DEF Begun
    <3>6. QED
      BY <3>4, <3>5
  <2>3. QED
    BY <2>1, <2>2
<1>6. CASE returned
  <2>1. /\ calls' = <<>> /\ ran' = ran /\ loaded' = loaded
        /\ state' \in {"ran", "called", "aborted"}
    BY <1>6 DEF returned
  <2>2. QED
    BY <1>1, <1>2, <2>1 DEF Falling, Begun
<1>7. CASE callFunction
  BY <1>2, <1>7 DEF callFunction, Falling, Begun
<1>8. CASE close
  BY <1>2, <1>8 DEF close, Asserted, Falling, Begun
<1>9. QED
  BY <1>4, <1>5, <1>6, <1>7, <1>8

(* A step that leaves the stack and what is loaded, but for the steps of the frames. *)
LEMMA OnceKept ==
  ASSUME NEW rank, Falling(rank), Begun, state = "running", state' \in {"running", "aborted"},
         Len(calls') = Len(calls),
         \A i \in 1..Len(calls) : calls'[i].module = calls[i].module,
         program' = program, ran' = ran,
         \A m \in Modules : program[m].returns # "false" /\ loaded[m] # "false" =>
           loaded'[m] # "false" /\ (loaded[m] # "nil" => loaded'[m] # "nil")
  PROVE  (Falling(rank) /\ Begun)'
BY DEF Falling, Begun

LEMMA OnceChunk ==
  ASSUME MemoryInv, OnceInv,
         newObject \/ growBlock \/ collect \/ goRound \/ requireLoaded \/ requireTooDeep
  PROVE  OnceInv'
<1> SUFFICES ASSUME NEW rank \in [Modules -> 0..Cardinality(Modules)], Ranks(rank)'
             PROVE  (Falling(rank) /\ Begun)'
  BY DEF OnceInv
<1>1. program' = program /\ ran' = ran
  BY DEF newObject, growBlock, collect, goRound, requireLoaded, requireTooDeep
<1>2. Falling(rank) /\ Begun
  BY <1>1 DEF OnceInv, Ranks, Needs
<1>3. TypeOK /\ Stacked /\ loaded \in [Modules -> {"nil", "true", "modules"} \cup Values]
  BY DEF MemoryInv, TypeOK
<1>4. CASE newObject \/ growBlock \/ collect \/ requireLoaded
  <2>1. PICK op : Running(op)
    BY <1>4 DEF newObject, growBlock, collect, requireLoaded
  <2>2. /\ calls' = Past /\ loaded' = loaded
        /\ state = "running" /\ state' \in {"running", "aborted"}
    BY <1>4 DEF newObject, growBlock, collect, requireLoaded, Asserted, Advance, Past, Running
  <2>3. QED
    BY <1>1, <1>2, <1>3, <2>1, <2>2, PastFacts, OnceKept
<1>5. CASE requireTooDeep
  <2>1. /\ Running("require") /\ Frames(Past) /\ Past # <<>> /\ Step.module \in Modules
        /\ state = "running" /\ state' = "running"
    BY <1>3, <1>5, PastFrames, RunningFacts DEF requireTooDeep
  <2>2. Store(Step.module, "error", Past)
    BY <1>5 DEF requireTooDeep
  <2>3. /\ Len(calls') = Len(Past)
        /\ \A i \in 1..Len(Past) : calls'[i].module = Past[i].module
    <3>1. "error" \in Values \cup {"nothing", "error"}
      OBVIOUS
    <3>2. TypeOK /\ Step.module \in Modules /\ Frames(Past) /\ Past # <<>>
      BY <1>3, <2>1
    <3>3. QED
      BY <2>2, <3>1, <3>2, StoreFacts, ZenonT(60)
  <2>4. /\ Len(Past) = Len(calls)
        /\ \A i \in 1..Len(Past) : Past[i].module = calls[i].module
    BY <1>3, <2>1, PastFacts
  <2>5. \A m \in Modules : program[m].returns # "false" /\ loaded[m] # "false" =>
          loaded'[m] # "false" /\ (loaded[m] # "nil" => loaded'[m] # "nil")
    <3>1. loaded' = [loaded EXCEPT ![Step.module] = Loaded(Step.module, "error")]
      BY <2>2 DEF Store
    <3>2. loaded[Step.module] # "false" => Loaded(Step.module, "error") \notin {"nil", "false"}
      BY <1>3, <2>1, LoadedType
    <3>3. QED
      BY <1>3, <2>1, <3>1, <3>2
  <2>6. QED
    BY <1>1, <1>2, <2>1, <2>3, <2>4, <2>5, OnceKept
<1>6. CASE goRound
  <2>1. /\ Len(calls') = Len(calls)
        /\ \A i \in 1..Len(calls') : calls'[i].module = calls[i].module
    BY <1>3, <1>6, RoundFacts
  <2>2. loaded' = loaded /\ state = "running" /\ state' = "running"
    BY <1>6 DEF goRound, Running
  <2>3. QED
    BY <1>1, <1>2, <2>1, <2>2, OnceKept
<1>7. QED
  BY <1>4, <1>5, <1>6

(* What is required is below all of the stack, so that it is not on it; and as it is not      *)
(* loaded either, it has not begun.                                                             *)
LEMMA OnceRequire ==
  ASSUME MemoryInv, OnceInv, require
  PROVE  OnceInv'
<1> SUFFICES ASSUME NEW rank \in [Modules -> 0..Cardinality(Modules)], Ranks(rank)'
             PROVE  (Falling(rank) /\ Begun)'
  BY DEF OnceInv
<1>1. program' = program /\ loaded' = loaded /\ state' = state
  BY DEF require
<1>2. Falling(rank) /\ Begun /\ Ranks(rank)
  BY <1>1 DEF OnceInv, Ranks, Needs
<1>3. TypeOK /\ Stacked /\ Running("require") /\ ran \in [Modules -> Nat]
  BY DEF MemoryInv, require, TypeOK
<1> DEFINE new == Step.module
           n == Len(calls)
<1>4. /\ state = "running" /\ n \in Nat \ {0} /\ Top = calls[n] /\ Top.module \in Modules
      /\ new \in Modules /\ new \in Needs(Top.module)
  BY <1>3, RunningFacts, TopFacts DEF FrameType, Stacked
<1>5. /\ Frames(Past) /\ Len(Past) = n
      /\ \A i \in 1..n : Past[i].module = calls[i].module /\ calls[i].module \in Modules
  <2>1. \A i \in 1..n : calls[i].module \in Modules
    <3>1. calls \in Seq(FrameType)
      BY <1>3 DEF TypeOK, FrameType
    <3>2. \A i \in 1..n : calls[i] \in FrameType
      BY <3>1
    <3>3. QED
      BY <3>2 DEF FrameType
  <2>2. /\ Len(Past) = n
        /\ \A i \in 1..Len(Past) : Past[i].module = calls[i].module
    BY <1>3, PastFacts
  <2>3. QED
    BY <1>3, <2>1, <2>2, PastFrames
<1>6. /\ calls' = Append(Past, Frame(new)) /\ Len(Past) < MaxCalls
      /\ loaded[new] \in {"nil", "false"}
  BY <1>5 DEF require, IsLoaded
<1>7. /\ Len(calls') = n + 1
      /\ \A i \in 1..n : calls'[i].module = calls[i].module
      /\ calls'[n + 1].module = new
  BY <1>3, <1>4, <1>5, <1>6, AppendFrames
<1>8. ran' = [ran EXCEPT ![new] = @ + 1]
  BY DEF require
<1> HIDE DEF new, n
<1>9. rank[new] < rank[calls[n].module]
  BY <1>2, <1>4 DEF Ranks
<1>10. \A m \in Modules : rank[m] \in Nat
  <2>1. Cardinality(Modules) \in Nat
    BY ModulesAssumption, FS_CardinalityType
  <2>2. QED
    BY <2>1
<1>11. \A i \in 1..n : rank[new] < rank[calls[i].module]
  <2>1. TAKE i \in 1..n
  <2>2. CASE i = n
    BY <1>9, <2>2
  <2>3. CASE i # n
    <3>1. rank[calls[n].module] < rank[calls[i].module]
      BY <1>2, <1>4, <2>3 DEF Falling, n
    <3>2. QED
      BY <1>4, <1>5, <1>9, <1>10, <3>1
  <2>4. QED
    BY <2>2, <2>3
<1>12. program[new].returns # "false" => ran[new] = 0
  <2>1. \A i \in 1..n : calls[i].module # new
    BY <1>4, <1>10, <1>11
  <2>2. QED
    BY <1>2, <1>4, <1>6, <2>1 DEF Begun, n
<1>13. Falling(rank)'
  <2>1. SUFFICES ASSUME NEW i \in 1..(n + 1), NEW j \in 1..(n + 1), i < j
                 PROVE  rank[calls'[j].module] < rank[calls'[i].module]
    BY <1>7 DEF Falling
  <2>2. i \in 1..n
    BY <1>4, <2>1
  <2>3. CASE j = n + 1
    BY <1>7, <1>11, <2>2, <2>3
  <2>4. CASE j # n + 1
    <3>1. j \in 1..n
      BY <1>4, <2>4
    <3>2. rank[calls[j].module] < rank[calls[i].module]
      BY <1>2, <2>1, <2>2, <3>1 DEF Falling, n
    <3>3. QED
      BY <1>7, <2>2, <3>1, <3>2
  <2>5. QED
    BY <2>3, <2>4
<1>14. Begun'
  <2>1. SUFFICES ASSUME NEW m \in Modules, program[m].returns # "false"
                 PROVE  /\ ran'[m] <= 1
                        /\ loaded'[m] # "false"
                        /\ state' = "open" => ran'[m] = 0
                        /\ state' = "running" /\ ran'[m] # 0 =>
                             loaded'[m] # "nil" \/ \E i \in 1..Len(calls') : calls'[i].module = m
    BY <1>1 DEF Begun
  <2>2. CASE m = new
    <3>1. ran'[m] = 1 /\ n + 1 \in 1..Len(calls')
      BY <1>3, <1>4, <1>7, <1>8, <1>12, <2>1, <2>2
    <3>2. loaded'[m] # "false"
      BY <1>1, <1>2, <2>1 DEF Begun
    <3>3. QED
      BY <1>1, <1>4, <1>7, <2>2, <3>1, <3>2
  <2>3. CASE m # new
    <3>1. ran'[m] = ran[m]
      BY <1>3, <1>8, <2>3
    <3>2. \A i \in 1..n : i \in 1..Len(calls')
      BY <1>4, <1>7
    <3>3. QED
      BY <1>1, <1>2, <1>4, <1>7, <2>1, <3>1, <3>2 DEF Begun, n
  <2>4. QED
    BY <2>2, <2>3
<1>15. QED
  BY <1>13, <1>14

(* What comes back leaves the stack, and is loaded. *)
LEMMA OnceReturns ==
  ASSUME MemoryInv, OnceInv, requireReturns
  PROVE  OnceInv'
<1> SUFFICES ASSUME NEW rank \in [Modules -> 0..Cardinality(Modules)], Ranks(rank)'
             PROVE  (Falling(rank) /\ Begun)'
  BY DEF OnceInv
<1>1. program' = program /\ ran' = ran /\ state' = state
  BY DEF requireReturns
<1>2. Falling(rank) /\ Begun
  BY <1>1 DEF OnceInv, Ranks, Needs
<1>3. TypeOK /\ loaded \in [Modules -> {"nil", "true", "modules"} \cup Values]
  BY DEF MemoryInv, TypeOK
<1> DEFINE top == Top.module
           n == Len(calls)
           returns == IF Top.failed THEN "error" ELSE Chunk(Top.module).returns
           front == SubSeq(calls, 1, Len(calls) - 1)
<1>4. /\ state = "running" /\ n \in Nat /\ n > 1
      /\ top \in Modules /\ top = calls[n].module
      /\ returns \in Values \cup {"nothing", "error"}
      /\ Frames(front) /\ front # <<>> /\ Len(front) = n - 1
      /\ \A i \in 1..(n - 1) : front[i] = calls[i]
      /\ Store(top, returns, front)
  BY ReturnFacts
<1>5. program[top].returns # "false" => returns # "false"
  BY <1>3, <1>4, ProgramType
<1> HIDE DEF top, n, returns, front
<1>6. /\ Len(calls') = n - 1
      /\ \A i \in 1..(n - 1) : calls'[i].module = calls[i].module
  <2>1. /\ Len(calls') = Len(front)
        /\ \A i \in 1..Len(front) : calls'[i].module = front[i].module
    <3>1. TypeOK /\ top \in Modules /\ returns \in Values \cup {"nothing", "error"}
      BY <1>3, <1>4
    <3>2. Frames(front) /\ front # <<>> /\ Store(top, returns, front)
      BY <1>4
    <3>3. QED
      BY <3>1, <3>2, StoreFacts
  <2>2. QED
    BY <1>4, <2>1
<1>7. \A m \in Modules : program[m].returns # "false" =>
        /\ loaded'[m] # "false"
        /\ loaded[m] # "nil" \/ m = top => loaded'[m] # "nil"
  <2>1. \A m \in Modules : program[m].returns # "false" => loaded[m] # "false"
    BY <1>2 DEF Begun
  <2>2. loaded' = [loaded EXCEPT ![top] = Loaded(top, returns)]
    BY <1>4 DEF Store
  <2>3. program[top].returns # "false" => Loaded(top, returns) \notin {"nil", "false"}
    BY <1>3, <1>4, <1>5, <2>1, LoadedType
  <2>4. QED
    BY <1>3, <1>4, <2>1, <2>2, <2>3
<1>8. 1..(n - 1) \subseteq 1..n /\ \A i \in 1..n : i = n \/ i \in 1..(n - 1)
  BY <1>4
<1>9. Falling(rank)'
  BY <1>2, <1>6, <1>8 DEF Falling, n
<1>10. Begun'
  <2>1. SUFFICES ASSUME NEW m \in Modules, program[m].returns # "false", ran[m] # 0
                 PROVE  loaded'[m] # "nil" \/ \E i \in 1..(n - 1) : calls'[i].module = m
    BY <1>1, <1>2, <1>4, <1>6, <1>7 DEF Begun
  <2>2. loaded[m] # "nil" \/ \E i \in 1..n : calls[i].module = m
    BY <1>2, <1>4, <2>1 DEF Begun, n
  <2>3. QED
    BY <1>4, <1>6, <1>7, <1>8, <2>1, <2>2
<1>11. QED
  BY <1>9, <1>10

LEMMA OnceInvariance == Spec => [](MemoryInv /\ OnceInv)
<1>1. Init => MemoryInv /\ OnceInv
  BY MemoryInit, OnceInit
<1>2. ASSUME MemoryInv, OnceInv, [Next]_vars PROVE MemoryInv' /\ OnceInv'
  <2>1. MemoryInv'
    BY <1>2, SandboxStep, ChunkStep, RequireStep, MemoryStutter DEF Next
  <2>2. ASSUME UNCHANGED vars PROVE OnceInv'
    BY <1>2, <2>2 DEF vars, OnceInv, Falling, Begun, Ranks, Needs
  <2>3. QED
    BY <1>2, <2>1, <2>2, OnceSandbox, OnceChunk, OnceRequire, OnceReturns DEF Next
<1>3. QED
  BY <1>1, <1>2, PTL DEF Spec

(* However often, and over however many others, a module is required, its chunk is run once,   *)
(* if no module requires itself in a circle, and this one does not return false.                *)
THEOREM ModulesRunOnce == Spec => []LoadedOnce
<1>1. OnceInv => LoadedOnce
  BY DEF OnceInv, Begun, LoadedOnce, Acyclic
<1>2. QED
  BY <1>1, OnceInvariance, PTL
=============================================================================
