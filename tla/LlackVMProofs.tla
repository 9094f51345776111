---------------------------- MODULE LlackVMProofs ----------------------------
(***************************************************************************)
(* The virtual machine, for every module and every choice of the           *)
(* constants: it is type correct, and the code it compiles is linked to    *)
(* the words that the source of each word names.  Then the factorial       *)
(* program on it, for every width of the integers, every size of a         *)
(* location and every two literals: what its stacks hold, how it ends and  *)
(* what it computes.                                                       *)
(***************************************************************************)
EXTENDS FactorialProgram, SequenceTheorems, WellFoundedInduction, TLAPS

(* What a store of a value writes is a sequence of bytes (ImmediateStack-  *)
(* CodeGen::push).                                                         *)
LEMMA BytesOfType ==
  ASSUME NEW v \in Value, NEW n \in Nat
  PROVE  BytesOf(v, n) \in Bytes /\ Len(BytesOf(v, n)) = n
BY DEF BytesOf, Bytes, Byte

(* A pop within the stack takes bytes from it and leaves bytes on it       *)
(* (ImmediateStackCodeGen::pop).                                           *)
LEMMA PopType ==
  ASSUME NEW s \in Bytes, NEW n \in Nat, n <= Len(s)
  PROVE  /\ TopBytes(s, n) \in Bytes /\ Len(TopBytes(s, n)) = n
         /\ BelowTop(s, n) \in Bytes
<1>1. Len(s) \in Nat /\ \A i \in 1 .. Len(s) : s[i] \in Byte
  BY LenProperties, ElementOfSeq DEF Bytes
<1>2. TopBytes(s, n) \in Bytes /\ Len(TopBytes(s, n)) = n
  <2>1. Len(s) - n + 1 \in Int /\ \A i \in Len(s) - n + 1 .. Len(s) : s[i] \in Byte
    BY <1>1
  <2> QED BY <1>1, <2>1, SubSeqProperties DEF TopBytes, Bytes
<1>3. BelowTop(s, n) \in Bytes
  <2>1. \A i \in 1 .. Len(s) - n : s[i] \in Byte
    BY <1>1
  <2> QED BY <1>1, <2>1, SubSeqProperties DEF BelowTop, Bytes
<1> QED BY <1>2, <1>3

(* A load that finds exactly what one store wrote returns its value. *)
LEMMA StoredType ==
  ASSUME NEW bytes \in Bytes, IsWhole(bytes)
  PROVE  Stored(bytes) \in Value
<1>1. bytes # << >> BY DEF IsWhole
<1>2. 1 \in 1 .. Len(bytes) BY <1>1, EmptySeq DEF Bytes
<1>3. bytes[1] \in Byte BY <1>2, ElementOfSeq DEF Bytes
<1> QED BY <1>3 DEF Stored, Byte

(* Integer operands are natural numbers whatever bytes they are read from. *)
LEMMA IntsOfType ==
  ASSUME NEW bytes \in Bytes
  PROVE  IntsOf(bytes) \subseteq Nat
<1>1. Ints \subseteq Nat BY DEF Ints
<1>2. IsWhole(bytes) => Stored(bytes)[2] \in Nat
  BY StoredType DEF Value
<1> QED BY <1>1, <1>2 DEF IntsOf

(* Every instruction generates code that names only the LLVM values it has *)
(* (the codeGen of each subclass of LlackInstruction).                     *)
LEMMA CodeOfType ==
  ASSUME NEW i \in Compiled
  PROVE  /\ ValuesOf(i) \in Nat
         /\ CodeOf(i) \in Seq(Operations(1 .. ValuesOf(i)))
<1> DEFINE R == 1 .. ValuesOf(i)
<1>1. CASE i \in [op : {"push"}, t : Types, v : Ints]
  <2>1. i.op = "push" /\ i.t \in Types /\ i.v \in Nat BY <1>1 DEF Ints
  <2>2. ValuesOf(i) = 4 BY <2>1 DEF ValuesOf
  <2>3. <<"int", i.v>> \in Value BY <2>1 DEF Value
  <2>4. /\ Constant(<<"int", i.v>>, i.t) \in Operations(R)
        /\ Push("data", 1) \in Operations(R)
    BY <2>1, <2>2, <2>3 DEF Constant, Push, Operations
  <2>5. CodeOf(i) = <<Constant(<<"int", i.v>>, i.t), Push("data", 1)>>
    BY <2>1 DEF CodeOf
  <2> QED BY <2>2, <2>4, <2>5
<1>2. CASE i \in [op : {"pushloc"}, l : Nat]
  <2>1. i.op = "pushloc" /\ i.l \in Nat BY <1>2
  <2>2. ValuesOf(i) = 4 BY <2>1 DEF ValuesOf
  <2>3. <<"loc", i.l>> \in Value BY <2>1 DEF Value
  <2>4. /\ Constant(<<"loc", i.l>>, Loc) \in Operations(R)
        /\ Push("data", 1) \in Operations(R)
    BY <2>1, <2>2, <2>3, VMAssumption DEF Constant, Push, Operations
  <2>5. CodeOf(i) = <<Constant(<<"loc", i.l>>, Loc), Push("data", 1)>>
    BY <2>1 DEF CodeOf
  <2> QED BY <2>2, <2>4, <2>5
<1>3. CASE i \in [op : {"tocont", "fromcont"}]
  <2>1. i.op = "tocont" \/ i.op = "fromcont" BY <1>3
  <2>2. ValuesOf(i) = 4 BY <2>1 DEF ValuesOf
  <2>3. \A s \in {"data", "cont"} : Pop(s, Loc, 1) \in Operations(R) /\ Push(s, 1) \in Operations(R)
    BY <2>2, VMAssumption DEF Pop, Push, Operations
  <2>4. \/ CodeOf(i) = <<Pop("data", Loc, 1), Push("cont", 1)>>
        \/ CodeOf(i) = <<Pop("cont", Loc, 1), Push("data", 1)>>
    BY <2>1 DEF CodeOf
  <2> QED BY <2>2, <2>3, <2>4
<1>4. CASE i \in [op : {"sub", "mul", "select"}, t : Types]
  <2>1. i.t \in Types /\ (i.op = "sub" \/ i.op = "mul" \/ i.op = "select") BY <1>4
  <2>2. ValuesOf(i) = 4 BY <2>1 DEF ValuesOf
  <2>3. /\ Pop("data", i.t, 1) \in Operations(R)
        /\ Pop("data", i.t, 2) \in Operations(R)
        /\ Pop("data", Bit, 3) \in Operations(R)
        /\ Push("data", 3) \in Operations(R)
        /\ Push("data", 4) \in Operations(R)
    BY <2>1, <2>2, VMAssumption DEF Pop, Push, Operations
  <2>4. CASE i.op = "select"
    <3>1. [op |-> "select", c |-> 3, a |-> 2, b |-> 1, r |-> 4] \in Operations(R)
      BY <2>2 DEF Operations
    <3>2. CodeOf(i) = Select(i.t) BY <2>4 DEF CodeOf
    <3> QED BY <2>2, <2>3, <3>1, <3>2 DEF Select
  <2>5. CASE i.op \in {"sub", "mul"}
    <3>1. [op |-> i.op, t |-> i.t, a |-> 2, b |-> 1, r |-> 3] \in Operations(R)
      BY <2>1, <2>2, <2>5 DEF Operations
    <3>2. CodeOf(i) = Binary(i.op, i.t) BY <2>5 DEF CodeOf
    <3> QED BY <2>2, <2>3, <3>1, <3>2 DEF Binary
  <2> QED BY <2>1, <2>4, <2>5
<1>5. CASE i \in [op : {"icmp"}, p : Predicates, t : Types]
  <2>1. i.op = "icmp" /\ i.t \in Types /\ i.p \in Predicates BY <1>5
  <2>2. ValuesOf(i) = 4 BY <2>1 DEF ValuesOf
  <2>3. /\ Pop("data", i.t, 1) \in Operations(R)
        /\ Pop("data", i.t, 2) \in Operations(R)
        /\ Push("data", 3) \in Operations(R)
    BY <2>1, <2>2 DEF Pop, Push, Operations
  <2>4. [op |-> "icmp", p |-> i.p, t |-> i.t, a |-> 1, b |-> 2, r |-> 3] \in Operations(R)
    BY <2>1, <2>2 DEF Operations
  <2>5. CodeOf(i) = Compare(i.p, i.t) BY <2>1 DEF CodeOf
  <2> QED BY <2>2, <2>3, <2>4, <2>5 DEF Compare
<1>6. CASE i \in Shuffles
  <2>1. /\ i.op = "shuffle" /\ i.in \in Seq(Types) /\ i.out \in Seq(Nat)
        /\ \A j \in DOMAIN i.out : i.out[j] < Len(i.in)
    BY <1>6 DEF Shuffles
  <2>2. /\ Len(i.in) \in Nat /\ Len(i.out) \in Nat /\ ValuesOf(i) = Len(i.in)
        /\ DOMAIN i.out = 1 .. Len(i.out)
    BY <2>1, LenProperties DEF ValuesOf
  <2>3. [k \in 1 .. Len(i.in) |-> Pop("data", i.in[k], k)] \in Seq(Operations(R))
    <3>1. \A k \in 1 .. Len(i.in) : Pop("data", i.in[k], k) \in Operations(R)
      BY <2>1, <2>2, ElementOfSeq DEF Pop, Operations
    <3> QED BY <2>2, <3>1, IsASeq
  <2>4. [j \in 1 .. Len(i.out) |-> Push("data", Len(i.in) - i.out[j])] \in Seq(Operations(R))
    <3>1. ASSUME NEW j \in 1 .. Len(i.out)
          PROVE  Len(i.in) - i.out[j] \in R
      <4>1. i.out[j] \in Nat BY <2>1, ElementOfSeq
      <4>2. i.out[j] < Len(i.in) BY <2>1, <2>2
      <4> QED BY <2>2, <4>1, <4>2
    <3>2. \A j \in 1 .. Len(i.out) : Push("data", Len(i.in) - i.out[j]) \in Operations(R)
      BY <3>1 DEF Push, Operations
    <3> QED BY <2>2, <3>2, IsASeq
  <2>5. CodeOf(i) = Shuffle(i.in, i.out) BY <2>1 DEF CodeOf
  <2> QED BY <2>2, <2>3, <2>4, <2>5, ConcatProperties DEF Shuffle
<1> QED BY <1>1, <1>2, <1>3, <1>4, <1>5, <1>6 DEF Compiled

(* Linking keeps the instructions of a word well typed (the code that      *)
(* WordInterpretable::codeGen builds from them).                           *)
LEMMA CompileType ==
  ASSUME TypeOK, NEW w \in Words
  PROVE  /\ mod.body[w] \in Seq(Instructions)
         /\ Compile(mod.body[w]) \in Seq(Compiled)
<1>1. mod.body[w] \in Seq(Instructions)
  BY ModulesAssumption DEF TypeOK
<1> DEFINE body == mod.body[w]
<1>2. Len(body) \in Nat /\ DOMAIN body = 1 .. Len(body)
  BY <1>1, LenProperties
<1>3. ASSUME NEW i \in 1 .. Len(body)
      PROVE  Compile(body)[i] \in Compiled
  <2>1. body[i] \in Instructions BY <1>1, ElementOfSeq
  <2>2. CASE body[i].op = "lookup"
    <3>1. body[i].w \in Words
      BY <2>1, <2>2 DEF Instructions, Shuffles
    <3>2. wordMap[body[i].w] \in Nat BY <3>1 DEF TypeOK
    <3>3. Compile(body)[i] = [op |-> "pushloc", l |-> wordMap[body[i].w]]
      BY <1>2, <2>2 DEF Compile
    <3> QED BY <3>2, <3>3 DEF Compiled
  <2>3. CASE body[i].op # "lookup"
    <3>1. body[i] \in Compiled
      BY <2>1, <2>3 DEF Instructions, Compiled
    <3>2. Compile(body)[i] = body[i] BY <1>2, <2>3 DEF Compile
    <3> QED BY <3>1, <3>2
  <2> QED BY <2>2, <2>3
<1>4. Compile(body) = [i \in 1 .. Len(body) |-> Compile(body)[i]]
  BY <1>2 DEF Compile
<1> HIDE DEF body
<1>5. [i \in 1 .. Len(body) |-> Compile(body)[i]] \in Seq(Compiled)
  BY <1>2, <1>3, IsASeq
<1> QED BY <1>1, <1>4, <1>5 DEF body

(* No compiled function is the mark of an uninitialised one. *)
LEMMA UninitNotCompiled == Uninit \notin Seq(Compiled)
<1>1. SUFFICES ASSUME Uninit \in Seq(Compiled) PROVE FALSE
  OBVIOUS
<1>2. Uninit[1] \in Compiled
  BY <1>1, ElementOfSeq DEF Uninit
<1>3. Uninit[1].op = "uninitialised" BY DEF Uninit
<1> QED BY <1>2, <1>3 DEF Compiled, Shuffles

-----------------------------------------------------------------------------
(* One lemma per action: it keeps TypeOK (for Linked, see below).          *)

LEMMA InitType == Init => TypeOK
<1> SUFFICES ASSUME Init PROVE TypeOK OBVIOUS
<1> USE DEF Init
<1>1. wordMap \in [Words -> Nat] BY DEF NULL
<1> QED BY <1>1, EmptySeq DEF TypeOK, Bytes, NULL, Stopped

LEMMA InsertWordType == TypeOK /\ InsertWord => TypeOK'
<1> SUFFICES ASSUME TypeOK, InsertWord PROVE TypeOK'
  OBVIOUS
<1> USE DEF TypeOK
<1> DEFINE n == Len(slots) + 1
           w == mod.words[n]
<1>1. mod' = mod /\ data' = data /\ cont' = cont /\ here' = here
      /\ running' = running /\ code' = code /\ regs' = regs
  BY DEF InsertWord, current
<1>2. CASE n * LocSize > AreaSize
  <2>1. status' = "overrun" /\ slots' = slots /\ wordMap' = wordMap /\ function' = function
    BY <1>2 DEF InsertWord
  <2> QED BY <1>1, <2>1 DEF Stopped
<1>3. CASE ~(n * LocSize > AreaSize)
  <2>1. /\ slots' = Append(slots, w)
        /\ wordMap' = [wordMap EXCEPT ![w] = n]
        /\ function' = Append(function, Uninit)
        /\ status' = "load"
    BY <1>3 DEF InsertWord
  <2>2. mod.words \in Seq(Words) BY ModulesAssumption
  <2>3. n \in 1 .. Len(mod.words) BY <2>2, LenProperties DEF InsertWord
  <2>4. w \in Words BY <2>2, <2>3, ElementOfSeq
  <2>5. slots' \in Seq(Words) /\ Len(slots') = n
    BY <2>1, <2>4, AppendProperties
  <2>6. /\ function' \in Seq(Seq(Compiled) \cup {Uninit})
        /\ Len(function') = Len(function) + 1
    BY <2>1, AppendProperties
  <2>7. wordMap' \in [Words -> Nat]
    <3>1. n \in Nat BY LenProperties
    <3> HIDE DEF n, w
    <3> QED BY <2>1, <3>1
  <2>8. here' \in 0 .. Len(slots') BY <1>1, <2>5, LenProperties
  <2> QED BY <1>1, <2>1, <2>5, <2>6, <2>7, <2>8
<1> QED BY <1>2, <1>3

LEMMA BootType == TypeOK /\ Boot => TypeOK'
<1> SUFFICES ASSUME TypeOK, Boot PROVE TypeOK'
  OBVIOUS
<1>1. \A l \in Nat : LocBytes(l) \in Bytes
  BY BytesOfType, VMAssumption DEF LocBytes, LocSize, Value
<1>2. wordMap[Main] \in Nat /\ NULL \in Nat
  BY VMAssumption DEF TypeOK, NULL
<1>3. cont' \in Bytes /\ status' \in {"wild", "fetch"}
  <2>1. PushBytes(LocBytes(NULL), LocBytes(wordMap[Main])) \in Bytes
    BY <1>1, <1>2, ConcatProperties DEF PushBytes, Bytes
  <2> QED BY <1>1, <1>2, <2>1 DEF Boot
<1> QED BY <1>3 DEF TypeOK, Boot, loader, current, Stopped

LEMMA FetchType == TypeOK /\ (Fetch \/ FetchUnderrun) => TypeOK'
<1>1. ASSUME TypeOK, Fetch PROVE TypeOK'
  <2> DEFINE top == TopBytes(cont, LocSize)
  <2>1. /\ cont \in Bytes /\ LocSize \in Nat /\ LocSize <= Len(cont)
        /\ Len(cont) \in Nat
    BY <1>1, VMAssumption, LenProperties DEF TypeOK, Fetch, LocSize, Bytes
  <2>2. cont' \in Bytes BY <1>1, <2>1, PopType DEF Fetch
  <2>3. here' \in 0 .. Len(slots)
        /\ status' \in {"halted", "wild", "interpret"}
        /\ (status' = "interpret" => here' # NULL)
    BY <1>1, LenProperties DEF Fetch, IsLocation, TypeOK, NULL
  <2> QED BY <1>1, <2>2, <2>3 DEF TypeOK, Fetch, loader, current, Stopped
<1>2. ASSUME TypeOK, FetchUnderrun PROVE TypeOK'
  BY <1>2 DEF TypeOK, FetchUnderrun, loader, current, Stopped
<1> QED BY <1>1, <1>2

LEMMA InitFunctionType == TypeOK /\ InitFunction => TypeOK'
<1> SUFFICES ASSUME TypeOK, InitFunction PROVE TypeOK'
  OBVIOUS
<1>1. here \in 1 .. Len(slots) /\ here \in 1 .. Len(function)
  BY LenProperties DEF TypeOK, InitFunction, NULL
<1>2. slots[here] \in Words BY <1>1, ElementOfSeq DEF TypeOK
<1>3. Compile(mod.body[slots[here]]) \in Seq(Compiled)
  BY <1>2, CompileType
<1>4. [function EXCEPT ![here] = Compile(mod.body[slots[here]])]
        \in Seq(Seq(Compiled) \cup {Uninit})
      /\ Len([function EXCEPT ![here] = Compile(mod.body[slots[here]])]) = Len(function)
  BY <1>1, <1>3, ExceptSeq DEF TypeOK
<1>5. /\ function' \in Seq(Seq(Compiled) \cup {Uninit}) /\ Len(function') = Len(function)
      /\ status' \in {"asserted", "interpret"} /\ here' = here /\ status = "interpret"
  BY <1>4 DEF InitFunction, TypeOK
<1> QED BY <1>5 DEF TypeOK, InitFunction, loader, current, Stopped

LEMMA ControlType ==
  TypeOK /\ (RunUninitialised \/ RunFunction \/ Return) => TypeOK'
<1>1. ASSUME TypeOK, RunUninitialised PROVE TypeOK'
  BY <1>1 DEF TypeOK, RunUninitialised, loader, current, Stopped
<1>2. ASSUME TypeOK, RunFunction PROVE TypeOK'
  <2>1. here \in 1 .. Len(function)
    BY <1>2, LenProperties DEF TypeOK, RunFunction, NULL
  <2>2. function[here] \in Seq(Compiled)
    BY <1>2, <2>1, ElementOfSeq DEF TypeOK, RunFunction
  <2> QED BY <1>2, <2>2 DEF TypeOK, RunFunction, loader
<1>3. ASSUME TypeOK, Return PROVE TypeOK'
  BY <1>3 DEF TypeOK, Return, loader, current
<1> QED BY <1>1, <1>2, <1>3

LEMMA NextInstructionType == TypeOK /\ NextInstruction => TypeOK'
<1> SUFFICES ASSUME TypeOK, NextInstruction PROVE TypeOK'
  OBVIOUS
<1> DEFINE i == Head(running)
<1>1. i \in Compiled /\ running' \in Seq(Compiled)
  BY HeadTailProperties DEF TypeOK, NextInstruction
<1>2. ValuesOf(i) \in Nat /\ CodeOf(i) \in Seq(Operations(1 .. ValuesOf(i)))
  BY <1>1, CodeOfType
<1>3. << >> \in Bytes BY EmptySeq DEF Bytes
<1>4. regs' = [r \in 1 .. ValuesOf(i) |-> << >>] /\ code' = CodeOf(i)
  BY DEF NextInstruction
<1>5. regs' \in Seq(Bytes) /\ DOMAIN regs' = 1 .. ValuesOf(i)
  <2> HIDE DEF i
  <2> QED BY <1>2, <1>3, <1>4, IsASeq
<1>6. code' \in Seq(Operations(DOMAIN regs')) BY <1>2, <1>4, <1>5
<1> QED BY <1>1, <1>5, <1>6 DEF TypeOK, NextInstruction, loader

(* The operations of generated code: each keeps the types of the stacks    *)
(* and values it works on.                                                 *)
LEMMA OperationType ==
  ASSUME TypeOK, status = "run", code # << >>
  PROVE  /\ Head(code) \in Operations(DOMAIN regs)
         /\ Tail(code) \in Seq(Operations(DOMAIN regs))
BY HeadTailProperties DEF TypeOK

LEMMA AssignType ==
  ASSUME TypeOK, status = "run", code # << >>,
         NEW r \in DOMAIN regs, NEW bytes \in Bytes, Assign(r, bytes)
  PROVE  TypeOK'
<1>1. /\ regs' \in Seq(Bytes) /\ DOMAIN regs' = DOMAIN regs
      /\ code' = Tail(code)
  <2>1. r \in 1 .. Len(regs) /\ regs \in Seq(Bytes)
    BY LenProperties DEF TypeOK
  <2>2. regs' = [regs EXCEPT ![r] = bytes] BY DEF Assign
  <2> QED BY <2>1, <2>2, ExceptSeq DEF Assign
<1>2. code' \in Seq(Operations(DOMAIN regs')) BY <1>1, OperationType
<1> QED BY <1>1, <1>2 DEF TypeOK, Assign, loader

LEMMA StackType ==
  ASSUME TypeOK, NEW s \in {"data", "cont"}, NEW bytes \in Bytes, SetStack(s, bytes)
  PROVE  Stack(s) \in Bytes /\ data' \in Bytes /\ cont' \in Bytes
BY DEF TypeOK, Stack, SetStack

LEMMA RunPopType == TypeOK /\ RunPop => TypeOK'
<1> SUFFICES ASSUME TypeOK, RunPop PROVE TypeOK'
  OBVIOUS
<1> DEFINE c == Head(code)
           n == SizeOf[c.t]
<1>1. /\ c \in Operations(DOMAIN regs) /\ c.op = "pop"
      /\ Tail(code) \in Seq(Operations(DOMAIN regs))
  BY OperationType DEF RunPop, At
<1>2. c.s \in {"data", "cont"} /\ c.t \in Types /\ c.r \in DOMAIN regs
  BY <1>1 DEF Operations
<1>3. n \in Nat /\ Stack(c.s) \in Bytes /\ Len(Stack(c.s)) \in Nat
  BY <1>2, VMAssumption, LenProperties DEF TypeOK, Stack, Bytes
<1> HIDE DEF n, c
<1>4. code' = Tail(code) /\ UNCHANGED <<mod, slots, wordMap, function, here, running>>
  BY DEF RunPop, loader
<1>5. CASE Len(Stack(c.s)) < n
  <2>1. status' = "overrun" /\ UNCHANGED <<data, cont, regs>>
    BY <1>5 DEF RunPop, c, n
  <2> QED BY <1>1, <1>4, <2>1 DEF TypeOK, Stopped
<1>6. CASE ~(Len(Stack(c.s)) < n)
  <2>1. /\ SetStack(c.s, BelowTop(Stack(c.s), n))
        /\ regs' = [regs EXCEPT ![c.r] = TopBytes(Stack(c.s), n)]
        /\ status' = status /\ status = "run"
    BY <1>6 DEF RunPop, At, c, n
  <2>2. BelowTop(Stack(c.s), n) \in Bytes /\ TopBytes(Stack(c.s), n) \in Bytes
    BY <1>3, <1>6, PopType
  <2>3. data' \in Bytes /\ cont' \in Bytes
    BY <1>2, <2>1, <2>2, StackType
  <2>4. c.r \in 1 .. Len(regs) BY <1>2, LenProperties DEF TypeOK
  <2>5. regs' \in Seq(Bytes) /\ DOMAIN regs' = DOMAIN regs
    BY <2>1, <2>2, <2>4, ExceptSeq DEF TypeOK
  <2> QED BY <1>1, <1>4, <2>1, <2>3, <2>5 DEF TypeOK
<1> QED BY <1>5, <1>6

LEMMA RunPushType == TypeOK /\ RunPush => TypeOK'
<1> SUFFICES ASSUME TypeOK, RunPush PROVE TypeOK'
  OBVIOUS
<1> DEFINE c == Head(code)
           after == PushBytes(Stack(c.s), regs[c.r])
<1>1. /\ c \in Operations(DOMAIN regs) /\ c.op = "push"
      /\ Tail(code) \in Seq(Operations(DOMAIN regs))
  BY OperationType DEF RunPush, At
<1>2. c.s \in {"data", "cont"} /\ c.r \in DOMAIN regs
  BY <1>1 DEF Operations
<1>3. regs[c.r] \in Bytes /\ Stack(c.s) \in Bytes
  BY <1>2, LenProperties, ElementOfSeq DEF TypeOK, Stack
<1>4. after \in Bytes
  BY <1>3, ConcatProperties DEF PushBytes, Bytes
<1>5. code' = Tail(code) /\ UNCHANGED <<mod, slots, wordMap, function, here, running, regs>>
  BY DEF RunPush, loader
<1> HIDE DEF c, after
<1>6. CASE Len(after) > StackSize
  <2>1. status' = "overrun" /\ UNCHANGED <<data, cont>>
    BY <1>6 DEF RunPush, c, after
  <2> QED BY <1>1, <1>5, <2>1 DEF TypeOK, Stopped
<1>7. CASE ~(Len(after) > StackSize)
  <2>1. SetStack(c.s, after) /\ status' = status
    BY <1>7 DEF RunPush, c, after
  <2>2. data' \in Bytes /\ cont' \in Bytes
    BY <1>2, <1>4, <2>1, StackType
  <2> QED BY <1>1, <1>5, <2>1, <2>2 DEF TypeOK
<1> QED BY <1>6, <1>7

(* Results of integer operations fit a stack value of their type. *)
LEMMA IntBytesType ==
  ASSUME NEW z \in Int, NEW t \in Types
  PROVE  IntBytes(z % Modulus, t) \in Bytes
<1>1. Modulus \in Nat /\ Modulus > 0 BY VMAssumption DEF Modulus
<1>2. z % Modulus \in Nat BY <1>1
<1>3. <<"int", z % Modulus>> \in Value BY <1>2 DEF Value
<1> QED BY <1>3, BytesOfType, VMAssumption DEF IntBytes

LEMMA OperandType ==
  ASSUME TypeOK, NEW r \in DOMAIN regs
  PROVE  regs[r] \in Bytes /\ IntsOf(regs[r]) \subseteq Nat
BY LenProperties, ElementOfSeq, IntsOfType DEF TypeOK

LEMMA ArithmeticType ==
  TypeOK /\ (RunConst \/ RunSub \/ RunMul \/ RunICmp \/ RunSelect) => TypeOK'
<1> SUFFICES ASSUME TypeOK, RunConst \/ RunSub \/ RunMul \/ RunICmp \/ RunSelect
             PROVE  TypeOK'
  OBVIOUS
<1> DEFINE c == Head(code)
<1>1. status = "run" /\ code # << >> /\ c \in Operations(DOMAIN regs)
  BY OperationType DEF RunConst, RunSub, RunMul, RunICmp, RunSelect, At
<1>2. CASE RunConst
  <2>1. c.r \in DOMAIN regs /\ c.v \in Value /\ c.t \in Types
    BY <1>1, <1>2 DEF Operations, RunConst, At
  <2>2. BytesOf(c.v, SizeOf[c.t]) \in Bytes
    BY <2>1, BytesOfType, VMAssumption
  <2> QED BY <1>1, <1>2, <2>1, <2>2, AssignType DEF RunConst
<1>3. CASE RunSub
  <2>1. c.r \in DOMAIN regs /\ c.a \in DOMAIN regs /\ c.b \in DOMAIN regs /\ c.t \in Types
    BY <1>1, <1>3 DEF Operations, RunSub, At
  <2>2. PICK x \in IntsOf(regs[c.a]), y \in IntsOf(regs[c.b]) :
          Assign(c.r, IntBytes((x - y) % Modulus, c.t))
    BY <1>3 DEF RunSub
  <2>3. x - y \in Int BY <2>1, OperandType
  <2> QED BY <1>1, <2>1, <2>2, <2>3, IntBytesType, AssignType
<1>4. CASE RunMul
  <2>1. c.r \in DOMAIN regs /\ c.a \in DOMAIN regs /\ c.b \in DOMAIN regs /\ c.t \in Types
    BY <1>1, <1>4 DEF Operations, RunMul, At
  <2>2. PICK x \in IntsOf(regs[c.a]), y \in IntsOf(regs[c.b]) :
          Assign(c.r, IntBytes((x * y) % Modulus, c.t))
    BY <1>4 DEF RunMul
  <2>3. x \in Nat /\ y \in Nat BY <2>1, OperandType
  <2>4. x * y \in Int BY <2>3
  <2> QED BY <1>1, <2>1, <2>2, <2>4, IntBytesType, AssignType
<1>5. CASE RunICmp
  <2>1. c.r \in DOMAIN regs
    BY <1>1, <1>5 DEF Operations, RunICmp, At
  <2>2. PICK b \in {0, 1} : Assign(c.r, IntBytes(b, Bit))
    BY <1>5 DEF RunICmp
  <2>3. IntBytes(b, Bit) \in Bytes
    BY BytesOfType, VMAssumption DEF IntBytes, Value
  <2> QED BY <1>1, <2>1, <2>2, <2>3, AssignType
<1>6. CASE RunSelect
  <2>1. c.r \in DOMAIN regs /\ c.a \in DOMAIN regs /\ c.b \in DOMAIN regs
    BY <1>1, <1>6 DEF Operations, RunSelect, At
  <2>2. Assign(c.r, regs[c.a]) \/ Assign(c.r, regs[c.b])
    BY <1>6 DEF RunSelect
  <2>3. regs[c.a] \in Bytes /\ regs[c.b] \in Bytes
    BY <2>1, OperandType
  <2> QED BY <1>1, <2>1, <2>2, <2>3, AssignType
<1> QED BY <1>2, <1>3, <1>4, <1>5, <1>6

(* Stutters, and the loop of a process that has ended. *)
LEMMA StutterType == TypeOK /\ UNCHANGED vars => TypeOK'
BY DEF TypeOK, vars

LEMMA TypeStep == TypeOK /\ [Next]_vars => TypeOK'
<1> SUFFICES ASSUME TypeOK, [Next]_vars PROVE TypeOK'
  OBVIOUS
<1>1. CASE InsertWord BY <1>1, InsertWordType
<1>2. CASE Boot BY <1>2, BootType
<1>3. CASE Drive
  BY <1>3, InitFunctionType, ControlType, NextInstructionType, FetchType DEF Drive
<1>4. CASE RunUninitialised BY <1>4, ControlType
<1>5. CASE Execute
  BY <1>5, RunPopType, RunPushType, ArithmeticType DEF Execute
<1>6. CASE Done \/ UNCHANGED vars BY <1>6, StutterType DEF Done
<1> QED BY <1>1, <1>2, <1>3, <1>4, <1>5, <1>6 DEF Next

(* Type correctness: whatever module it is handed, the machine keeps its   *)
(* program area, map, stacks and LLVM values well formed, and generated    *)
(* code uses only values and indices that exist (llack.cpp).               *)
THEOREM TypeCorrect == Spec => []TypeOK
BY InitType, TypeStep, PTL DEF Spec
-----------------------------------------------------------------------------
(* Linking.  The inductive invariant adds that words are inserted in the   *)
(* order of the module, so none is inserted twice.                         *)

LEMMA InitLink == Init => InOrder /\ Linked
<1> SUFFICES ASSUME Init PROVE InOrder /\ Linked OBVIOUS
<1>1. slots = << >> /\ function = << >> /\ mod.words \in Seq(Words)
  BY ModulesAssumption DEF Init
<1>2. Len(slots) <= Len(mod.words) /\ DOMAIN slots = {} /\ DOMAIN function = {}
  BY <1>1, LenProperties
<1>3. \A w \in Words : wordMap[w] = NULL BY DEF Init
<1>4. Len(slots) * LocSize <= AreaSize
  <2>1. Len(slots) = 0 /\ LocSize \in Nat /\ AreaSize \in Nat
    BY <1>1, VMAssumption DEF LocSize
  <2> QED BY <2>1
<1> QED BY <1>2, <1>3, <1>4 DEF InOrder, Linked

LEMMA InsertWordLink == LinkInv /\ InsertWord => (InOrder /\ Linked)'
<1> SUFFICES ASSUME LinkInv, InsertWord PROVE (InOrder /\ Linked)'
  OBVIOUS
<1> USE DEF LinkInv
<1> DEFINE n == Len(slots) + 1
           w == mod.words[n]
<1>1. mod' = mod BY DEF InsertWord
<1>2. CASE n * LocSize > AreaSize
  <2>1. slots' = slots /\ wordMap' = wordMap /\ function' = function
    BY <1>2 DEF InsertWord
  <2> QED BY <1>1, <2>1 DEF InOrder, Linked
<1>3. CASE ~(n * LocSize > AreaSize)
  <2>1. /\ slots' = Append(slots, w)
        /\ wordMap' = [wordMap EXCEPT ![w] = n]
        /\ function' = Append(function, Uninit)
    BY <1>3 DEF InsertWord
  <2>2. /\ mod.words \in Seq(Words) /\ slots \in Seq(Words)
        /\ wordMap \in [Words -> Nat]
        /\ function \in Seq(Seq(Compiled) \cup {Uninit})
        /\ Len(function) = Len(slots)
    BY ModulesAssumption DEF TypeOK
  <2>3. /\ Len(slots) \in Nat /\ Len(mod.words) \in Nat /\ n \in Nat /\ n # NULL
        /\ DOMAIN slots = 1 .. Len(slots) /\ DOMAIN function = 1 .. Len(slots)
        /\ DOMAIN mod.words = 1 .. Len(mod.words)
    BY <2>2, LenProperties DEF NULL
  <2>4. n <= Len(mod.words) BY <2>3 DEF InsertWord
  <2>5. w \in Words BY <2>2, <2>3, <2>4, ElementOfSeq
  <2>6. \A l \in 1 .. Len(slots) : slots[l] # w
    <3>1. SUFFICES ASSUME NEW l \in 1 .. Len(slots), slots[l] = w PROVE FALSE
      OBVIOUS
    <3>2. mod.words[l] = mod.words[n] BY <2>3, <3>1 DEF InOrder
    <3>3. l \in DOMAIN mod.words /\ n \in DOMAIN mod.words /\ l # n
      BY <2>3, <2>4
    <3> QED BY <3>2, <3>3, ModulesAssumption DEF TypeOK
  <2>7. /\ Len(slots') = n /\ DOMAIN slots' = 1 .. n /\ slots'[n] = w
        /\ \A l \in 1 .. Len(slots) : slots'[l] = slots[l]
    <3>1. slots' \in Seq(Words) /\ Len(slots') = Len(slots) + 1
      BY <2>1, <2>2, <2>5, AppendProperties
    <3>2. slots'[n] = w /\ \A l \in 1 .. Len(slots) : slots'[l] = slots[l]
      BY <2>1, <2>2, <2>3, <2>5, AppendProperties
    <3> QED BY <2>3, <3>1, <3>2, LenProperties
  <2>8. /\ DOMAIN function' = 1 .. n /\ function'[n] = Uninit
        /\ \A l \in 1 .. Len(slots) : function'[l] = function[l]
    <3> DEFINE S == Seq(Compiled) \cup {Uninit}
    <3>1. function' \in Seq(S) /\ Len(function') = Len(function) + 1
      BY <2>1, <2>2, AppendProperties
    <3>2. function'[Len(function) + 1] = Uninit
          /\ \A l \in 1 .. Len(function) : function'[l] = function[l]
      BY <2>1, <2>2, <2>3, AppendProperties
    <3> HIDE DEF S
    <3> QED BY <2>2, <2>3, <3>1, <3>2, LenProperties
  <2> HIDE DEF n, w
  <2>9. wordMap'[w] = n /\ \A u \in Words \ {w} : wordMap'[u] = wordMap[u]
    BY <2>1, <2>2, <2>5
  <2>10. n = Len(slots) + 1 /\ w = mod.words[n] BY DEF n, w
  <2>11. InOrder'
    <3>1. Len(slots') = n BY <2>1, <2>2, <2>5, <2>10, AppendProperties
    <3>2. n * LocSize <= AreaSize
      <4>1. n \in Nat /\ LocSize \in Nat /\ AreaSize \in Nat
        BY <2>3, VMAssumption DEF LocSize
      <4>2. n * LocSize \in Nat BY <4>1
      <4> HIDE DEF LocSize
      <4> QED BY <1>3, <4>1, <4>2
    <3>3. Len(slots') * LocSize <= AreaSize BY <3>1, <3>2
    <3> QED BY <1>1, <2>3, <2>4, <2>7, <2>10, <3>3 DEF InOrder
  <2>12. \A l \in 1 .. n : wordMap'[slots'[l]] = l
    <3>1. SUFFICES ASSUME NEW l \in 1 .. n PROVE wordMap'[slots'[l]] = l
      OBVIOUS
    <3>2. CASE l = n BY <2>7, <2>9, <3>2
    <3>3. CASE l # n
      <4>1. l \in 1 .. Len(slots) BY <2>3, <2>10, <3>3
      <4>2. slots[l] \in Words /\ slots[l] # w
        BY <2>2, <2>6, <4>1, ElementOfSeq
      <4>3. wordMap[slots[l]] = l BY <2>3, <4>1 DEF Linked
      <4> QED BY <2>7, <2>9, <4>1, <4>2, <4>3
    <3> QED BY <3>2, <3>3
  <2>13. \A u \in Words : wordMap'[u] # NULL =>
           wordMap'[u] \in 1 .. n /\ slots'[wordMap'[u]] = u
    <3>1. SUFFICES ASSUME NEW u \in Words, wordMap'[u] # NULL
                   PROVE  wordMap'[u] \in 1 .. n /\ slots'[wordMap'[u]] = u
      OBVIOUS
    <3>2. CASE u = w BY <2>3, <2>7, <2>9, <2>10, <3>2
    <3>3. CASE u # w
      <4>1. wordMap'[u] = wordMap[u] BY <2>9, <3>3
      <4>2. wordMap[u] \in 1 .. Len(slots) /\ slots[wordMap[u]] = u
        BY <2>3, <3>1, <4>1 DEF Linked
      <4> QED BY <2>3, <2>7, <2>10, <4>1, <4>2
    <3> QED BY <3>2, <3>3
  <2>14. ASSUME NEW l \in 1 .. n, function'[l] # Uninit
         PROVE  LET body == mod.body[slots'[l]]
                IN  /\ DOMAIN function'[l] = DOMAIN body
                    /\ \A i \in DOMAIN body : body[i].op = "lookup" =>
                          /\ function'[l][i].l \in 1 .. n
                          /\ slots'[function'[l][i].l] = body[i].w
    <3>1. l \in 1 .. Len(slots) BY <2>3, <2>8, <2>10, <2>14
    <3>2. function'[l] = function[l] /\ slots'[l] = slots[l] BY <2>7, <2>8, <3>1
    <3> DEFINE body == mod.body[slots[l]]
    <3>3. /\ DOMAIN function[l] = DOMAIN body
          /\ \A i \in DOMAIN body : body[i].op = "lookup" =>
                /\ function[l][i].l \in 1 .. Len(slots)
                /\ slots[function[l][i].l] = body[i].w
      BY <2>3, <2>14, <3>1, <3>2 DEF Linked
    <3>4. \A k \in 1 .. Len(slots) : k \in 1 .. n /\ slots'[k] = slots[k]
      BY <2>3, <2>7, <2>10
    <3> HIDE DEF body
    <3>5. \A i \in DOMAIN body : body[i].op = "lookup" =>
             /\ function[l][i].l \in 1 .. n
             /\ slots'[function[l][i].l] = body[i].w
      BY <3>3, <3>4
    <3> QED BY <3>2, <3>3, <3>5 DEF body
  <2>15. Linked'
    BY <1>1, <2>7, <2>8, <2>12, <2>13, <2>14 DEF Linked
  <2> QED BY <2>11, <2>15
<1> QED BY <1>2, <1>3

LEMMA InitFunctionLink == LinkInv /\ InitFunction => (InOrder /\ Linked)'
<1> SUFFICES ASSUME LinkInv, InitFunction PROVE (InOrder /\ Linked)'
  OBVIOUS
<1> USE DEF LinkInv
<1>1. mod' = mod /\ slots' = slots /\ wordMap' = wordMap
  BY DEF InitFunction, loader
<1>2. InOrder' BY <1>1 DEF InOrder
<1> DEFINE body == mod.body[slots[here]]
<1>3. CASE \E w \in Looked(body) : wordMap[w] = NULL
  <2>1. function' = function BY <1>3 DEF InitFunction
  <2> QED BY <1>1, <1>2, <2>1 DEF Linked
<1>4. CASE \A w \in Looked(body) : wordMap[w] # NULL
  <2>1. function' = [function EXCEPT ![here] = Compile(body)]
    BY <1>4 DEF InitFunction
  <2>2. here \in 1 .. Len(slots) /\ slots[here] \in Words
    BY LenProperties, ElementOfSeq DEF TypeOK, InitFunction, NULL
  <2>3. body \in Seq(Instructions) BY <2>2, CompileType
  <2>4. ASSUME NEW i \in DOMAIN body, body[i].op = "lookup"
        PROVE  /\ Compile(body)[i].l \in DOMAIN slots
               /\ slots[Compile(body)[i].l] = body[i].w
    <3>1. body[i].w \in Looked(body) BY <2>4 DEF Looked
    <3>2. body[i] \in Instructions BY <2>3, LenProperties, ElementOfSeq
    <3>3. body[i].w \in Words BY <2>4, <3>2 DEF Instructions, Shuffles
    <3>4. Compile(body)[i].l = wordMap[body[i].w] BY <2>4 DEF Compile
    <3>5. wordMap[body[i].w] # NULL BY <1>4, <3>1
    <3> QED BY <3>3, <3>4, <3>5 DEF Linked
  <2>5. DOMAIN Compile(body) = DOMAIN body BY DEF Compile
  <2>6. ASSUME NEW l \in DOMAIN function', function'[l] # Uninit
        PROVE  LET b == mod.body[slots[l]]
               IN  /\ DOMAIN function'[l] = DOMAIN b
                   /\ \A i \in DOMAIN b : b[i].op = "lookup" =>
                         /\ function'[l][i].l \in DOMAIN slots
                         /\ slots[function'[l][i].l] = b[i].w
    <3>1. l \in DOMAIN function BY <2>1, <2>6
    <3>2. CASE l = here
      <4>1. function'[l] = Compile(body) BY <2>1, <3>1, <3>2
      <4> HIDE DEF body
      <4>2. body = mod.body[slots[l]] BY <3>2 DEF body
      <4> QED BY <2>4, <2>5, <4>1, <4>2
    <3>3. CASE l # here
      <4>1. function'[l] = function[l] BY <2>1, <3>1, <3>3
      <4> QED BY <2>6, <3>1, <4>1 DEF Linked
    <3> QED BY <3>2, <3>3
  <2>7. Linked' BY <1>1, <2>6 DEF Linked
  <2> QED BY <1>2, <2>7
<1> QED BY <1>3, <1>4

LEMMA OthersLink ==
  LinkInv /\ UNCHANGED <<mod, slots, wordMap, function>> => (InOrder /\ Linked)'
BY DEF LinkInv, InOrder, Linked

(* The invariant of linking: types, the program area as a prefix of the    *)
(* module's words that fits, and code that refers to where its words are.  Inserting *)
(* a word moves none that is there, and a function that is compiled is     *)
(* linked against the map as it is then (insertWord, initFunction).        *)
THEOREM LinkInvariant == Spec => []LinkInv
<1>1. Init => LinkInv BY InitType, InitLink DEF LinkInv
<1>2. LinkInv /\ [Next]_vars => LinkInv'
  <2> SUFFICES ASSUME LinkInv, [Next]_vars PROVE (InOrder /\ Linked)' /\ TypeOK'
    BY DEF LinkInv
  <2>0. TypeOK' BY TypeStep DEF LinkInv
  <2>1. CASE InsertWord BY <2>0, <2>1, InsertWordLink
  <2>2. CASE InitFunction BY <2>0, <2>2, InitFunctionLink
  <2>3. ASSUME UNCHANGED <<mod, slots, wordMap, function>>
        PROVE  (InOrder /\ Linked)'
    BY <2>3, OthersLink
  <2>4. CASE Boot \/ RunUninitialised \/ Done \/ UNCHANGED vars
    BY <2>0, <2>3, <2>4 DEF Boot, RunUninitialised, Done, vars, loader
  <2>5. CASE RunFunction \/ Return \/ NextInstruction \/ Fetch \/ FetchUnderrun
    BY <2>0, <2>3, <2>5 DEF RunFunction, Return, NextInstruction, Fetch, FetchUnderrun, loader
  <2>6. CASE Execute
    BY <2>0, <2>3, <2>6
       DEF Execute, RunPop, RunPush, RunConst, RunSub, RunMul, RunICmp, RunSelect, Assign, loader
  <2> QED BY <2>1, <2>2, <2>4, <2>5, <2>6 DEF Next, Drive
<1> QED BY <1>1, <1>2, PTL DEF Spec

(* Linking: whatever module the machine is handed and in whatever order    *)
(* its words are first run, a compiled word refers to the locations of     *)
(* exactly the words its instructions look up (lookupWordLocation).        *)
THEOREM LinkCorrect == Spec => []Linked
<1>1. LinkInv => Linked BY DEF LinkInv
<1> QED BY <1>1, LinkInvariant, PTL
-----------------------------------------------------------------------------
(* The factorial program. *)

Num(n)  == IntBytes(n, I32)
Flag(b) == IntBytes(b, Bit)
Link(w) == LocBytes(wordMap[w])
Bottom  == LocBytes(NULL)
-----------------------------------------------------------------------------
(* Bytes. *)

(* What was stored last is what is loaded first. *)
LEMMA TopOfPushed ==
  ASSUME NEW s \in Bytes, NEW v \in Bytes
  PROVE  /\ s \o v \in Bytes /\ Len(s \o v) = Len(s) + Len(v)
         /\ TopBytes(s \o v, Len(v)) = v
         /\ BelowTop(s \o v, Len(v)) = s
<1>1. /\ s \o v \in Bytes /\ Len(s \o v) = Len(s) + Len(v)
      /\ Len(s) \in Nat /\ Len(v) \in Nat
      /\ \A i \in 1 .. Len(s) : (s \o v)[i] = s[i] /\ s[i] \in Byte
      /\ \A i \in 1 .. Len(v) : (s \o v)[Len(s) + i] = v[i] /\ v[i] \in Byte
  BY ConcatProperties, LenProperties, ElementOfSeq DEF Bytes
<1> DEFINE w == s \o v
<1>2. TopBytes(w, Len(v)) = SubSeq(w, Len(s) + 1, Len(s) + Len(v))
  <2>1. Len(w) - Len(v) + 1 = Len(s) + 1 BY <1>1
  <2> QED BY <1>1, <2>1 DEF TopBytes
<1>3. BelowTop(w, Len(v)) = SubSeq(w, 1, Len(s))
  <2>1. Len(w) - Len(v) = Len(s) BY <1>1
  <2> QED BY <2>1 DEF BelowTop
<1> HIDE DEF w
<1>4. /\ Len(w) = Len(s) + Len(v)
      /\ \A i \in 1 .. Len(s) : w[i] = s[i] /\ s[i] \in Byte
      /\ \A i \in 1 .. Len(v) : w[Len(s) + i] = v[i] /\ v[i] \in Byte
  BY <1>1 DEF w
<1>5. SubSeq(w, Len(s) + 1, Len(s) + Len(v)) = v
  <2> DEFINE t == SubSeq(w, Len(s) + 1, Len(s) + Len(v))
  <2>1. ASSUME NEW i \in Len(s) + 1 .. Len(s) + Len(v) PROVE w[i] \in Byte
    <3>1. i - Len(s) \in 1 .. Len(v) /\ Len(s) + (i - Len(s)) = i BY <1>1
    <3> QED BY <1>4, <3>1
  <2>2. Len(s) + 1 \in Int /\ Len(s) + Len(v) \in Int BY <1>1
  <2>3. /\ t \in Bytes
        /\ Len(t) = IF Len(s) + 1 <= Len(s) + Len(v)
                    THEN Len(s) + Len(v) - (Len(s) + 1) + 1 ELSE 0
        /\ \A i \in 1 .. Len(s) + Len(v) - (Len(s) + 1) + 1 : t[i] = w[Len(s) + 1 + i - 1]
    <3> HIDE DEF t
    <3>1. t = SubSeq(w, Len(s) + 1, Len(s) + Len(v)) BY DEF t
    <3> QED BY <2>1, <2>2, <3>1, SubSeqProperties DEF Bytes
  <2> HIDE DEF t
  <2>4. Len(t) = Len(v) BY <1>1, <2>3
  <2>5. ASSUME NEW i \in 1 .. Len(v) PROVE t[i] = v[i]
    <3>1. i \in 1 .. Len(s) + Len(v) - (Len(s) + 1) + 1 /\ Len(s) + 1 + i - 1 = Len(s) + i BY <1>1
    <3> QED BY <1>4, <2>3, <3>1
  <2>6. t = v BY <2>3, <2>4, <2>5, SeqEqual DEF Bytes
  <2> QED BY <2>6 DEF t
<1>6. SubSeq(w, 1, Len(s)) = s
  <2> DEFINE t == SubSeq(w, 1, Len(s))
  <2>1. /\ t \in Bytes /\ Len(t) = Len(s) /\ \A i \in 1 .. Len(s) : t[i] = w[i]
    <3>1. t = SubSeq(w, 1, Len(s)) OBVIOUS
    <3> HIDE DEF t
    <3>2. /\ t \in Bytes
          /\ Len(t) = IF 1 <= Len(s) THEN Len(s) - 1 + 1 ELSE 0
          /\ \A i \in 1 .. Len(s) - 1 + 1 : t[i] = w[1 + i - 1]
      BY <1>1, <1>4, <3>1, SubSeqProperties DEF Bytes
    <3>3. Len(t) = Len(s) BY <1>1, <3>2
    <3>4. ASSUME NEW i \in 1 .. Len(s) PROVE t[i] = w[i]
      <4>1. i \in 1 .. Len(s) - 1 + 1 /\ 1 + i - 1 = i BY <1>1
      <4> QED BY <3>2, <4>1
    <3> QED BY <3>2, <3>3, <3>4
  <2> HIDE DEF t
  <2>2. t = s BY <1>4, <2>1, SeqEqual DEF Bytes
  <2> QED BY <2>2 DEF t
<1> QED BY <1>1, <1>2, <1>3, <1>5, <1>6 DEF w

(* A store that nothing has cut or overwritten is read back whole. *)
LEMMA StoredBytes ==
  ASSUME NEW v \in Value, NEW n \in Nat \ {0}
  PROVE  IsWhole(BytesOf(v, n)) /\ Stored(BytesOf(v, n)) = v
<1> DEFINE b == BytesOf(v, n)
<1>1. b \in Bytes /\ Len(b) = n BY BytesOfType
<1>2. 1 \in 1 .. n OBVIOUS
<1>3. b[1] = <<v, n, 1>> BY <1>2 DEF BytesOf
<1>4. b[1][1] = v BY <1>3
<1> HIDE DEF b
<1>5. b # << >> BY <1>1
<1> QED BY <1>1, <1>4, <1>5 DEF IsWhole, Stored, b

(* Values pushed on whole values. *)
LEMMA WholePushed ==
  ASSUME NEW s \in Bytes, WholeCells(s), NEW v \in Value, NEW n \in Nat \ {0}
  PROVE  WholeCells(s \o BytesOf(v, n))
<1> DEFINE b == BytesOf(v, n)
           w == s \o b
           first(i) == i - w[i][3] + 1
<1>1. b \in Bytes /\ Len(b) = n /\ \A i \in 1 .. n : b[i] = <<v, n, i>>
  BY BytesOfType DEF BytesOf
<1>2. /\ w \in Bytes /\ Len(w) = Len(s) + n /\ Len(s) \in Nat
      /\ \A i \in 1 .. Len(s) : w[i] = s[i]
      /\ \A i \in 1 .. n : w[Len(s) + i] = b[i]
  <2> HIDE DEF b
  <2> QED BY <1>1, ConcatProperties, LenProperties DEF Bytes
<1> HIDE DEF b
<1>3. SUFFICES ASSUME NEW i \in 1 .. Len(w)
               PROVE  /\ first(i) >= 1 /\ first(i) + w[i][2] - 1 <= Len(w)
                      /\ SubSeq(w, first(i), first(i) + w[i][2] - 1) = BytesOf(w[i][1], w[i][2])
  BY DEF WholeCells, b
<1> HIDE DEF w
<1>4. CASE i \in 1 .. Len(s)
  <2> DEFINE m == s[i][2]
             f == i - s[i][3] + 1
  <2>1. s[i] \in Byte BY <1>4, ElementOfSeq DEF Bytes
  <2>2. m \in Nat /\ f \in Int BY <1>2, <1>4, <2>1 DEF Byte
  <2>3. /\ f >= 1 /\ f + m - 1 <= Len(s) /\ SubSeq(s, f, f + m - 1) = BytesOf(s[i][1], m)
    BY <1>4 DEF WholeCells
  <2>4. w[i] = s[i] BY <1>2, <1>4
  <2> HIDE DEF m, f
  <2>5. SubSeq(w, f, f + m - 1) = SubSeq(s, f, f + m - 1)
    <3>1. \A j \in f .. f + m - 1 : j \in 1 .. Len(s) /\ j \in 1 .. Len(w) /\ w[j] = s[j] BY <1>2, <2>2, <2>3
    <3>2. \A j \in f .. f + m - 1 : w[j] \in Byte /\ s[j] \in Byte
      BY <3>1, <1>2, ElementOfSeq DEF Bytes
    <3>3. f + m - 1 \in Int BY <2>2
    <3> DEFINE t == SubSeq(w, f, f + m - 1)
               u == SubSeq(s, f, f + m - 1)
               k == f + m - 1
    <3> HIDE DEF t, u, k
    <3>4. t = SubSeq(w, f, k) /\ u = SubSeq(s, f, k) /\ k \in Int BY <3>3 DEF t, u, k
    <3>5. \A j \in f .. k : w[j] = s[j] /\ w[j] \in Byte /\ s[j] \in Byte BY <3>1, <3>2 DEF k
    <3>6. /\ t \in Bytes /\ u \in Bytes /\ Len(t) = Len(u)
          /\ Len(t) = IF f <= k THEN k - f + 1 ELSE 0
          /\ \A j \in 1 .. k - f + 1 : t[j] = w[f + j - 1] /\ u[j] = s[f + j - 1]
      BY <2>2, <3>4, <3>5, SubSeqProperties DEF Bytes
    <3>7. ASSUME NEW j \in 1 .. Len(t) PROVE t[j] = u[j]
      <4>1. j \in 1 .. k - f + 1 /\ f + j - 1 \in f .. k BY <2>2, <3>4, <3>6
      <4> QED BY <3>5, <3>6, <4>1
    <3>8. t = u BY <3>6, <3>7, SeqEqual DEF Bytes
    <3> QED BY <3>8 DEF t, u, k
  <2>6. first(i) = f /\ w[i][2] = m /\ w[i][1] = s[i][1] BY <2>4 DEF m, f
  <2>7. f + m - 1 <= Len(w) BY <1>2, <2>2, <2>3
  <2> HIDE DEF first
  <2> QED BY <2>3, <2>5, <2>6, <2>7
<1>5. CASE i \in Len(s) + 1 .. Len(s) + n
  <2>1. i - Len(s) \in 1 .. n /\ Len(s) + (i - Len(s)) = i BY <1>2, <1>5
  <2>2. w[i] = <<v, n, i - Len(s)>> BY <1>1, <1>2, <2>1 DEF b
  <2>3. first(i) = Len(s) + 1 /\ w[i][2] = n /\ w[i][1] = v
    <3>1. w[i][3] = i - Len(s) /\ w[i][2] = n /\ w[i][1] = v BY <2>2
    <3> QED BY <1>2, <1>5, <3>1
  <2>4. SubSeq(w, Len(s) + 1, Len(s) + n) = b
    <3>1. TopBytes(s \o b, Len(b)) = b BY <1>1, TopOfPushed DEF b
    <3>2. Len(w) - Len(b) + 1 = Len(s) + 1 BY <1>1, <1>2 DEF b
    <3> QED BY <1>2, <3>1, <3>2 DEF TopBytes, w
  <2>5. Len(s) + 1 + n - 1 = Len(s) + n BY <1>2
  <2> QED BY <1>2, <2>3, <2>4, <2>5 DEF b
<1>6. i \in 1 .. Len(s) \/ i \in Len(s) + 1 .. Len(s) + n BY <1>2
<1> QED BY <1>4, <1>5, <1>6

LEMMA Sizes ==
  ASSUME FactorialInstance
  PROVE  /\ LocSize \in Nat \ {0} /\ SizeOf[I32] = LocSize /\ SizeOf[Loc] = LocSize
         /\ SizeOf[Bit] \in Nat \ {0} /\ SizeOf[Quot] = LocSize
         /\ StackSize \in Nat /\ Modulus \in Nat /\ Modulus > 0 /\ Half \in Nat
BY VMAssumption DEF FactorialInstance, LocSize, Modulus

LEMMA Stores ==
  ASSUME FactorialInstance, NEW n \in Nat
  PROVE  /\ Num(n) \in Bytes /\ Len(Num(n)) = LocSize
         /\ Flag(n) \in Bytes /\ Len(Flag(n)) = SizeOf[Bit]
         /\ LocBytes(n) \in Bytes /\ Len(LocBytes(n)) = LocSize
BY Sizes, BytesOfType DEF Num, Flag, IntBytes, LocBytes, Value

LEMMA IntegersAreNumbers == ASSUME NEW n \in Ints PROVE n \in Nat
BY DEF Ints

(* Data of whole values, no longer than m bytes. *)
Data(d, m) == d \in Bytes /\ WholeCells(d) /\ Len(d) <= m

LEMMA NoData == Data(<< >>, 0)
<1>1. << >> \in Bytes /\ Len(<< >>) = 0 BY EmptySeq DEF Bytes
<1> QED BY <1>1 DEF Data, WholeCells

LEMMA DataPushed ==
  ASSUME FactorialInstance, NEW n \in Nat, NEW d, NEW m \in Nat, Data(d, m)
  PROVE  /\ Data(d \o Num(n), m + LocSize)
         /\ Data(d \o LocBytes(n), m + LocSize)
         /\ Data(d \o Flag(n), m + SizeOf[Bit])
<1>1. d \in Bytes /\ Len(d) \in Nat BY LenProperties DEF Data, Bytes
<1>2. ASSUME NEW v \in Value, NEW k \in Nat \ {0} PROVE Data(d \o BytesOf(v, k), m + k)
  <2>1. WholeCells(d \o BytesOf(v, k)) BY <1>1, WholePushed DEF Data
  <2>2. BytesOf(v, k) \in Bytes /\ Len(BytesOf(v, k)) = k BY BytesOfType
  <2>3. d \o BytesOf(v, k) \in Bytes /\ Len(d \o BytesOf(v, k)) = Len(d) + k BY <1>1, <2>2, TopOfPushed
  <2> QED BY <1>1, <2>1, <2>3 DEF Data
<1>3. <<"int", n>> \in Value /\ <<"loc", n>> \in Value BY DEF Value
<1> QED BY <1>2, <1>3, Sizes DEF Num, Flag, IntBytes, LocBytes

(* A control stack of k locations, all of words but the NULL at the bottom. *)
Depth(c, k) ==
  /\ c \in Bytes /\ k \in Nat \ {0} /\ Len(c) = k * LocSize
  /\ SubSeq(c, 1, LocSize) = Bottom
  /\ \A j \in 2 .. k : IsLocation(SubSeq(c, (j - 1) * LocSize + 1, j * LocSize))
Controls(c) == \E k \in 1 .. 5 : Depth(c, k)

(* All words of the module are in the program area. *)
Loaded ==
  /\ mod \in Modules
  /\ slots \in Seq(Words)
  /\ \A w \in Words : wordMap[w] \in 1 .. Len(slots) /\ slots[wordMap[w]] = w

LEMMA LinkIsLocation ==
  ASSUME FactorialInstance, Loaded, NEW w \in Words
  PROVE  /\ Link(w) \in Bytes /\ Len(Link(w)) = LocSize /\ wordMap[w] \in Nat
         /\ IsWhole(Link(w)) /\ Stored(Link(w)) = <<"loc", wordMap[w]>>
         /\ IsLocation(Link(w)) /\ ~IsNull(Link(w))
<1>1. wordMap[w] \in Nat /\ wordMap[w] # 0 /\ wordMap[w] \in 1 .. Len(slots)
  BY LenProperties DEF Loaded
<1>2. <<"loc", wordMap[w]>> \in Value BY <1>1 DEF Value
<1>3. IsWhole(Link(w)) /\ Stored(Link(w)) = <<"loc", wordMap[w]>>
  BY <1>2, StoredBytes, Sizes DEF Link, LocBytes
<1>4. Stored(Link(w)) \notin {<<"loc", NULL>>, <<"int", 0>>} BY <1>1, <1>3 DEF NULL
<1> QED BY <1>1, <1>3, <1>4, Stores DEF IsLocation, IsNull, Link

LEMMA BottomIsNull ==
  ASSUME FactorialInstance
  PROVE  /\ Bottom \in Bytes /\ Len(Bottom) = LocSize /\ IsNull(Bottom) /\ ~IsLocation(Bottom)
<1>1. <<"loc", 0>> \in Value BY DEF Value
<1>2. IsWhole(Bottom) /\ Stored(Bottom) = <<"loc", 0>>
  BY <1>1, StoredBytes, Sizes DEF Bottom, LocBytes, NULL
<1> QED BY <1>2, Stores DEF IsNull, IsLocation, Bottom, NULL

LEMMA DepthOne == ASSUME FactorialInstance PROVE Depth(Bottom, 1)
<1>1. Bottom \in Bytes /\ Len(Bottom) = LocSize /\ LocSize \in Nat BY BottomIsNull, Sizes
<1>2. << >> \in Bytes /\ Len(<< >>) = 0 BY EmptySeq DEF Bytes
<1>3. << >> \o Bottom = Bottom BY <1>1, ConcatEmptySeq DEF Bytes
<1>4. TopBytes(Bottom, LocSize) = Bottom BY <1>1, <1>2, <1>3, TopOfPushed
<1>5. Len(Bottom) - LocSize + 1 = 1 BY <1>1
<1>6. SubSeq(Bottom, 1, LocSize) = Bottom BY <1>1, <1>4, <1>5 DEF TopBytes
<1> QED BY <1>1, <1>6 DEF Depth

(* A byte of a stack below what was pushed. *)
LEMMA BelowPushed ==
  ASSUME NEW s \in Bytes, NEW v \in Bytes, NEW m \in Nat, NEW n \in Nat, 1 <= m, n <= Len(s)
  PROVE  SubSeq(s \o v, m, n) = SubSeq(s, m, n)
<1>1. /\ s \o v \in Bytes /\ Len(s) \in Nat
      /\ \A i \in 1 .. Len(s) : (s \o v)[i] = s[i] /\ s[i] \in Byte
  BY ConcatProperties, LenProperties, ElementOfSeq DEF Bytes
<1> DEFINE w == s \o v
           t == SubSeq(w, m, n)
           u == SubSeq(s, m, n)
<1>2. \A j \in m .. n : w[j] = s[j] /\ w[j] \in Byte /\ s[j] \in Byte
  <2>1. \A j \in m .. n : j \in 1 .. Len(s) BY <1>1
  <2> QED BY <1>1, <2>1
<1>3. t = SubSeq(w, m, n) /\ u = SubSeq(s, m, n) OBVIOUS
<1> HIDE DEF t, u, w
<1>4. /\ t \in Bytes /\ u \in Bytes /\ Len(t) = Len(u)
      /\ Len(t) = IF m <= n THEN n - m + 1 ELSE 0
      /\ \A j \in 1 .. n - m + 1 : t[j] = w[m + j - 1] /\ u[j] = s[m + j - 1]
  BY <1>2, <1>3, SubSeqProperties DEF Bytes
<1>5. ASSUME NEW j \in 1 .. Len(t) PROVE t[j] = u[j]
  <2>1. j \in 1 .. n - m + 1 /\ m + j - 1 \in m .. n BY <1>4
  <2> QED BY <1>2, <1>4, <2>1
<1>6. t = u BY <1>4, <1>5, SeqEqual DEF Bytes
<1> QED BY <1>6 DEF t, u, w

LEMMA DepthPushed ==
  ASSUME FactorialInstance, Loaded, NEW w \in Words, NEW c, NEW k \in Nat, Depth(c, k)
  PROVE  Depth(c \o Link(w), k + 1)
<1>1. /\ c \in Bytes /\ Len(c) = k * LocSize /\ k >= 1
      /\ Link(w) \in Bytes /\ Len(Link(w)) = LocSize /\ LocSize \in Nat \ {0}
  BY LinkIsLocation, Sizes DEF Depth
<1> DEFINE s == c \o Link(w)
<1>2. /\ s \in Bytes /\ Len(s) = Len(c) + LocSize /\ TopBytes(s, LocSize) = Link(w)
  BY <1>1, TopOfPushed
<1>3. Len(s) = (k + 1) * LocSize BY <1>1, <1>2
<1>4. ASSUME NEW j \in 1 .. k
      PROVE  /\ (j - 1) * LocSize + 1 \in Nat /\ j * LocSize \in Nat
             /\ 1 <= (j - 1) * LocSize + 1 /\ j * LocSize <= Len(c)
  <2> DEFINE a == j - 1
             b == k - j
  <2>1. a \in Nat /\ b \in Nat /\ LocSize \in Nat BY Sizes
  <2>2. \A x, y \in Nat : x * y \in Nat OBVIOUS
  <2>3. a * LocSize \in Nat /\ b * LocSize \in Nat BY <2>1, <2>2, Sizes
  <2>4. j * LocSize = a * LocSize + LocSize /\ k * LocSize = j * LocSize + b * LocSize
    BY Sizes
  <2> QED BY <1>1, <2>1, <2>3, <2>4
<1>5. \A j \in 1 .. k : SubSeq(s, (j - 1) * LocSize + 1, j * LocSize)
                          = SubSeq(c, (j - 1) * LocSize + 1, j * LocSize)
  BY <1>1, <1>4, BelowPushed
<1>6. SubSeq(s, 1, LocSize) = Bottom
  <2>1. SubSeq(s, 1, LocSize) = SubSeq(c, 1, LocSize)
    <3>1. LocSize <= Len(c)
      <4>1. 1 \in 1 .. k /\ 1 * LocSize = LocSize BY <1>1
      <4> QED BY <1>4, <4>1
    <3> QED BY <1>1, <3>1, BelowPushed
  <2> QED BY <2>1 DEF Depth
<1>7. ASSUME NEW j, j = k + 1
      PROVE  SubSeq(s, (j - 1) * LocSize + 1, j * LocSize) = Link(w)
  <2>1. Len(s) - LocSize + 1 = (j - 1) * LocSize + 1
    <3>1. j - 1 = k BY <1>7
    <3> QED BY <1>1, <1>2, <3>1
  <2>2. Len(s) = j * LocSize BY <1>3, <1>7
  <2> QED BY <1>2, <2>1, <2>2 DEF TopBytes
<1> HIDE DEF s
<1>8. \A j \in 2 .. k + 1 : IsLocation(SubSeq(s, (j - 1) * LocSize + 1, j * LocSize))
  <2>1. ASSUME NEW j \in 2 .. k + 1 PROVE IsLocation(SubSeq(s, (j - 1) * LocSize + 1, j * LocSize))
    <3>1. CASE j = k + 1 BY <1>7, <3>1, LinkIsLocation
    <3>2. CASE j # k + 1
      <4>1. j \in 2 .. k /\ j \in 1 .. k BY <3>2
      <4> QED BY <1>5, <4>1 DEF Depth
    <3> QED BY <3>1, <3>2
  <2> QED BY <2>1
<1> QED BY <1>1, <1>2, <1>3, <1>6, <1>8 DEF Depth, s
-----------------------------------------------------------------------------
(* The run of one word, apart from the rest of the machine.  A state of    *)
(* it: the instructions still to run, the code of the current one, its     *)
(* LLVM values, and the stacks.                                            *)
St(run, ops, values, d, c) == [run |-> run, ops |-> ops, values |-> values, data |-> d, cont |-> c]

IsInt(bytes) == IsWhole(bytes) /\ Stored(bytes)[1] = "int"
IntOf(bytes) == Stored(bytes)[2]

(* The operation o on integers x and y, as the bytes of its result. *)
Result(o, x, y) ==
  CASE o.op = "sub"  -> IntBytes((x - y) % Modulus, o.t)
    [] o.op = "mul"  -> IntBytes((x * y) % Modulus, o.t)
    [] o.op = "icmp" -> IntBytes(IF Holds(o.p, x, y) THEN 1 ELSE 0, Bit)

(* The operations that load and store, and those that compute. *)
Moves(o, s, t) ==
  \/ /\ o.op = "pop" /\ o.s = "data" /\ Len(s.data) >= SizeOf[o.t]
     /\ t = St(s.run, Tail(s.ops), [s.values EXCEPT ![o.r] = TopBytes(s.data, SizeOf[o.t])],
               BelowTop(s.data, SizeOf[o.t]), s.cont)
  \/ /\ o.op = "push" /\ o.s = "data" /\ Len(s.data \o s.values[o.r]) <= StackSize
     /\ t = St(s.run, Tail(s.ops), s.values, s.data \o s.values[o.r], s.cont)
  \/ /\ o.op = "push" /\ o.s = "cont" /\ Len(s.cont \o s.values[o.r]) <= StackSize
     /\ t = St(s.run, Tail(s.ops), s.values, s.data, s.cont \o s.values[o.r])
Operates(o, s, t) ==
  \/ /\ o.op = "const"
     /\ t = St(s.run, Tail(s.ops), [s.values EXCEPT ![o.r] = BytesOf(o.v, SizeOf[o.t])], s.data, s.cont)
  \/ /\ o.op \in {"sub", "mul", "icmp"} /\ IsInt(s.values[o.a]) /\ IsInt(s.values[o.b])
     /\ t = St(s.run, Tail(s.ops),
               [s.values EXCEPT ![o.r] = Result(o, IntOf(s.values[o.a]), IntOf(s.values[o.b]))],
               s.data, s.cont)
  \/ /\ o.op = "select" /\ IsInt(s.values[o.c])
     /\ t = St(s.run, Tail(s.ops),
               [s.values EXCEPT ![o.r] = s.values[IF IntOf(s.values[o.c]) # 0 THEN o.a ELSE o.b]],
               s.data, s.cont)

(* One step within a word that goes as it should: it overruns no stack,    *)
(* works on integers where it needs them, and keeps cont a stack of        *)
(* locations.  There is at most one such step from a state.                *)
Micro(s, t) ==
  /\ Controls(t.cont)
  /\ \/ /\ s.ops = << >> /\ s.run # << >>
        /\ t = St(Tail(s.run), CodeOf(Head(s.run)),
                  [r \in 1 .. ValuesOf(Head(s.run)) |-> << >>], s.data, s.cont)
     \/ /\ s.ops # << >>
        /\ Moves(Head(s.ops), s, t) \/ Operates(Head(s.ops), s, t)

(* Such steps lead from s to t. *)
Leads(s, t) == \A S : s \in S /\ (\A x \in S : \A y : Micro(x, y) => y \in S) => t \in S

LEMMA MicroOne == ASSUME NEW s, NEW t, NEW u, Micro(s, t), Micro(s, u) PROVE t = u
<1>1. CASE s.ops = << >> BY <1>1 DEF Micro
<1>2. CASE s.ops # << >>
  <2> DEFINE o == Head(s.ops)
  <2>1. (Moves(o, s, t) \/ Operates(o, s, t)) /\ (Moves(o, s, u) \/ Operates(o, s, u))
    BY <1>2 DEF Micro
  <2> HIDE DEF o
  <2>2. CASE o.op = "pop" BY <2>1, <2>2 DEF Moves, Operates
  <2>3. CASE o.op = "push"
    <3>1. CASE o.s = "data"
      <4>1. \A v \in {t, u} : v = St(s.run, Tail(s.ops), s.values, s.data \o s.values[o.r], s.cont)
        BY <2>1, <2>3, <3>1 DEF Moves, Operates
      <4> QED BY <4>1
    <3>2. CASE o.s = "cont"
      <4>1. \A v \in {t, u} : v = St(s.run, Tail(s.ops), s.values, s.data, s.cont \o s.values[o.r])
        BY <2>1, <2>3, <3>2 DEF Moves, Operates
      <4> QED BY <4>1
    <3> QED BY <2>1, <2>3, <3>1, <3>2 DEF Moves, Operates
  <2>4. CASE o.op = "const" BY <2>1, <2>4 DEF Moves, Operates
  <2>5. CASE o.op = "select" BY <2>1, <2>5 DEF Moves, Operates
  <2>6. CASE o.op \in {"sub", "mul", "icmp"} BY <2>1, <2>6 DEF Moves, Operates
  <2> QED BY <2>1, <2>2, <2>3, <2>4, <2>5, <2>6 DEF Moves, Operates
<1> QED BY <1>1, <1>2

LEMMA LeadsHere == ASSUME NEW s PROVE Leads(s, s)
BY DEF Leads

LEMMA LeadsOn == ASSUME NEW s, NEW t, NEW u, Leads(s, t), Leads(t, u) PROVE Leads(s, u)
<1> SUFFICES ASSUME NEW S, s \in S, \A x \in S : \A y : Micro(x, y) => y \in S PROVE u \in S
  BY DEF Leads
<1>1. t \in S BY DEF Leads
<1> QED BY <1>1 DEF Leads

LEMMA LeadsStep == ASSUME NEW s, NEW t, Micro(s, t) PROVE Leads(s, t)
BY DEF Leads

(* What is still to come after one step. *)
LEMMA LeadsFrom ==
  ASSUME NEW s, NEW t, Leads(s, t), s # t
  PROVE  \E u : Micro(s, u) /\ Leads(u, t)
<1>1. PICK u : Micro(s, u)
  <2>1. SUFFICES ASSUME \A u : ~Micro(s, u) PROVE FALSE OBVIOUS
  <2> DEFINE S == {s}
  <2>2. \A x \in S : \A y : Micro(x, y) => y \in S BY <2>1
  <2>3. s \in S OBVIOUS
  <2> HIDE DEF S
  <2>4. t \in S BY <2>2, <2>3 DEF Leads
  <2> QED BY <2>4 DEF S
<1>2. Leads(u, t)
  <2> SUFFICES ASSUME NEW S, u \in S, \A x \in S : \A y : Micro(x, y) => y \in S PROVE t \in S
    BY DEF Leads
  <2> DEFINE T == S \cup {s}
  <2>1. \A x \in T : \A y : Micro(x, y) => y \in T
    <3>1. SUFFICES ASSUME NEW x \in T, NEW y, Micro(x, y) PROVE y \in T OBVIOUS
    <3>2. CASE x \in S BY <3>1, <3>2
    <3>3. CASE x = s BY <1>1, <3>1, <3>3, MicroOne
    <3> QED BY <3>2, <3>3
  <2>2. s \in T OBVIOUS
  <2> HIDE DEF T
  <2>3. t \in T BY <2>1, <2>2 DEF Leads
  <2> QED BY <2>3 DEF T
<1> QED BY <1>1, <1>2

-----------------------------------------------------------------------------
(* The machine takes those steps and no others. *)

Now == St(running, code, regs, data, cont)
Elsewhere == <<mod, slots, wordMap, function, here>>

LEMMA StParts ==
  ASSUME NEW r, NEW k, NEW g, NEW d, NEW c
  PROVE  /\ St(r, k, g, d, c).run = r /\ St(r, k, g, d, c).ops = k /\ St(r, k, g, d, c).values = g
         /\ St(r, k, g, d, c).data = d /\ St(r, k, g, d, c).cont = c
BY DEF St

LEMMA OneInt == ASSUME NEW b, IsInt(b) PROVE IntsOf(b) = {IntOf(b)}
BY DEF IsInt, IntOf, IntsOf

LEMMA StepsAreMicro ==
  ASSUME TypeOK, status = "run", NEW t, Micro(Now, t), Next
  PROVE  /\ Now' = t /\ status' = "run" /\ UNCHANGED Elsewhere
<1>1. CASE code = << >>
  <2>1. /\ running # << >>
        /\ t = St(Tail(running), CodeOf(Head(running)), [r \in 1 .. ValuesOf(Head(running)) |-> << >>], data, cont)
    BY <1>1 DEF Micro, Now, St
  <2>2. NextInstruction
    BY <1>1, <2>1 DEF Next, InsertWord, Boot, Drive, InitFunction, RunFunction, Return, Fetch,
       FetchUnderrun, RunUninitialised, Execute, RunPop, RunPush, RunConst, RunSub, RunMul,
       RunICmp, RunSelect, At, Done, Stopped
  <2> QED BY <2>1, <2>2 DEF NextInstruction, Now, loader, Elsewhere
<1>2. CASE code # << >>
  <2> DEFINE o == Head(code)
  <2>1. Moves(o, Now, t) \/ Operates(o, Now, t) BY <1>2 DEF Micro, Now, St
  <2>2. Execute /\ At(o.op)
    BY <1>2 DEF Next, InsertWord, Boot, Drive, InitFunction, RunFunction, Return, Fetch,
       FetchUnderrun, RunUninitialised, NextInstruction, Done, Stopped, Execute, RunPop, RunPush, RunConst, RunSub, RunMul,
       RunICmp, RunSelect, At
  <2>3. o \in Operations(DOMAIN regs) BY <1>2, OperationType
  <2>4. data \in Bytes /\ cont \in Bytes /\ Len(data) \in Nat /\ StackSize \in Nat
    BY LenProperties, VMAssumption DEF TypeOK, Bytes
  <2>5. CASE o.op = "pop"
    <3>1. RunPop BY <2>2, <2>5 DEF Execute, RunPop, RunPush, RunConst, RunSub, RunMul, RunICmp, RunSelect, At
    <3>2. /\ o.s = "data" /\ Len(data) >= SizeOf[o.t]
          /\ t = St(running, Tail(code), [regs EXCEPT ![o.r] = TopBytes(data, SizeOf[o.t])],
                    BelowTop(data, SizeOf[o.t]), cont)
      BY <2>1, <2>5 DEF Moves, Operates, Now, St
    <3>3. o.t \in Types BY <2>3, <2>5 DEF Operations
    <3>4. ~(Len(data) < SizeOf[o.t]) BY <2>4, <3>2, <3>3, VMAssumption
    <3>5. /\ data' = BelowTop(data, SizeOf[o.t]) /\ cont' = cont
          /\ regs' = [regs EXCEPT ![o.r] = TopBytes(data, SizeOf[o.t])]
          /\ status' = status /\ code' = Tail(code) /\ UNCHANGED <<loader, function, here, running>>
      BY <3>1, <3>2, <3>4 DEF RunPop, SetStack, Stack
    <3> QED BY <3>2, <3>5 DEF Now, loader, Elsewhere
  <2>6. CASE o.op = "push"
    <3>1. RunPush BY <2>2, <2>6 DEF Execute, RunPop, RunPush, RunConst, RunSub, RunMul, RunICmp, RunSelect, At
    <3>2. o.r \in DOMAIN regs BY <2>3, <2>6 DEF Operations
    <3>3. regs[o.r] \in Bytes BY <3>2, OperandType
    <3>4. /\ data \o regs[o.r] \in Bytes /\ cont \o regs[o.r] \in Bytes
          /\ Len(data \o regs[o.r]) \in Nat /\ Len(cont \o regs[o.r]) \in Nat
      BY <2>4, <3>3, ConcatProperties, LenProperties DEF Bytes
    <3>5. /\ code' = Tail(code) /\ UNCHANGED <<loader, function, here, running, regs>>
      BY <3>1 DEF RunPush
    <3>6. CASE o.s = "data"
      <4>1. /\ Len(data \o regs[o.r]) <= StackSize
            /\ t = St(running, Tail(code), regs, data \o regs[o.r], cont)
        BY <2>1, <2>6, <3>6 DEF Moves, Operates, Now, St
      <4>2. ~(Len(data \o regs[o.r]) > StackSize) BY <2>4, <3>4, <4>1
      <4>3. data' = data \o regs[o.r] /\ cont' = cont /\ status' = status
        BY <3>1, <3>6, <4>2 DEF RunPush, SetStack, Stack, PushBytes
      <4> QED BY <3>5, <4>1, <4>3 DEF Now, loader, Elsewhere
    <3>7. CASE o.s = "cont"
      <4>1. /\ Len(cont \o regs[o.r]) <= StackSize
            /\ t = St(running, Tail(code), regs, data, cont \o regs[o.r])
        BY <2>1, <2>6, <3>7 DEF Moves, Operates, Now, St
      <4>2. ~(Len(cont \o regs[o.r]) > StackSize) BY <2>4, <3>4, <4>1
      <4>3. cont' = cont \o regs[o.r] /\ data' = data /\ status' = status
        BY <3>1, <3>7, <4>2 DEF RunPush, SetStack, Stack, PushBytes
      <4> QED BY <3>5, <4>1, <4>3 DEF Now, loader, Elsewhere
    <3>8. o.s \in {"data", "cont"} BY <2>3, <2>6 DEF Operations
    <3> QED BY <3>6, <3>7, <3>8
  <2> DEFINE Sets(b) == t = St(running, Tail(code), [regs EXCEPT ![o.r] = b], data, cont)
  <2>7. ASSUME NEW b, Sets(b), Assign(o.r, b)
        PROVE  Now' = t /\ status' = "run" /\ UNCHANGED Elsewhere
    BY <2>7 DEF Assign, Now, loader, Elsewhere
  <2>8. CASE o.op = "const"
    <3>1. RunConst BY <2>2, <2>8 DEF Execute, RunPop, RunPush, RunConst, RunSub, RunMul, RunICmp, RunSelect, At
    <3>2. Sets(BytesOf(o.v, SizeOf[o.t])) BY <2>1, <2>8 DEF Moves, Operates, Now, St
    <3>3. Assign(o.r, BytesOf(o.v, SizeOf[o.t])) BY <3>1 DEF RunConst
    <3> HIDE DEF Sets
    <3> QED BY <2>7, <3>2, <3>3
  <2>9. CASE o.op \in {"sub", "mul", "icmp"}
    <3>1. /\ IsInt(regs[o.a]) /\ IsInt(regs[o.b])
          /\ Sets(Result(o, IntOf(regs[o.a]), IntOf(regs[o.b])))
      BY <2>1, <2>9 DEF Moves, Operates, Now, St
    <3>2. IntsOf(regs[o.a]) = {IntOf(regs[o.a])} /\ IntsOf(regs[o.b]) = {IntOf(regs[o.b])}
      BY <3>1, OneInt
    <3> HIDE DEF Sets
    <3>3. CASE o.op = "sub"
      <4>1. RunSub BY <2>2, <3>3 DEF Execute, RunPop, RunPush, RunConst, RunSub, RunMul, RunICmp, RunSelect, At
      <4>2. Assign(o.r, Result(o, IntOf(regs[o.a]), IntOf(regs[o.b])))
        BY <3>2, <3>3, <4>1 DEF RunSub, Result
      <4> QED BY <2>7, <3>1, <4>2
    <3>4. CASE o.op = "mul"
      <4>1. RunMul BY <2>2, <3>4 DEF Execute, RunPop, RunPush, RunConst, RunSub, RunMul, RunICmp, RunSelect, At
      <4>2. Assign(o.r, Result(o, IntOf(regs[o.a]), IntOf(regs[o.b])))
        BY <3>2, <3>4, <4>1 DEF RunMul, Result
      <4> QED BY <2>7, <3>1, <4>2
    <3>5. CASE o.op = "icmp"
      <4>1. RunICmp BY <2>2, <3>5 DEF Execute, RunPop, RunPush, RunConst, RunSub, RunMul, RunICmp, RunSelect, At
      <4>2. Assign(o.r, Result(o, IntOf(regs[o.a]), IntOf(regs[o.b])))
        BY <3>2, <3>5, <4>1 DEF RunICmp, Result
      <4> QED BY <2>7, <3>1, <4>2
    <3> QED BY <2>9, <3>3, <3>4, <3>5
  <2>10. CASE o.op = "select"
    <3>1. RunSelect BY <2>2, <2>10 DEF Execute, RunPop, RunPush, RunConst, RunSub, RunMul, RunICmp, RunSelect, At
    <3>2. IsInt(regs[o.c]) /\ Sets(regs[IF IntOf(regs[o.c]) # 0 THEN o.a ELSE o.b])
      BY <2>1, <2>10 DEF Moves, Operates, Now, St
    <3>3. IntsOf(regs[o.c]) = {IntOf(regs[o.c])} BY <3>2, OneInt
    <3>4. Assign(o.r, regs[IF IntOf(regs[o.c]) # 0 THEN o.a ELSE o.b]) BY <3>1, <3>3 DEF RunSelect
    <3> HIDE DEF Sets
    <3> QED BY <2>7, <3>2, <3>4
  <2>11. o.op \in {"pop", "push", "const", "sub", "mul", "icmp", "select"}
    BY <2>3 DEF Operations
  <2> HIDE DEF o, Sets
  <2> QED BY <2>5, <2>6, <2>8, <2>9, <2>10, <2>11
<1> QED BY <1>1, <1>2
-----------------------------------------------------------------------------
(* The steps of the code of one instruction. *)

LEMMA NumIsInt ==
  ASSUME FactorialInstance, NEW n \in Nat
  PROVE  IsInt(Num(n)) /\ IntOf(Num(n)) = n /\ IsInt(Flag(n)) /\ IntOf(Flag(n)) = n
<1>1. <<"int", n>> \in Value BY DEF Value
<1> QED BY <1>1, StoredBytes, Sizes DEF IsInt, IntOf, Num, Flag, IntBytes

LEMMA NextLeads ==
  ASSUME NEW run, NEW g, NEW d, NEW c, run # << >>, Controls(c)
  PROVE  Leads(St(run, << >>, g, d, c),
               St(Tail(run), CodeOf(Head(run)), [r \in 1 .. ValuesOf(Head(run)) |-> << >>], d, c))
<1> DEFINE s == St(run, << >>, g, d, c)
           t == St(Tail(run), CodeOf(Head(run)), [r \in 1 .. ValuesOf(Head(run)) |-> << >>], d, c)
<1>1. /\ s.run = run /\ s.ops = << >> /\ s.data = d /\ s.cont = c /\ t.cont = c BY DEF St
<1> HIDE DEF s
<1>2. t = St(Tail(s.run), CodeOf(Head(s.run)), [r \in 1 .. ValuesOf(Head(s.run)) |-> << >>], s.data, s.cont)
  BY <1>1
<1> HIDE DEF t
<1>3. Micro(s, t) BY <1>1, <1>2 DEF Micro
<1> QED BY <1>3, LeadsStep DEF s, t

LEMMA PopLeads ==
  ASSUME NEW run, NEW ops, NEW g, NEW d \in Bytes, NEW c, Controls(c), NEW v \in Bytes,
         NEW t, NEW r, ops # << >>, Head(ops) = Pop("data", t, r), SizeOf[t] = Len(v)
  PROVE  Leads(St(run, ops, g, d \o v, c), St(run, Tail(ops), [g EXCEPT ![r] = v], d, c))
<1> DEFINE s == St(run, ops, g, d \o v, c)
           u == St(run, Tail(ops), [g EXCEPT ![r] = v], d, c)
           o == Head(ops)
<1>1. s.run = run /\ s.ops = ops /\ s.values = g /\ s.data = d \o v /\ s.cont = c /\ u.cont = c
  BY DEF St
<1>2. o.op = "pop" /\ o.s = "data" /\ o.t = t /\ o.r = r BY DEF Pop
<1>3. Len(d \o v) >= Len(v) /\ TopBytes(d \o v, Len(v)) = v /\ BelowTop(d \o v, Len(v)) = d
  BY TopOfPushed, LenProperties DEF Bytes
<1>4. Len(s.data) >= SizeOf[o.t] BY <1>1, <1>2, <1>3
<1>5. u = St(s.run, Tail(s.ops), [s.values EXCEPT ![o.r] = TopBytes(s.data, SizeOf[o.t])],
             BelowTop(s.data, SizeOf[o.t]), s.cont)
  BY <1>1, <1>2, <1>3
<1> HIDE DEF s, u, o
<1>6. Moves(o, s, u) BY <1>2, <1>4, <1>5 DEF Moves
<1>7. Micro(s, u) BY <1>1, <1>6 DEF Micro, o
<1> QED BY <1>7, LeadsStep DEF s, u

LEMMA PushLeads ==
  ASSUME NEW run, NEW ops, NEW g, NEW d \in Bytes, NEW c, Controls(c), NEW v \in Bytes,
         NEW r, ops # << >>, Head(ops) = Push("data", r), g[r] = v, Len(d) + Len(v) <= StackSize
  PROVE  Leads(St(run, ops, g, d, c), St(run, Tail(ops), g, d \o v, c))
<1> DEFINE s == St(run, ops, g, d, c)
           u == St(run, Tail(ops), g, d \o v, c)
           o == Head(ops)
<1>1. s.run = run /\ s.ops = ops /\ s.values = g /\ s.data = d /\ s.cont = c /\ u.cont = c
  BY DEF St
<1>2. o.op = "push" /\ o.s = "data" /\ o.r = r BY DEF Push
<1>3. Len(d \o v) <= StackSize BY TopOfPushed
<1>4. u = St(s.run, Tail(s.ops), s.values, s.data \o s.values[o.r], s.cont) BY <1>1, <1>2
<1>5. Len(s.data \o s.values[o.r]) <= StackSize BY <1>1, <1>2, <1>3
<1> HIDE DEF s, u, o
<1>6. Moves(o, s, u) BY <1>2, <1>4, <1>5 DEF Moves
<1>7. Micro(s, u) BY <1>1, <1>6 DEF Micro, o
<1> QED BY <1>7, LeadsStep DEF s, u

LEMMA PushContLeads ==
  ASSUME NEW run, NEW ops, NEW g, NEW d, NEW c \in Bytes, NEW v \in Bytes, Controls(c \o v),
         NEW r, ops # << >>, Head(ops) = Push("cont", r), g[r] = v, Len(c) + Len(v) <= StackSize
  PROVE  Leads(St(run, ops, g, d, c), St(run, Tail(ops), g, d, c \o v))
<1> DEFINE s == St(run, ops, g, d, c)
           u == St(run, Tail(ops), g, d, c \o v)
           o == Head(ops)
<1>1. /\ s.run = run /\ s.ops = ops /\ s.values = g /\ s.data = d /\ s.cont = c
      /\ u.cont = c \o v
  BY DEF St
<1>2. o.op = "push" /\ o.s = "cont" /\ o.r = r BY DEF Push
<1>3. Len(c \o v) <= StackSize BY TopOfPushed
<1>4. u = St(s.run, Tail(s.ops), s.values, s.data, s.cont \o s.values[o.r]) BY <1>1, <1>2
<1>5. Len(s.cont \o s.values[o.r]) <= StackSize BY <1>1, <1>2, <1>3
<1> HIDE DEF s, u, o
<1>6. Moves(o, s, u) BY <1>2, <1>4, <1>5 DEF Moves
<1>7. Micro(s, u) BY <1>1, <1>6 DEF Micro, o
<1> QED BY <1>7, LeadsStep DEF s, u

LEMMA ConstLeads ==
  ASSUME NEW run, NEW ops, NEW g, NEW d, NEW c, Controls(c), NEW v, NEW t,
         ops # << >>, Head(ops) = Constant(v, t)
  PROVE  Leads(St(run, ops, g, d, c),
               St(run, Tail(ops), [g EXCEPT ![1] = BytesOf(v, SizeOf[t])], d, c))
<1> DEFINE s == St(run, ops, g, d, c)
           u == St(run, Tail(ops), [g EXCEPT ![1] = BytesOf(v, SizeOf[t])], d, c)
           o == Head(ops)
<1>1. s.run = run /\ s.ops = ops /\ s.values = g /\ s.data = d /\ s.cont = c /\ u.cont = c
  BY DEF St
<1>2. o.op = "const" /\ o.v = v /\ o.t = t /\ o.r = 1 BY DEF Constant
<1>3. u = St(s.run, Tail(s.ops), [s.values EXCEPT ![o.r] = BytesOf(o.v, SizeOf[o.t])], s.data, s.cont)
  BY <1>1, <1>2
<1> HIDE DEF s, u, o
<1>4. Operates(o, s, u) BY <1>2, <1>3 DEF Operates
<1>5. Micro(s, u) BY <1>1, <1>4 DEF Micro, o
<1> QED BY <1>5, LeadsStep DEF s, u

LEMMA ResultLeads ==
  ASSUME NEW run, NEW ops, NEW g, NEW d, NEW c, Controls(c), NEW o, ops # << >>, Head(ops) = o,
         o.op \in {"sub", "mul", "icmp"}, IsInt(g[o.a]), IsInt(g[o.b])
  PROVE  Leads(St(run, ops, g, d, c),
               St(run, Tail(ops), [g EXCEPT ![o.r] = Result(o, IntOf(g[o.a]), IntOf(g[o.b]))], d, c))
<1> DEFINE s == St(run, ops, g, d, c)
           u == St(run, Tail(ops), [g EXCEPT ![o.r] = Result(o, IntOf(g[o.a]), IntOf(g[o.b]))], d, c)
<1>1. s.run = run /\ s.ops = ops /\ s.values = g /\ s.data = d /\ s.cont = c /\ u.cont = c
  BY DEF St
<1>2. u = St(s.run, Tail(s.ops),
             [s.values EXCEPT ![o.r] = Result(o, IntOf(s.values[o.a]), IntOf(s.values[o.b]))],
             s.data, s.cont)
  BY <1>1
<1>3. IsInt(s.values[o.a]) /\ IsInt(s.values[o.b]) BY <1>1
<1> HIDE DEF s, u
<1>4. Operates(o, s, u) BY <1>2, <1>3 DEF Operates
<1>5. Micro(s, u) BY <1>1, <1>4 DEF Micro
<1> QED BY <1>5, LeadsStep DEF s, u

LEMMA SelectLeads ==
  ASSUME NEW run, NEW ops, NEW g, NEW d, NEW c, Controls(c), NEW o, ops # << >>, Head(ops) = o,
         o.op = "select", IsInt(g[o.c]), NEW b, b = g[IF IntOf(g[o.c]) # 0 THEN o.a ELSE o.b]
  PROVE  Leads(St(run, ops, g, d, c), St(run, Tail(ops), [g EXCEPT ![o.r] = b], d, c))
<1> DEFINE s == St(run, ops, g, d, c)
           u == St(run, Tail(ops), [g EXCEPT ![o.r] = b], d, c)
<1>1. s.run = run /\ s.ops = ops /\ s.values = g /\ s.data = d /\ s.cont = c /\ u.cont = c
  BY DEF St
<1>2. u = St(s.run, Tail(s.ops),
             [s.values EXCEPT ![o.r] = s.values[IF IntOf(s.values[o.c]) # 0 THEN o.a ELSE o.b]],
             s.data, s.cont)
  BY <1>1
<1>3. IsInt(s.values[o.c]) BY <1>1
<1> HIDE DEF s, u
<1>4. Operates(o, s, u) BY <1>2, <1>3 DEF Operates
<1>5. Micro(s, u) BY <1>1, <1>4 DEF Micro
<1> QED BY <1>5, LeadsStep DEF s, u
-----------------------------------------------------------------------------
(* The steps of one instruction, the first of run. *)

Go(run, d, c, run1, d1, c1) ==
  \A g : \E g1 : Leads(St(run, << >>, g, d, c), St(run1, << >>, g1, d1, c1))

LEMMA GoOn ==
  ASSUME NEW r1, NEW d1, NEW c1, NEW r2, NEW d2, NEW c2, NEW r3, NEW d3, NEW c3,
         Go(r1, d1, c1, r2, d2, c2), Go(r2, d2, c2, r3, d3, c3)
  PROVE  Go(r1, d1, c1, r3, d3, c3)
<1> SUFFICES ASSUME NEW g
             PROVE  \E g1 : Leads(St(r1, << >>, g, d1, c1), St(r3, << >>, g1, d3, c3))
  BY DEF Go
<1>1. PICK g2 : Leads(St(r1, << >>, g, d1, c1), St(r2, << >>, g2, d2, c2)) BY DEF Go
<1>2. PICK g3 : Leads(St(r2, << >>, g2, d2, c2), St(r3, << >>, g3, d3, c3)) BY DEF Go
<1> QED BY <1>1, <1>2, LeadsOn

LEMMA ConstantGoes ==
  ASSUME FactorialInstance, NEW run, NEW d \in Bytes, NEW c, Controls(c), run # << >>,
         NEW v \in Value, NEW t, SizeOf[t] \in Nat \ {0}, ValuesOf(Head(run)) = 4,
         CodeOf(Head(run)) = <<Constant(v, t), Push("data", 1)>>,
         Len(d) + SizeOf[t] <= StackSize
  PROVE  Go(run, d, c, Tail(run), d \o BytesOf(v, SizeOf[t]), c)
<1> SUFFICES ASSUME NEW g
             PROVE  \E g1 : Leads(St(run, << >>, g, d, c),
                                  St(Tail(run), << >>, g1, d \o BytesOf(v, SizeOf[t]), c))
  BY DEF Go
<1> DEFINE b  == BytesOf(v, SizeOf[t])
           k2 == <<Constant(v, t), Push("data", 1)>>
           k1 == <<Push("data", 1)>>
           g0 == [r \in 1 .. 4 |-> << >>]
           g1 == [g0 EXCEPT ![1] = b]
<1>1. /\ k2 # << >> /\ Head(k2) = Constant(v, t) /\ Tail(k2) = k1
      /\ k1 # << >> /\ Head(k1) = Push("data", 1) /\ Tail(k1) = << >>
  OBVIOUS
<1>2. b \in Bytes /\ Len(b) = SizeOf[t] BY BytesOfType
<1>3. g1[1] = b OBVIOUS
<1>4. Leads(St(run, << >>, g, d, c), St(Tail(run), k2, g0, d, c)) BY NextLeads
<1> HIDE DEF k2, k1, g0
<1>5. Leads(St(Tail(run), k2, g0, d, c), St(Tail(run), k1, g1, d, c)) BY <1>1, ConstLeads
<1> HIDE DEF b, g1
<1>6. Leads(St(Tail(run), k1, g1, d, c), St(Tail(run), << >>, g1, d \o b, c))
  BY <1>1, <1>2, <1>3, PushLeads
<1>7. Leads(St(run, << >>, g, d, c), St(Tail(run), << >>, g1, d \o b, c))
  BY <1>4, <1>5, <1>6, LeadsOn
<1> QED BY <1>7 DEF b

(* The instructions. *)
LEMMA PushGoes ==
  ASSUME FactorialInstance, NEW run, NEW d \in Bytes, NEW c, Controls(c), NEW n \in Nat,
         run # << >>, Head(run) = PushI32(n), Len(d) + LocSize <= StackSize
  PROVE  Go(run, d, c, Tail(run), d \o Num(n), c)
<1>1. <<"int", n>> \in Value /\ SizeOf[I32] = LocSize /\ LocSize \in Nat \ {0} BY Sizes DEF Value
<1>2. /\ ValuesOf(Head(run)) = 4
      /\ CodeOf(Head(run)) = <<Constant(<<"int", n>>, I32), Push("data", 1)>>
  BY DEF PushI32, ValuesOf, CodeOf
<1>3. Go(run, d, c, Tail(run), d \o BytesOf(<<"int", n>>, SizeOf[I32]), c)
  BY <1>1, <1>2, ConstantGoes
<1> QED BY <1>3 DEF Num, IntBytes

PushLoc(l) == [op |-> "pushloc", l |-> l]

LEMMA LookupGoes ==
  ASSUME FactorialInstance, NEW run, NEW d \in Bytes, NEW c, Controls(c), NEW l \in Nat,
         run # << >>, Head(run) = PushLoc(l), Len(d) + LocSize <= StackSize
  PROVE  Go(run, d, c, Tail(run), d \o LocBytes(l), c)
<1>1. <<"loc", l>> \in Value /\ SizeOf[Loc] = LocSize /\ LocSize \in Nat \ {0} BY Sizes DEF Value
<1>2. /\ ValuesOf(Head(run)) = 4
      /\ CodeOf(Head(run)) = <<Constant(<<"loc", l>>, Loc), Push("data", 1)>>
  BY DEF PushLoc, ValuesOf, CodeOf
<1>3. Go(run, d, c, Tail(run), d \o BytesOf(<<"loc", l>>, SizeOf[Loc]), c)
  BY <1>1, <1>2, ConstantGoes
<1> QED BY <1>3 DEF LocBytes, LocSize

LEMMA ToContGoes ==
  ASSUME FactorialInstance, NEW run, NEW d \in Bytes, NEW c \in Bytes, NEW v \in Bytes,
         run # << >>, Head(run) = ToCont, Len(v) = LocSize,
         Controls(c), Controls(c \o v), Len(c) + LocSize <= StackSize
  PROVE  Go(run, d \o v, c, Tail(run), d, c \o v)
<1> SUFFICES ASSUME NEW g
             PROVE  \E g1 : Leads(St(run, << >>, g, d \o v, c), St(Tail(run), << >>, g1, d, c \o v))
  BY DEF Go
<1> DEFINE k2 == <<Pop("data", Loc, 1), Push("cont", 1)>>
           k1 == <<Push("cont", 1)>>
           g0 == [r \in 1 .. 4 |-> << >>]
           g1 == [g0 EXCEPT ![1] = v]
<1>1. /\ k2 # << >> /\ Head(k2) = Pop("data", Loc, 1) /\ Tail(k2) = k1
      /\ k1 # << >> /\ Head(k1) = Push("cont", 1) /\ Tail(k1) = << >>
  OBVIOUS
<1>2. ValuesOf(Head(run)) = 4 /\ CodeOf(Head(run)) = k2 BY DEF ToCont, ValuesOf, CodeOf
<1>3. g1[1] = v /\ SizeOf[Loc] = Len(v) BY Sizes
<1>4. Leads(St(run, << >>, g, d \o v, c), St(Tail(run), k2, g0, d \o v, c)) BY <1>2, NextLeads
<1> HIDE DEF k2, k1, g0
<1>5. Leads(St(Tail(run), k2, g0, d \o v, c), St(Tail(run), k1, g1, d, c))
  BY <1>1, <1>3, PopLeads
<1> HIDE DEF g1
<1>6. Leads(St(Tail(run), k1, g1, d, c), St(Tail(run), << >>, g1, d, c \o v))
  BY <1>1, <1>3, PushContLeads
<1> QED BY <1>4, <1>5, <1>6, LeadsOn

(* What sub, mul and icmp do with two integers, y on top of x. *)
LEMMA ArithmeticGoes ==
  ASSUME FactorialInstance, NEW run, NEW d \in Bytes, NEW c, Controls(c), NEW x \in Nat, NEW y \in Nat,
         run # << >>, NEW o, NEW z \in Bytes, ValuesOf(Head(run)) = 4,
         CodeOf(Head(run)) = <<Pop("data", I32, 1), Pop("data", I32, 2), o, Push("data", 3)>>,
         o.op \in {"sub", "mul", "icmp"}, o.r = 3,
         \/ o.a = 2 /\ o.b = 1 /\ z = Result(o, x, y)
         \/ o.a = 1 /\ o.b = 2 /\ z = Result(o, y, x),
         Len(d) + Len(z) <= StackSize
  PROVE  Go(run, d \o Num(x) \o Num(y), c, Tail(run), d \o z, c)
<1> SUFFICES ASSUME NEW g
             PROVE  \E g1 : Leads(St(run, << >>, g, d \o Num(x) \o Num(y), c),
                                  St(Tail(run), << >>, g1, d \o z, c))
  BY DEF Go
<1> DEFINE k4 == <<Pop("data", I32, 1), Pop("data", I32, 2), o, Push("data", 3)>>
           k3 == <<Pop("data", I32, 2), o, Push("data", 3)>>
           k2 == <<o, Push("data", 3)>>
           k1 == <<Push("data", 3)>>
           g0 == [r \in 1 .. 4 |-> << >>]
           g1 == [g0 EXCEPT ![1] = Num(y)]
           g2 == [g1 EXCEPT ![2] = Num(x)]
           g3 == [g2 EXCEPT ![3] = z]
           e  == d \o Num(x)
<1>1. /\ k4 # << >> /\ Head(k4) = Pop("data", I32, 1) /\ Tail(k4) = k3
      /\ k3 # << >> /\ Head(k3) = Pop("data", I32, 2) /\ Tail(k3) = k2
      /\ k2 # << >> /\ Head(k2) = o /\ Tail(k2) = k1
      /\ k1 # << >> /\ Head(k1) = Push("data", 3) /\ Tail(k1) = << >>
  OBVIOUS
<1>2. g2[1] = Num(y) /\ g2[2] = Num(x) /\ g3[3] = z OBVIOUS
<1>3. /\ Num(x) \in Bytes /\ Num(y) \in Bytes /\ e \in Bytes
      /\ SizeOf[I32] = Len(Num(x)) /\ SizeOf[I32] = Len(Num(y))
  BY Stores, Sizes, TopOfPushed
<1>4. IsInt(Num(x)) /\ IntOf(Num(x)) = x /\ IsInt(Num(y)) /\ IntOf(Num(y)) = y BY NumIsInt
<1>5. Leads(St(run, << >>, g, e \o Num(y), c), St(Tail(run), k4, g0, e \o Num(y), c)) BY NextLeads
<1> HIDE DEF k4, k3, k2, k1, g0
<1>6. Leads(St(Tail(run), k4, g0, e \o Num(y), c), St(Tail(run), k3, g1, e, c))
  <2> HIDE DEF e
  <2> QED BY <1>1, <1>3, PopLeads
<1> HIDE DEF g1
<1>7. Leads(St(Tail(run), k3, g1, d \o Num(x), c), St(Tail(run), k2, g2, d, c))
  BY <1>1, <1>3, PopLeads
<1>8. /\ IsInt(g2[o.a]) /\ IsInt(g2[o.b])
      /\ [g2 EXCEPT ![o.r] = Result(o, IntOf(g2[o.a]), IntOf(g2[o.b]))] = g3
  <2>1. /\ IsInt(g2[o.a]) /\ IsInt(g2[o.b]) /\ Result(o, IntOf(g2[o.a]), IntOf(g2[o.b])) = z
    <3> HIDE DEF g2
    <3>1. CASE o.a = 2 /\ o.b = 1 /\ z = Result(o, x, y) BY <1>2, <1>4, <3>1
    <3>2. CASE o.a = 1 /\ o.b = 2 /\ z = Result(o, y, x) BY <1>2, <1>4, <3>2
    <3> QED BY <3>1, <3>2
  <2> QED BY <2>1
<1> HIDE DEF g2
<1>9. Leads(St(Tail(run), k2, g2, d, c), St(Tail(run), k1, g3, d, c))
  <2> DEFINE g4 == [g2 EXCEPT ![o.r] = Result(o, IntOf(g2[o.a]), IntOf(g2[o.b]))]
  <2>1. Leads(St(Tail(run), k2, g2, d, c), St(Tail(run), k1, g4, d, c)) BY <1>1, <1>8, ResultLeads
  <2>2. g4 = g3 BY <1>8
  <2> QED BY <2>1, <2>2
<1> HIDE DEF g3
<1>10. Leads(St(Tail(run), k1, g3, d, c), St(Tail(run), << >>, g3, d \o z, c))
  BY <1>1, <1>2, PushLeads
<1> QED BY <1>5, <1>6, <1>7, <1>9, <1>10, LeadsOn

LEMMA BytesOfResult ==
  ASSUME FactorialInstance, NEW x \in Nat, NEW y \in Nat
  PROVE  (x - y) % Modulus \in Nat /\ (x * y) % Modulus \in Nat
<1>1. x - y \in Int /\ x * y \in Int OBVIOUS
<1> QED BY <1>1, Sizes

LEMMA SubGoes ==
  ASSUME FactorialInstance, NEW run, NEW d \in Bytes, NEW c, Controls(c), NEW x \in Nat, NEW y \in Nat,
         run # << >>, Head(run) = [op |-> "sub", t |-> I32], Len(d) + LocSize <= StackSize
  PROVE  Go(run, d \o Num(x) \o Num(y), c, Tail(run), d \o Num((x - y) % Modulus), c)
<1> DEFINE o == [op |-> "sub", t |-> I32, a |-> 2, b |-> 1, r |-> 3]
           z == Num((x - y) % Modulus)
<1>1. /\ ValuesOf(Head(run)) = 4
      /\ CodeOf(Head(run)) = <<Pop("data", I32, 1), Pop("data", I32, 2), o, Push("data", 3)>>
  BY DEF ValuesOf, CodeOf, Binary
<1>2. z = Result(o, x, y) BY DEF Result, Num
<1>3. z \in Bytes /\ Len(z) = LocSize BY Stores, BytesOfResult
<1>4. o.op = "sub" /\ o.a = 2 /\ o.b = 1 /\ o.r = 3 OBVIOUS
<1> HIDE DEF o, z
<1>5. Go(run, d \o Num(x) \o Num(y), c, Tail(run), d \o z, c)
  BY <1>1, <1>2, <1>3, <1>4, ArithmeticGoes
<1> QED BY <1>5 DEF z

LEMMA MulGoes ==
  ASSUME FactorialInstance, NEW run, NEW d \in Bytes, NEW c, Controls(c), NEW x \in Nat, NEW y \in Nat,
         run # << >>, Head(run) = [op |-> "mul", t |-> I32], Len(d) + LocSize <= StackSize
  PROVE  Go(run, d \o Num(x) \o Num(y), c, Tail(run), d \o Num((x * y) % Modulus), c)
<1> DEFINE o == [op |-> "mul", t |-> I32, a |-> 2, b |-> 1, r |-> 3]
           z == Num((x * y) % Modulus)
<1>1. /\ ValuesOf(Head(run)) = 4
      /\ CodeOf(Head(run)) = <<Pop("data", I32, 1), Pop("data", I32, 2), o, Push("data", 3)>>
  BY DEF ValuesOf, CodeOf, Binary
<1>2. z = Result(o, x, y) BY DEF Result, Num
<1>3. z \in Bytes /\ Len(z) = LocSize BY Stores, BytesOfResult
<1>4. o.op = "mul" /\ o.a = 2 /\ o.b = 1 /\ o.r = 3 OBVIOUS
<1> HIDE DEF o, z
<1>5. Go(run, d \o Num(x) \o Num(y), c, Tail(run), d \o z, c)
  BY <1>1, <1>2, <1>3, <1>4, ArithmeticGoes
<1> QED BY <1>5 DEF z

LEMMA ICmpGoes ==
  ASSUME FactorialInstance, NEW run, NEW d \in Bytes, NEW c, Controls(c), NEW x \in Nat, NEW y \in Nat,
         run # << >>, Head(run) = [op |-> "icmp", p |-> "sle", t |-> I32],
         Len(d) + SizeOf[Bit] <= StackSize
  PROVE  Go(run, d \o Num(x) \o Num(y), c, Tail(run),
            d \o Flag(IF Signed(y) <= Signed(x) THEN 1 ELSE 0), c)
<1> DEFINE o == [op |-> "icmp", p |-> "sle", t |-> I32, a |-> 1, b |-> 2, r |-> 3]
           f == IF Signed(y) <= Signed(x) THEN 1 ELSE 0
<1>1. /\ ValuesOf(Head(run)) = 4
      /\ CodeOf(Head(run)) = <<Pop("data", I32, 1), Pop("data", I32, 2), o, Push("data", 3)>>
  BY DEF ValuesOf, CodeOf, Compare
<1>2. Flag(f) = Result(o, y, x) BY DEF Result, Holds, Flag
<1>3. f \in Nat OBVIOUS
<1>4. o.op = "icmp" /\ o.a = 1 /\ o.b = 2 /\ o.r = 3 OBVIOUS
<1> HIDE DEF o, f
<1>5. Flag(f) \in Bytes /\ Len(Flag(f)) = SizeOf[Bit] BY <1>3, Stores
<1>6. Go(run, d \o Num(x) \o Num(y), c, Tail(run), d \o Flag(f), c)
  BY <1>1, <1>2, <1>4, <1>5, ArithmeticGoes
<1> QED BY <1>6 DEF f

(* select takes its condition from below the two choices: u if it is not 0. *)
LEMMA SelectGoes ==
  ASSUME FactorialInstance, NEW run, NEW d \in Bytes, NEW c, Controls(c),
         NEW f \in Nat, NEW u \in Bytes, NEW v \in Bytes, Len(u) = LocSize, Len(v) = LocSize,
         run # << >>, Head(run) = [op |-> "select", t |-> Quot], Len(d) + LocSize <= StackSize
  PROVE  Go(run, d \o Flag(f) \o u \o v, c, Tail(run), d \o (IF f # 0 THEN u ELSE v), c)
<1> DEFINE w  == IF f # 0 THEN u ELSE v
<1> SUFFICES ASSUME NEW g
             PROVE  \E g1 : Leads(St(run, << >>, g, d \o Flag(f) \o u \o v, c),
                                  St(Tail(run), << >>, g1, d \o w, c))
  BY DEF Go
<1> DEFINE o  == [op |-> "select", c |-> 3, a |-> 2, b |-> 1, r |-> 4]
           k5 == <<Pop("data", Quot, 1), Pop("data", Quot, 2), Pop("data", Bit, 3), o, Push("data", 4)>>
           k4 == <<Pop("data", Quot, 2), Pop("data", Bit, 3), o, Push("data", 4)>>
           k3 == <<Pop("data", Bit, 3), o, Push("data", 4)>>
           k2 == <<o, Push("data", 4)>>
           k1 == <<Push("data", 4)>>
           g0 == [r \in 1 .. 4 |-> << >>]
           g1 == [g0 EXCEPT ![1] = v]
           g2 == [g1 EXCEPT ![2] = u]
           g3 == [g2 EXCEPT ![3] = Flag(f)]
           g4 == [g3 EXCEPT ![4] = w]
           d1 == d \o Flag(f)
           d2 == d1 \o u
<1>0. /\ ValuesOf(Head(run)) = 4 /\ CodeOf(Head(run)) = k5 BY DEF ValuesOf, CodeOf, Select
<1>1. /\ k5 # << >> /\ Head(k5) = Pop("data", Quot, 1) /\ Tail(k5) = k4
      /\ k4 # << >> /\ Head(k4) = Pop("data", Quot, 2) /\ Tail(k4) = k3
      /\ k3 # << >> /\ Head(k3) = Pop("data", Bit, 3) /\ Tail(k3) = k2
      /\ k2 # << >> /\ Head(k2) = o /\ Tail(k2) = k1
      /\ k1 # << >> /\ Head(k1) = Push("data", 4) /\ Tail(k1) = << >>
  <2> HIDE DEF o
  <2> QED OBVIOUS
<1>2. g3[1] = v /\ g3[2] = u /\ g3[3] = Flag(f) /\ g4[4] = w OBVIOUS
<1>3. /\ Flag(f) \in Bytes /\ SizeOf[Bit] = Len(Flag(f)) /\ SizeOf[Quot] = LocSize
      /\ d1 \in Bytes /\ d2 \in Bytes /\ w \in Bytes /\ Len(w) = LocSize
  BY Stores, Sizes, TopOfPushed
<1>4. /\ o.op = "select" /\ o.c = 3 /\ o.a = 2 /\ o.b = 1 /\ o.r = 4 OBVIOUS
<1>5. IsInt(g3[3]) /\ w = g3[IF IntOf(g3[3]) # 0 THEN 2 ELSE 1]
  <2> HIDE DEF g3
  <2> QED BY <1>2, NumIsInt
<1> HIDE DEF w
<1>6. Leads(St(run, << >>, g, d2 \o v, c), St(Tail(run), k5, g0, d2 \o v, c))
  <2> HIDE DEF o, k5, d2
  <2> QED BY <1>0, NextLeads
<1> HIDE DEF k5, k4, k3, k2, k1, g0, o
<1>7. Leads(St(Tail(run), k5, g0, d2 \o v, c), St(Tail(run), k4, g1, d2, c))
  <2> HIDE DEF d2
  <2> QED BY <1>1, <1>3, PopLeads
<1> HIDE DEF g1
<1>8. Leads(St(Tail(run), k4, g1, d1 \o u, c), St(Tail(run), k3, g2, d1, c))
  <2> HIDE DEF d1
  <2> QED BY <1>1, <1>3, PopLeads
<1> HIDE DEF g2
<1>9. Leads(St(Tail(run), k3, g2, d \o Flag(f), c), St(Tail(run), k2, g3, d, c))
  BY <1>1, <1>3, PopLeads
<1> HIDE DEF g3
<1>10. Leads(St(Tail(run), k2, g3, d, c), St(Tail(run), k1, g4, d, c))
  <2>1. g4 = [g3 EXCEPT ![o.r] = w] BY <1>4
  <2>2. w = g3[IF IntOf(g3[o.c]) # 0 THEN o.a ELSE o.b]
    <3>1. CASE IntOf(g3[3]) # 0 BY <1>4, <1>5, <3>1
    <3>2. CASE ~(IntOf(g3[3]) # 0) BY <1>4, <1>5, <3>2
    <3> QED BY <3>1, <3>2
  <2> HIDE DEF g4
  <2>3. IsInt(g3[o.c]) BY <1>4, <1>5
  <2>4. Leads(St(Tail(run), k2, g3, d, c), St(Tail(run), Tail(k2), [g3 EXCEPT ![o.r] = w], d, c))
    BY <1>1, <1>4, <2>2, <2>3, SelectLeads
  <2> QED BY <1>1, <2>1, <2>4
<1> HIDE DEF g4
<1>11. Leads(St(Tail(run), k1, g4, d, c), St(Tail(run), << >>, g4, d \o w, c))
  BY <1>1, <1>2, <1>3, PushLeads
<1> QED BY <1>6, <1>7, <1>8, <1>9, <1>10, <1>11, LeadsOn DEF d1, d2, w

(* Tuples put end to end. *)
LEMMA TuplesJoined ==
  ASSUME NEW S, NEW p \in Seq(S), NEW q \in Seq(S), NEW t \in Seq(S), Len(t) = Len(p) + Len(q),
         \A i \in 1 .. Len(p) : t[i] = p[i], \A i \in 1 .. Len(q) : t[Len(p) + i] = q[i]
  PROVE  p \o q = t
<1>1. /\ p \o q \in Seq(S) /\ Len(p \o q) = Len(p) + Len(q) /\ Len(p) \in Nat /\ Len(q) \in Nat
      /\ \A i \in 1 .. Len(p) : (p \o q)[i] = p[i]
      /\ \A i \in 1 .. Len(q) : (p \o q)[Len(p) + i] = q[i]
  BY ConcatProperties, LenProperties
<1>2. ASSUME NEW i \in 1 .. Len(t) PROVE (p \o q)[i] = t[i]
  <2>1. CASE i \in 1 .. Len(p) BY <1>1, <2>1
  <2>2. CASE i \notin 1 .. Len(p)
    <3>1. i - Len(p) \in 1 .. Len(q) /\ Len(p) + (i - Len(p)) = i BY <1>1, <2>2
    <3> QED BY <1>1, <3>1
  <2> QED BY <2>1, <2>2
<1>3. Len(p \o q) = Len(t) BY <1>1
<1> QED BY <1>1, <1>2, <1>3, SeqEqual

LEMMA JoinedOneTwo ==
  ASSUME NEW a, NEW b, NEW c
  PROVE  <<a>> \o <<b, c>> = <<a, b, c>>
<1> DEFINE S == {a, b, c}
           p == <<a>>
           q == <<b, c>>
           t == <<a, b, c>>
<1>1. p \in Seq(S) /\ q \in Seq(S) /\ t \in Seq(S) OBVIOUS
<1>2. Len(p) = 1 /\ Len(q) = 2 /\ Len(t) = 3 OBVIOUS
<1>3. p[1] = t[1] /\ q[1] = t[2] /\ q[2] = t[3] OBVIOUS
<1> HIDE DEF p, q, t, S
<1>4. Len(t) = Len(p) + Len(q) BY <1>2
<1>5. \A i \in 1 .. Len(p) : t[i] = p[i] BY <1>2, <1>3
<1>6. \A i \in 1 .. Len(q) : t[Len(p) + i] = q[i] BY <1>2, <1>3
<1>7. p \o q = t BY <1>1, <1>4, <1>5, <1>6, TuplesJoined, Zenon
<1> QED BY <1>7 DEF p, q, t

LEMMA JoinedTwoTwo ==
  ASSUME NEW a, NEW b, NEW c, NEW d
  PROVE  <<a, b>> \o <<c, d>> = <<a, b, c, d>>
<1> DEFINE S == {a, b, c, d}
           p == <<a, b>>
           q == <<c, d>>
           t == <<a, b, c, d>>
<1>1. p \in Seq(S) /\ q \in Seq(S) /\ t \in Seq(S) OBVIOUS
<1>2. Len(p) = 2 /\ Len(q) = 2 /\ Len(t) = 4 OBVIOUS
<1>3. p[1] = t[1] /\ p[2] = t[2] /\ q[1] = t[3] /\ q[2] = t[4] OBVIOUS
<1> HIDE DEF p, q, t, S
<1>4. Len(t) = Len(p) + Len(q) BY <1>2
<1>5. \A i \in 1 .. Len(p) : t[i] = p[i] BY <1>2, <1>3
<1>6. \A i \in 1 .. Len(q) : t[Len(p) + i] = q[i] BY <1>2, <1>3
<1>7. p \o q = t BY <1>1, <1>4, <1>5, <1>6, TuplesJoined, Zenon
<1> QED BY <1>7 DEF p, q, t

LEMMA JoinedThreeThree ==
  ASSUME NEW a, NEW b, NEW c, NEW d, NEW e, NEW f
  PROVE  <<a, b, c>> \o <<d, e, f>> = <<a, b, c, d, e, f>>
<1> DEFINE S == {a, b, c, d, e, f}
           p == <<a, b, c>>
           q == <<d, e, f>>
           t == <<a, b, c, d, e, f>>
<1>1. p \in Seq(S) /\ q \in Seq(S) /\ t \in Seq(S) OBVIOUS
<1>2. Len(p) = 3 /\ Len(q) = 3 /\ Len(t) = 6 OBVIOUS
<1>3. p[1] = t[1] /\ p[2] = t[2] /\ p[3] = t[3] /\ q[1] = t[4] /\ q[2] = t[5] /\ q[3] = t[6] OBVIOUS
<1> HIDE DEF p, q, t, S
<1>4. Len(t) = Len(p) + Len(q) BY <1>2
<1>5. \A i \in 1 .. Len(p) : t[i] = p[i] BY <1>2, <1>3
<1>6. \A i \in 1 .. Len(q) : t[Len(p) + i] = q[i] BY <1>2, <1>3
<1>7. p \o q = t BY <1>1, <1>4, <1>5, <1>6, TuplesJoined, Zenon
<1> QED BY <1>7 DEF p, q, t

LEMMA JoinedOneFour ==
  ASSUME NEW a, NEW b, NEW c, NEW d, NEW e
  PROVE  <<a>> \o <<b, c, d, e>> = <<a, b, c, d, e>>
<1> DEFINE S == {a, b, c, d, e}
           p == <<a>>
           q == <<b, c, d, e>>
           t == <<a, b, c, d, e>>
<1>1. p \in Seq(S) /\ q \in Seq(S) /\ t \in Seq(S) OBVIOUS
<1>2. Len(p) = 1 /\ Len(q) = 4 /\ Len(t) = 5 OBVIOUS
<1>3. p[1] = t[1] /\ q[1] = t[2] /\ q[2] = t[3] /\ q[3] = t[4] /\ q[4] = t[5] OBVIOUS
<1> HIDE DEF p, q, t, S
<1>4. Len(t) = Len(p) + Len(q) BY <1>2
<1>5. \A i \in 1 .. Len(p) : t[i] = p[i] BY <1>2, <1>3
<1>6. \A i \in 1 .. Len(q) : t[Len(p) + i] = q[i] BY <1>2, <1>3
<1>7. p \o q = t BY <1>1, <1>4, <1>5, <1>6, TuplesJoined, Zenon
<1> QED BY <1>7 DEF p, q, t

(* The shuffles of the module: every value is of the size of a location. *)
LEMMA DropGoes ==
  ASSUME FactorialInstance, NEW run, NEW d \in Bytes, NEW c, Controls(c), NEW t \in {I32, Quot},
         NEW v \in Bytes, Len(v) = LocSize,
         run # << >>, Head(run) = [op |-> "shuffle", in |-> <<t>>, out |-> << >>]
  PROVE  Go(run, d \o v, c, Tail(run), d, c)
<1> SUFFICES ASSUME NEW g
             PROVE  \E g1 : Leads(St(run, << >>, g, d \o v, c), St(Tail(run), << >>, g1, d, c))
  BY DEF Go
<1> DEFINE k1 == <<Pop("data", t, 1)>>
           g0 == [r \in 1 .. 1 |-> << >>]
           g1 == [g0 EXCEPT ![1] = v]
<1>1. ValuesOf(Head(run)) = 1 /\ CodeOf(Head(run)) = k1
  <2>1. ValuesOf(Head(run)) = 1 /\ CodeOf(Head(run)) = Shuffle(<<t>>, << >>) BY DEF ValuesOf, CodeOf
  <2>2. [i \in 1 .. Len(<<t>>) |-> Pop("data", <<t>>[i], i)] = <<Pop("data", t, 1)>> OBVIOUS
  <2>3. [j \in 1 .. Len(<< >>) |-> Push("data", Len(<<t>>) - << >>[j])] = << >> OBVIOUS
  <2> QED BY <2>1, <2>2, <2>3, ConcatEmptySeq DEF Shuffle
<1>2. k1 # << >> /\ Head(k1) = Pop("data", t, 1) /\ Tail(k1) = << >> OBVIOUS
<1>3. SizeOf[t] = Len(v) BY Sizes
<1>4. Leads(St(run, << >>, g, d \o v, c), St(Tail(run), k1, g0, d \o v, c)) BY <1>1, NextLeads
<1> HIDE DEF k1, g0
<1>5. Leads(St(Tail(run), k1, g0, d \o v, c), St(Tail(run), << >>, g1, d, c))
  BY <1>2, <1>3, PopLeads
<1> QED BY <1>4, <1>5, LeadsOn

LEMMA DupGoes ==
  ASSUME FactorialInstance, NEW run, NEW d \in Bytes, NEW c, Controls(c), NEW t \in {I32, Quot},
         NEW v \in Bytes, Len(v) = LocSize, Len(d) + 2 * LocSize <= StackSize,
         run # << >>, Head(run) = [op |-> "shuffle", in |-> <<t>>, out |-> <<0, 0>>]
  PROVE  Go(run, d \o v, c, Tail(run), d \o v \o v, c)
<1> SUFFICES ASSUME NEW g
             PROVE  \E g1 : Leads(St(run, << >>, g, d \o v, c), St(Tail(run), << >>, g1, d \o v \o v, c))
  BY DEF Go
<1> DEFINE k3 == <<Pop("data", t, 1), Push("data", 1), Push("data", 1)>>
           k2 == <<Push("data", 1), Push("data", 1)>>
           k1 == <<Push("data", 1)>>
           g0 == [r \in 1 .. 1 |-> << >>]
           g1 == [g0 EXCEPT ![1] = v]
           e  == d \o v
<1>1. ValuesOf(Head(run)) = 1 /\ CodeOf(Head(run)) = k3
  <2>1. ValuesOf(Head(run)) = 1 /\ CodeOf(Head(run)) = Shuffle(<<t>>, <<0, 0>>) BY DEF ValuesOf, CodeOf
  <2>2. [i \in 1 .. Len(<<t>>) |-> Pop("data", <<t>>[i], i)] = <<Pop("data", t, 1)>> OBVIOUS
  <2>3. [j \in 1 .. Len(<<0, 0>>) |-> Push("data", Len(<<t>>) - <<0, 0>>[j])]
          = <<Push("data", 1), Push("data", 1)>>
    OBVIOUS
  <2>4. <<Pop("data", t, 1)>> \o <<Push("data", 1), Push("data", 1)>> = k3 BY JoinedOneTwo
  <2> QED BY <2>1, <2>2, <2>3, <2>4 DEF Shuffle
<1>2. /\ k3 # << >> /\ Head(k3) = Pop("data", t, 1) /\ Tail(k3) = k2
      /\ k2 # << >> /\ Head(k2) = Push("data", 1) /\ Tail(k2) = k1
      /\ k1 # << >> /\ Head(k1) = Push("data", 1) /\ Tail(k1) = << >>
  OBVIOUS
<1>3. SizeOf[t] = Len(v) /\ g1[1] = v BY Sizes
<1>4. /\ e \in Bytes /\ Len(e) = Len(d) + LocSize /\ Len(e) + LocSize <= StackSize
      /\ Len(d) + LocSize <= StackSize
  <2>1. Len(d) \in Nat BY LenProperties DEF Bytes
  <2>2. e \in Bytes /\ Len(e) = Len(d) + Len(v) BY TopOfPushed
  <2> HIDE DEF e
  <2> QED BY <2>1, <2>2, Sizes
<1>5. Leads(St(run, << >>, g, d \o v, c), St(Tail(run), k3, g0, d \o v, c)) BY <1>1, NextLeads
<1> HIDE DEF k1, k2, k3, g0
<1>6. Leads(St(Tail(run), k3, g0, d \o v, c), St(Tail(run), k2, g1, d, c))
  BY <1>2, <1>3, PopLeads
<1> HIDE DEF g1
<1>7. Leads(St(Tail(run), k2, g1, d, c), St(Tail(run), k1, g1, d \o v, c))
  BY <1>2, <1>3, <1>4, PushLeads
<1>8. Leads(St(Tail(run), k1, g1, e, c), St(Tail(run), << >>, g1, e \o v, c))
  <2> HIDE DEF e
  <2> QED BY <1>2, <1>3, <1>4, PushLeads
<1> QED BY <1>5, <1>6, <1>7, <1>8, LeadsOn DEF e

LEMMA SwapGoes ==
  ASSUME FactorialInstance, NEW run, NEW d \in Bytes, NEW c, Controls(c),
         NEW t \in {I32, Quot}, NEW u \in {I32, Quot},
         NEW v \in Bytes, Len(v) = LocSize, NEW w \in Bytes, Len(w) = LocSize,
         Len(d) + 2 * LocSize <= StackSize,
         run # << >>, Head(run) = [op |-> "shuffle", in |-> <<t, u>>, out |-> <<1, 0>>]
  PROVE  Go(run, d \o v \o w, c, Tail(run), d \o w \o v, c)
<1> SUFFICES ASSUME NEW g
             PROVE  \E g1 : Leads(St(run, << >>, g, d \o v \o w, c),
                                  St(Tail(run), << >>, g1, d \o w \o v, c))
  BY DEF Go
<1> DEFINE k4 == <<Pop("data", t, 1), Pop("data", u, 2), Push("data", 1), Push("data", 2)>>
           k3 == <<Pop("data", u, 2), Push("data", 1), Push("data", 2)>>
           k2 == <<Push("data", 1), Push("data", 2)>>
           k1 == <<Push("data", 2)>>
           g0 == [r \in 1 .. 2 |-> << >>]
           g1 == [g0 EXCEPT ![1] = w]
           g2 == [g1 EXCEPT ![2] = v]
           e  == d \o v
           f  == d \o w
<1>1. ValuesOf(Head(run)) = 2 /\ CodeOf(Head(run)) = k4
  <2>1. ValuesOf(Head(run)) = 2 /\ CodeOf(Head(run)) = Shuffle(<<t, u>>, <<1, 0>>) BY DEF ValuesOf, CodeOf
  <2>2. [i \in 1 .. Len(<<t, u>>) |-> Pop("data", <<t, u>>[i], i)]
          = <<Pop("data", t, 1), Pop("data", u, 2)>>
    OBVIOUS
  <2>3. [j \in 1 .. Len(<<1, 0>>) |-> Push("data", Len(<<t, u>>) - <<1, 0>>[j])]
          = <<Push("data", 1), Push("data", 2)>>
    OBVIOUS
  <2>4. <<Pop("data", t, 1), Pop("data", u, 2)>> \o <<Push("data", 1), Push("data", 2)>> = k4
    BY JoinedTwoTwo
  <2> QED BY <2>1, <2>2, <2>3, <2>4 DEF Shuffle
<1>2. /\ k4 # << >> /\ Head(k4) = Pop("data", t, 1) /\ Tail(k4) = k3
      /\ k3 # << >> /\ Head(k3) = Pop("data", u, 2) /\ Tail(k3) = k2
      /\ k2 # << >> /\ Head(k2) = Push("data", 1) /\ Tail(k2) = k1
      /\ k1 # << >> /\ Head(k1) = Push("data", 2) /\ Tail(k1) = << >>
  OBVIOUS
<1>3. SizeOf[t] = Len(w) /\ SizeOf[u] = Len(v) /\ g2[1] = w /\ g2[2] = v BY Sizes
<1>4. /\ e \in Bytes /\ f \in Bytes /\ Len(f) = Len(d) + LocSize /\ Len(f) + LocSize <= StackSize
      /\ Len(d) + LocSize <= StackSize
  <2>1. Len(d) \in Nat BY LenProperties DEF Bytes
  <2>2. e \in Bytes BY TopOfPushed
  <2>3. f \in Bytes /\ Len(f) = Len(d) + Len(w) BY TopOfPushed
  <2> HIDE DEF e, f
  <2> QED BY <2>1, <2>2, <2>3, Sizes
<1>5. Leads(St(run, << >>, g, e \o w, c), St(Tail(run), k4, g0, e \o w, c)) BY <1>1, NextLeads
<1> HIDE DEF k1, k2, k3, k4, g0
<1>6. Leads(St(Tail(run), k4, g0, e \o w, c), St(Tail(run), k3, g1, e, c))
  <2> HIDE DEF e
  <2> QED BY <1>2, <1>3, <1>4, PopLeads
<1> HIDE DEF g1
<1>7. Leads(St(Tail(run), k3, g1, d \o v, c), St(Tail(run), k2, g2, d, c))
  BY <1>2, <1>3, PopLeads
<1> HIDE DEF g2
<1>8. Leads(St(Tail(run), k2, g2, d, c), St(Tail(run), k1, g2, d \o w, c))
  BY <1>2, <1>3, <1>4, PushLeads
<1>9. Leads(St(Tail(run), k1, g2, f, c), St(Tail(run), << >>, g2, f \o v, c))
  <2> HIDE DEF f
  <2> QED BY <1>2, <1>3, <1>4, PushLeads
<1> QED BY <1>5, <1>6, <1>7, <1>8, <1>9, LeadsOn DEF e, f

LEMMA RotGoes ==
  ASSUME FactorialInstance, NEW run, NEW d \in Bytes, NEW c, Controls(c),
         NEW u \in Bytes, Len(u) = LocSize, NEW v \in Bytes, Len(v) = LocSize,
         NEW w \in Bytes, Len(w) = LocSize, Len(d) + 3 * LocSize <= StackSize,
         run # << >>, Head(run) = [op |-> "shuffle", in |-> <<I32, I32, I32>>, out |-> <<1, 2, 0>>]
  PROVE  Go(run, d \o u \o v \o w, c, Tail(run), d \o v \o w \o u, c)
<1> SUFFICES ASSUME NEW g
             PROVE  \E g1 : Leads(St(run, << >>, g, d \o u \o v \o w, c),
                                  St(Tail(run), << >>, g1, d \o v \o w \o u, c))
  BY DEF Go
<1> DEFINE k6 == <<Pop("data", I32, 1), Pop("data", I32, 2), Pop("data", I32, 3),
                   Push("data", 2), Push("data", 1), Push("data", 3)>>
           k5 == <<Pop("data", I32, 2), Pop("data", I32, 3),
                   Push("data", 2), Push("data", 1), Push("data", 3)>>
           k4 == <<Pop("data", I32, 3), Push("data", 2), Push("data", 1), Push("data", 3)>>
           k3 == <<Push("data", 2), Push("data", 1), Push("data", 3)>>
           k2 == <<Push("data", 1), Push("data", 3)>>
           k1 == <<Push("data", 3)>>
           g0 == [r \in 1 .. 3 |-> << >>]
           g1 == [g0 EXCEPT ![1] = w]
           g2 == [g1 EXCEPT ![2] = v]
           g3 == [g2 EXCEPT ![3] = u]
           d1 == d \o u
           d2 == d1 \o v
           e1 == d \o v
           e2 == e1 \o w
<1>1. ValuesOf(Head(run)) = 3 /\ CodeOf(Head(run)) = k6
  <2>1. ValuesOf(Head(run)) = 3 /\ CodeOf(Head(run)) = Shuffle(<<I32, I32, I32>>, <<1, 2, 0>>)
    BY DEF ValuesOf, CodeOf
  <2>2. [i \in 1 .. Len(<<I32, I32, I32>>) |-> Pop("data", <<I32, I32, I32>>[i], i)]
          = <<Pop("data", I32, 1), Pop("data", I32, 2), Pop("data", I32, 3)>>
    OBVIOUS
  <2>3. [j \in 1 .. Len(<<1, 2, 0>>) |-> Push("data", Len(<<I32, I32, I32>>) - <<1, 2, 0>>[j])]
          = <<Push("data", 2), Push("data", 1), Push("data", 3)>>
    OBVIOUS
  <2>4. <<Pop("data", I32, 1), Pop("data", I32, 2), Pop("data", I32, 3)>>
          \o <<Push("data", 2), Push("data", 1), Push("data", 3)>> = k6
    BY JoinedThreeThree
  <2> QED BY <2>1, <2>2, <2>3, <2>4 DEF Shuffle
<1>2. /\ k6 # << >> /\ Head(k6) = Pop("data", I32, 1) /\ Tail(k6) = k5
      /\ k5 # << >> /\ Head(k5) = Pop("data", I32, 2) /\ Tail(k5) = k4
      /\ k4 # << >> /\ Head(k4) = Pop("data", I32, 3) /\ Tail(k4) = k3
      /\ k3 # << >> /\ Head(k3) = Push("data", 2) /\ Tail(k3) = k2
      /\ k2 # << >> /\ Head(k2) = Push("data", 1) /\ Tail(k2) = k1
      /\ k1 # << >> /\ Head(k1) = Push("data", 3) /\ Tail(k1) = << >>
  OBVIOUS
<1>3. /\ SizeOf[I32] = Len(u) /\ SizeOf[I32] = Len(v) /\ SizeOf[I32] = Len(w)
      /\ g3[1] = w /\ g3[2] = v /\ g3[3] = u
  BY Sizes
<1>4. /\ d1 \in Bytes /\ d2 \in Bytes
      /\ e1 \in Bytes /\ Len(e1) + LocSize <= StackSize
      /\ e2 \in Bytes /\ Len(e2) + LocSize <= StackSize
      /\ Len(d) + LocSize <= StackSize
  <2>1. d1 \in Bytes BY TopOfPushed
  <2>2. e1 \in Bytes /\ Len(e1) = Len(d) + Len(v) BY TopOfPushed
  <2> HIDE DEF d1, e1
  <2>4. d2 \in Bytes BY <2>1, TopOfPushed
  <2>5. e2 \in Bytes /\ Len(e2) = Len(e1) + Len(w) BY <2>2, TopOfPushed
  <2> HIDE DEF d2, e2
  <2>3. Len(d) \in Nat BY LenProperties DEF Bytes
  <2> QED BY <2>1, <2>2, <2>3, <2>4, <2>5, Sizes
<1>5. Leads(St(run, << >>, g, d2 \o w, c), St(Tail(run), k6, g0, d2 \o w, c))
  <2> HIDE DEF d2
  <2> QED BY <1>1, NextLeads
<1> HIDE DEF k1, k2, k3, k4, k5, k6, g0
<1>6. Leads(St(Tail(run), k6, g0, d2 \o w, c), St(Tail(run), k5, g1, d2, c))
  <2> HIDE DEF d2
  <2> QED BY <1>2, <1>3, <1>4, PopLeads
<1> HIDE DEF g1
<1>7. Leads(St(Tail(run), k5, g1, d1 \o v, c), St(Tail(run), k4, g2, d1, c))
  <2> HIDE DEF d1
  <2> QED BY <1>2, <1>3, <1>4, PopLeads
<1> HIDE DEF g2
<1>8. Leads(St(Tail(run), k4, g2, d \o u, c), St(Tail(run), k3, g3, d, c))
  BY <1>2, <1>3, PopLeads
<1> HIDE DEF g3
<1>9. Leads(St(Tail(run), k3, g3, d, c), St(Tail(run), k2, g3, d \o v, c))
  BY <1>2, <1>3, <1>4, PushLeads
<1>10. Leads(St(Tail(run), k2, g3, e1, c), St(Tail(run), k1, g3, e1 \o w, c))
  <2> HIDE DEF e1
  <2> QED BY <1>2, <1>3, <1>4, PushLeads
<1>11. Leads(St(Tail(run), k1, g3, e2, c), St(Tail(run), << >>, g3, e2 \o u, c))
  <2> HIDE DEF e2
  <2> QED BY <1>2, <1>3, <1>4, PushLeads
<1> QED BY <1>5, <1>6, <1>7, <1>8, <1>9, <1>10, <1>11, LeadsOn DEF d1, d2, e1, e2
-----------------------------------------------------------------------------
(* The words of the module, compiled. *)

CallCode(a)       == <<PushLoc(wordMap[a]), ToCont>>
CallThenCode(a, b) == <<PushLoc(wordMap[a]), PushLoc(wordMap[b]), ToCont, ToCont>>

LEMMA CompiledOne == ASSUME NEW i PROVE Compile(<<i>>) = <<IF i.op = "lookup" THEN PushLoc(wordMap[i.w]) ELSE i>>
BY DEF Compile, PushLoc

LEMMA CompiledCall == ASSUME NEW a PROVE Compile(Call(a)) = CallCode(a)
<1> DEFINE b == <<Lookup(a), ToCont>>
<1>1. DOMAIN b = 1 .. 2 /\ b[1] = Lookup(a) /\ b[2] = ToCont OBVIOUS
<1>2. Call(a) = b BY DEF Call
<1> HIDE DEF b
<1>3. Compile(b) = [i \in 1 .. 2 |-> <<PushLoc(wordMap[a]), ToCont>>[i]]
  BY <1>1 DEF Compile, Lookup, ToCont, PushLoc
<1> QED BY <1>2, <1>3 DEF CallCode

LEMMA CompiledCallThen == ASSUME NEW a, NEW k PROVE Compile(CallThen(a, k)) = CallThenCode(a, k)
<1> DEFINE b == <<Lookup(a), Lookup(k), ToCont, ToCont>>
<1>1. DOMAIN b = 1 .. 4 /\ b[1] = Lookup(a) /\ b[2] = Lookup(k) /\ b[3] = ToCont /\ b[4] = ToCont OBVIOUS
<1>2. CallThen(a, k) = b BY DEF CallThen
<1> HIDE DEF b
<1>3. Compile(b) = [i \in 1 .. 4 |-> <<PushLoc(wordMap[a]), PushLoc(wordMap[k]), ToCont, ToCont>>[i]]
  BY <1>1 DEF Compile, Lookup, ToCont, PushLoc
<1> QED BY <1>2, <1>3 DEF CallThenCode

LEMMA CompiledPushCall ==
  ASSUME NEW n, NEW a
  PROVE  Compile(<<PushI32(n)>> \o Call(a)) = <<PushI32(n), PushLoc(wordMap[a]), ToCont>>
<1> DEFINE b == <<PushI32(n), Lookup(a), ToCont>>
<1>1. DOMAIN b = 1 .. 3 /\ b[1] = PushI32(n) /\ b[2] = Lookup(a) /\ b[3] = ToCont OBVIOUS
<1>2. <<PushI32(n)>> \o Call(a) = b BY JoinedOneTwo DEF Call
<1> HIDE DEF b
<1>3. Compile(b) = [i \in 1 .. 3 |-> <<PushI32(n), PushLoc(wordMap[a]), ToCont>>[i]]
  BY <1>1 DEF Compile, Lookup, ToCont, PushLoc, PushI32
<1>4. <<PushI32(n), PushLoc(wordMap[a]), ToCont>> = [i \in 1 .. 3 |-> <<PushI32(n), PushLoc(wordMap[a]), ToCont>>[i]]
  OBVIOUS
<1> QED BY <1>2, <1>3, <1>4

LEMMA CompiledPushCallThen ==
  ASSUME NEW n, NEW a, NEW k
  PROVE  Compile(<<PushI32(n)>> \o CallThen(a, k))
           = <<PushI32(n), PushLoc(wordMap[a]), PushLoc(wordMap[k]), ToCont, ToCont>>
<1> DEFINE b == <<PushI32(n), Lookup(a), Lookup(k), ToCont, ToCont>>
<1>1. /\ DOMAIN b = 1 .. 5 /\ b[1] = PushI32(n) /\ b[2] = Lookup(a) /\ b[3] = Lookup(k)
      /\ b[4] = ToCont /\ b[5] = ToCont
  OBVIOUS
<1>2. <<PushI32(n)>> \o CallThen(a, k) = b BY JoinedOneFour DEF CallThen
<1> HIDE DEF b
<1>3. Compile(b) = [i \in 1 .. 5 |->
                     <<PushI32(n), PushLoc(wordMap[a]), PushLoc(wordMap[k]), ToCont, ToCont>>[i]]
  BY <1>1 DEF Compile, Lookup, ToCont, PushLoc, PushI32
<1>4. <<PushI32(n), PushLoc(wordMap[a]), PushLoc(wordMap[k]), ToCont, ToCont>> = [i \in 1 .. 5 |-> <<PushI32(n), PushLoc(wordMap[a]), PushLoc(wordMap[k]), ToCont, ToCont>>[i]]
  OBVIOUS
<1> QED BY <1>2, <1>3, <1>4

LEMMA CompiledLookups ==
  ASSUME NEW u, NEW v, NEW a
  PROVE  Compile(<<Lookup(u), Lookup(v)>> \o Call(a))
           = <<PushLoc(wordMap[u]), PushLoc(wordMap[v]), PushLoc(wordMap[a]), ToCont>>
<1> DEFINE b == <<Lookup(u), Lookup(v), Lookup(a), ToCont>>
<1>1. DOMAIN b = 1 .. 4 /\ b[1] = Lookup(u) /\ b[2] = Lookup(v) /\ b[3] = Lookup(a) /\ b[4] = ToCont OBVIOUS
<1>2. <<Lookup(u), Lookup(v)>> \o Call(a) = b BY JoinedTwoTwo DEF Call
<1> HIDE DEF b
<1>3. Compile(b) = [i \in 1 .. 4 |->
                     <<PushLoc(wordMap[u]), PushLoc(wordMap[v]), PushLoc(wordMap[a]), ToCont>>[i]]
  BY <1>1 DEF Compile, Lookup, ToCont, PushLoc
<1>4. <<PushLoc(wordMap[u]), PushLoc(wordMap[v]), PushLoc(wordMap[a]), ToCont>> = [i \in 1 .. 4 |-> <<PushLoc(wordMap[u]), PushLoc(wordMap[v]), PushLoc(wordMap[a]), ToCont>>[i]]
  OBVIOUS
<1> QED BY <1>2, <1>3, <1>4

LEMMA CompiledMain ==
  ASSUME NEW q, NEW n, NEW a
  PROVE  Compile(<<Lookup(q), PushI32(n)>> \o Call(a))
           = <<PushLoc(wordMap[q]), PushI32(n), PushLoc(wordMap[a]), ToCont>>
<1> DEFINE b == <<Lookup(q), PushI32(n), Lookup(a), ToCont>>
<1>1. DOMAIN b = 1 .. 4 /\ b[1] = Lookup(q) /\ b[2] = PushI32(n) /\ b[3] = Lookup(a) /\ b[4] = ToCont OBVIOUS
<1>2. <<Lookup(q), PushI32(n)>> \o Call(a) = b BY JoinedTwoTwo DEF Call
<1> HIDE DEF b
<1>3. Compile(b) = [i \in 1 .. 4 |-> <<PushLoc(wordMap[q]), PushI32(n), PushLoc(wordMap[a]), ToCont>>[i]]
  BY <1>1 DEF Compile, Lookup, ToCont, PushLoc, PushI32
<1>4. <<PushLoc(wordMap[q]), PushI32(n), PushLoc(wordMap[a]), ToCont>> = [i \in 1 .. 4 |-> <<PushLoc(wordMap[q]), PushI32(n), PushLoc(wordMap[a]), ToCont>>[i]]
  OBVIOUS
<1> QED BY <1>2, <1>3, <1>4

(* What a word that ends in a call does: cont gets the word, and under it  *)
(* the continuation.                                                       *)
LEMMA DepthFits ==
  ASSUME FactorialInstance, NEW c, NEW k \in 1 .. 4, Depth(c, k)
  PROVE  c \in Bytes /\ Controls(c) /\ Len(c) + LocSize <= StackSize
<1>1. Controls(c) BY DEF Controls
<1>2. LocSize \in Nat /\ SizeOf[Bit] \in Nat /\ 8 * LocSize + SizeOf[Bit] <= StackSize /\ StackSize \in Nat
  BY Sizes DEF FactorialInstance
<1>3. Len(c) = k * LocSize /\ c \in Bytes BY DEF Depth
<1>4. k = 1 \/ k = 2 \/ k = 3 \/ k = 4 OBVIOUS
<1>5. Len(c) <= 4 * LocSize
  <2>1. CASE k = 1 BY <1>2, <1>3, <2>1
  <2>2. CASE k = 2 BY <1>2, <1>3, <2>2
  <2>3. CASE k = 3 BY <1>2, <1>3, <2>3
  <2>4. CASE k = 4 BY <1>2, <1>3, <2>4
  <2> QED BY <1>4, <2>1, <2>2, <2>3, <2>4
<1>6. Len(c) \in Nat BY <1>3, LenProperties DEF Bytes
<1> QED BY <1>1, <1>2, <1>3, <1>5, <1>6

LEMMA LinkToCont ==
  ASSUME FactorialInstance, Loaded, NEW run, run # << >>, Head(run) = ToCont,
         NEW d \in Bytes, NEW a \in Words, NEW c, NEW k \in 1 .. 4, Depth(c, k)
  PROVE  /\ Go(run, d \o Link(a), c, Tail(run), d, c \o Link(a))
         /\ Depth(c \o Link(a), k + 1)
<1>1. /\ c \in Bytes /\ Controls(c) /\ Len(c) + LocSize <= StackSize
      /\ Link(a) \in Bytes /\ Len(Link(a)) = LocSize
  BY DepthFits, LinkIsLocation
<1>2. Depth(c \o Link(a), k + 1) BY DepthPushed
<1>3. Controls(c \o Link(a)) BY <1>2 DEF Controls
<1> QED BY <1>1, <1>2, <1>3, ToContGoes

LEMMA LinkLookup ==
  ASSUME FactorialInstance, Loaded, NEW run, run # << >>, NEW a \in Words, Head(run) = PushLoc(wordMap[a]),
         NEW d \in Bytes, NEW c, NEW k \in 1 .. 4, Depth(c, k), NEW n \in Nat,
         Len(d) + LocSize + n <= StackSize
  PROVE  /\ Go(run, d, c, Tail(run), d \o Link(a), c)
         /\ d \o Link(a) \in Bytes /\ Len(d \o Link(a)) + n <= StackSize
<1>1. Controls(c) /\ wordMap[a] \in Nat /\ Link(a) \in Bytes /\ Len(Link(a)) = LocSize
  BY DepthFits, LinkIsLocation
<1>2. d \o Link(a) \in Bytes /\ Len(d \o Link(a)) = Len(d) + Len(Link(a)) BY <1>1, TopOfPushed
<1>3. Len(d) \in Nat /\ LocSize \in Nat /\ StackSize \in Nat BY Sizes, LenProperties DEF Bytes
<1>4. Len(d) + LocSize <= StackSize /\ Len(d \o Link(a)) + n <= StackSize BY <1>1, <1>2, <1>3
<1>5. Go(run, d, c, Tail(run), d \o LocBytes(wordMap[a]), c) BY <1>1, <1>4, LookupGoes
<1> QED BY <1>2, <1>4, <1>5 DEF Link

LEMMA CallGoes ==
  ASSUME FactorialInstance, Loaded, NEW a \in Words, NEW d \in Bytes, Len(d) + LocSize <= StackSize,
         NEW c, NEW k \in 1 .. 4, Depth(c, k)
  PROVE  /\ Go(CallCode(a), d, c, << >>, d, c \o Link(a))
         /\ Depth(c \o Link(a), k + 1)
<1> DEFINE r2 == <<PushLoc(wordMap[a]), ToCont>>
           r1 == <<ToCont>>
<1>1. /\ r2 # << >> /\ Head(r2) = PushLoc(wordMap[a]) /\ Tail(r2) = r1
      /\ r1 # << >> /\ Head(r1) = ToCont /\ Tail(r1) = << >>
  OBVIOUS
<1>2. CallCode(a) = r2 BY DEF CallCode
<1>3. Len(d) + LocSize + 0 <= StackSize BY Sizes, LenProperties DEF Bytes
<1> HIDE DEF r1, r2
<1>4. Go(r2, d, c, r1, d \o Link(a), c) BY <1>1, <1>3, LinkLookup
<1>5. Go(r1, d \o Link(a), c, << >>, d, c \o Link(a)) /\ Depth(c \o Link(a), k + 1)
  BY <1>1, LinkToCont
<1> QED BY <1>2, <1>4, <1>5, GoOn

LEMMA CallThenGoes ==
  ASSUME FactorialInstance, Loaded, NEW a \in Words, NEW b \in Words,
         NEW d \in Bytes, Len(d) + 2 * LocSize <= StackSize, NEW c, NEW k \in 1 .. 3, Depth(c, k)
  PROVE  /\ Go(CallThenCode(a, b), d, c, << >>, d, c \o Link(b) \o Link(a))
         /\ Depth(c \o Link(b), k + 1)
<1> DEFINE r4 == <<PushLoc(wordMap[a]), PushLoc(wordMap[b]), ToCont, ToCont>>
           r3 == <<PushLoc(wordMap[b]), ToCont, ToCont>>
           r2 == <<ToCont, ToCont>>
           r1 == <<ToCont>>
           e  == d \o Link(a)
           f  == c \o Link(b)
<1>1. /\ r4 # << >> /\ Head(r4) = PushLoc(wordMap[a]) /\ Tail(r4) = r3
      /\ r3 # << >> /\ Head(r3) = PushLoc(wordMap[b]) /\ Tail(r3) = r2
      /\ r2 # << >> /\ Head(r2) = ToCont /\ Tail(r2) = r1
      /\ r1 # << >> /\ Head(r1) = ToCont /\ Tail(r1) = << >>
  OBVIOUS
<1>2. CallThenCode(a, b) = r4 BY DEF CallThenCode
<1>3. /\ Len(d) + LocSize + LocSize <= StackSize /\ LocSize \in Nat /\ StackSize \in Nat
      /\ Len(d) \in Nat /\ k \in 1 .. 4 /\ k + 1 \in 1 .. 4
  BY Sizes, LenProperties DEF Bytes
<1> HIDE DEF r1, r2, r3, r4
<1>4. Go(r4, d, c, r3, e, c) /\ e \in Bytes /\ Len(e) + LocSize <= StackSize
  BY <1>1, <1>3, LinkLookup
<1> HIDE DEF e
<1>5. Len(e) + LocSize + 0 <= StackSize BY <1>3, <1>4, LenProperties DEF Bytes
<1>6. Go(r3, e, c, r2, e \o Link(b), c) BY <1>1, <1>3, <1>4, <1>5, LinkLookup
<1>7. Go(r2, e \o Link(b), c, r1, e, f) /\ Depth(f, k + 1) BY <1>1, <1>3, <1>4, LinkToCont
<1> HIDE DEF f
<1>8. Go(r1, d \o Link(a), f, << >>, d, f \o Link(a)) BY <1>1, <1>3, <1>7, LinkToCont
<1>9. Go(r4, d, c, << >>, d, f \o Link(a)) BY <1>4, <1>6, <1>7, <1>8, GoOn DEF e
<1> QED BY <1>2, <1>7, <1>9 DEF f
-----------------------------------------------------------------------------
(* The words and the code of each. *)

Code(w) == Compile(mod.body[w])

PushCallCode(n, a)        == <<PushI32(n), PushLoc(wordMap[a]), ToCont>>
PushCallThenCode(n, a, b) == <<PushI32(n), PushLoc(wordMap[a]), PushLoc(wordMap[b]), ToCont, ToCont>>
IfCode(u, v)              == <<PushLoc(wordMap[u]), PushLoc(wordMap[v]), PushLoc(wordMap["if"]), ToCont>>

AllWords ==
  { "main", "main$q21", "times$i32", "factorial$i32",
    "main$q21$k22", "dup$i32", "times$k19$i32", "factorial_accum$i32",
    "swap$i32_i32", "factorial_accum$k8$i32", "factorial_accum$k9$i32", "drop$i32",
    "icmp$sle_i32", "times$k20$i32", "times$q11$i32", "times$q13$i32",
    "if", "sub$i32", "times$q13$k14$i32", "times$q11$k12",
    "drop$quot", "factorial_accum$k10$i32", "swap$quot_i32", "times$q13$k15$i32",
    "dup$quot", "times$q13$k16$i32", "apply", "times$q13$k17$i32",
    "swap$i32_quot", "times$q13$k18$i32", "select$quot", "if$k0",
    "tocont", "factorial_accum$q1$i32", "factorial_accum$q2$i32", "factorial_accum$q2$k3$i32",
    "factorial_accum$q2$k4$i32", "factorial_accum$q2$k5$i32", "rot$i32_i32_i32", "factorial_accum$q2$k6$i32",
    "mul$i32", "factorial_accum$q2$k7$i32" }

LEMMA FactorialWordsAreAll ==
  /\ {FactorialWords[i] : i \in DOMAIN FactorialWords} = AllWords
  /\ Len(FactorialWords) = 42
<1>1. Len(FactorialWords) = 42 /\ DOMAIN FactorialWords = 1 .. 42 BY DEF FactorialWords
<1>2. FactorialWords[1] = "main" /\ FactorialWords[2] = "main$q21"
      /\ FactorialWords[3] = "times$i32"
      /\ FactorialWords[4] = "factorial$i32"
      /\ FactorialWords[5] = "main$q21$k22"
      /\ FactorialWords[6] = "dup$i32"
      /\ FactorialWords[7] = "times$k19$i32"
  BY DEF FactorialWords
<1>3. FactorialWords[8] = "factorial_accum$i32" /\ FactorialWords[9] = "swap$i32_i32"
      /\ FactorialWords[10] = "factorial_accum$k8$i32"
      /\ FactorialWords[11] = "factorial_accum$k9$i32"
      /\ FactorialWords[12] = "drop$i32"
      /\ FactorialWords[13] = "icmp$sle_i32"
      /\ FactorialWords[14] = "times$k20$i32"
  BY DEF FactorialWords
<1>4. FactorialWords[15] = "times$q11$i32" /\ FactorialWords[16] = "times$q13$i32"
      /\ FactorialWords[17] = "if"
      /\ FactorialWords[18] = "sub$i32"
      /\ FactorialWords[19] = "times$q13$k14$i32"
      /\ FactorialWords[20] = "times$q11$k12"
      /\ FactorialWords[21] = "drop$quot"
  BY DEF FactorialWords
<1>5. FactorialWords[22] = "factorial_accum$k10$i32" /\ FactorialWords[23] = "swap$quot_i32"
      /\ FactorialWords[24] = "times$q13$k15$i32"
      /\ FactorialWords[25] = "dup$quot"
      /\ FactorialWords[26] = "times$q13$k16$i32"
      /\ FactorialWords[27] = "apply"
      /\ FactorialWords[28] = "times$q13$k17$i32"
  BY DEF FactorialWords
<1>6. FactorialWords[29] = "swap$i32_quot" /\ FactorialWords[30] = "times$q13$k18$i32"
      /\ FactorialWords[31] = "select$quot"
      /\ FactorialWords[32] = "if$k0"
      /\ FactorialWords[33] = "tocont"
      /\ FactorialWords[34] = "factorial_accum$q1$i32"
      /\ FactorialWords[35] = "factorial_accum$q2$i32"
  BY DEF FactorialWords
<1>7. FactorialWords[36] = "factorial_accum$q2$k3$i32" /\ FactorialWords[37] = "factorial_accum$q2$k4$i32"
      /\ FactorialWords[38] = "factorial_accum$q2$k5$i32"
      /\ FactorialWords[39] = "rot$i32_i32_i32"
      /\ FactorialWords[40] = "factorial_accum$q2$k6$i32"
      /\ FactorialWords[41] = "mul$i32"
      /\ FactorialWords[42] = "factorial_accum$q2$k7$i32"
  BY DEF FactorialWords
<1>8. ASSUME NEW i \in 1 .. 42 PROVE FactorialWords[i] \in AllWords
  <2>1. i \in 1 .. 14 \/ i \in 15 .. 28 \/ i \in 29 .. 42 OBVIOUS
  <2>2. CASE i \in 1 .. 14 BY <1>2, <1>3, <2>2 DEF AllWords
  <2>3. CASE i \in 15 .. 28 BY <1>4, <1>5, <2>3 DEF AllWords
  <2>4. CASE i \in 29 .. 42 BY <1>6, <1>7, <2>4 DEF AllWords
  <2> QED BY <2>1, <2>2, <2>3, <2>4
<1>9. ASSUME NEW w \in AllWords PROVE \E i \in 1 .. 42 : w = FactorialWords[i]
  BY <1>2, <1>3, <1>4, <1>5, <1>6, <1>7, <1>9 DEF AllWords
<1> HIDE DEF FactorialWords
<1> QED BY <1>1, <1>8, <1>9

(* The bodies createFactorialModule gives the words, for any two literals. *)
LEMMA MainBodies ==
  ASSUME NEW c, NEW n
  PROVE  /\ DOMAIN MainBody(c, n) = {"main", "main$q21", "main$q21$k22"}
         /\ MainBody(c, n)["main"] = <<Lookup("main$q21"), PushI32(c)>> \o Call("times$i32")
         /\ MainBody(c, n)["main$q21"] = <<PushI32(n)>> \o CallThen("factorial$i32", "main$q21$k22")
         /\ MainBody(c, n)["main$q21$k22"] = Call("drop$i32")
BY Zenon DEF MainBody

LEMMA PrimitiveBodies ==
  /\ DOMAIN PrimitiveBody = {"dup$i32", "dup$quot", "drop$i32",
           "drop$quot", "swap$i32_i32", "swap$quot_i32",
           "swap$i32_quot", "rot$i32_i32_i32", "sub$i32",
           "mul$i32", "icmp$sle_i32", "select$quot",
           "tocont", "apply", "if",
           "if$k0"}
  /\ PrimitiveBody["dup$i32"] = Shuffled(<<I32>>, <<0, 0>>)
  /\ PrimitiveBody["dup$quot"] = Shuffled(<<Quot>>, <<0, 0>>)
  /\ PrimitiveBody["drop$i32"] = Shuffled(<<I32>>, << >>)
  /\ PrimitiveBody["drop$quot"] = Shuffled(<<Quot>>, << >>)
  /\ PrimitiveBody["swap$i32_i32"] = Shuffled(<<I32, I32>>, <<1, 0>>)
  /\ PrimitiveBody["swap$quot_i32"] = Shuffled(<<Quot, I32>>, <<1, 0>>)
  /\ PrimitiveBody["swap$i32_quot"] = Shuffled(<<I32, Quot>>, <<1, 0>>)
  /\ PrimitiveBody["rot$i32_i32_i32"] = Shuffled(<<I32, I32, I32>>, <<1, 2, 0>>)
  /\ PrimitiveBody["sub$i32"] = On("sub", I32)
  /\ PrimitiveBody["mul$i32"] = On("mul", I32)
  /\ PrimitiveBody["icmp$sle_i32"] = <<[op |-> "icmp", p |-> "sle", t |-> I32]>>
  /\ PrimitiveBody["select$quot"] = On("select", Quot)
  /\ PrimitiveBody["tocont"] = <<ToCont>>
  /\ PrimitiveBody["apply"] = Call("tocont")
  /\ PrimitiveBody["if"] = CallThen("select$quot", "if$k0")
  /\ PrimitiveBody["if$k0"] = Call("tocont")
BY Zenon DEF PrimitiveBody

LEMMA TimesBodies ==
  /\ DOMAIN TimesBody = {"times$i32", "times$k19$i32", "times$k20$i32",
           "times$q11$i32", "times$q11$k12", "times$q13$i32",
           "times$q13$k14$i32", "times$q13$k15$i32", "times$q13$k16$i32",
           "times$q13$k17$i32", "times$q13$k18$i32"}
  /\ TimesBody["times$i32"] = CallThen("dup$i32", "times$k19$i32")
  /\ TimesBody["times$k19$i32"] = <<PushI32(1)>> \o CallThen("icmp$sle_i32", "times$k20$i32")
  /\ TimesBody["times$k20$i32"] = <<Lookup("times$q11$i32"), Lookup("times$q13$i32")>> \o Call("if")
  /\ TimesBody["times$q11$i32"] = CallThen("drop$i32", "times$q11$k12")
  /\ TimesBody["times$q11$k12"] = Call("drop$quot")
  /\ TimesBody["times$q13$i32"] = <<PushI32(1)>> \o CallThen("sub$i32", "times$q13$k14$i32")
  /\ TimesBody["times$q13$k14$i32"] = CallThen("swap$quot_i32", "times$q13$k15$i32")
  /\ TimesBody["times$q13$k15$i32"] = CallThen("dup$quot", "times$q13$k16$i32")
  /\ TimesBody["times$q13$k16$i32"] = CallThen("apply", "times$q13$k17$i32")
  /\ TimesBody["times$q13$k17$i32"] = CallThen("swap$i32_quot", "times$q13$k18$i32")
  /\ TimesBody["times$q13$k18$i32"] = Call("times$i32")
BY Zenon DEF TimesBody

LEMMA FactorialBodies ==
  /\ DOMAIN FactorialBody = {"factorial$i32", "factorial_accum$i32", "factorial_accum$k8$i32",
           "factorial_accum$k9$i32", "factorial_accum$k10$i32"}
  /\ FactorialBody["factorial$i32"] = <<PushI32(1)>> \o Call("factorial_accum$i32")
  /\ FactorialBody["factorial_accum$i32"] = CallThen("swap$i32_i32", "factorial_accum$k8$i32")
  /\ FactorialBody["factorial_accum$k8$i32"] = CallThen("dup$i32", "factorial_accum$k9$i32")
  /\ FactorialBody["factorial_accum$k9$i32"] = <<PushI32(1)>> \o CallThen("icmp$sle_i32", "factorial_accum$k10$i32")
  /\ FactorialBody["factorial_accum$k10$i32"] = <<Lookup("factorial_accum$q1$i32"), Lookup("factorial_accum$q2$i32")>> \o Call("if")
BY Zenon DEF FactorialBody

LEMMA AccumBodies ==
  /\ DOMAIN AccumBody = {"factorial_accum$q1$i32", "factorial_accum$q2$i32", "factorial_accum$q2$k3$i32",
           "factorial_accum$q2$k4$i32", "factorial_accum$q2$k5$i32", "factorial_accum$q2$k6$i32",
           "factorial_accum$q2$k7$i32"}
  /\ AccumBody["factorial_accum$q1$i32"] = Call("drop$i32")
  /\ AccumBody["factorial_accum$q2$i32"] = CallThen("dup$i32", "factorial_accum$q2$k3$i32")
  /\ AccumBody["factorial_accum$q2$k3$i32"] = <<PushI32(1)>> \o CallThen("sub$i32", "factorial_accum$q2$k4$i32")
  /\ AccumBody["factorial_accum$q2$k4$i32"] = CallThen("swap$i32_i32", "factorial_accum$q2$k5$i32")
  /\ AccumBody["factorial_accum$q2$k5$i32"] = CallThen("rot$i32_i32_i32", "factorial_accum$q2$k6$i32")
  /\ AccumBody["factorial_accum$q2$k6$i32"] = CallThen("mul$i32", "factorial_accum$q2$k7$i32")
  /\ AccumBody["factorial_accum$q2$k7$i32"] = Call("factorial_accum$i32")
BY Zenon DEF AccumBody

LEMMA BodyParts ==
  ASSUME NEW c, NEW n, NEW w \in AllWords
  PROVE  /\ w \in DOMAIN MainBody(c, n) => Body(c, n)[w] = MainBody(c, n)[w]
         /\ w \in DOMAIN PrimitiveBody => Body(c, n)[w] = PrimitiveBody[w]
         /\ w \in DOMAIN TimesBody => Body(c, n)[w] = TimesBody[w]
         /\ w \in DOMAIN FactorialBody => Body(c, n)[w] = FactorialBody[w]
         /\ w \in DOMAIN AccumBody => Body(c, n)[w] = AccumBody[w]
<1> DEFINE D == {FactorialWords[i] : i \in DOMAIN FactorialWords}
<1>1. w \in D BY FactorialWordsAreAll
<1> HIDE DEF D
<1>2. Body(c, n)[w] =
        CASE w \in DOMAIN MainBody(c, n) -> MainBody(c, n)[w]
          [] w \in DOMAIN PrimitiveBody -> PrimitiveBody[w]
          [] w \in DOMAIN TimesBody -> TimesBody[w]
          [] w \in DOMAIN FactorialBody -> FactorialBody[w]
          [] w \in DOMAIN AccumBody -> AccumBody[w]
  BY <1>1 DEF Body, D
<1> DEFINE M == DOMAIN MainBody(c, n)
           P == DOMAIN PrimitiveBody
           T == DOMAIN TimesBody
           F == DOMAIN FactorialBody
           A == DOMAIN AccumBody
<1>3. /\ M = {"main", "main$q21", "main$q21$k22"}
      /\ P = {"dup$i32", "dup$quot", "drop$i32",
           "drop$quot", "swap$i32_i32", "swap$quot_i32",
           "swap$i32_quot", "rot$i32_i32_i32", "sub$i32",
           "mul$i32", "icmp$sle_i32", "select$quot",
           "tocont", "apply", "if",
           "if$k0"}
      /\ T = {"times$i32", "times$k19$i32", "times$k20$i32",
           "times$q11$i32", "times$q11$k12", "times$q13$i32",
           "times$q13$k14$i32", "times$q13$k15$i32", "times$q13$k16$i32",
           "times$q13$k17$i32", "times$q13$k18$i32"}
      /\ F = {"factorial$i32", "factorial_accum$i32", "factorial_accum$k8$i32",
           "factorial_accum$k9$i32", "factorial_accum$k10$i32"}
      /\ A = {"factorial_accum$q1$i32", "factorial_accum$q2$i32", "factorial_accum$q2$k3$i32",
           "factorial_accum$q2$k4$i32", "factorial_accum$q2$k5$i32", "factorial_accum$q2$k6$i32",
           "factorial_accum$q2$k7$i32"}
  BY Zenon, MainBodies, PrimitiveBodies, TimesBodies, FactorialBodies, AccumBodies
<1>4. Body(c, n)[w] =
        CASE w \in M -> MainBody(c, n)[w]
          [] w \in P -> PrimitiveBody[w]
          [] w \in T -> TimesBody[w]
          [] w \in F -> FactorialBody[w]
          [] w \in A -> AccumBody[w]
  BY <1>2
<1> HIDE DEF M, P, T, F, A
<1>5. ASSUME w \in M PROVE w \notin P /\ w \notin T /\ w \notin F /\ w \notin A
  BY <1>3, <1>5
<1>6. ASSUME w \in P PROVE w \notin M /\ w \notin T /\ w \notin F /\ w \notin A
  BY <1>3, <1>6
<1>7. ASSUME w \in T PROVE w \notin M /\ w \notin P /\ w \notin F /\ w \notin A
  BY <1>3, <1>7
<1>8. ASSUME w \in F PROVE w \notin M /\ w \notin P /\ w \notin T /\ w \notin A
  BY <1>3, <1>8
<1>9. ASSUME w \in A PROVE w \notin M /\ w \notin P /\ w \notin T /\ w \notin F
  BY <1>3, <1>9
<1> QED BY <1>4, <1>5, <1>6, <1>7, <1>8, <1>9 DEF M, P, T, F, A

(* The literals of the module that was loaded are in it what they are in   *)
(* createFactorialModule.                                                  *)
LEMMA Literals ==
  ASSUME FactorialInstance, mod \in Modules
  PROVE  Count \in Ints /\ N \in Ints /\ mod.words = FactorialWords /\ mod.body = Body(Count, N)
<1>1. PICK c \in Ints, n \in Ints : mod = FactorialModule(c, n) BY DEF FactorialInstance
<1>2. mod.words = FactorialWords /\ mod.body = Body(c, n) BY <1>1 DEF FactorialModule
<1>3. "main" \in AllWords /\ "main$q21" \in AllWords BY DEF AllWords
<1>4. /\ Body(c, n)["main"] = <<Lookup("main$q21"), PushI32(c)>> \o Call("times$i32")
      /\ Body(c, n)["main$q21"] = <<PushI32(n)>> \o CallThen("factorial$i32", "main$q21$k22")
  BY <1>3, BodyParts, MainBodies
<1>5. Count = c
  <2>1. <<Lookup("main$q21"), PushI32(c)>> \o Call("times$i32")
          = <<Lookup("main$q21"), PushI32(c), Lookup("times$i32"), ToCont>>
    BY JoinedTwoTwo DEF Call
  <2>2. mod.body["main"][2] = PushI32(c)
    <3> DEFINE t == <<Lookup("main$q21"), PushI32(c), Lookup("times$i32"), ToCont>>
    <3>1. t[2] = PushI32(c) OBVIOUS
    <3> HIDE DEF t
    <3> QED BY <1>2, <1>4, <2>1, <3>1 DEF t
  <2> QED BY <2>2 DEF Count, PushI32
<1>6. N = n
  <2>1. <<PushI32(n)>> \o CallThen("factorial$i32", "main$q21$k22")
          = <<PushI32(n), Lookup("factorial$i32"), Lookup("main$q21$k22"), ToCont, ToCont>>
    BY JoinedOneFour DEF CallThen
  <2>2. mod.body["main$q21"][1] = PushI32(n)
    <3> DEFINE t == <<PushI32(n), Lookup("factorial$i32"), Lookup("main$q21$k22"), ToCont, ToCont>>
    <3>1. t[1] = PushI32(n) OBVIOUS
    <3> HIDE DEF t
    <3> QED BY <1>2, <1>4, <2>1, <3>1 DEF t
  <2> QED BY <2>2 DEF N, PushI32
<1> QED BY <1>2, <1>5, <1>6

LEMMA CompiledParts ==
  ASSUME NEW a, NEW b, NEW n
  PROVE  /\ Compile(Call(a)) = CallCode(a)
         /\ Compile(CallThen(a, b)) = CallThenCode(a, b)
         /\ Compile(<<PushI32(n)>> \o Call(a)) = PushCallCode(n, a)
         /\ Compile(<<PushI32(n)>> \o CallThen(a, b)) = PushCallThenCode(n, a, b)
         /\ Compile(<<Lookup(a), Lookup(b)>> \o Call("if")) = IfCode(a, b)
BY CompiledCall, CompiledCallThen, CompiledPushCall, CompiledPushCallThen, CompiledLookups
   DEF PushCallCode, PushCallThenCode, IfCode

LEMMA MainCodes ==
  ASSUME FactorialInstance, mod \in Modules
  PROVE  /\ Code("main") = <<PushLoc(wordMap["main$q21"]), PushI32(Count), PushLoc(wordMap["times$i32"]), ToCont>>
         /\ Code("main$q21") = PushCallThenCode(N, "factorial$i32", "main$q21$k22")
         /\ Code("main$q21$k22") = CallCode("drop$i32")
<1> DEFINE B == MainBody(Count, N)
<1>1. mod.body = Body(Count, N) BY Literals
<1>2. ASSUME NEW w \in DOMAIN B PROVE mod.body[w] = B[w]
  <2>1. w \in AllWords BY MainBodies DEF AllWords
  <2> QED BY <1>1, <2>1, BodyParts
<1>3. mod.body["main"] = <<Lookup("main$q21"), PushI32(Count)>> \o Call("times$i32") BY <1>2, MainBodies
<1>4. mod.body["main$q21"] = <<PushI32(N)>> \o CallThen("factorial$i32", "main$q21$k22") BY <1>2, MainBodies
<1>5. mod.body["main$q21$k22"] = Call("drop$i32") BY <1>2, MainBodies
<1> HIDE DEF B
<1>6. Code("main") = <<PushLoc(wordMap["main$q21"]), PushI32(Count), PushLoc(wordMap["times$i32"]), ToCont>>
  BY <1>3, CompiledMain DEF Code
<1>7. Code("main$q21") = PushCallThenCode(N, "factorial$i32", "main$q21$k22")
  BY <1>4, CompiledParts DEF Code
<1>8. Code("main$q21$k22") = CallCode("drop$i32")
  BY <1>5, CompiledParts DEF Code
<1> QED BY <1>6, <1>7, <1>8

LEMMA PrimitiveCodes ==
  ASSUME FactorialInstance, mod \in Modules
  PROVE  /\ Code("dup$i32") = <<[op |-> "shuffle", in |-> <<I32>>, out |-> <<0, 0>>]>>
         /\ Code("dup$quot") = <<[op |-> "shuffle", in |-> <<Quot>>, out |-> <<0, 0>>]>>
         /\ Code("drop$i32") = <<[op |-> "shuffle", in |-> <<I32>>, out |-> << >>]>>
         /\ Code("drop$quot") = <<[op |-> "shuffle", in |-> <<Quot>>, out |-> << >>]>>
         /\ Code("swap$i32_i32") = <<[op |-> "shuffle", in |-> <<I32, I32>>, out |-> <<1, 0>>]>>
         /\ Code("swap$quot_i32") = <<[op |-> "shuffle", in |-> <<Quot, I32>>, out |-> <<1, 0>>]>>
         /\ Code("swap$i32_quot") = <<[op |-> "shuffle", in |-> <<I32, Quot>>, out |-> <<1, 0>>]>>
         /\ Code("rot$i32_i32_i32") = <<[op |-> "shuffle", in |-> <<I32, I32, I32>>, out |-> <<1, 2, 0>>]>>
         /\ Code("sub$i32") = <<[op |-> "sub", t |-> I32]>>
         /\ Code("mul$i32") = <<[op |-> "mul", t |-> I32]>>
         /\ Code("icmp$sle_i32") = <<[op |-> "icmp", p |-> "sle", t |-> I32]>>
         /\ Code("select$quot") = <<[op |-> "select", t |-> Quot]>>
         /\ Code("tocont") = <<ToCont>>
         /\ Code("apply") = CallCode("tocont")
         /\ Code("if") = CallThenCode("select$quot", "if$k0")
         /\ Code("if$k0") = CallCode("tocont")
<1> DEFINE B == PrimitiveBody
<1>1. mod.body = Body(Count, N) BY Literals
<1>2. ASSUME NEW w \in DOMAIN B PROVE mod.body[w] = B[w]
  <2>1. w \in AllWords BY PrimitiveBodies DEF AllWords
  <2> QED BY <1>1, <2>1, BodyParts
<1>3. mod.body["dup$i32"] = Shuffled(<<I32>>, <<0, 0>>) BY <1>2, PrimitiveBodies
<1>4. mod.body["dup$quot"] = Shuffled(<<Quot>>, <<0, 0>>) BY <1>2, PrimitiveBodies
<1>5. mod.body["drop$i32"] = Shuffled(<<I32>>, << >>) BY <1>2, PrimitiveBodies
<1>6. mod.body["drop$quot"] = Shuffled(<<Quot>>, << >>) BY <1>2, PrimitiveBodies
<1>7. mod.body["swap$i32_i32"] = Shuffled(<<I32, I32>>, <<1, 0>>) BY <1>2, PrimitiveBodies
<1>8. mod.body["swap$quot_i32"] = Shuffled(<<Quot, I32>>, <<1, 0>>) BY <1>2, PrimitiveBodies
<1>9. mod.body["swap$i32_quot"] = Shuffled(<<I32, Quot>>, <<1, 0>>) BY <1>2, PrimitiveBodies
<1>10. mod.body["rot$i32_i32_i32"] = Shuffled(<<I32, I32, I32>>, <<1, 2, 0>>) BY <1>2, PrimitiveBodies
<1>11. mod.body["sub$i32"] = On("sub", I32) BY <1>2, PrimitiveBodies
<1>12. mod.body["mul$i32"] = On("mul", I32) BY <1>2, PrimitiveBodies
<1>13. mod.body["icmp$sle_i32"] = <<[op |-> "icmp", p |-> "sle", t |-> I32]>> BY <1>2, PrimitiveBodies
<1>14. mod.body["select$quot"] = On("select", Quot) BY <1>2, PrimitiveBodies
<1>15. mod.body["tocont"] = <<ToCont>> BY <1>2, PrimitiveBodies
<1>16. mod.body["apply"] = Call("tocont") BY <1>2, PrimitiveBodies
<1>17. mod.body["if"] = CallThen("select$quot", "if$k0") BY <1>2, PrimitiveBodies
<1>18. mod.body["if$k0"] = Call("tocont") BY <1>2, PrimitiveBodies
<1> HIDE DEF B
<1>19. Code("dup$i32") = <<[op |-> "shuffle", in |-> <<I32>>, out |-> <<0, 0>>]>>
  BY <1>3, CompiledOne DEF Code, Shuffled
<1>20. Code("dup$quot") = <<[op |-> "shuffle", in |-> <<Quot>>, out |-> <<0, 0>>]>>
  BY <1>4, CompiledOne DEF Code, Shuffled
<1>21. Code("drop$i32") = <<[op |-> "shuffle", in |-> <<I32>>, out |-> << >>]>>
  BY <1>5, CompiledOne DEF Code, Shuffled
<1>22. Code("drop$quot") = <<[op |-> "shuffle", in |-> <<Quot>>, out |-> << >>]>>
  BY <1>6, CompiledOne DEF Code, Shuffled
<1>23. Code("swap$i32_i32") = <<[op |-> "shuffle", in |-> <<I32, I32>>, out |-> <<1, 0>>]>>
  BY <1>7, CompiledOne DEF Code, Shuffled
<1>24. Code("swap$quot_i32") = <<[op |-> "shuffle", in |-> <<Quot, I32>>, out |-> <<1, 0>>]>>
  BY <1>8, CompiledOne DEF Code, Shuffled
<1>25. Code("swap$i32_quot") = <<[op |-> "shuffle", in |-> <<I32, Quot>>, out |-> <<1, 0>>]>>
  BY <1>9, CompiledOne DEF Code, Shuffled
<1>26. Code("rot$i32_i32_i32") = <<[op |-> "shuffle", in |-> <<I32, I32, I32>>, out |-> <<1, 2, 0>>]>>
  BY <1>10, CompiledOne DEF Code, Shuffled
<1>27. Code("sub$i32") = <<[op |-> "sub", t |-> I32]>>
  BY <1>11, CompiledOne DEF Code, On
<1>28. Code("mul$i32") = <<[op |-> "mul", t |-> I32]>>
  BY <1>12, CompiledOne DEF Code, On
<1>29. Code("icmp$sle_i32") = <<[op |-> "icmp", p |-> "sle", t |-> I32]>>
  BY <1>13, CompiledOne DEF Code
<1>30. Code("select$quot") = <<[op |-> "select", t |-> Quot]>>
  BY <1>14, CompiledOne DEF Code, On
<1>31. Code("tocont") = <<ToCont>>
  BY <1>15, CompiledOne DEF Code, ToCont
<1>32. Code("apply") = CallCode("tocont")
  BY <1>16, CompiledParts DEF Code
<1>33. Code("if") = CallThenCode("select$quot", "if$k0")
  BY <1>17, CompiledParts DEF Code
<1>34. Code("if$k0") = CallCode("tocont")
  BY <1>18, CompiledParts DEF Code
<1> QED BY <1>19, <1>20, <1>21, <1>22, <1>23, <1>24, <1>25, <1>26, <1>27, <1>28, <1>29, <1>30, <1>31, <1>32, <1>33, <1>34

LEMMA TimesCodes ==
  ASSUME FactorialInstance, mod \in Modules
  PROVE  /\ Code("times$i32") = CallThenCode("dup$i32", "times$k19$i32")
         /\ Code("times$k19$i32") = PushCallThenCode(1, "icmp$sle_i32", "times$k20$i32")
         /\ Code("times$k20$i32") = IfCode("times$q11$i32", "times$q13$i32")
         /\ Code("times$q11$i32") = CallThenCode("drop$i32", "times$q11$k12")
         /\ Code("times$q11$k12") = CallCode("drop$quot")
         /\ Code("times$q13$i32") = PushCallThenCode(1, "sub$i32", "times$q13$k14$i32")
         /\ Code("times$q13$k14$i32") = CallThenCode("swap$quot_i32", "times$q13$k15$i32")
         /\ Code("times$q13$k15$i32") = CallThenCode("dup$quot", "times$q13$k16$i32")
         /\ Code("times$q13$k16$i32") = CallThenCode("apply", "times$q13$k17$i32")
         /\ Code("times$q13$k17$i32") = CallThenCode("swap$i32_quot", "times$q13$k18$i32")
         /\ Code("times$q13$k18$i32") = CallCode("times$i32")
<1> DEFINE B == TimesBody
<1>1. mod.body = Body(Count, N) BY Literals
<1>2. ASSUME NEW w \in DOMAIN B PROVE mod.body[w] = B[w]
  <2>1. w \in AllWords BY TimesBodies DEF AllWords
  <2> QED BY <1>1, <2>1, BodyParts
<1>3. mod.body["times$i32"] = CallThen("dup$i32", "times$k19$i32") BY <1>2, TimesBodies
<1>4. mod.body["times$k19$i32"] = <<PushI32(1)>> \o CallThen("icmp$sle_i32", "times$k20$i32") BY <1>2, TimesBodies
<1>5. mod.body["times$k20$i32"] = <<Lookup("times$q11$i32"), Lookup("times$q13$i32")>> \o Call("if") BY <1>2, TimesBodies
<1>6. mod.body["times$q11$i32"] = CallThen("drop$i32", "times$q11$k12") BY <1>2, TimesBodies
<1>7. mod.body["times$q11$k12"] = Call("drop$quot") BY <1>2, TimesBodies
<1>8. mod.body["times$q13$i32"] = <<PushI32(1)>> \o CallThen("sub$i32", "times$q13$k14$i32") BY <1>2, TimesBodies
<1>9. mod.body["times$q13$k14$i32"] = CallThen("swap$quot_i32", "times$q13$k15$i32") BY <1>2, TimesBodies
<1>10. mod.body["times$q13$k15$i32"] = CallThen("dup$quot", "times$q13$k16$i32") BY <1>2, TimesBodies
<1>11. mod.body["times$q13$k16$i32"] = CallThen("apply", "times$q13$k17$i32") BY <1>2, TimesBodies
<1>12. mod.body["times$q13$k17$i32"] = CallThen("swap$i32_quot", "times$q13$k18$i32") BY <1>2, TimesBodies
<1>13. mod.body["times$q13$k18$i32"] = Call("times$i32") BY <1>2, TimesBodies
<1> HIDE DEF B
<1>14. Code("times$i32") = CallThenCode("dup$i32", "times$k19$i32")
  BY <1>3, CompiledParts DEF Code
<1>15. Code("times$k19$i32") = PushCallThenCode(1, "icmp$sle_i32", "times$k20$i32")
  BY <1>4, CompiledParts DEF Code
<1>16. Code("times$k20$i32") = IfCode("times$q11$i32", "times$q13$i32")
  BY <1>5, CompiledParts DEF Code
<1>17. Code("times$q11$i32") = CallThenCode("drop$i32", "times$q11$k12")
  BY <1>6, CompiledParts DEF Code
<1>18. Code("times$q11$k12") = CallCode("drop$quot")
  BY <1>7, CompiledParts DEF Code
<1>19. Code("times$q13$i32") = PushCallThenCode(1, "sub$i32", "times$q13$k14$i32")
  BY <1>8, CompiledParts DEF Code
<1>20. Code("times$q13$k14$i32") = CallThenCode("swap$quot_i32", "times$q13$k15$i32")
  BY <1>9, CompiledParts DEF Code
<1>21. Code("times$q13$k15$i32") = CallThenCode("dup$quot", "times$q13$k16$i32")
  BY <1>10, CompiledParts DEF Code
<1>22. Code("times$q13$k16$i32") = CallThenCode("apply", "times$q13$k17$i32")
  BY <1>11, CompiledParts DEF Code
<1>23. Code("times$q13$k17$i32") = CallThenCode("swap$i32_quot", "times$q13$k18$i32")
  BY <1>12, CompiledParts DEF Code
<1>24. Code("times$q13$k18$i32") = CallCode("times$i32")
  BY <1>13, CompiledParts DEF Code
<1> QED BY <1>14, <1>15, <1>16, <1>17, <1>18, <1>19, <1>20, <1>21, <1>22, <1>23, <1>24

LEMMA FactorialCodes ==
  ASSUME FactorialInstance, mod \in Modules
  PROVE  /\ Code("factorial$i32") = PushCallCode(1, "factorial_accum$i32")
         /\ Code("factorial_accum$i32") = CallThenCode("swap$i32_i32", "factorial_accum$k8$i32")
         /\ Code("factorial_accum$k8$i32") = CallThenCode("dup$i32", "factorial_accum$k9$i32")
         /\ Code("factorial_accum$k9$i32") = PushCallThenCode(1, "icmp$sle_i32", "factorial_accum$k10$i32")
         /\ Code("factorial_accum$k10$i32") = IfCode("factorial_accum$q1$i32", "factorial_accum$q2$i32")
<1> DEFINE B == FactorialBody
<1>1. mod.body = Body(Count, N) BY Literals
<1>2. ASSUME NEW w \in DOMAIN B PROVE mod.body[w] = B[w]
  <2>1. w \in AllWords BY FactorialBodies DEF AllWords
  <2> QED BY <1>1, <2>1, BodyParts
<1>3. mod.body["factorial$i32"] = <<PushI32(1)>> \o Call("factorial_accum$i32") BY <1>2, FactorialBodies
<1>4. mod.body["factorial_accum$i32"] = CallThen("swap$i32_i32", "factorial_accum$k8$i32") BY <1>2, FactorialBodies
<1>5. mod.body["factorial_accum$k8$i32"] = CallThen("dup$i32", "factorial_accum$k9$i32") BY <1>2, FactorialBodies
<1>6. mod.body["factorial_accum$k9$i32"] = <<PushI32(1)>> \o CallThen("icmp$sle_i32", "factorial_accum$k10$i32") BY <1>2, FactorialBodies
<1>7. mod.body["factorial_accum$k10$i32"] = <<Lookup("factorial_accum$q1$i32"), Lookup("factorial_accum$q2$i32")>> \o Call("if") BY <1>2, FactorialBodies
<1> HIDE DEF B
<1>8. Code("factorial$i32") = PushCallCode(1, "factorial_accum$i32")
  BY <1>3, CompiledParts DEF Code
<1>9. Code("factorial_accum$i32") = CallThenCode("swap$i32_i32", "factorial_accum$k8$i32")
  BY <1>4, CompiledParts DEF Code
<1>10. Code("factorial_accum$k8$i32") = CallThenCode("dup$i32", "factorial_accum$k9$i32")
  BY <1>5, CompiledParts DEF Code
<1>11. Code("factorial_accum$k9$i32") = PushCallThenCode(1, "icmp$sle_i32", "factorial_accum$k10$i32")
  BY <1>6, CompiledParts DEF Code
<1>12. Code("factorial_accum$k10$i32") = IfCode("factorial_accum$q1$i32", "factorial_accum$q2$i32")
  BY <1>7, CompiledParts DEF Code
<1> QED BY <1>8, <1>9, <1>10, <1>11, <1>12

LEMMA AccumCodes ==
  ASSUME FactorialInstance, mod \in Modules
  PROVE  /\ Code("factorial_accum$q1$i32") = CallCode("drop$i32")
         /\ Code("factorial_accum$q2$i32") = CallThenCode("dup$i32", "factorial_accum$q2$k3$i32")
         /\ Code("factorial_accum$q2$k3$i32") = PushCallThenCode(1, "sub$i32", "factorial_accum$q2$k4$i32")
         /\ Code("factorial_accum$q2$k4$i32") = CallThenCode("swap$i32_i32", "factorial_accum$q2$k5$i32")
         /\ Code("factorial_accum$q2$k5$i32") = CallThenCode("rot$i32_i32_i32", "factorial_accum$q2$k6$i32")
         /\ Code("factorial_accum$q2$k6$i32") = CallThenCode("mul$i32", "factorial_accum$q2$k7$i32")
         /\ Code("factorial_accum$q2$k7$i32") = CallCode("factorial_accum$i32")
<1> DEFINE B == AccumBody
<1>1. mod.body = Body(Count, N) BY Literals
<1>2. ASSUME NEW w \in DOMAIN B PROVE mod.body[w] = B[w]
  <2>1. w \in AllWords BY AccumBodies DEF AllWords
  <2> QED BY <1>1, <2>1, BodyParts
<1>3. mod.body["factorial_accum$q1$i32"] = Call("drop$i32") BY <1>2, AccumBodies
<1>4. mod.body["factorial_accum$q2$i32"] = CallThen("dup$i32", "factorial_accum$q2$k3$i32") BY <1>2, AccumBodies
<1>5. mod.body["factorial_accum$q2$k3$i32"] = <<PushI32(1)>> \o CallThen("sub$i32", "factorial_accum$q2$k4$i32") BY <1>2, AccumBodies
<1>6. mod.body["factorial_accum$q2$k4$i32"] = CallThen("swap$i32_i32", "factorial_accum$q2$k5$i32") BY <1>2, AccumBodies
<1>7. mod.body["factorial_accum$q2$k5$i32"] = CallThen("rot$i32_i32_i32", "factorial_accum$q2$k6$i32") BY <1>2, AccumBodies
<1>8. mod.body["factorial_accum$q2$k6$i32"] = CallThen("mul$i32", "factorial_accum$q2$k7$i32") BY <1>2, AccumBodies
<1>9. mod.body["factorial_accum$q2$k7$i32"] = Call("factorial_accum$i32") BY <1>2, AccumBodies
<1> HIDE DEF B
<1>10. Code("factorial_accum$q1$i32") = CallCode("drop$i32")
  BY <1>3, CompiledParts DEF Code
<1>11. Code("factorial_accum$q2$i32") = CallThenCode("dup$i32", "factorial_accum$q2$k3$i32")
  BY <1>4, CompiledParts DEF Code
<1>12. Code("factorial_accum$q2$k3$i32") = PushCallThenCode(1, "sub$i32", "factorial_accum$q2$k4$i32")
  BY <1>5, CompiledParts DEF Code
<1>13. Code("factorial_accum$q2$k4$i32") = CallThenCode("swap$i32_i32", "factorial_accum$q2$k5$i32")
  BY <1>6, CompiledParts DEF Code
<1>14. Code("factorial_accum$q2$k5$i32") = CallThenCode("rot$i32_i32_i32", "factorial_accum$q2$k6$i32")
  BY <1>7, CompiledParts DEF Code
<1>15. Code("factorial_accum$q2$k6$i32") = CallThenCode("mul$i32", "factorial_accum$q2$k7$i32")
  BY <1>8, CompiledParts DEF Code
<1>16. Code("factorial_accum$q2$k7$i32") = CallCode("factorial_accum$i32")
  BY <1>9, CompiledParts DEF Code
<1> QED BY <1>10, <1>11, <1>12, <1>13, <1>14, <1>15, <1>16
-----------------------------------------------------------------------------
(* Induction, from the fact that < is well-founded on the numbers. *)
LEMMA LeastNumber == ASSUME NEW S, S \subseteq Nat, S # {} PROVE \E n \in S : \A m \in S : n <= m
<1> DEFINE R == OpToRel(<, Nat)
<1>1. IsWellFoundedOn(R, Nat) BY NatLessThanWellFounded
<1>2. \A x \in Nat, y \in Nat : x < y => <<x, y>> \in R BY DEF OpToRel
<1> HIDE DEF R
<1>3. PICK n \in S : \A m \in S : ~(<<m, n>> \in R) BY <1>1, WFMin
<1>4. ASSUME NEW m \in S PROVE n <= m
  <2>1. m \in Nat /\ n \in Nat OBVIOUS
  <2>2. ~(m < n) BY <1>2, <1>3, <2>1
  <2> QED BY <2>1, <2>2
<1> QED BY <1>4

LEMMA UpTo ==
  ASSUME NEW n \in Nat, NEW S, 0 \in S, \A i \in 0 .. n - 1 : i \in S => i + 1 \in S
  PROVE  n \in S
<1> DEFINE T == {i \in 0 .. n : i \notin S}
<1>1. SUFFICES ASSUME T # {} PROVE FALSE OBVIOUS
<1>2. T \subseteq Nat OBVIOUS
<1> HIDE DEF T
<1>3. PICK k \in T : \A m \in T : k <= m BY <1>1, <1>2, LeastNumber
<1> USE DEF T
<1>4. k # 0 /\ k - 1 \in 0 .. n - 1 OBVIOUS
<1>5. k - 1 \in S BY <1>3, <1>4
<1>6. k - 1 + 1 = k BY <1>4
<1> QED BY <1>4, <1>5, <1>6

(* The recursive function Product is what its definition says. *)
LEMMA ProductIs ==
  ASSUME FactorialInstance
  PROVE  /\ Product[-Half] = -Half
         /\ \A i \in -Half .. Half : Product[i] \in Int
         /\ \A i \in -Half + 1 .. Half : Product[i] = i * Product[i - 1]
<1> DEFINE D == -Half .. Half
           G(n, h) == /\ h \in [0 .. n -> Int] /\ h[0] = -Half
                      /\ \A j \in 1 .. n : h[j] = (j - Half) * h[j - 1]
           S == {n \in 0 .. 2 * Half : \E h : G(n, h)}
<1>1. Half \in Nat /\ 2 * Half \in Nat BY Sizes
<1>2. 0 \in S
  <2> DEFINE h == [j \in 0 .. 0 |-> -Half]
  <2>1. h \in [0 .. 0 -> Int] /\ h[0] = -Half BY <1>1
  <2>2. \A j \in 1 .. 0 : h[j] = (j - Half) * h[j - 1] OBVIOUS
  <2> HIDE DEF h
  <2> QED BY <1>1, <2>1, <2>2
<1>3. ASSUME NEW n \in 0 .. 2 * Half - 1, n \in S PROVE n + 1 \in S
  <2>1. PICK h : G(n, h) BY <1>3
  <2> DEFINE g == [j \in 0 .. n + 1 |-> IF j = n + 1 THEN (n + 1 - Half) * h[n] ELSE h[j]]
  <2>2. h[n] \in Int /\ n + 1 - Half \in Int /\ \A j \in 0 .. n : h[j] \in Int BY <1>1, <2>1
  <2>3. (n + 1 - Half) * h[n] \in Int BY <2>2
  <2>4. g \in [0 .. n + 1 -> Int] BY <1>1, <2>2, <2>3
  <2>5. g[0] = -Half /\ \A j \in 0 .. n : g[j] = h[j] BY <1>1, <2>1
  <2>6. g[n + 1] = (n + 1 - Half) * h[n] BY <1>1
  <2> HIDE DEF g
  <2>7. ASSUME NEW j \in 1 .. n + 1 PROVE g[j] = (j - Half) * g[j - 1]
    <3>1. CASE j = n + 1
      <4>1. j - 1 = n /\ n \in 0 .. n /\ j - Half = n + 1 - Half BY <1>1, <3>1
      <4>2. g[j - 1] = h[n] BY <2>5, <4>1
      <4> DEFINE a == n + 1 - Half
      <4>3. g[n + 1] = a * h[n] /\ j - Half = a BY <2>6, <4>1
      <4> HIDE DEF a
      <4> QED BY <3>1, <4>2, <4>3
    <3>2. CASE j # n + 1
      <4>1. j \in 1 .. n /\ j \in 0 .. n /\ j - 1 \in 0 .. n BY <1>1, <3>2
      <4>2. h[j] = (j - Half) * h[j - 1] BY <2>1, <4>1
      <4> QED BY <2>5, <4>1, <4>2
    <3> QED BY <3>1, <3>2
  <2>8. n + 1 \in 0 .. 2 * Half BY <1>1
  <2> QED BY <2>4, <2>5, <2>7, <2>8
<1>4. 2 * Half \in S
  <2> HIDE DEF S
  <2> QED BY <1>1, <1>2, <1>3, UpTo
<1>5. PICK h : G(2 * Half, h) BY <1>4
<1> DEFINE p == [i \in D |-> h[i + Half]]
           F(f) == f = [i \in D |-> IF i = -Half THEN i ELSE i * f[i - 1]]
<1>6. F(p)
  <2>1. ASSUME NEW i \in D PROVE p[i] = IF i = -Half THEN i ELSE i * p[i - 1]
    <3>1. CASE i = -Half
      <4>1. i + Half = 0 BY <1>1, <3>1
      <4> QED BY <1>5, <3>1, <4>1
    <3>2. CASE i # -Half
      <4>1. i - 1 \in D /\ i + Half \in 1 .. 2 * Half /\ i + Half - Half = i /\ i + Half - 1 = i - 1 + Half
        BY <1>1, <3>2
      <4> DEFINE j == i + Half
      <4>2. j \in 1 .. 2 * Half /\ j - Half = i /\ j - 1 = i - 1 + Half BY <1>1, <4>1
      <4>0. p[i] = h[j] /\ p[i - 1] = h[i - 1 + Half] BY <4>1
      <4> HIDE DEF j, p
      <4>3. h[j] = (j - Half) * h[j - 1] BY <1>5, <4>2
      <4>4. h[j] = i * h[j - 1] BY <4>2, <4>3
      <4>5. p[i - 1] = h[j - 1] BY <4>0, <4>2
      <4>6. p[i] = i * p[i - 1] BY <4>0, <4>4, <4>5
      <4> QED BY <3>2, <4>6
    <3> QED BY <3>1, <3>2
  <2>2. p = [i \in D |-> p[i]] OBVIOUS
  <2> HIDE DEF p, D
  <2> QED BY <2>1, <2>2
<1>7. Product = CHOOSE f : F(f) BY DEF Product
<1>8. F(Product)
  <2> HIDE DEF F
  <2> QED BY <1>6, <1>7
<1>9. \A i \in D : Product[i] = p[i]
  <2> DEFINE K(n) == n - Half
             T == {n \in 0 .. 2 * Half : Product[K(n)] = p[K(n)]}
  <2>1. K(0) = -Half /\ -Half \in D BY <1>1
  <2>2. 0 \in T
    <3>1. Product[-Half] = -Half /\ p[-Half] = -Half
      <4> HIDE DEF D, p, K
      <4> QED BY <1>6, <1>8, <2>1
    <3>2. 0 \in 0 .. 2 * Half BY <1>1
    <3> HIDE DEF D, p, K
    <3> QED BY <2>1, <3>1, <3>2
  <2>3. ASSUME NEW n \in 0 .. 2 * Half - 1, n \in T PROVE n + 1 \in T
    <3>1. K(n + 1) \in D /\ K(n + 1) # -Half /\ K(n + 1) - 1 = K(n) /\ n + 1 \in 0 .. 2 * Half BY <1>1
    <3> HIDE DEF K, D, p
    <3>2. /\ Product[K(n + 1)] = K(n + 1) * Product[K(n + 1) - 1]
          /\ p[K(n + 1)] = K(n + 1) * p[K(n + 1) - 1]
      <4> HIDE DEF T
      <4> QED BY <1>6, <1>8, <3>1
    <3>3. Product[K(n)] = p[K(n)] BY <2>3
    <3>4. Product[K(n + 1)] = p[K(n + 1)] BY <3>1, <3>2, <3>3
    <3> QED BY <3>1, <3>4
  <2>4. ASSUME NEW i \in D PROVE Product[i] = p[i]
    <3> DEFINE m == i + Half
    <3>1. m \in Nat /\ m <= 2 * Half /\ K(m) = i BY <1>1
    <3> HIDE DEF T, m
    <3>2. \A n \in 0 .. m - 1 : n \in T => n + 1 \in T BY <1>1, <2>3, <3>1
    <3>3. m \in T BY <2>2, <3>1, <3>2, UpTo
    <3> USE DEF T
    <3> HIDE DEF K, p, D
    <3> QED BY <3>1, <3>3
  <2> HIDE DEF p, D
  <2> QED BY <2>4
<1>10. ASSUME NEW i \in D PROVE Product[i] \in Int
  <2>1. i + Half \in 0 .. 2 * Half BY <1>1
  <2> QED BY <1>5, <1>9, <2>1
<1>11. ASSUME NEW i \in -Half + 1 .. Half PROVE Product[i] = i * Product[i - 1]
  <2>1. i \in D /\ i # -Half BY <1>1
  <2> QED BY <1>8, <2>1
<1>12. Product[-Half] = -Half
  <2>1. -Half \in D BY <1>1
  <2> QED BY <1>8, <2>1
<1> QED BY <1>10, <1>11, <1>12
-----------------------------------------------------------------------------
(* Arithmetic modulo the integers of the machine. *)

LEMMA Remainder ==
  ASSUME NEW m \in Nat \ {0}, NEW x \in Int
  PROVE  /\ x % m \in 0 .. m - 1
         /\ \E q \in Int : x = m * q + (x % m)
<1> DEFINE q == x \div m
           r == x % m
<1>1. x = m * q + r /\ q \in Int /\ r \in Int /\ 0 <= r /\ r < m OBVIOUS
<1> HIDE DEF q, r
<1>2. r \in 0 .. m - 1 /\ \E p \in Int : x = m * p + r BY <1>1
<1> QED BY <1>2 DEF r

LEMMA NoMultiple ==
  ASSUME NEW m \in Nat \ {0}, NEW t \in Int, m * t < m, -m < m * t
  PROVE  t = 0
<1>1. CASE t >= 1
  <2> DEFINE u == t - 1
  <2>1. u \in Nat /\ m * t = m + m * u BY <1>1
  <2>2. m * u \in Nat BY <2>1
  <2> QED BY <2>1, <2>2
<1>2. CASE t <= -1
  <2> DEFINE u == -1 - t
  <2>1. u \in Nat /\ m * t = -m - m * u BY <1>2
  <2>2. m * u \in Nat BY <2>1
  <2> QED BY <2>1, <2>2
<1> QED BY <1>1, <1>2

LEMMA SameRemainder ==
  ASSUME NEW m \in Nat \ {0}, NEW x \in Int, NEW y \in Int, NEW j \in Int, x = y + m * j
  PROVE  x % m = y % m
<1> DEFINE r == x % m
           s == y % m
<1>1. PICK q \in Int : x = m * q + r BY Remainder
<1>2. PICK p \in Int : y = m * p + s BY Remainder
<1>3. r \in 0 .. m - 1 /\ s \in 0 .. m - 1 BY Remainder
<1> HIDE DEF r, s
<1> DEFINE t == p + j - q
<1>4. t \in Int /\ m * t = m * p + m * j - m * q BY <1>1, <1>2
<1>5. r - s = m * t BY <1>1, <1>2, <1>3, <1>4
<1> HIDE DEF t
<1>6. m * t < m /\ -m < m * t BY <1>3, <1>5
<1>7. t = 0 BY <1>4, <1>6, NoMultiple
<1>8. m * t = 0 BY <1>7
<1>9. r = s BY <1>3, <1>5, <1>8
<1> QED BY <1>9 DEF r, s

LEMMA OwnRemainder ==
  ASSUME NEW m \in Nat \ {0}, NEW x \in 0 .. m - 1
  PROVE  x % m = x
<1>0. x \in Int OBVIOUS
<1>1. PICK q \in Int : x = m * q + (x % m) BY <1>0, Remainder
<1> DEFINE r == x % m
<1>2. r \in 0 .. m - 1 BY <1>0, Remainder
<1>3. x = m * q + r BY <1>1
<1> HIDE DEF r
<1>4. m * q < m /\ -m < m * q /\ m * q \in Int BY <1>2, <1>3
<1>5. q = 0 BY <1>4, NoMultiple
<1>6. m * q = 0 BY <1>5
<1>7. x = r BY <1>2, <1>3, <1>6
<1> QED BY <1>7 DEF r

(* Counting down: the value below, or around at the least integer. *)
LEMMA OneLess ==
  ASSUME FactorialInstance, NEW x \in Ints, Signed(x) < 1
  PROVE  /\ (x - 1) % Modulus \in Ints
         /\ x = Half => (x - 1) % Modulus = Half - 1 /\ Signed(x) = -Half
         /\ x # Half => /\ Signed((x - 1) % Modulus) = Signed(x) - 1
                        /\ Signed(x) \in -Half + 1 .. 0
<1>1. Half \in Nat /\ Half >= 2 /\ Modulus = 2 * Half /\ Modulus \in Nat \ {0}
  BY Sizes DEF FactorialInstance, Modulus
<1>2. x \in 0 .. Modulus - 1 BY DEF Ints
<1>3. x = 0 \/ x >= Half BY <1>1, <1>2 DEF Signed
<1>4. CASE x = 0
  <2>1. Modulus - 1 \in 0 .. Modulus - 1 /\ x - 1 = Modulus - 1 + Modulus * (-1) /\ x - 1 \in Int
    BY <1>1, <1>4
  <2>2. (x - 1) % Modulus = (Modulus - 1) % Modulus BY <1>1, <2>1, SameRemainder
  <2>3. (x - 1) % Modulus = Modulus - 1 BY <1>1, <2>1, <2>2, OwnRemainder
  <2>4. Signed(Modulus - 1) = -1 /\ Signed(x) = 0 BY <1>1, <1>4 DEF Signed
  <2>5. 0 \in -Half + 1 .. 0 /\ -1 = 0 - 1 BY <1>1
  <2> QED BY <1>1, <1>4, <2>1, <2>3, <2>4, <2>5 DEF Ints
<1>5. CASE x >= Half
  <2>1. x - 1 \in 0 .. Modulus - 1 BY <1>1, <1>2, <1>5
  <2>2. (x - 1) % Modulus = x - 1 BY <1>1, <2>1, OwnRemainder
  <2>3. Signed(x) = x - Modulus BY <1>1, <1>5 DEF Signed
  <2>4. x = Half => Signed(x) = -Half BY <1>1, <2>3
  <2>5. x # Half => /\ Signed(x - 1) = Signed(x) - 1 /\ Signed(x) \in -Half + 1 .. 0
    BY <1>1, <1>2, <1>5, <2>3 DEF Signed
  <2> QED BY <1>1, <2>1, <2>2, <2>4, <2>5 DEF Ints
<1> QED BY <1>3, <1>4, <1>5

Later(k) == Signed(Count) < 1 /\ (k = Half - 1 \/ Signed(k) < Signed(Count))
Counts(k) == k = Count \/ Later(k)

LEMMA CountsOn ==
  ASSUME FactorialInstance, NEW k \in Ints, Count \in Ints, Counts(k), Signed(k) < 1
  PROVE  Later((k - 1) % Modulus)
<1>1. Half \in Nat /\ Modulus = 2 * Half /\ Half >= 2 BY Sizes DEF Modulus, FactorialInstance
<1>2. Signed(k) \in Int /\ Signed(Count) \in Int BY <1>1 DEF Signed, Ints
<1>3. Signed(Count) < 1 /\ (Signed(k) <= Signed(Count) \/ k = Half - 1)
  BY <1>2 DEF Counts, Later
<1>4. k # Half - 1 BY <1>1 DEF Signed
<1>5. CASE k = Half BY <1>3, <1>5, OneLess DEF Later
<1>6. CASE k # Half
  <2>1. Signed((k - 1) % Modulus) = Signed(k) - 1 BY <1>6, OneLess
  <2>2. Signed(k) - 1 < Signed(Count) BY <1>2, <1>3, <1>4
  <2> QED BY <1>3, <2>1, <2>2 DEF Later
<1> QED BY <1>5, <1>6

(* The invariant of factorial_accum: the count x, the product a so far. *)
Accums(x, a) ==
  IF Signed(x) >= 1 THEN a = Factored(N)
  ELSE Signed(N) < 1 /\ (a * Product[Signed(x)]) % Modulus = Product[Signed(N)] % Modulus

LEMMA SignedProduct ==
  ASSUME FactorialInstance, NEW x \in Ints
  PROVE  Signed(x) \in -Half .. Half /\ Product[Signed(x)] \in Int
<1>1. Half \in Nat /\ Modulus = 2 * Half BY Sizes DEF Modulus
<1>2. Signed(x) \in -Half .. Half BY <1>1 DEF Signed, Ints
<1> QED BY <1>2, ProductIs

LEMMA AccumsFirst == ASSUME FactorialInstance, N \in Ints PROVE Accums(N, 1)
<1>1. CASE Signed(N) >= 1 BY <1>1 DEF Accums, Factored
<1>2. CASE ~(Signed(N) >= 1)
  <2>1. Product[Signed(N)] \in Int /\ Signed(N) \in Int BY SignedProduct
  <2>2. 1 * Product[Signed(N)] = Product[Signed(N)] /\ Signed(N) < 1 BY <1>2, <2>1
  <2> QED BY <1>2, <2>2 DEF Accums
<1> QED BY <1>1, <1>2

LEMMA Multiplied ==
  ASSUME NEW m \in Int, NEW s \in Int, NEW j \in Int, NEW a \in Int, NEW q \in Int, NEW p \in Int
  PROVE  ((s + m * j) * a - m * q) * p = a * (s * p) + m * (j * a * p - q * p)
OBVIOUS

LEMMA AccumsOn ==
  ASSUME FactorialInstance, N \in Ints, NEW x \in Ints, NEW a \in Ints, Accums(x, a), Signed(x) < 1
  PROVE  Accums((x - 1) % Modulus, (x * a) % Modulus)
<1> DEFINE y == (x - 1) % Modulus
           b == (x * a) % Modulus
           s == Signed(x)
           t == Product[Signed(N)]
<1>1. Half \in Nat /\ Half >= 2 /\ Modulus = 2 * Half /\ Modulus \in Nat \ {0} /\ x \in Int /\ a \in Int
  BY Sizes DEF Modulus, FactorialInstance, Ints
<1>2. /\ s \in Int /\ Product[s] \in Int /\ t \in Int /\ Signed(N) \in Int BY SignedProduct
<1>3. Signed(N) < 1 /\ (a * Product[s]) % Modulus = t % Modulus BY <1>2 DEF Accums
<1>4. PICK j \in Int : x = s + Modulus * j
  <2>1. CASE x >= Half
    <3>1. x = s + Modulus * 1 BY <1>1, <2>1 DEF Signed
    <3> QED BY <3>1
  <2>2. CASE ~(x >= Half)
    <3>1. x = s + Modulus * 0 BY <1>1, <2>2 DEF Signed
    <3> QED BY <3>1
  <2> QED BY <2>1, <2>2
<1>5. x * a \in Int BY <1>1
<1>6. PICK q \in Int : x * a = Modulus * q + b BY <1>1, <1>5, Remainder
<1>7. b \in Int BY <1>1, <1>5, Remainder
<1>8. ASSUME NEW p \in Int PROVE (b * p) % Modulus = (a * (s * p)) % Modulus
  <2> HIDE DEF b, s
  <2>1. b = (s + Modulus * j) * a - Modulus * q BY <1>1, <1>2, <1>4, <1>6, <1>7
  <2>2. b * p = a * (s * p) + Modulus * (j * a * p - q * p) BY <1>1, <1>2, <2>1, Multiplied
  <2> DEFINE u == b * p
             v == a * (s * p)
             w == j * a * p - q * p
  <2>3. u \in Int /\ v \in Int /\ w \in Int BY <1>1, <1>2, <1>7
  <2>4. u = v + Modulus * w BY <2>2
  <2> HIDE DEF u, v, w
  <2>5. u % Modulus = v % Modulus BY <1>1, <2>3, <2>4, SameRemainder
  <2> QED BY <2>5 DEF u, v
<1>9. CASE x = Half
  <2>1. y = Half - 1 /\ s = -Half BY <1>9, OneLess
  <2>2. Signed(y) >= 1 BY <1>1, <2>1 DEF Signed
  <2>3. Product[s] = s BY <2>1, ProductIs
  <2>4. (b * 1) % Modulus = (a * (s * 1)) % Modulus BY <1>8
  <2>5. b * 1 = b /\ s * 1 = s BY <1>2, <1>7
  <2>6. b % Modulus = t % Modulus BY <1>3, <2>3, <2>4, <2>5
  <2>7. b \in 0 .. Modulus - 1 BY <1>1, <1>5, Remainder
  <2>8. b = t % Modulus
    <3> HIDE DEF b
    <3> QED BY <1>1, <2>6, <2>7, OwnRemainder
  <2>9. Factored(N) = t % Modulus BY <1>2, <1>3 DEF Factored
  <2> QED BY <2>2, <2>8, <2>9 DEF Accums
<1>10. CASE x # Half
  <2>1. Signed(y) = s - 1 /\ s \in -Half + 1 .. 0 BY <1>10, OneLess
  <2>2. s \in -Half + 1 .. Half /\ s - 1 \in -Half .. Half BY <1>1, <2>1
  <2>3. Product[s] = s * Product[s - 1] /\ Product[s - 1] \in Int BY <2>2, ProductIs
  <2>4. (b * Product[s - 1]) % Modulus = t % Modulus BY <1>3, <1>8, <2>3
  <2>5. ~(Signed(y) >= 1) BY <1>2, <2>1
  <2> QED BY <1>3, <2>1, <2>4, <2>5 DEF Accums
<1> QED BY <1>9, <1>10
-----------------------------------------------------------------------------
(* The configurations of the program between two words: the word, data and *)
(* cont without the location of the word.  k is the count of times, x and  *)
(* a are the two numbers of factorial_accum.                               *)

Positive(n) == IF Signed(n) >= 1 THEN 1 ELSE 0

TimesData(k)      == Link("main$q21") \o Num(k)
CountData(k)      == Num(k) \o Link("main$q21")
AccumData(k, u, v) == CountData(k) \o Num(u) \o Num(v)

MoreCont  == Bottom \o Link("times$q13$k17$i32")
AccumCont == MoreCont \o Link("main$q21$k22")

TimesBranch(k) == IF Signed(k) >= 1 THEN "times$q11$i32" ELSE "times$q13$i32"
AccumBranch(x) == IF Signed(x) >= 1 THEN "factorial_accum$q1$i32" ELSE "factorial_accum$q2$i32"

InMain(w, d, c) == w = "main" /\ d = << >> /\ c = Bottom

(* times, up to its choice. *)
InTimes(w, k, d, c) ==
  \/ w = "times$i32" /\ d = TimesData(k) /\ c = Bottom
  \/ w = "dup$i32" /\ d = TimesData(k) /\ c = Bottom \o Link("times$k19$i32")
  \/ w = "times$k19$i32" /\ d = TimesData(k) \o Num(k) /\ c = Bottom
  \/ /\ w = "icmp$sle_i32" /\ d = TimesData(k) \o Num(k) \o Num(1)
     /\ c = Bottom \o Link("times$k20$i32")
  \/ w = "times$k20$i32" /\ d = TimesData(k) \o Flag(Positive(k)) /\ c = Bottom
  \/ /\ w = "if" /\ c = Bottom
     /\ d = TimesData(k) \o Flag(Positive(k)) \o Link("times$q11$i32") \o Link("times$q13$i32")
  \/ /\ w = "select$quot" /\ c = Bottom \o Link("if$k0")
     /\ d = TimesData(k) \o Flag(Positive(k)) \o Link("times$q11$i32") \o Link("times$q13$i32")
  \/ w \in {"if$k0", "tocont"} /\ d = TimesData(k) \o Link(TimesBranch(k)) /\ c = Bottom
  \/ w = TimesBranch(k) /\ d = TimesData(k) /\ c = Bottom

(* times, its end. *)
InTimesEnd(w, k, d, c) ==
  \/ w = "drop$i32" /\ d = TimesData(k) /\ c = Bottom \o Link("times$q11$k12")
  \/ w \in {"times$q11$k12", "drop$quot"} /\ d = Link("main$q21") /\ c = Bottom

(* times, counting down. *)
InTimesLast(w, k, d, c) ==
  w = "sub$i32" /\ d = TimesData(k) \o Num(1) /\ c = Bottom \o Link("times$q13$k14$i32")

(* times, running its quotation on the count it goes on with. *)
InTimesMore(w, k, d, c) ==
  \/ w = "times$q13$k14$i32" /\ d = TimesData(k) /\ c = Bottom
  \/ w = "swap$quot_i32" /\ d = TimesData(k) /\ c = Bottom \o Link("times$q13$k15$i32")
  \/ w = "times$q13$k15$i32" /\ d = CountData(k) /\ c = Bottom
  \/ w = "dup$quot" /\ d = CountData(k) /\ c = Bottom \o Link("times$q13$k16$i32")
  \/ w = "times$q13$k16$i32" /\ d = CountData(k) \o Link("main$q21") /\ c = Bottom
  \/ w \in {"apply", "tocont"} /\ d = CountData(k) \o Link("main$q21") /\ c = MoreCont
  \/ w = "main$q21" /\ d = CountData(k) /\ c = MoreCont
  \/ w = "times$q13$k17$i32" /\ d = CountData(k) /\ c = Bottom
  \/ w = "swap$i32_quot" /\ d = CountData(k) /\ c = Bottom \o Link("times$q13$k18$i32")
  \/ w = "times$q13$k18$i32" /\ d = TimesData(k) /\ c = Bottom

InFactorial(w, k, d, c) == w = "factorial$i32" /\ d = CountData(k) \o Num(N) /\ c = AccumCont

(* factorial_accum, up to its choice. *)
InAccum(w, k, x, a, d, c) ==
  \/ w = "factorial_accum$i32" /\ d = AccumData(k, x, a) /\ c = AccumCont
  \/ w = "swap$i32_i32" /\ d = AccumData(k, x, a) /\ c = AccumCont \o Link("factorial_accum$k8$i32")
  \/ w = "factorial_accum$k8$i32" /\ d = AccumData(k, a, x) /\ c = AccumCont
  \/ w = "dup$i32" /\ d = AccumData(k, a, x) /\ c = AccumCont \o Link("factorial_accum$k9$i32")
  \/ w = "factorial_accum$k9$i32" /\ d = AccumData(k, a, x) \o Num(x) /\ c = AccumCont
  \/ /\ w = "icmp$sle_i32" /\ d = AccumData(k, a, x) \o Num(x) \o Num(1)
     /\ c = AccumCont \o Link("factorial_accum$k10$i32")
  \/ w = "factorial_accum$k10$i32" /\ d = AccumData(k, a, x) \o Flag(Positive(x)) /\ c = AccumCont
  \/ /\ w = "if" /\ c = AccumCont
     /\ d = AccumData(k, a, x) \o Flag(Positive(x)) \o Link("factorial_accum$q1$i32")
              \o Link("factorial_accum$q2$i32")
  \/ /\ w = "select$quot" /\ c = AccumCont \o Link("if$k0")
     /\ d = AccumData(k, a, x) \o Flag(Positive(x)) \o Link("factorial_accum$q1$i32")
              \o Link("factorial_accum$q2$i32")
  \/ w \in {"if$k0", "tocont"} /\ d = AccumData(k, a, x) \o Link(AccumBranch(x)) /\ c = AccumCont
  \/ w = AccumBranch(x) /\ d = AccumData(k, a, x) /\ c = AccumCont

(* factorial_accum, its end and that of the quotation of main. *)
InAccumEnd(w, k, x, a, d, c) ==
  \/ w = "drop$i32" /\ d = AccumData(k, a, x) /\ c = AccumCont
  \/ w \in {"main$q21$k22", "drop$i32"} /\ d = CountData(k) \o Num(a) /\ c = MoreCont

(* factorial_accum, counting down. *)
InAccumMore(w, k, x, a, d, c) ==
  LET y == (x - 1) % Modulus
  IN  \/ w = "dup$i32" /\ d = AccumData(k, a, x) /\ c = AccumCont \o Link("factorial_accum$q2$k3$i32")
      \/ w = "factorial_accum$q2$k3$i32" /\ d = AccumData(k, a, x) \o Num(x) /\ c = AccumCont
      \/ /\ w = "sub$i32" /\ d = AccumData(k, a, x) \o Num(x) \o Num(1)
         /\ c = AccumCont \o Link("factorial_accum$q2$k4$i32")
      \/ w = "factorial_accum$q2$k4$i32" /\ d = AccumData(k, a, x) \o Num(y) /\ c = AccumCont
      \/ /\ w = "swap$i32_i32" /\ d = AccumData(k, a, x) \o Num(y)
         /\ c = AccumCont \o Link("factorial_accum$q2$k5$i32")
      \/ w = "factorial_accum$q2$k5$i32" /\ d = AccumData(k, a, y) \o Num(x) /\ c = AccumCont
      \/ /\ w = "rot$i32_i32_i32" /\ d = AccumData(k, a, y) \o Num(x)
         /\ c = AccumCont \o Link("factorial_accum$q2$k6$i32")
      \/ w = "factorial_accum$q2$k6$i32" /\ d = AccumData(k, y, x) \o Num(a) /\ c = AccumCont
      \/ /\ w = "mul$i32" /\ d = AccumData(k, y, x) \o Num(a)
         /\ c = AccumCont \o Link("factorial_accum$q2$k7$i32")
      \/ w = "factorial_accum$q2$k7$i32" /\ d = AccumData(k, y, (x * a) % Modulus) /\ c = AccumCont

Conf(w, d, c) ==
  \/ InMain(w, d, c)
  \/ \E k \in Ints :
       \/ Counts(k) /\ InTimes(w, k, d, c)
       \/ Counts(k) /\ Signed(k) >= 1 /\ InTimesEnd(w, k, d, c)
       \/ Counts(k) /\ Signed(k) < 1 /\ InTimesLast(w, k, d, c)
       \/ Later(k) /\ InTimesMore(w, k, d, c)
       \/ Later(k) /\ InFactorial(w, k, d, c)
       \/ \E x \in Ints, a \in Ints :
            /\ Later(k) /\ Accums(x, a)
            /\ \/ InAccum(w, k, x, a, d, c)
               \/ Signed(x) >= 1 /\ InAccumEnd(w, k, x, a, d, c)
               \/ Signed(x) < 1 /\ InAccumMore(w, k, x, a, d, c)

(* What the driver finds: the location of a word in its configuration, or  *)
(* the NULL of main with nothing left on data.                             *)
Lands(d, c) ==
  \/ d = << >> /\ c = Bottom
  \/ \E w \in Words, b \in Bytes : c = b \o Link(w) /\ Conf(w, d, b)

Goes(w, d, c) == \E d1, c1 : Go(Code(w), d, c, << >>, d1, c1) /\ Lands(d1, c1)
-----------------------------------------------------------------------------
(* Room for what is to come. *)

Room(d, n) == d \in Bytes /\ WholeCells(d) /\ Len(d) + n * LocSize <= StackSize

LEMMA RoomOf ==
  ASSUME FactorialInstance, NEW d, NEW m \in Nat, Data(d, m), NEW n \in Nat, NEW q \in Nat,
         q = n * LocSize, m + q <= StackSize
  PROVE  Room(d, n)
<1>1. Len(d) \in Nat BY LenProperties DEF Data, Bytes
<1>2. Len(d) + q <= StackSize BY <1>1, Sizes DEF Data
<1> QED BY <1>2 DEF Room, Data

(* On four locations' worth of data every word of the program has room. *)
LEMMA RoomsOver ==
  ASSUME FactorialInstance, NEW d, Data(d, 4 * LocSize), NEW n \in Nat, NEW m \in Nat,
         NEW u \in Nat, NEW v \in Nat
  PROVE  /\ Room(d, 3) /\ Len(d) + SizeOf[Bit] <= StackSize
         /\ Room(d \o Num(n), 3) /\ Room(d \o LocBytes(u), 3)
         /\ Room(d \o Num(n) \o Num(m), 2)
         /\ Room(d \o Flag(n), 3)
         /\ Room(d \o Flag(n) \o LocBytes(u), 2)
         /\ Room(d \o Flag(n) \o LocBytes(u) \o LocBytes(v), 2)
<1> DEFINE L == LocSize
           b == SizeOf[Bit]
<1>1. L \in Nat /\ b \in Nat /\ 8 * L + b <= StackSize /\ StackSize \in Nat
  BY Sizes DEF FactorialInstance
<1>2. /\ 4 * L + L \in Nat /\ 4 * L + L + L \in Nat /\ 4 * L + b \in Nat
      /\ 4 * L + b + L \in Nat /\ 4 * L + b + L + L \in Nat /\ 4 * L \in Nat
      /\ 2 * L \in Nat /\ 3 * L \in Nat
  BY <1>1
<1>3. /\ 4 * L + 3 * L <= StackSize /\ 4 * L + b <= StackSize
      /\ 4 * L + L + 3 * L <= StackSize /\ 4 * L + L + L + 2 * L <= StackSize
      /\ 4 * L + b + 3 * L <= StackSize /\ 4 * L + b + L + 2 * L <= StackSize
      /\ 4 * L + b + L + L + 2 * L <= StackSize
  BY <1>1
<1>4. Data(d \o Num(n), 4 * L + L) /\ Data(d \o LocBytes(u), 4 * L + L) /\ Data(d \o Flag(n), 4 * L + b)
  BY <1>2, DataPushed
<1>5. Data(d \o Num(n) \o Num(m), 4 * L + L + L) BY <1>2, <1>4, DataPushed
<1>6. Data(d \o Flag(n) \o LocBytes(u), 4 * L + b + L) BY <1>2, <1>4, DataPushed
<1>7. Data(d \o Flag(n) \o LocBytes(u) \o LocBytes(v), 4 * L + b + L + L) BY <1>2, <1>6, DataPushed
<1>8. Len(d) \in Nat /\ Len(d) <= 4 * L BY LenProperties DEF Data, Bytes
<1>9. Len(d) + b <= StackSize BY <1>1, <1>3, <1>8
<1>10. ASSUME NEW e, NEW k \in Nat, Data(e, k), k + 2 * L <= StackSize PROVE Room(e, 2)
  BY <1>2, <1>10, RoomOf
<1>11. ASSUME NEW e, NEW k \in Nat, Data(e, k), k + 3 * L <= StackSize PROVE Room(e, 3)
  BY <1>2, <1>11, RoomOf
<1> HIDE DEF L, b
<1>12. Room(d, 3) BY <1>2, <1>3, <1>11 DEF L
<1>13. Room(d \o Num(n), 3) /\ Room(d \o LocBytes(u), 3) BY <1>2, <1>3, <1>4, <1>11
<1>14. Room(d \o Num(n) \o Num(m), 2) BY <1>2, <1>3, <1>5, <1>10
<1>15. Room(d \o Flag(n), 3) BY <1>2, <1>3, <1>4, <1>11
<1>16. Room(d \o Flag(n) \o LocBytes(u), 2) BY <1>2, <1>3, <1>6, <1>10
<1>17. Room(d \o Flag(n) \o LocBytes(u) \o LocBytes(v), 2) BY <1>2, <1>3, <1>7, <1>10
<1> QED BY <1>9, <1>12, <1>13, <1>14, <1>15, <1>16, <1>17 DEF b

LEMMA RoomLess ==
  ASSUME FactorialInstance, NEW d, Room(d, 3)
  PROVE  /\ Room(d, 2) /\ Room(d, 1) /\ d \in Bytes /\ Len(d) + LocSize <= StackSize
         /\ Len(d) + 2 * LocSize <= StackSize /\ Len(d) + 3 * LocSize <= StackSize
<1>1. LocSize \in Nat /\ Len(d) \in Nat /\ StackSize \in Nat BY Sizes, LenProperties DEF Room, Bytes
<1>2. 1 * LocSize = LocSize BY <1>1
<1> QED BY <1>1, <1>2 DEF Room

LEMMA RoomTwo ==
  ASSUME FactorialInstance, NEW d, Room(d, 2)
  PROVE  /\ d \in Bytes /\ Len(d) + LocSize <= StackSize /\ Len(d) + 2 * LocSize <= StackSize
<1>1. LocSize \in Nat /\ Len(d) \in Nat /\ StackSize \in Nat BY Sizes, LenProperties DEF Room, Bytes
<1> QED BY <1>1 DEF Room

LEMMA WordsAre == ASSUME FactorialInstance PROVE Words = AllWords
BY FactorialWordsAreAll DEF FactorialInstance

(* The data of the configurations. *)
LEMMA DataIs ==
  ASSUME FactorialInstance, Loaded, NEW k \in Nat, NEW x \in Nat, NEW a \in Nat
  PROVE  /\ Data(TimesData(k), 4 * LocSize) /\ Data(CountData(k), 4 * LocSize)
         /\ Data(AccumData(k, x, a), 4 * LocSize)
         /\ Data(Link("main$q21"), 4 * LocSize) /\ Data(Num(k), 4 * LocSize)
         /\ Data(CountData(k) \o Num(x), 4 * LocSize) /\ Data(<< >>, 4 * LocSize)
         /\ << >> \o Link("main$q21") = Link("main$q21") /\ << >> \o Num(k) = Num(k)
<1> DEFINE q == Link("main$q21")
           L == LocSize
<1>1. "main$q21" \in Words BY WordsAre DEF AllWords
<1>2. wordMap["main$q21"] \in Nat /\ q \in Bytes BY <1>1, LinkIsLocation
<1>3. Num(k) \in Bytes BY Stores
<1>4. << >> \o q = q /\ << >> \o Num(k) = Num(k) BY <1>2, <1>3, ConcatEmptySeq DEF Bytes
<1>5. L \in Nat /\ 0 + L = L /\ L + L \in Nat /\ L + L + L \in Nat BY Sizes
<1>6. Data(<< >> \o q, 0 + L) /\ Data(<< >> \o Num(k), 0 + L)
  <2>1. 0 \in Nat OBVIOUS
  <2> QED BY <1>2, <2>1, NoData, DataPushed DEF Link
<1>7. Data(q, L) /\ Data(Num(k), L) BY <1>4, <1>5, <1>6
<1>8. Data(q \o Num(k), L + L) BY <1>5, <1>7, DataPushed
<1>9. Data(Num(k) \o q, L + L)
  <2>1. q = LocBytes(wordMap["main$q21"]) BY DEF Link
  <2> HIDE DEF q
  <2> QED BY <1>2, <1>5, <1>7, <2>1, DataPushed
<1>10. Data(Num(k) \o q \o Num(x), L + L + L) BY <1>5, <1>9, DataPushed
<1>11. Data(Num(k) \o q \o Num(x) \o Num(a), L + L + L + L) BY <1>5, <1>10, DataPushed
<1>12. ASSUME NEW d, NEW m \in Nat, Data(d, m), m <= 4 * L PROVE Data(d, 4 * L)
  <2>1. Len(d) \in Nat BY <1>12, LenProperties DEF Data, Bytes
  <2> QED BY <1>5, <1>12, <2>1 DEF Data
<1>13. /\ L <= 4 * L /\ L + L <= 4 * L /\ L + L + L <= 4 * L /\ L + L + L + L <= 4 * L
       /\ L + L + L + L \in Nat /\ 0 \in Nat /\ 0 <= 4 * L
  BY <1>5
<1> HIDE DEF L, q
<1>14. Data(q, 4 * L) /\ Data(Num(k), 4 * L) /\ Data(<< >>, 4 * L)
  BY <1>5, <1>7, <1>12, <1>13, NoData
<1>15. Data(q \o Num(k), 4 * L) /\ Data(Num(k) \o q, 4 * L) BY <1>5, <1>8, <1>9, <1>12, <1>13
<1>16. Data(Num(k) \o q \o Num(x) \o Num(a), 4 * L) /\ Data(Num(k) \o q \o Num(x), 4 * L)
  BY <1>5, <1>10, <1>11, <1>12, <1>13
<1> QED BY <1>4, <1>14, <1>15, <1>16 DEF L, q, TimesData, CountData, AccumData

LEMMA BaseRooms ==
  ASSUME FactorialInstance, NEW d, Data(d, 4 * LocSize)
  PROVE  Room(d, 3) /\ Room(d, 2) /\ Len(d) + SizeOf[Bit] <= StackSize
<1>1. 0 \in Nat OBVIOUS
<1>2. Room(d, 3) /\ Len(d) + SizeOf[Bit] <= StackSize BY <1>1, RoomsOver
<1> QED BY <1>2, RoomLess

LEMMA DepthsAre ==
  ASSUME FactorialInstance, Loaded
  PROVE  /\ Depth(Bottom, 1) /\ Depth(MoreCont, 2) /\ Depth(AccumCont, 3)
         /\ \A w \in Words : Depth(Bottom \o Link(w), 2) /\ Depth(AccumCont \o Link(w), 4)
<1>1. "times$q13$k17$i32" \in Words /\ "main$q21$k22" \in Words BY WordsAre DEF AllWords
<1>2. Depth(Bottom, 1) BY DepthOne
<1>3. \A w \in Words : Depth(Bottom \o Link(w), 1 + 1) BY <1>2, DepthPushed
<1>4. Depth(MoreCont, 2) BY <1>1, <1>3 DEF MoreCont
<1>5. Depth(AccumCont, 2 + 1) BY <1>1, <1>4, DepthPushed DEF AccumCont
<1>6. \A w \in Words : Depth(AccumCont \o Link(w), 3 + 1)
  <2>1. Depth(AccumCont, 3) BY <1>5
  <2> QED BY <2>1, DepthPushed
<1> QED BY <1>2, <1>3, <1>4, <1>5, <1>6
-----------------------------------------------------------------------------
(* One word of the program, by the shape of its code. *)

LEMMA CallRow ==
  ASSUME FactorialInstance, Loaded, NEW w, NEW a \in Words, Code(w) = CallCode(a),
         NEW d, NEW c, Room(d, 2), NEW k \in 1 .. 4, Depth(c, k), Conf(a, d, c)
  PROVE  Goes(w, d, c)
<1>1. d \in Bytes /\ Len(d) + LocSize <= StackSize /\ c \in Bytes BY RoomTwo DEF Depth
<1>2. Go(Code(w), d, c, << >>, d, c \o Link(a)) BY <1>1, CallGoes
<1>3. Lands(d, c \o Link(a)) BY <1>1 DEF Lands
<1> QED BY <1>2, <1>3 DEF Goes

LEMMA CallThenRow ==
  ASSUME FactorialInstance, Loaded, NEW w, NEW a \in Words, NEW b \in Words,
         Code(w) = CallThenCode(a, b),
         NEW d, NEW c, Room(d, 2), NEW k \in 1 .. 3, Depth(c, k), Conf(a, d, c \o Link(b))
  PROVE  Goes(w, d, c)
<1>1. d \in Bytes /\ Len(d) + 2 * LocSize <= StackSize BY RoomTwo
<1>2. /\ Go(Code(w), d, c, << >>, d, c \o Link(b) \o Link(a))
      /\ Depth(c \o Link(b), k + 1)
  BY <1>1, CallThenGoes
<1>3. c \o Link(b) \in Bytes BY <1>2 DEF Depth
<1>4. Lands(d, c \o Link(b) \o Link(a)) BY <1>3 DEF Lands
<1> QED BY <1>2, <1>4 DEF Goes

(* The push before such a call. *)
LEMMA Pushes ==
  ASSUME FactorialInstance, NEW n \in Nat, NEW r, NEW run, run # << >>, Head(run) = PushI32(n), Tail(run) = r,
         NEW d, NEW c, Room(d, 3), NEW k \in 1 .. 4, Depth(c, k)
  PROVE  Go(run, d, c, r, d \o Num(n), c)
<1>1. d \in Bytes /\ Len(d) + LocSize <= StackSize /\ Controls(c) BY RoomLess, DepthFits
<1> QED BY <1>1, PushGoes

LEMMA PushCallRow ==
  ASSUME FactorialInstance, Loaded, NEW w, NEW n \in Nat, NEW a \in Words, Code(w) = PushCallCode(n, a),
         NEW d, NEW c, Room(d, 3), Room(d \o Num(n), 2), NEW k \in 1 .. 4, Depth(c, k),
         Conf(a, d \o Num(n), c)
  PROVE  Goes(w, d, c)
<1> DEFINE e == d \o Num(n)
           r == PushCallCode(n, a)
<1>1. r # << >> /\ Head(r) = PushI32(n) /\ Tail(r) = CallCode(a) BY DEF PushCallCode, CallCode
<1> HIDE DEF r
<1>2. Go(r, d, c, CallCode(a), e, c) BY <1>1, Pushes
<1>3. e \in Bytes /\ Len(e) + LocSize <= StackSize /\ c \in Bytes BY RoomTwo DEF Depth
<1> HIDE DEF e
<1>4. Go(CallCode(a), e, c, << >>, e, c \o Link(a)) BY <1>3, CallGoes
<1>5. Go(r, d, c, << >>, e, c \o Link(a)) BY <1>2, <1>4, GoOn
<1>6. Lands(e, c \o Link(a)) BY <1>3 DEF Lands, e
<1> QED BY <1>5, <1>6 DEF Goes, r

LEMMA PushCallThenRow ==
  ASSUME FactorialInstance, Loaded, NEW w, NEW n \in Nat, NEW a \in Words, NEW b \in Words,
         Code(w) = PushCallThenCode(n, a, b),
         NEW d, NEW c, Room(d, 3), Room(d \o Num(n), 2), NEW k \in 1 .. 3, Depth(c, k),
         Conf(a, d \o Num(n), c \o Link(b))
  PROVE  Goes(w, d, c)
<1> DEFINE e == d \o Num(n)
           f == c \o Link(b)
           r == PushCallThenCode(n, a, b)
<1>1. r # << >> /\ Head(r) = PushI32(n) /\ Tail(r) = CallThenCode(a, b)
  BY DEF PushCallThenCode, CallThenCode
<1> HIDE DEF r
<1>2. Go(r, d, c, CallThenCode(a, b), e, c)
  <2>1. k \in 1 .. 4 OBVIOUS
  <2> QED BY <1>1, <2>1, Pushes
<1>3. e \in Bytes /\ Len(e) + 2 * LocSize <= StackSize BY RoomTwo
<1>4. Conf(a, e, f) OBVIOUS
<1> HIDE DEF e
<1>5. Go(CallThenCode(a, b), e, c, << >>, e, f \o Link(a)) /\ Depth(f, k + 1) BY <1>3, CallThenGoes
<1>6. f \in Bytes BY <1>5 DEF Depth
<1> HIDE DEF f
<1>7. Go(r, d, c, << >>, e, f \o Link(a)) BY <1>2, <1>5, GoOn
<1>8. Lands(e, f \o Link(a)) BY <1>4, <1>6 DEF Lands
<1> QED BY <1>7, <1>8 DEF Goes, r

LEMMA IfRow ==
  ASSUME FactorialInstance, Loaded, NEW w, NEW u \in Words, NEW v \in Words, Code(w) = IfCode(u, v),
         NEW d, NEW c, Room(d, 3), Room(d \o Link(u), 2), Room(d \o Link(u) \o Link(v), 2),
         NEW k \in 1 .. 4, Depth(c, k), Conf("if", d \o Link(u) \o Link(v), c)
  PROVE  Goes(w, d, c)
<1> DEFINE e == d \o Link(u)
           f == e \o Link(v)
           r == IfCode(u, v)
           s == <<PushLoc(wordMap[v]), PushLoc(wordMap["if"]), ToCont>>
<1>1. /\ r # << >> /\ Head(r) = PushLoc(wordMap[u]) /\ Tail(r) = s
      /\ s # << >> /\ Head(s) = PushLoc(wordMap[v]) /\ Tail(s) = CallCode("if")
  BY DEF IfCode, CallCode
<1> HIDE DEF r, s
<1>2. /\ d \in Bytes /\ Len(d) + LocSize + 0 <= StackSize
      /\ e \in Bytes /\ Len(e) + LocSize + 0 <= StackSize
      /\ f \in Bytes /\ Len(f) + LocSize <= StackSize /\ c \in Bytes
  <2>1. d \in Bytes /\ Len(d) + LocSize <= StackSize BY RoomLess
  <2>2. e \in Bytes /\ Len(e) + LocSize <= StackSize BY RoomTwo
  <2>3. f \in Bytes /\ Len(f) + LocSize <= StackSize BY RoomTwo
  <2>4. Len(d) \in Nat /\ Len(e) \in Nat /\ LocSize \in Nat BY <2>1, <2>2, LenProperties, Sizes DEF Bytes
  <2> HIDE DEF e, f
  <2> QED BY <2>1, <2>2, <2>3, <2>4 DEF Depth
<1>3. Conf("if", f, c) OBVIOUS
<1>4. Go(r, d, c, s, e, c)
  <2>1. 0 \in Nat OBVIOUS
  <2> QED BY <1>1, <1>2, <2>1, LinkLookup
<1>5. Go(s, e, c, CallCode("if"), f, c)
  <2>1. 0 \in Nat OBVIOUS
  <2> HIDE DEF e
  <2> QED BY <1>1, <1>2, <2>1, LinkLookup
<1> HIDE DEF e, f
<1>6. "if" \in Words BY WordsAre DEF AllWords
<1>7. Go(CallCode("if"), f, c, << >>, f, c \o Link("if")) BY <1>2, <1>6, CallGoes
<1>8. Go(r, d, c, << >>, f, c \o Link("if")) BY <1>4, <1>5, <1>7, GoOn
<1>9. Lands(f, c \o Link("if")) BY <1>2, <1>3, <1>6 DEF Lands
<1> QED BY <1>8, <1>9 DEF Goes, r

(* A word that works on data alone, with the location b to go on at. *)
LEMMA DataRow ==
  ASSUME NEW w, NEW d, NEW e, NEW c \in Bytes, NEW b \in Words,
         Go(Code(w), d, c \o Link(b), << >>, e, c \o Link(b)), Conf(b, e, c)
  PROVE  Goes(w, d, c \o Link(b))
<1>1. Lands(e, c \o Link(b)) BY DEF Lands
<1> QED BY <1>1 DEF Goes

(* The word tocont. *)
LEMMA ToContRow ==
  ASSUME FactorialInstance, Loaded, NEW a \in Words, NEW d \in Bytes, NEW c, NEW k \in 1 .. 4, Depth(c, k),
         Conf(a, d, c)
  PROVE  Goes("tocont", d \o Link(a), c)
<1> DEFINE r == <<ToCont>>
<1>1. Code("tocont") = r /\ r # << >> /\ Head(r) = ToCont /\ Tail(r) = << >>
  BY PrimitiveCodes DEF Loaded
<1> HIDE DEF r
<1>2. Go(r, d \o Link(a), c, << >>, d, c \o Link(a)) BY <1>1, LinkToCont
<1>3. Lands(d, c \o Link(a)) BY DEF Lands, Depth
<1> QED BY <1>1, <1>2, <1>3 DEF Goes

(* The primitive words. *)
LEMMA PrimitiveGoes ==
  ASSUME FactorialInstance, Loaded, NEW d, NEW c, Room(d, 3), Len(d) + SizeOf[Bit] <= StackSize, Controls(c)
  PROVE  /\ \A x, y \in Nat :
              /\ Go(Code("sub$i32"), d \o Num(x) \o Num(y), c, << >>, d \o Num((x - y) % Modulus), c)
              /\ Go(Code("mul$i32"), d \o Num(x) \o Num(y), c, << >>, d \o Num((x * y) % Modulus), c)
              /\ Go(Code("icmp$sle_i32"), d \o Num(x) \o Num(y), c, << >>,
                    d \o Flag(IF Signed(y) <= Signed(x) THEN 1 ELSE 0), c)
              /\ Go(Code("swap$i32_i32"), d \o Num(x) \o Num(y), c, << >>, d \o Num(y) \o Num(x), c)
         /\ \A x \in Nat :
              /\ Go(Code("dup$i32"), d \o Num(x), c, << >>, d \o Num(x) \o Num(x), c)
              /\ Go(Code("drop$i32"), d \o Num(x), c, << >>, d, c)
         /\ \A x, y, z \in Nat :
              Go(Code("rot$i32_i32_i32"), d \o Num(x) \o Num(y) \o Num(z), c, << >>,
                 d \o Num(y) \o Num(z) \o Num(x), c)
         /\ \A u \in Words : Go(Code("drop$quot"), d \o Link(u), c, << >>, d, c)
         /\ \A u \in Words : Go(Code("dup$quot"), d \o Link(u), c, << >>, d \o Link(u) \o Link(u), c)
         /\ \A u \in Words, x \in Nat :
              /\ Go(Code("swap$quot_i32"), d \o Link(u) \o Num(x), c, << >>, d \o Num(x) \o Link(u), c)
              /\ Go(Code("swap$i32_quot"), d \o Num(x) \o Link(u), c, << >>, d \o Link(u) \o Num(x), c)
         /\ \A u, v \in Words, f \in Nat :
              Go(Code("select$quot"), d \o Flag(f) \o Link(u) \o Link(v), c, << >>,
                 d \o (IF f # 0 THEN Link(u) ELSE Link(v)), c)
<1>1. /\ d \in Bytes /\ Len(d) + LocSize <= StackSize
      /\ Len(d) + 2 * LocSize <= StackSize /\ Len(d) + 3 * LocSize <= StackSize
  BY RoomLess
<1>2. mod \in Modules BY DEF Loaded
<1>3. ASSUME NEW i PROVE <<i>> # << >> /\ Head(<<i>>) = i /\ Tail(<<i>>) = << >> OBVIOUS
<1>4. \A x \in Nat : Num(x) \in Bytes /\ Len(Num(x)) = LocSize BY Stores
<1>5. \A u \in Words : Link(u) \in Bytes /\ Len(Link(u)) = LocSize BY LinkIsLocation
<1>6. I32 \in {I32, Quot} /\ Quot \in {I32, Quot} OBVIOUS
<1>7. ASSUME NEW x \in Nat, NEW y \in Nat
      PROVE  /\ Go(Code("sub$i32"), d \o Num(x) \o Num(y), c, << >>, d \o Num((x - y) % Modulus), c)
             /\ Go(Code("mul$i32"), d \o Num(x) \o Num(y), c, << >>, d \o Num((x * y) % Modulus), c)
             /\ Go(Code("icmp$sle_i32"), d \o Num(x) \o Num(y), c, << >>,
                   d \o Flag(IF Signed(y) <= Signed(x) THEN 1 ELSE 0), c)
             /\ Go(Code("swap$i32_i32"), d \o Num(x) \o Num(y), c, << >>, d \o Num(y) \o Num(x), c)
  <2>1. Code("sub$i32") = <<[op |-> "sub", t |-> I32]>> BY <1>2, PrimitiveCodes
  <2>2. Go(Code("sub$i32"), d \o Num(x) \o Num(y), c, << >>, d \o Num((x - y) % Modulus), c)
    BY <1>1, <1>3, <2>1, SubGoes
  <2>3. Code("mul$i32") = <<[op |-> "mul", t |-> I32]>> BY <1>2, PrimitiveCodes
  <2>4. Go(Code("mul$i32"), d \o Num(x) \o Num(y), c, << >>, d \o Num((x * y) % Modulus), c)
    BY <1>1, <1>3, <2>3, MulGoes
  <2>5. Code("icmp$sle_i32") = <<[op |-> "icmp", p |-> "sle", t |-> I32]>> BY <1>2, PrimitiveCodes
  <2>6. Go(Code("icmp$sle_i32"), d \o Num(x) \o Num(y), c, << >>,
           d \o Flag(IF Signed(y) <= Signed(x) THEN 1 ELSE 0), c)
    BY <1>1, <1>3, <2>5, ICmpGoes
  <2>7. Code("swap$i32_i32") = <<[op |-> "shuffle", in |-> <<I32, I32>>, out |-> <<1, 0>>]>>
    BY <1>2, PrimitiveCodes
  <2>8. Go(Code("swap$i32_i32"), d \o Num(x) \o Num(y), c, << >>, d \o Num(y) \o Num(x), c)
    <3> DEFINE v == Num(x)
               w == Num(y)
               r == Code("swap$i32_i32")
    <3>1. v \in Bytes /\ Len(v) = LocSize /\ w \in Bytes /\ Len(w) = LocSize BY <1>4
    <3>2. /\ r # << >> /\ Tail(r) = << >>
          /\ Head(r) = [op |-> "shuffle", in |-> <<I32, I32>>, out |-> <<1, 0>>]
      BY <1>3, <2>7
    <3> HIDE DEF v, w, r
    <3>3. Go(r, d \o v \o w, c, Tail(r), d \o w \o v, c) BY <1>1, <1>6, <3>1, <3>2, SwapGoes
    <3> QED BY <3>2, <3>3 DEF v, w, r
  <2> QED BY <2>2, <2>4, <2>6, <2>8
<1>8. ASSUME NEW x \in Nat
      PROVE  /\ Go(Code("dup$i32"), d \o Num(x), c, << >>, d \o Num(x) \o Num(x), c)
             /\ Go(Code("drop$i32"), d \o Num(x), c, << >>, d, c)
  <2>1. /\ Code("dup$i32") = <<[op |-> "shuffle", in |-> <<I32>>, out |-> <<0, 0>>]>>
        /\ Code("drop$i32") = <<[op |-> "shuffle", in |-> <<I32>>, out |-> << >>]>>
    BY <1>2, PrimitiveCodes
  <2>2. Go(Code("dup$i32"), d \o Num(x), c, << >>, d \o Num(x) \o Num(x), c)
    BY <1>1, <1>3, <1>4, <1>6, <2>1, DupGoes
  <2>3. Go(Code("drop$i32"), d \o Num(x), c, << >>, d, c) BY <1>1, <1>3, <1>4, <1>6, <2>1, DropGoes
  <2> QED BY <2>2, <2>3
<1>9. ASSUME NEW x \in Nat, NEW y \in Nat, NEW z \in Nat
      PROVE  Go(Code("rot$i32_i32_i32"), d \o Num(x) \o Num(y) \o Num(z), c, << >>,
                d \o Num(y) \o Num(z) \o Num(x), c)
  <2>1. Code("rot$i32_i32_i32") = <<[op |-> "shuffle", in |-> <<I32, I32, I32>>, out |-> <<1, 2, 0>>]>>
    BY <1>2, PrimitiveCodes
  <2> DEFINE u == Num(x)
             v == Num(y)
             w == Num(z)
             r == Code("rot$i32_i32_i32")
  <2>2. /\ u \in Bytes /\ Len(u) = LocSize /\ v \in Bytes /\ Len(v) = LocSize
        /\ w \in Bytes /\ Len(w) = LocSize
    BY <1>4
  <2>3. /\ r # << >> /\ Tail(r) = << >>
        /\ Head(r) = [op |-> "shuffle", in |-> <<I32, I32, I32>>, out |-> <<1, 2, 0>>]
    BY <1>3, <2>1
  <2> HIDE DEF u, v, w, r
  <2>4. Go(r, d \o u \o v \o w, c, Tail(r), d \o v \o w \o u, c) BY <1>1, <2>2, <2>3, RotGoes
  <2> QED BY <2>3, <2>4 DEF u, v, w, r
<1>10. ASSUME NEW u \in Words
       PROVE  /\ Go(Code("drop$quot"), d \o Link(u), c, << >>, d, c)
              /\ Go(Code("dup$quot"), d \o Link(u), c, << >>, d \o Link(u) \o Link(u), c)
  <2>1. /\ Code("dup$quot") = <<[op |-> "shuffle", in |-> <<Quot>>, out |-> <<0, 0>>]>>
        /\ Code("drop$quot") = <<[op |-> "shuffle", in |-> <<Quot>>, out |-> << >>]>>
    BY <1>2, PrimitiveCodes
  <2>2. Go(Code("dup$quot"), d \o Link(u), c, << >>, d \o Link(u) \o Link(u), c)
    BY <1>1, <1>3, <1>5, <1>6, <2>1, DupGoes
  <2>3. Go(Code("drop$quot"), d \o Link(u), c, << >>, d, c) BY <1>1, <1>3, <1>5, <1>6, <2>1, DropGoes
  <2> QED BY <2>2, <2>3
<1>11. ASSUME NEW u \in Words, NEW x \in Nat
       PROVE  /\ Go(Code("swap$quot_i32"), d \o Link(u) \o Num(x), c, << >>, d \o Num(x) \o Link(u), c)
              /\ Go(Code("swap$i32_quot"), d \o Num(x) \o Link(u), c, << >>, d \o Link(u) \o Num(x), c)
  <2>1. /\ Code("swap$quot_i32") = <<[op |-> "shuffle", in |-> <<Quot, I32>>, out |-> <<1, 0>>]>>
        /\ Code("swap$i32_quot") = <<[op |-> "shuffle", in |-> <<I32, Quot>>, out |-> <<1, 0>>]>>
    BY <1>2, PrimitiveCodes
  <2>2. Go(Code("swap$quot_i32"), d \o Link(u) \o Num(x), c, << >>, d \o Num(x) \o Link(u), c)
    <3> DEFINE v == Link(u)
               w == Num(x)
               r == Code("swap$quot_i32")
    <3>1. v \in Bytes /\ Len(v) = LocSize /\ w \in Bytes /\ Len(w) = LocSize BY <1>4, <1>5
    <3>2. /\ r # << >> /\ Tail(r) = << >>
          /\ Head(r) = [op |-> "shuffle", in |-> <<Quot, I32>>, out |-> <<1, 0>>]
      BY <1>3, <2>1
    <3> HIDE DEF v, w, r
    <3>3. Go(r, d \o v \o w, c, Tail(r), d \o w \o v, c) BY <1>1, <1>6, <3>1, <3>2, SwapGoes
    <3> QED BY <3>2, <3>3 DEF v, w, r
  <2>3. Go(Code("swap$i32_quot"), d \o Num(x) \o Link(u), c, << >>, d \o Link(u) \o Num(x), c)
    <3> DEFINE v == Num(x)
               w == Link(u)
               r == Code("swap$i32_quot")
    <3>1. v \in Bytes /\ Len(v) = LocSize /\ w \in Bytes /\ Len(w) = LocSize BY <1>4, <1>5
    <3>2. /\ r # << >> /\ Tail(r) = << >>
          /\ Head(r) = [op |-> "shuffle", in |-> <<I32, Quot>>, out |-> <<1, 0>>]
      BY <1>3, <2>1
    <3> HIDE DEF v, w, r
    <3>3. Go(r, d \o v \o w, c, Tail(r), d \o w \o v, c) BY <1>1, <1>6, <3>1, <3>2, SwapGoes
    <3> QED BY <3>2, <3>3 DEF v, w, r
  <2> QED BY <2>2, <2>3
<1>12. ASSUME NEW u \in Words, NEW v \in Words, NEW f \in Nat
       PROVE  Go(Code("select$quot"), d \o Flag(f) \o Link(u) \o Link(v), c, << >>,
                 d \o (IF f # 0 THEN Link(u) ELSE Link(v)), c)
  <2>1. Code("select$quot") = <<[op |-> "select", t |-> Quot]>> BY <1>2, PrimitiveCodes
  <2> DEFINE p == Link(u)
             q == Link(v)
             r == Code("select$quot")
  <2>2. p \in Bytes /\ Len(p) = LocSize /\ q \in Bytes /\ Len(q) = LocSize BY <1>5
  <2>3. r # << >> /\ Tail(r) = << >> /\ Head(r) = [op |-> "select", t |-> Quot] BY <1>3, <2>1
  <2> HIDE DEF p, q, r
  <2>4. Go(r, d \o Flag(f) \o p \o q, c, Tail(r), d \o (IF f # 0 THEN p ELSE q), c)
    BY <1>1, <2>2, <2>3, SelectGoes
  <2> QED BY <2>3, <2>4 DEF p, q, r
<1> QED BY <1>7, <1>8, <1>9, <1>10, <1>11, <1>12

LEMMA ContsAre ==
  ASSUME FactorialInstance, Loaded
  PROVE  /\ Bottom \in Bytes /\ MoreCont \in Bytes /\ AccumCont \in Bytes
         /\ Controls(Bottom) /\ Controls(MoreCont) /\ Controls(AccumCont)
         /\ \A w \in Words : Controls(Bottom \o Link(w)) /\ Controls(AccumCont \o Link(w))
<1>1. /\ Depth(Bottom, 1) /\ Depth(MoreCont, 2) /\ Depth(AccumCont, 3)
      /\ \A w \in Words : Depth(Bottom \o Link(w), 2) /\ Depth(AccumCont \o Link(w), 4)
  BY DepthsAre
<1>2. ASSUME NEW c, NEW k \in 1 .. 4, Depth(c, k) PROVE Controls(c) BY <1>2, DepthFits
<1>3. 1 \in 1 .. 4 /\ 2 \in 1 .. 4 /\ 3 \in 1 .. 4 /\ 4 \in 1 .. 4 OBVIOUS
<1> QED BY <1>1, <1>2, <1>3 DEF Depth
-----------------------------------------------------------------------------
(* Every configuration goes on to another. *)

LEMMA MainGoes ==
  ASSUME FactorialInstance, Loaded, NEW w, NEW d, NEW c, InMain(w, d, c)
  PROVE  Goes(w, d, c)
<1> DEFINE q  == Link("main$q21")
           r4 == <<PushLoc(wordMap["main$q21"]), PushI32(Count), PushLoc(wordMap["times$i32"]), ToCont>>
           r3 == <<PushI32(Count), PushLoc(wordMap["times$i32"]), ToCont>>
<1>1. mod \in Modules /\ Count \in Ints /\ Count \in Nat BY Literals, IntegersAreNumbers DEF Loaded
<1>2. /\ r4 # << >> /\ Head(r4) = PushLoc(wordMap["main$q21"]) /\ Tail(r4) = r3
      /\ r3 # << >> /\ Head(r3) = PushI32(Count) /\ Tail(r3) = CallCode("times$i32")
  BY DEF CallCode
<1>3. Code("main") = r4 BY <1>1, MainCodes
<1> HIDE DEF r4, r3
<1>4. "main$q21" \in Words /\ "times$i32" \in Words BY WordsAre DEF AllWords
<1>5. Depth(Bottom, 1) /\ 1 \in 1 .. 4 /\ Controls(Bottom) /\ Bottom \in Bytes BY DepthsAre, ContsAre
<1>6. /\ Room(<< >>, 3) /\ Room(q, 3) /\ Room(TimesData(Count), 2)
      /\ << >> \o q = q
  BY <1>1, DataIs, BaseRooms
<1>7. Go(r4, << >>, Bottom, r3, q, Bottom)
  <2>1. << >> \in Bytes /\ Len(<< >>) + LocSize <= StackSize BY <1>6, RoomLess
  <2>2. Len(<< >>) + LocSize + 0 <= StackSize BY <2>1, Sizes
  <2>3. Go(r4, << >>, Bottom, Tail(r4), << >> \o q, Bottom)
    <3>1. 0 \in Nat OBVIOUS
    <3> QED BY <1>2, <1>4, <1>5, <2>1, <2>2, <3>1, LinkLookup
  <2> QED BY <1>2, <1>6, <2>3
<1>8. Go(r3, q, Bottom, CallCode("times$i32"), TimesData(Count), Bottom)
  BY <1>1, <1>2, <1>5, <1>6, Pushes DEF TimesData
<1>9. Go(CallCode("times$i32"), TimesData(Count), Bottom, << >>, TimesData(Count), Bottom \o Link("times$i32"))
  <2>1. TimesData(Count) \in Bytes /\ Len(TimesData(Count)) + LocSize <= StackSize BY <1>6, RoomTwo
  <2> QED BY <1>4, <1>5, <2>1, CallGoes
<1>10. Go(r4, << >>, Bottom, << >>, TimesData(Count), Bottom \o Link("times$i32"))
  BY <1>7, <1>8, <1>9, GoOn
<1>11. Conf("times$i32", TimesData(Count), Bottom)
  <2>1. InTimes("times$i32", Count, TimesData(Count), Bottom) BY DEF InTimes
  <2>2. Counts(Count) BY DEF Counts
  <2> QED BY <1>1, <2>1, <2>2 DEF Conf
<1>12. Lands(TimesData(Count), Bottom \o Link("times$i32")) BY <1>4, <1>5, <1>11 DEF Lands
<1> QED BY <1>3, <1>10, <1>12 DEF Goes, InMain

LEMMA PositiveOf ==
  ASSUME FactorialInstance, NEW n \in Ints
  PROVE  /\ Positive(n) \in Nat /\ (IF Signed(1) <= Signed(n) THEN 1 ELSE 0) = Positive(n)
         /\ Signed(n) \in Int /\ (Positive(n) # 0 <=> Signed(n) >= 1)
<1>1. Half \in Nat /\ Half >= 2 /\ Modulus = 2 * Half BY Sizes DEF Modulus, FactorialInstance
<1>2. Signed(1) = 1 /\ Signed(n) \in Int BY <1>1 DEF Signed, Ints
<1> QED BY <1>2 DEF Positive

LEMMA TimesGo ==
  ASSUME FactorialInstance, Loaded, NEW k \in Ints, Counts(k), NEW w, NEW d, NEW c, InTimes(w, k, d, c)
  PROVE  Goes(w, d, c)
<1> DEFINE p == Positive(k)
           u == "times$q11$i32"
           v == "times$q13$i32"
<1>1. mod \in Modules /\ k \in Nat /\ 1 \in Nat /\ p \in Nat
  BY IntegersAreNumbers, PositiveOf DEF Loaded
<1>2. {"main$q21", "dup$i32", "times$k19$i32", "icmp$sle_i32", "times$k20$i32", "times$q11$i32",
       "times$q13$i32", "if", "select$quot", "if$k0", "tocont", "drop$i32", "times$q11$k12",
       "sub$i32", "times$q13$k14$i32"} \subseteq Words
  BY WordsAre DEF AllWords
<1>3. /\ Room(TimesData(k), 3) /\ Room(TimesData(k), 2) /\ Len(TimesData(k)) + SizeOf[Bit] <= StackSize
      /\ Room(Link("main$q21"), 3) /\ Len(Link("main$q21")) + SizeOf[Bit] <= StackSize
      /\ Room(TimesData(k) \o Num(k), 3) /\ Room(TimesData(k) \o Num(1), 2)
      /\ Room(TimesData(k) \o Num(k) \o Num(1), 2)
      /\ Room(TimesData(k) \o Flag(p), 3)
      /\ Room(TimesData(k) \o Flag(p) \o Link(u), 2)
      /\ Room(TimesData(k) \o Flag(p) \o Link(u) \o Link(v), 2)
      /\ Room(TimesData(k) \o Link(TimesBranch(k)), 2)
  <2>1. Data(TimesData(k), 4 * LocSize) /\ Data(Link("main$q21"), 4 * LocSize)
    BY <1>1, DataIs
  <2>2. wordMap[u] \in Nat /\ wordMap[v] \in Nat /\ wordMap[TimesBranch(k)] \in Nat
    BY <1>2, LinkIsLocation DEF TimesBranch
  <2> DEFINE e == TimesData(k)
  <2>3. Room(e, 3) /\ Room(e, 2) /\ Len(e) + SizeOf[Bit] <= StackSize BY <2>1, BaseRooms
  <2>4. Room(Link("main$q21"), 3) /\ Len(Link("main$q21")) + SizeOf[Bit] <= StackSize BY <2>1, BaseRooms
  <2> HIDE DEF e, u, v, p
  <2>5. Data(e, 4 * LocSize) BY <2>1 DEF e
  <2>6. Room(e \o Num(k), 3) /\ Room(e \o Num(k) \o Num(1), 2) BY <1>1, <2>5, RoomsOver
  <2>7. Room(e \o Num(1), 2) BY <1>1, <2>5, RoomsOver, RoomLess
  <2>8. /\ Room(e \o Flag(p), 3) /\ Room(e \o Flag(p) \o Link(u), 2)
        /\ Room(e \o Flag(p) \o Link(u) \o Link(v), 2)
    BY <1>1, <2>2, <2>5, RoomsOver DEF Link
  <2>9. Room(e \o Link(TimesBranch(k)), 2) BY <2>2, <2>5, RoomsOver, RoomLess DEF Link
  <2> QED BY <2>3, <2>4, <2>6, <2>7, <2>8, <2>9 DEF e
<1>4. Depth(Bottom, 1) /\ 1 \in 1 .. 4 /\ 1 \in 1 .. 3 /\ Bottom \in Bytes /\ Controls(Bottom)
  BY DepthsAre, ContsAre
<1>5. ASSUME NEW w1, NEW d1, NEW c1, InTimes(w1, k, d1, c1) PROVE Conf(w1, d1, c1)
  BY <1>5 DEF Conf
<1>6. ASSUME NEW w1, NEW d1, NEW c1, Signed(k) >= 1, InTimesEnd(w1, k, d1, c1) PROVE Conf(w1, d1, c1)
  BY <1>6 DEF Conf
<1>7. ASSUME NEW w1, NEW d1, NEW c1, Signed(k) < 1, InTimesLast(w1, k, d1, c1) PROVE Conf(w1, d1, c1)
  BY <1>7 DEF Conf
<1>21. Goes("times$i32", TimesData(k), Bottom)
  <2>1. Conf("dup$i32", TimesData(k), Bottom \o Link("times$k19$i32"))
    <3>1. InTimes("dup$i32", k, TimesData(k), Bottom \o Link("times$k19$i32")) BY DEF InTimes
    <3> QED BY <1>5, <3>1
  <2> QED BY <1>1, <1>2, <1>3, <1>4, <2>1, TimesCodes, CallThenRow
<1>22. Goes("dup$i32", TimesData(k), Bottom \o Link("times$k19$i32"))
  <2> DEFINE e == Bottom \o Link("times$k19$i32")
  <2>1. Conf("times$k19$i32", TimesData(k) \o Num(k), Bottom)
    <3>1. InTimes("times$k19$i32", k, TimesData(k) \o Num(k), Bottom) BY DEF InTimes
    <3> QED BY <1>5, <3>1
  <2>2. Controls(e) BY <1>2, ContsAre
  <2> HIDE DEF e
  <2>3. Go(Code("dup$i32"), TimesData(k), e, << >>, TimesData(k) \o Num(k), e)
    BY <1>1, <1>3, <2>2, PrimitiveGoes DEF TimesData
  <2> QED BY <1>2, <1>4, <2>1, <2>3, DataRow DEF e
<1>23. Goes("times$k19$i32", TimesData(k) \o Num(k), Bottom)
  <2>1. Conf("icmp$sle_i32", TimesData(k) \o Num(k) \o Num(1), Bottom \o Link("times$k20$i32"))
    <3>1. InTimes("icmp$sle_i32", k, TimesData(k) \o Num(k) \o Num(1), Bottom \o Link("times$k20$i32")) BY DEF InTimes
    <3> QED BY <1>5, <3>1
  <2> QED BY <1>1, <1>2, <1>3, <1>4, <2>1, TimesCodes, PushCallThenRow
<1>24. Goes("icmp$sle_i32", TimesData(k) \o Num(k) \o Num(1), Bottom \o Link("times$k20$i32"))
  <2> DEFINE e == Bottom \o Link("times$k20$i32")
  <2>1. Conf("times$k20$i32", TimesData(k) \o Flag(p), Bottom)
    <3>1. InTimes("times$k20$i32", k, TimesData(k) \o Flag(p), Bottom) BY DEF InTimes
    <3> QED BY <1>5, <3>1
  <2>2. Controls(e) BY <1>2, ContsAre
  <2> HIDE DEF e
  <2>3. Go(Code("icmp$sle_i32"), TimesData(k) \o Num(k) \o Num(1), e, << >>, TimesData(k) \o Flag(p), e)
    <3>1. (IF Signed(1) <= Signed(k) THEN 1 ELSE 0) = p BY PositiveOf
    <3> QED BY <1>1, <1>3, <2>2, <3>1, PrimitiveGoes
  <2> QED BY <1>2, <1>4, <2>1, <2>3, DataRow DEF e
<1>25. Goes("times$k20$i32", TimesData(k) \o Flag(p), Bottom)
  <2>1. Conf("if", TimesData(k) \o Flag(p) \o Link(u) \o Link(v), Bottom)
    <3>1. InTimes("if", k, TimesData(k) \o Flag(p) \o Link(u) \o Link(v), Bottom) BY DEF InTimes
    <3> QED BY <1>5, <3>1
  <2>2. Code("times$k20$i32") = IfCode(u, v) BY <1>1, TimesCodes
  <2>3. u \in Words /\ v \in Words BY <1>2
  <2> HIDE DEF u, v, p
  <2> QED BY <1>3, <1>4, <2>1, <2>2, <2>3, IfRow
<1>26. Goes("if", TimesData(k) \o Flag(p) \o Link(u) \o Link(v), Bottom)
  <2>1. Conf("select$quot", TimesData(k) \o Flag(p) \o Link(u) \o Link(v), Bottom \o Link("if$k0"))
    <3>1. InTimes("select$quot", k, TimesData(k) \o Flag(p) \o Link(u) \o Link(v), Bottom \o Link("if$k0")) BY DEF InTimes
    <3> QED BY <1>5, <3>1
  <2> DEFINE e == TimesData(k) \o Flag(p) \o Link(u) \o Link(v)
  <2>2. Room(e, 2) BY <1>3
  <2> HIDE DEF e
  <2> QED BY <1>1, <1>2, <1>4, <2>1, <2>2, PrimitiveCodes, CallThenRow DEF e
<1>27. Goes("select$quot", TimesData(k) \o Flag(p) \o Link(u) \o Link(v), Bottom \o Link("if$k0"))
  <2> DEFINE e == Bottom \o Link("if$k0")
  <2>1. Conf("if$k0", TimesData(k) \o Link(TimesBranch(k)), Bottom)
    <3>1. InTimes("if$k0", k, TimesData(k) \o Link(TimesBranch(k)), Bottom) BY DEF InTimes
    <3> QED BY <1>5, <3>1
  <2>2. Controls(e) BY <1>2, ContsAre
  <2>3. u \in Words /\ v \in Words BY <1>2
  <2>4. (IF p # 0 THEN Link(u) ELSE Link(v)) = Link(TimesBranch(k)) BY PositiveOf DEF TimesBranch
  <2> HIDE DEF e, p, u, v
  <2>5. Go(Code("select$quot"), TimesData(k) \o Flag(p) \o Link(u) \o Link(v), e, << >>, TimesData(k) \o (IF p # 0 THEN Link(u) ELSE Link(v)), e)
    BY <1>1, <1>3, <2>2, <2>3, PrimitiveGoes
  <2>6. Go(Code("select$quot"), TimesData(k) \o Flag(p) \o Link(u) \o Link(v), e, << >>, TimesData(k) \o Link(TimesBranch(k)), e) BY <2>4, <2>5
  <2> QED BY <1>2, <1>4, <2>1, <2>6, DataRow DEF e
<1>28. Goes("if$k0", TimesData(k) \o Link(TimesBranch(k)), Bottom)
  <2>1. Conf("tocont", TimesData(k) \o Link(TimesBranch(k)), Bottom)
    <3>1. InTimes("tocont", k, TimesData(k) \o Link(TimesBranch(k)), Bottom) BY DEF InTimes
    <3> QED BY <1>5, <3>1
  <2> QED BY <1>1, <1>2, <1>3, <1>4, <2>1, PrimitiveCodes, CallRow
<1>29. Goes("tocont", TimesData(k) \o Link(TimesBranch(k)), Bottom)
  <2>1. Conf(TimesBranch(k), TimesData(k), Bottom)
    <3>1. InTimes(TimesBranch(k), k, TimesData(k), Bottom) BY DEF InTimes
    <3> QED BY <1>5, <3>1
  <2>2. TimesBranch(k) \in Words BY <1>2 DEF TimesBranch
  <2>3. TimesData(k) \in Bytes BY <1>3 DEF Room
  <2> QED BY <1>4, <2>1, <2>2, <2>3, ToContRow
<1>30. Goes(TimesBranch(k), TimesData(k), Bottom)
  <2>1. CASE Signed(k) >= 1
    <3>1. Conf("drop$i32", TimesData(k), Bottom \o Link("times$q11$k12"))
      <4>1. InTimesEnd("drop$i32", k, TimesData(k), Bottom \o Link("times$q11$k12")) BY DEF InTimesEnd
      <4> QED BY <1>6, <2>1, <4>1
    <3>2. Goes("times$q11$i32", TimesData(k), Bottom)
      BY <1>1, <1>2, <1>3, <1>4, <3>1, TimesCodes, CallThenRow
    <3> QED BY <2>1, <3>2 DEF TimesBranch
  <2>2. CASE ~(Signed(k) >= 1)
    <3>1. Signed(k) < 1 BY <2>2, PositiveOf
    <3>2. Conf("sub$i32", TimesData(k) \o Num(1), Bottom \o Link("times$q13$k14$i32"))
      <4>1. InTimesLast("sub$i32", k, TimesData(k) \o Num(1), Bottom \o Link("times$q13$k14$i32")) BY DEF InTimesLast
      <4> QED BY <1>7, <3>1, <4>1
    <3>3. Goes("times$q13$i32", TimesData(k), Bottom)
      BY <1>1, <1>2, <1>3, <1>4, <3>2, TimesCodes, PushCallThenRow
    <3> QED BY <2>2, <3>3 DEF TimesBranch
  <2> QED BY <2>1, <2>2
<1> QED BY <1>21, <1>22, <1>23, <1>24, <1>25, <1>26, <1>27, <1>28, <1>29, <1>30 DEF InTimes

LEMMA TimesEndGo ==
  ASSUME FactorialInstance, Loaded, NEW k \in Ints, Counts(k), Signed(k) >= 1,
         NEW w, NEW d, NEW c, InTimesEnd(w, k, d, c)
  PROVE  Goes(w, d, c)
<1> DEFINE q == Link("main$q21")
<1>1. mod \in Modules /\ k \in Nat BY IntegersAreNumbers DEF Loaded
<1>2. {"main$q21", "drop$i32", "times$q11$k12", "drop$quot"} \subseteq Words
  BY WordsAre DEF AllWords
<1>3. /\ Room(q, 3) /\ Room(q, 2) /\ Len(q) + SizeOf[Bit] <= StackSize
      /\ Room(<< >>, 3) /\ Len(<< >>) + SizeOf[Bit] <= StackSize /\ << >> \o q = q
  BY <1>1, DataIs, BaseRooms
<1>4. Depth(Bottom, 1) /\ 1 \in 1 .. 4 /\ 1 \in 1 .. 3 /\ Bottom \in Bytes /\ Controls(Bottom)
  BY DepthsAre, ContsAre
<1>5. ASSUME NEW w1, NEW d1, NEW c1, InTimesEnd(w1, k, d1, c1) PROVE Conf(w1, d1, c1)
  BY <1>5 DEF Conf
<1>21. Goes("drop$i32", TimesData(k), Bottom \o Link("times$q11$k12"))
  <2> DEFINE e == Bottom \o Link("times$q11$k12")
  <2>1. Conf("times$q11$k12", q, Bottom)
    <3>1. InTimesEnd("times$q11$k12", k, q, Bottom) BY DEF InTimesEnd
    <3> QED BY <1>5, <3>1
  <2>2. Controls(e) BY <1>2, ContsAre
  <2> HIDE DEF e
  <2>3. Go(Code("drop$i32"), TimesData(k), e, << >>, q, e)
    BY <1>1, <1>3, <2>2, PrimitiveGoes DEF TimesData
  <2> QED BY <1>2, <1>4, <2>1, <2>3, DataRow DEF e
<1>22. Goes("times$q11$k12", q, Bottom)
  <2>1. Conf("drop$quot", q, Bottom)
    <3>1. InTimesEnd("drop$quot", k, q, Bottom) BY DEF InTimesEnd
    <3> QED BY <1>5, <3>1
  <2> QED BY <1>1, <1>2, <1>3, <1>4, <2>1, TimesCodes, CallRow
<1>23. Goes("drop$quot", q, Bottom)
  <2>1. Go(Code("drop$quot"), << >> \o q, Bottom, << >>, << >>, Bottom)
    BY <1>2, <1>3, <1>4, PrimitiveGoes
  <2>2. Lands(<< >>, Bottom) BY DEF Lands
  <2> QED BY <1>3, <2>1, <2>2 DEF Goes
<1> QED BY <1>21, <1>22, <1>23 DEF InTimesEnd

LEMMA TimesLastGo ==
  ASSUME FactorialInstance, Loaded, NEW k \in Ints, Counts(k), Signed(k) < 1,
         NEW w, NEW d, NEW c, InTimesLast(w, k, d, c)
  PROVE  Goes(w, d, c)
<1> DEFINE q == Link("main$q21")
           j == (k - 1) % Modulus
           e == Bottom \o Link("times$q13$k14$i32")
<1>1. mod \in Modules /\ k \in Nat /\ Count \in Ints /\ j \in Ints /\ 1 \in Nat
  <2>1. Modulus \in Nat \ {0} /\ k \in Nat BY Sizes, IntegersAreNumbers
  <2>2. k - 1 \in Int BY <2>1
  <2>3. j \in 0 .. Modulus - 1 BY <2>1, <2>2, Remainder
  <2> QED BY <2>1, <2>3, Literals DEF Loaded, Ints
<1>2. "main$q21" \in Words /\ "times$q13$k14$i32" \in Words BY WordsAre DEF AllWords
<1>3. Room(q, 3) /\ Len(q) + SizeOf[Bit] <= StackSize BY <1>1, DataIs, BaseRooms
<1>4. Bottom \in Bytes /\ Controls(e) BY <1>2, ContsAre
<1>5. Later(j) BY <1>1, CountsOn
<1>6. Conf("times$q13$k14$i32", TimesData(j), Bottom)
  <2>1. InTimesMore("times$q13$k14$i32", j, TimesData(j), Bottom) BY DEF InTimesMore
  <2> HIDE DEF j
  <2> QED BY <1>1, <1>5, <2>1 DEF Conf
<1> HIDE DEF e
<1>7. Go(Code("sub$i32"), TimesData(k) \o Num(1), e, << >>, TimesData(j), e)
  BY <1>1, <1>3, <1>4, PrimitiveGoes DEF TimesData
<1>8. Goes("sub$i32", TimesData(k) \o Num(1), e) BY <1>2, <1>4, <1>6, <1>7, DataRow DEF e
<1> QED BY <1>8 DEF InTimesLast, e

LEMMA TimesMoreGo ==
  ASSUME FactorialInstance, Loaded, NEW k \in Ints, Later(k), NEW w, NEW d, NEW c, InTimesMore(w, k, d, c)
  PROVE  Goes(w, d, c)
<1>1. mod \in Modules /\ k \in Nat /\ N \in Nat BY IntegersAreNumbers, Literals DEF Loaded
<1>2. {"main$q21", "swap$quot_i32", "times$q13$k15$i32", "dup$quot", "times$q13$k16$i32", "apply",
       "times$q13$k17$i32", "tocont", "factorial$i32", "main$q21$k22", "swap$i32_quot",
       "times$q13$k18$i32", "times$i32"} \subseteq Words
  BY WordsAre DEF AllWords
<1>3. /\ Room(TimesData(k), 2) /\ Room(CountData(k), 2) /\ Room(CountData(k), 3)
      /\ Room(CountData(k) \o Link("main$q21"), 2) /\ Room(CountData(k) \o Num(N), 2)
      /\ Room(<< >>, 3) /\ Len(<< >>) + SizeOf[Bit] <= StackSize
      /\ Room(Num(k), 3) /\ Len(Num(k)) + SizeOf[Bit] <= StackSize
  <2>1. Data(TimesData(k), 4 * LocSize) /\ Data(CountData(k), 4 * LocSize)
        /\ Data(<< >>, 4 * LocSize) /\ Data(Num(k), 4 * LocSize)
    BY <1>1, DataIs
  <2>2. wordMap["main$q21"] \in Nat BY <1>2, LinkIsLocation
  <2>3. Room(CountData(k) \o Link("main$q21"), 2) BY <2>1, <2>2, RoomsOver, RoomLess DEF Link
  <2>4. Room(CountData(k) \o Num(N), 2) BY <1>1, <2>1, RoomsOver, RoomLess
  <2> QED BY <2>1, <2>3, <2>4, BaseRooms
<1>4. /\ Depth(Bottom, 1) /\ 1 \in 1 .. 4 /\ 1 \in 1 .. 3 /\ Bottom \in Bytes
      /\ Depth(MoreCont, 2) /\ 2 \in 1 .. 4 /\ 2 \in 1 .. 3
  BY DepthsAre, ContsAre
<1>5. ASSUME NEW w1, NEW d1, NEW c1, InTimesMore(w1, k, d1, c1) PROVE Conf(w1, d1, c1)
  BY <1>5 DEF Conf
<1>6. << >> \o Link("main$q21") = Link("main$q21") /\ << >> \o Num(k) = Num(k) BY <1>1, DataIs
<1>7. ASSUME NEW w1, NEW d1, NEW c1, InFactorial(w1, k, d1, c1) PROVE Conf(w1, d1, c1)
  BY <1>7 DEF Conf
<1>8. ASSUME NEW w1, NEW d1, NEW c1, InTimes(w1, k, d1, c1) PROVE Conf(w1, d1, c1)
  BY <1>8 DEF Conf, Counts
<1>21. Goes("times$q13$k14$i32", TimesData(k), Bottom)
  <2>1. Conf("swap$quot_i32", TimesData(k), Bottom \o Link("times$q13$k15$i32"))
    <3>1. InTimesMore("swap$quot_i32", k, TimesData(k), Bottom \o Link("times$q13$k15$i32")) BY DEF InTimesMore
    <3> QED BY <1>5, <3>1
  <2> QED BY <1>1, <1>2, <1>3, <1>4, <2>1, TimesCodes, CallThenRow
<1>22. Goes("swap$quot_i32", TimesData(k), Bottom \o Link("times$q13$k15$i32"))
  <2> DEFINE e == Bottom \o Link("times$q13$k15$i32")
  <2>1. Conf("times$q13$k15$i32", CountData(k), Bottom)
    <3>1. InTimesMore("times$q13$k15$i32", k, CountData(k), Bottom) BY DEF InTimesMore
    <3> QED BY <1>5, <3>1
  <2>2. Controls(e) BY <1>2, ContsAre
  <2> HIDE DEF e
  <2>3. Go(Code("swap$quot_i32"), << >> \o Link("main$q21") \o Num(k), e, << >>,
           << >> \o Num(k) \o Link("main$q21"), e)
    BY <1>1, <1>2, <1>3, <2>2, PrimitiveGoes
  <2>4. Go(Code("swap$quot_i32"), TimesData(k), e, << >>, CountData(k), e) BY <1>6, <2>3 DEF TimesData, CountData
  <2> QED BY <1>2, <1>4, <2>1, <2>4, DataRow DEF e
<1>23. Goes("times$q13$k15$i32", CountData(k), Bottom)
  <2>1. Conf("dup$quot", CountData(k), Bottom \o Link("times$q13$k16$i32"))
    <3>1. InTimesMore("dup$quot", k, CountData(k), Bottom \o Link("times$q13$k16$i32")) BY DEF InTimesMore
    <3> QED BY <1>5, <3>1
  <2> QED BY <1>1, <1>2, <1>3, <1>4, <2>1, TimesCodes, CallThenRow
<1>24. Goes("dup$quot", CountData(k), Bottom \o Link("times$q13$k16$i32"))
  <2> DEFINE e == Bottom \o Link("times$q13$k16$i32")
  <2>1. Conf("times$q13$k16$i32", CountData(k) \o Link("main$q21"), Bottom)
    <3>1. InTimesMore("times$q13$k16$i32", k, CountData(k) \o Link("main$q21"), Bottom) BY DEF InTimesMore
    <3> QED BY <1>5, <3>1
  <2>2. Controls(e) BY <1>2, ContsAre
  <2> HIDE DEF e
  <2>3. Go(Code("dup$quot"), CountData(k), e, << >>, CountData(k) \o Link("main$q21"), e)
    BY <1>1, <1>2, <1>3, <2>2, PrimitiveGoes DEF CountData
  <2> QED BY <1>2, <1>4, <2>1, <2>3, DataRow DEF e
<1>25. Goes("times$q13$k16$i32", CountData(k) \o Link("main$q21"), Bottom)
  <2>1. Conf("apply", CountData(k) \o Link("main$q21"), Bottom \o Link("times$q13$k17$i32"))
    <3>1. InTimesMore("apply", k, CountData(k) \o Link("main$q21"), MoreCont) BY DEF InTimesMore
    <3> QED BY <1>5, <3>1 DEF MoreCont
  <2> QED BY <1>1, <1>2, <1>3, <1>4, <2>1, TimesCodes, CallThenRow
<1>26. Goes("apply", CountData(k) \o Link("main$q21"), MoreCont)
  <2>1. Conf("tocont", CountData(k) \o Link("main$q21"), MoreCont)
    <3>1. InTimesMore("tocont", k, CountData(k) \o Link("main$q21"), MoreCont) BY DEF InTimesMore
    <3> QED BY <1>5, <3>1
  <2> QED BY <1>1, <1>2, <1>3, <1>4, <2>1, PrimitiveCodes, CallRow
<1>27. Goes("tocont", CountData(k) \o Link("main$q21"), MoreCont)
  <2>1. Conf("main$q21", CountData(k), MoreCont)
    <3>1. InTimesMore("main$q21", k, CountData(k), MoreCont) BY DEF InTimesMore
    <3> QED BY <1>5, <3>1
  <2>2. CountData(k) \in Bytes BY <1>3 DEF Room
  <2> QED BY <1>2, <1>4, <2>1, <2>2, ToContRow
<1>28. Goes("main$q21", CountData(k), MoreCont)
  <2>1. Conf("factorial$i32", CountData(k) \o Num(N), MoreCont \o Link("main$q21$k22"))
    <3>1. InFactorial("factorial$i32", k, CountData(k) \o Num(N), AccumCont) BY DEF InFactorial
    <3> QED BY <1>7, <3>1 DEF AccumCont
  <2> QED BY <1>1, <1>2, <1>3, <1>4, <2>1, MainCodes, PushCallThenRow
<1>29. Goes("times$q13$k17$i32", CountData(k), Bottom)
  <2>1. Conf("swap$i32_quot", CountData(k), Bottom \o Link("times$q13$k18$i32"))
    <3>1. InTimesMore("swap$i32_quot", k, CountData(k), Bottom \o Link("times$q13$k18$i32")) BY DEF InTimesMore
    <3> QED BY <1>5, <3>1
  <2> QED BY <1>1, <1>2, <1>3, <1>4, <2>1, TimesCodes, CallThenRow
<1>30. Goes("swap$i32_quot", CountData(k), Bottom \o Link("times$q13$k18$i32"))
  <2> DEFINE e == Bottom \o Link("times$q13$k18$i32")
  <2>1. Conf("times$q13$k18$i32", TimesData(k), Bottom)
    <3>1. InTimesMore("times$q13$k18$i32", k, TimesData(k), Bottom) BY DEF InTimesMore
    <3> QED BY <1>5, <3>1
  <2>2. Controls(e) BY <1>2, ContsAre
  <2> HIDE DEF e
  <2>3. Go(Code("swap$i32_quot"), << >> \o Num(k) \o Link("main$q21"), e, << >>,
           << >> \o Link("main$q21") \o Num(k), e)
    BY <1>1, <1>2, <1>3, <2>2, PrimitiveGoes
  <2>4. Go(Code("swap$i32_quot"), CountData(k), e, << >>, TimesData(k), e) BY <1>6, <2>3 DEF TimesData, CountData
  <2> QED BY <1>2, <1>4, <2>1, <2>4, DataRow DEF e
<1>31. Goes("times$q13$k18$i32", TimesData(k), Bottom)
  <2>1. Conf("times$i32", TimesData(k), Bottom)
    <3>1. InTimes("times$i32", k, TimesData(k), Bottom) BY DEF InTimes
    <3> QED BY <1>8, <3>1
  <2> QED BY <1>1, <1>2, <1>3, <1>4, <2>1, TimesCodes, CallRow
<1> QED BY <1>21, <1>22, <1>23, <1>24, <1>25, <1>26, <1>27, <1>28, <1>29, <1>30, <1>31 DEF InTimesMore

LEMMA FactorialGo ==
  ASSUME FactorialInstance, Loaded, NEW k \in Ints, Later(k), NEW w, NEW d, NEW c, InFactorial(w, k, d, c)
  PROVE  Goes(w, d, c)
<1>1. mod \in Modules /\ k \in Nat /\ N \in Nat /\ N \in Ints /\ 1 \in Nat /\ 1 \in Ints
  <2>1. 1 \in Ints BY Sizes DEF Ints, Modulus, FactorialInstance
  <2> QED BY <2>1, IntegersAreNumbers, Literals DEF Loaded
<1>2. "factorial_accum$i32" \in Words BY WordsAre DEF AllWords
<1>3. Room(CountData(k) \o Num(N), 3) /\ Room(CountData(k) \o Num(N) \o Num(1), 2)
  <2>1. Data(CountData(k) \o Num(N), 4 * LocSize) BY <1>1, DataIs
  <2>2. Room(CountData(k) \o Num(N) \o Num(1), 3) BY <1>1, <2>1, RoomsOver
  <2> QED BY <2>1, <2>2, BaseRooms, RoomLess
<1>4. Depth(AccumCont, 3) /\ 3 \in 1 .. 4 BY DepthsAre
<1>5. Conf("factorial_accum$i32", CountData(k) \o Num(N) \o Num(1), AccumCont)
  <2>1. InAccum("factorial_accum$i32", k, N, 1, AccumData(k, N, 1), AccumCont) BY DEF InAccum
  <2>2. Accums(N, 1) BY <1>1, AccumsFirst
  <2>3. Conf("factorial_accum$i32", AccumData(k, N, 1), AccumCont) BY <1>1, <2>1, <2>2 DEF Conf
  <2> QED BY <2>3 DEF AccumData
<1>6. Goes("factorial$i32", CountData(k) \o Num(N), AccumCont)
  BY <1>1, <1>2, <1>3, <1>4, <1>5, FactorialCodes, PushCallRow
<1> QED BY <1>6 DEF InFactorial

LEMMA AccumGo ==
  ASSUME FactorialInstance, Loaded, NEW k \in Ints, Later(k), NEW x \in Ints, NEW a \in Ints, Accums(x, a),
         NEW w, NEW d, NEW c, InAccum(w, k, x, a, d, c)
  PROVE  Goes(w, d, c)
<1> DEFINE p == Positive(x)
           u == "factorial_accum$q1$i32"
           v == "factorial_accum$q2$i32"
<1>1. mod \in Modules /\ k \in Nat /\ x \in Nat /\ a \in Nat /\ 1 \in Nat /\ p \in Nat
  BY IntegersAreNumbers, PositiveOf DEF Loaded
<1>2. {"factorial_accum$i32", "swap$i32_i32", "factorial_accum$k8$i32", "dup$i32",
       "factorial_accum$k9$i32", "icmp$sle_i32", "factorial_accum$k10$i32", "factorial_accum$q1$i32",
       "factorial_accum$q2$i32", "if", "select$quot", "if$k0", "tocont", "drop$i32",
       "factorial_accum$q2$k3$i32"} \subseteq Words
  BY WordsAre DEF AllWords
<1>3. /\ Room(AccumData(k, x, a), 2)
      /\ Room(AccumData(k, a, x), 3) /\ Room(AccumData(k, a, x), 2)
      /\ Len(AccumData(k, a, x)) + SizeOf[Bit] <= StackSize
      /\ Room(CountData(k), 3) /\ Len(CountData(k)) + SizeOf[Bit] <= StackSize
      /\ Room(CountData(k) \o Num(a), 3) /\ Len(CountData(k) \o Num(a)) + SizeOf[Bit] <= StackSize
      /\ Room(AccumData(k, a, x) \o Num(x), 3)
      /\ Room(AccumData(k, a, x) \o Num(x) \o Num(1), 2)
      /\ Room(AccumData(k, a, x) \o Flag(p), 3)
      /\ Room(AccumData(k, a, x) \o Flag(p) \o Link(u), 2)
      /\ Room(AccumData(k, a, x) \o Flag(p) \o Link(u) \o Link(v), 2)
      /\ Room(AccumData(k, a, x) \o Link(AccumBranch(x)), 2)
  <2>1. /\ Data(AccumData(k, x, a), 4 * LocSize) /\ Data(AccumData(k, a, x), 4 * LocSize)
        /\ Data(CountData(k), 4 * LocSize) /\ Data(CountData(k) \o Num(a), 4 * LocSize)
    BY <1>1, DataIs
  <2>2. wordMap[u] \in Nat /\ wordMap[v] \in Nat /\ wordMap[AccumBranch(x)] \in Nat
    BY <1>2, LinkIsLocation DEF AccumBranch
  <2> DEFINE e == AccumData(k, a, x)
             f == CountData(k) \o Num(a)
  <2>3. Room(AccumData(k, x, a), 2) BY <2>1, BaseRooms
  <2>4. Room(CountData(k), 3) /\ Len(CountData(k)) + SizeOf[Bit] <= StackSize BY <2>1, BaseRooms
  <2> HIDE DEF e, f, u, v, p
  <2>5. Data(e, 4 * LocSize) /\ Data(f, 4 * LocSize) BY <2>1 DEF e, f
  <2>6. /\ Room(e, 3) /\ Room(e, 2) /\ Len(e) + SizeOf[Bit] <= StackSize
        /\ Room(f, 3) /\ Len(f) + SizeOf[Bit] <= StackSize
    BY <2>5, BaseRooms
  <2>7. Room(e \o Num(x), 3) /\ Room(e \o Num(x) \o Num(1), 2) BY <1>1, <2>5, RoomsOver
  <2>8. /\ Room(e \o Flag(p), 3) /\ Room(e \o Flag(p) \o Link(u), 2)
        /\ Room(e \o Flag(p) \o Link(u) \o Link(v), 2)
    BY <1>1, <2>2, <2>5, RoomsOver DEF Link
  <2>9. Room(e \o Link(AccumBranch(x)), 2) BY <2>2, <2>5, RoomsOver, RoomLess DEF Link
  <2> QED BY <2>3, <2>4, <2>6, <2>7, <2>8, <2>9 DEF e, f
<1>4. Depth(AccumCont, 3) /\ 3 \in 1 .. 4 /\ 3 \in 1 .. 3 /\ AccumCont \in Bytes /\ Controls(AccumCont)
  BY DepthsAre, ContsAre
<1>5. ASSUME NEW w1, NEW d1, NEW c1, InAccum(w1, k, x, a, d1, c1) PROVE Conf(w1, d1, c1)
  BY <1>5 DEF Conf
<1>6. ASSUME NEW w1, NEW d1, NEW c1, Signed(x) >= 1, InAccumEnd(w1, k, x, a, d1, c1) PROVE Conf(w1, d1, c1)
  BY <1>6 DEF Conf
<1>7. ASSUME NEW w1, NEW d1, NEW c1, Signed(x) < 1, InAccumMore(w1, k, x, a, d1, c1) PROVE Conf(w1, d1, c1)
  BY <1>7 DEF Conf
<1>21. Goes("factorial_accum$i32", AccumData(k, x, a), AccumCont)
  <2>1. Conf("swap$i32_i32", AccumData(k, x, a), AccumCont \o Link("factorial_accum$k8$i32"))
    <3>1. InAccum("swap$i32_i32", k, x, a, AccumData(k, x, a), AccumCont \o Link("factorial_accum$k8$i32")) BY DEF InAccum
    <3> QED BY <1>5, <3>1
  <2> QED BY <1>1, <1>2, <1>3, <1>4, <2>1, FactorialCodes, CallThenRow
<1>22. Goes("swap$i32_i32", AccumData(k, x, a), AccumCont \o Link("factorial_accum$k8$i32"))
  <2> DEFINE e == AccumCont \o Link("factorial_accum$k8$i32")
  <2>1. Conf("factorial_accum$k8$i32", AccumData(k, a, x), AccumCont)
    <3>1. InAccum("factorial_accum$k8$i32", k, x, a, AccumData(k, a, x), AccumCont) BY DEF InAccum
    <3> QED BY <1>5, <3>1
  <2>2. Controls(e) BY <1>2, ContsAre
  <2> HIDE DEF e
  <2>3. Go(Code("swap$i32_i32"), AccumData(k, x, a), e, << >>, AccumData(k, a, x), e)
    BY <1>1, <1>3, <2>2, PrimitiveGoes DEF AccumData
  <2> QED BY <1>2, <1>4, <2>1, <2>3, DataRow DEF e
<1>23. Goes("factorial_accum$k8$i32", AccumData(k, a, x), AccumCont)
  <2>1. Conf("dup$i32", AccumData(k, a, x), AccumCont \o Link("factorial_accum$k9$i32"))
    <3>1. InAccum("dup$i32", k, x, a, AccumData(k, a, x), AccumCont \o Link("factorial_accum$k9$i32")) BY DEF InAccum
    <3> QED BY <1>5, <3>1
  <2> QED BY <1>1, <1>2, <1>3, <1>4, <2>1, FactorialCodes, CallThenRow
<1>24. Goes("dup$i32", AccumData(k, a, x), AccumCont \o Link("factorial_accum$k9$i32"))
  <2> DEFINE e == AccumCont \o Link("factorial_accum$k9$i32")
  <2>1. Conf("factorial_accum$k9$i32", AccumData(k, a, x) \o Num(x), AccumCont)
    <3>1. InAccum("factorial_accum$k9$i32", k, x, a, AccumData(k, a, x) \o Num(x), AccumCont) BY DEF InAccum
    <3> QED BY <1>5, <3>1
  <2>2. Controls(e) BY <1>2, ContsAre
  <2> HIDE DEF e
  <2>3. Go(Code("dup$i32"), AccumData(k, a, x), e, << >>, AccumData(k, a, x) \o Num(x), e)
    BY <1>1, <1>3, <2>2, PrimitiveGoes DEF AccumData
  <2> QED BY <1>2, <1>4, <2>1, <2>3, DataRow DEF e
<1>25. Goes("factorial_accum$k9$i32", AccumData(k, a, x) \o Num(x), AccumCont)
  <2>1. Conf("icmp$sle_i32", AccumData(k, a, x) \o Num(x) \o Num(1), AccumCont \o Link("factorial_accum$k10$i32"))
    <3>1. InAccum("icmp$sle_i32", k, x, a, AccumData(k, a, x) \o Num(x) \o Num(1), AccumCont \o Link("factorial_accum$k10$i32")) BY DEF InAccum
    <3> QED BY <1>5, <3>1
  <2> QED BY <1>1, <1>2, <1>3, <1>4, <2>1, FactorialCodes, PushCallThenRow
<1>26. Goes("icmp$sle_i32", AccumData(k, a, x) \o Num(x) \o Num(1), AccumCont \o Link("factorial_accum$k10$i32"))
  <2> DEFINE e == AccumCont \o Link("factorial_accum$k10$i32")
  <2>1. Conf("factorial_accum$k10$i32", AccumData(k, a, x) \o Flag(p), AccumCont)
    <3>1. InAccum("factorial_accum$k10$i32", k, x, a, AccumData(k, a, x) \o Flag(p), AccumCont) BY DEF InAccum
    <3> QED BY <1>5, <3>1
  <2>2. Controls(e) BY <1>2, ContsAre
  <2> HIDE DEF e
  <2>3. Go(Code("icmp$sle_i32"), AccumData(k, a, x) \o Num(x) \o Num(1), e, << >>, AccumData(k, a, x) \o Flag(p), e)
    <3>1. (IF Signed(1) <= Signed(x) THEN 1 ELSE 0) = p BY PositiveOf
    <3> QED BY <1>1, <1>3, <2>2, <3>1, PrimitiveGoes
  <2> QED BY <1>2, <1>4, <2>1, <2>3, DataRow DEF e
<1>27. Goes("factorial_accum$k10$i32", AccumData(k, a, x) \o Flag(p), AccumCont)
  <2>1. Conf("if", AccumData(k, a, x) \o Flag(p) \o Link(u) \o Link(v), AccumCont)
    <3>1. InAccum("if", k, x, a, AccumData(k, a, x) \o Flag(p) \o Link(u) \o Link(v), AccumCont) BY DEF InAccum
    <3> QED BY <1>5, <3>1
  <2>2. Code("factorial_accum$k10$i32") = IfCode(u, v) BY <1>1, FactorialCodes
  <2>3. u \in Words /\ v \in Words BY <1>2
  <2> HIDE DEF u, v, p
  <2> QED BY <1>3, <1>4, <2>1, <2>2, <2>3, IfRow
<1>28. Goes("if", AccumData(k, a, x) \o Flag(p) \o Link(u) \o Link(v), AccumCont)
  <2>1. Conf("select$quot", AccumData(k, a, x) \o Flag(p) \o Link(u) \o Link(v), AccumCont \o Link("if$k0"))
    <3>1. InAccum("select$quot", k, x, a, AccumData(k, a, x) \o Flag(p) \o Link(u) \o Link(v), AccumCont \o Link("if$k0")) BY DEF InAccum
    <3> QED BY <1>5, <3>1
  <2> DEFINE e == AccumData(k, a, x) \o Flag(p) \o Link(u) \o Link(v)
  <2>2. Room(e, 2) BY <1>3
  <2> HIDE DEF e
  <2> QED BY <1>1, <1>2, <1>4, <2>1, <2>2, PrimitiveCodes, CallThenRow DEF e
<1>29. Goes("select$quot", AccumData(k, a, x) \o Flag(p) \o Link(u) \o Link(v), AccumCont \o Link("if$k0"))
  <2> DEFINE e == AccumCont \o Link("if$k0")
  <2>1. Conf("if$k0", AccumData(k, a, x) \o Link(AccumBranch(x)), AccumCont)
    <3>1. InAccum("if$k0", k, x, a, AccumData(k, a, x) \o Link(AccumBranch(x)), AccumCont) BY DEF InAccum
    <3> QED BY <1>5, <3>1
  <2>2. Controls(e) BY <1>2, ContsAre
  <2>3. u \in Words /\ v \in Words BY <1>2
  <2>4. (IF p # 0 THEN Link(u) ELSE Link(v)) = Link(AccumBranch(x)) BY PositiveOf DEF AccumBranch
  <2> HIDE DEF e, p, u, v
  <2>5. Go(Code("select$quot"), AccumData(k, a, x) \o Flag(p) \o Link(u) \o Link(v), e, << >>, AccumData(k, a, x) \o (IF p # 0 THEN Link(u) ELSE Link(v)), e)
    BY <1>1, <1>3, <2>2, <2>3, PrimitiveGoes
  <2>6. Go(Code("select$quot"), AccumData(k, a, x) \o Flag(p) \o Link(u) \o Link(v), e, << >>, AccumData(k, a, x) \o Link(AccumBranch(x)), e) BY <2>4, <2>5
  <2> QED BY <1>2, <1>4, <2>1, <2>6, DataRow DEF e
<1>30. Goes("if$k0", AccumData(k, a, x) \o Link(AccumBranch(x)), AccumCont)
  <2>1. Conf("tocont", AccumData(k, a, x) \o Link(AccumBranch(x)), AccumCont)
    <3>1. InAccum("tocont", k, x, a, AccumData(k, a, x) \o Link(AccumBranch(x)), AccumCont) BY DEF InAccum
    <3> QED BY <1>5, <3>1
  <2> QED BY <1>1, <1>2, <1>3, <1>4, <2>1, PrimitiveCodes, CallRow
<1>31. Goes("tocont", AccumData(k, a, x) \o Link(AccumBranch(x)), AccumCont)
  <2>1. Conf(AccumBranch(x), AccumData(k, a, x), AccumCont)
    <3>1. InAccum(AccumBranch(x), k, x, a, AccumData(k, a, x), AccumCont) BY DEF InAccum
    <3> QED BY <1>5, <3>1
  <2>2. AccumBranch(x) \in Words BY <1>2 DEF AccumBranch
  <2>3. AccumData(k, a, x) \in Bytes BY <1>3 DEF Room
  <2> QED BY <1>4, <2>1, <2>2, <2>3, ToContRow
<1>32. Goes(AccumBranch(x), AccumData(k, a, x), AccumCont)
  <2>1. CASE Signed(x) >= 1
    <3>1. Conf("drop$i32", AccumData(k, a, x), AccumCont)
      <4>1. InAccumEnd("drop$i32", k, x, a, AccumData(k, a, x), AccumCont) BY DEF InAccumEnd
      <4> QED BY <1>6, <2>1, <4>1
    <3>2. Goes("factorial_accum$q1$i32", AccumData(k, a, x), AccumCont)
      BY <1>1, <1>2, <1>3, <1>4, <3>1, AccumCodes, CallRow
    <3> QED BY <2>1, <3>2 DEF AccumBranch
  <2>2. CASE ~(Signed(x) >= 1)
    <3>1. Signed(x) < 1 BY <2>2, PositiveOf
    <3>2. Conf("dup$i32", AccumData(k, a, x), AccumCont \o Link("factorial_accum$q2$k3$i32"))
      <4>1. InAccumMore("dup$i32", k, x, a, AccumData(k, a, x), AccumCont \o Link("factorial_accum$q2$k3$i32")) BY DEF InAccumMore
      <4> QED BY <1>7, <3>1, <4>1
    <3>3. Goes("factorial_accum$q2$i32", AccumData(k, a, x), AccumCont)
      BY <1>1, <1>2, <1>3, <1>4, <3>2, AccumCodes, CallThenRow
    <3> QED BY <2>2, <3>3 DEF AccumBranch
  <2> QED BY <2>1, <2>2
<1> QED BY <1>21, <1>22, <1>23, <1>24, <1>25, <1>26, <1>27, <1>28, <1>29, <1>30, <1>31, <1>32 DEF InAccum

LEMMA AccumEndGo ==
  ASSUME FactorialInstance, Loaded, NEW k \in Ints, Later(k), NEW x \in Ints, NEW a \in Ints, Accums(x, a),
         Signed(x) >= 1, NEW w, NEW d, NEW c, InAccumEnd(w, k, x, a, d, c)
  PROVE  Goes(w, d, c)
<1>1. mod \in Modules /\ k \in Nat /\ x \in Nat /\ a \in Nat BY IntegersAreNumbers DEF Loaded
<1>2. {"drop$i32", "main$q21$k22", "times$q13$k17$i32"} \subseteq Words
  BY WordsAre DEF AllWords
<1>3. /\ Room(CountData(k), 3) /\ Len(CountData(k)) + SizeOf[Bit] <= StackSize
      /\ Room(CountData(k) \o Num(a), 3) /\ Room(CountData(k) \o Num(a), 2)
      /\ Len(CountData(k) \o Num(a)) + SizeOf[Bit] <= StackSize
  <2>1. Data(CountData(k), 4 * LocSize) /\ Data(CountData(k) \o Num(a), 4 * LocSize) BY <1>1, DataIs
  <2> QED BY <2>1, BaseRooms
<1>4. Depth(MoreCont, 2) /\ 2 \in 1 .. 4 /\ MoreCont \in Bytes /\ Bottom \in Bytes
  BY DepthsAre, ContsAre
<1>5. ASSUME NEW w1, NEW d1, NEW c1, InAccumEnd(w1, k, x, a, d1, c1) PROVE Conf(w1, d1, c1)
  BY <1>5 DEF Conf
<1>6. ASSUME NEW w1, NEW d1, NEW c1, InTimesMore(w1, k, d1, c1) PROVE Conf(w1, d1, c1)
  BY <1>6 DEF Conf
<1>21. Goes("drop$i32", AccumData(k, a, x), AccumCont)
  <2>1. Conf("main$q21$k22", CountData(k) \o Num(a), MoreCont)
    <3>1. InAccumEnd("main$q21$k22", k, x, a, CountData(k) \o Num(a), MoreCont) BY DEF InAccumEnd
    <3> QED BY <1>5, <3>1
  <2> DEFINE e == AccumCont
  <2>2. e = MoreCont \o Link("main$q21$k22") BY DEF AccumCont
  <2>3. Controls(e) BY ContsAre
  <2> HIDE DEF e
  <2>4. Go(Code("drop$i32"), AccumData(k, a, x), e, << >>, CountData(k) \o Num(a), e) BY <1>1, <1>3, <2>3, PrimitiveGoes DEF AccumData
  <2> QED BY <1>2, <1>4, <2>1, <2>2, <2>4, DataRow DEF e
<1>22. Goes("main$q21$k22", CountData(k) \o Num(a), MoreCont)
  <2>1. Conf("drop$i32", CountData(k) \o Num(a), MoreCont)
    <3>1. InAccumEnd("drop$i32", k, x, a, CountData(k) \o Num(a), MoreCont) BY DEF InAccumEnd
    <3> QED BY <1>5, <3>1
  <2> QED BY <1>1, <1>2, <1>3, <1>4, <2>1, MainCodes, CallRow
<1>23. Goes("drop$i32", CountData(k) \o Num(a), MoreCont)
  <2>1. Conf("times$q13$k17$i32", CountData(k), Bottom)
    <3>1. InTimesMore("times$q13$k17$i32", k, CountData(k), Bottom) BY DEF InTimesMore
    <3> QED BY <1>6, <3>1
  <2> DEFINE e == MoreCont
  <2>2. e = Bottom \o Link("times$q13$k17$i32") BY DEF MoreCont
  <2>3. Controls(e) BY ContsAre
  <2> HIDE DEF e
  <2>4. Go(Code("drop$i32"), CountData(k) \o Num(a), e, << >>, CountData(k), e) BY <1>1, <1>3, <2>3, PrimitiveGoes
  <2> QED BY <1>2, <1>4, <2>1, <2>2, <2>4, DataRow DEF e
<1> QED BY <1>21, <1>22, <1>23 DEF InAccumEnd

LEMMA AccumMoreGo ==
  ASSUME FactorialInstance, Loaded, NEW k \in Ints, Later(k), NEW x \in Ints, NEW a \in Ints, Accums(x, a),
         Signed(x) < 1, NEW w, NEW d, NEW c, InAccumMore(w, k, x, a, d, c)
  PROVE  Goes(w, d, c)
<1> DEFINE y == (x - 1) % Modulus
           b == (x * a) % Modulus
<1>1. /\ mod \in Modules /\ k \in Nat /\ x \in Nat /\ a \in Nat /\ 1 \in Nat
      /\ y \in Nat /\ b \in Nat /\ y \in Ints /\ b \in Ints /\ N \in Ints
  <2>1. Modulus \in Nat \ {0} /\ x \in Nat /\ a \in Nat BY Sizes, IntegersAreNumbers
  <2>2. x - 1 \in Int /\ x * a \in Int BY <2>1
  <2>3. y \in 0 .. Modulus - 1 /\ b \in 0 .. Modulus - 1 BY <2>1, <2>2, Remainder
  <2> HIDE DEF y, b
  <2> QED BY <2>1, <2>3, IntegersAreNumbers, Literals DEF Loaded, Ints
<1>2. {"dup$i32", "factorial_accum$q2$k3$i32", "sub$i32", "factorial_accum$q2$k4$i32", "swap$i32_i32",
       "factorial_accum$q2$k5$i32", "rot$i32_i32_i32", "factorial_accum$q2$k6$i32", "mul$i32",
       "factorial_accum$q2$k7$i32", "factorial_accum$i32"} \subseteq Words
  BY WordsAre DEF AllWords
<1>3. /\ Room(AccumData(k, a, x), 3) /\ Len(AccumData(k, a, x)) + SizeOf[Bit] <= StackSize
      /\ Room(CountData(k), 3) /\ Len(CountData(k)) + SizeOf[Bit] <= StackSize
      /\ Room(CountData(k) \o Num(a), 3) /\ Len(CountData(k) \o Num(a)) + SizeOf[Bit] <= StackSize
      /\ Room(CountData(k) \o Num(y), 3) /\ Len(CountData(k) \o Num(y)) + SizeOf[Bit] <= StackSize
      /\ Room(AccumData(k, a, x) \o Num(x), 3)
      /\ Room(AccumData(k, a, x) \o Num(x) \o Num(1), 2)
      /\ Room(AccumData(k, a, x) \o Num(y), 2) /\ Room(AccumData(k, a, y) \o Num(x), 2)
      /\ Room(AccumData(k, y, x) \o Num(a), 2) /\ Room(AccumData(k, y, b), 2)
  <2> HIDE DEF y, b
  <2>1. /\ Data(AccumData(k, a, x), 4 * LocSize) /\ Data(AccumData(k, a, y), 4 * LocSize)
        /\ Data(AccumData(k, y, x), 4 * LocSize) /\ Data(AccumData(k, y, b), 4 * LocSize)
        /\ Data(CountData(k), 4 * LocSize) /\ Data(CountData(k) \o Num(a), 4 * LocSize)
        /\ Data(CountData(k) \o Num(y), 4 * LocSize)
    BY <1>1, DataIs
  <2>2. ASSUME NEW d1, Data(d1, 4 * LocSize), NEW i \in Nat, NEW j \in Nat
        PROVE  Room(d1 \o Num(i), 3) /\ Room(d1 \o Num(i), 2) /\ Room(d1 \o Num(i) \o Num(j), 2)
    BY <2>2, RoomsOver, RoomLess
  <2>3. /\ Room(AccumData(k, a, x) \o Num(x), 3)
        /\ Room(AccumData(k, a, x) \o Num(x) \o Num(1), 2)
        /\ Room(AccumData(k, a, x) \o Num(y), 2) /\ Room(AccumData(k, a, y) \o Num(x), 2)
        /\ Room(AccumData(k, y, x) \o Num(a), 2)
    BY <1>1, <2>1, <2>2
  <2> QED BY <2>1, <2>3, BaseRooms
<1>4. Depth(AccumCont, 3) /\ 3 \in 1 .. 4 /\ 3 \in 1 .. 3 /\ AccumCont \in Bytes
  BY DepthsAre, ContsAre
<1>5. ASSUME NEW w1, NEW d1, NEW c1, InAccumMore(w1, k, x, a, d1, c1) PROVE Conf(w1, d1, c1)
  BY <1>5 DEF Conf
<1>21. Goes("dup$i32", AccumData(k, a, x), AccumCont \o Link("factorial_accum$q2$k3$i32"))
  <2> DEFINE e == AccumCont \o Link("factorial_accum$q2$k3$i32")
  <2>1. Conf("factorial_accum$q2$k3$i32", AccumData(k, a, x) \o Num(x), AccumCont)
    <3>1. InAccumMore("factorial_accum$q2$k3$i32", k, x, a, AccumData(k, a, x) \o Num(x), AccumCont) BY DEF InAccumMore
    <3> QED BY <1>5, <3>1
  <2>2. Controls(e) BY <1>2, ContsAre
  <2> HIDE DEF e
  <2>3. Go(Code("dup$i32"), AccumData(k, a, x), e, << >>, AccumData(k, a, x) \o Num(x), e)
    BY <1>1, <1>3, <2>2, PrimitiveGoes DEF AccumData
  <2> QED BY <1>2, <1>4, <2>1, <2>3, DataRow DEF e
<1>22. Goes("factorial_accum$q2$k3$i32", AccumData(k, a, x) \o Num(x), AccumCont)
  <2>1. Conf("sub$i32", AccumData(k, a, x) \o Num(x) \o Num(1), AccumCont \o Link("factorial_accum$q2$k4$i32"))
    <3>1. InAccumMore("sub$i32", k, x, a, AccumData(k, a, x) \o Num(x) \o Num(1), AccumCont \o Link("factorial_accum$q2$k4$i32")) BY DEF InAccumMore
    <3> QED BY <1>5, <3>1
  <2> QED BY <1>1, <1>2, <1>3, <1>4, <2>1, AccumCodes, PushCallThenRow
<1>23. Goes("sub$i32", AccumData(k, a, x) \o Num(x) \o Num(1), AccumCont \o Link("factorial_accum$q2$k4$i32"))
  <2> DEFINE e == AccumCont \o Link("factorial_accum$q2$k4$i32")
  <2>1. Conf("factorial_accum$q2$k4$i32", AccumData(k, a, x) \o Num(y), AccumCont)
    <3>1. InAccumMore("factorial_accum$q2$k4$i32", k, x, a, AccumData(k, a, x) \o Num(y), AccumCont) BY DEF InAccumMore
    <3> QED BY <1>5, <3>1
  <2>2. Controls(e) BY <1>2, ContsAre
  <2> HIDE DEF e
  <2>3. Go(Code("sub$i32"), AccumData(k, a, x) \o Num(x) \o Num(1), e, << >>, AccumData(k, a, x) \o Num(y), e)
    BY <1>1, <1>3, <2>2, PrimitiveGoes
  <2> QED BY <1>2, <1>4, <2>1, <2>3, DataRow DEF e
<1>24. Goes("factorial_accum$q2$k4$i32", AccumData(k, a, x) \o Num(y), AccumCont)
  <2>1. Conf("swap$i32_i32", AccumData(k, a, x) \o Num(y), AccumCont \o Link("factorial_accum$q2$k5$i32"))
    <3>1. InAccumMore("swap$i32_i32", k, x, a, AccumData(k, a, x) \o Num(y), AccumCont \o Link("factorial_accum$q2$k5$i32")) BY DEF InAccumMore
    <3> QED BY <1>5, <3>1
  <2> QED BY <1>1, <1>2, <1>3, <1>4, <2>1, AccumCodes, CallThenRow
<1>25. Goes("swap$i32_i32", AccumData(k, a, x) \o Num(y), AccumCont \o Link("factorial_accum$q2$k5$i32"))
  <2> DEFINE e == AccumCont \o Link("factorial_accum$q2$k5$i32")
  <2>1. Conf("factorial_accum$q2$k5$i32", AccumData(k, a, y) \o Num(x), AccumCont)
    <3>1. InAccumMore("factorial_accum$q2$k5$i32", k, x, a, AccumData(k, a, y) \o Num(x), AccumCont) BY DEF InAccumMore
    <3> QED BY <1>5, <3>1
  <2>2. Controls(e) BY <1>2, ContsAre
  <2> HIDE DEF e
  <2>3. Go(Code("swap$i32_i32"), AccumData(k, a, x) \o Num(y), e, << >>, AccumData(k, a, y) \o Num(x), e)
    BY <1>1, <1>3, <2>2, PrimitiveGoes DEF AccumData
  <2> QED BY <1>2, <1>4, <2>1, <2>3, DataRow DEF e
<1>26. Goes("factorial_accum$q2$k5$i32", AccumData(k, a, y) \o Num(x), AccumCont)
  <2>1. Conf("rot$i32_i32_i32", AccumData(k, a, y) \o Num(x), AccumCont \o Link("factorial_accum$q2$k6$i32"))
    <3>1. InAccumMore("rot$i32_i32_i32", k, x, a, AccumData(k, a, y) \o Num(x), AccumCont \o Link("factorial_accum$q2$k6$i32")) BY DEF InAccumMore
    <3> QED BY <1>5, <3>1
  <2> QED BY <1>1, <1>2, <1>3, <1>4, <2>1, AccumCodes, CallThenRow
<1>27. Goes("rot$i32_i32_i32", AccumData(k, a, y) \o Num(x), AccumCont \o Link("factorial_accum$q2$k6$i32"))
  <2> DEFINE e == AccumCont \o Link("factorial_accum$q2$k6$i32")
  <2>1. Conf("factorial_accum$q2$k6$i32", AccumData(k, y, x) \o Num(a), AccumCont)
    <3>1. InAccumMore("factorial_accum$q2$k6$i32", k, x, a, AccumData(k, y, x) \o Num(a), AccumCont) BY DEF InAccumMore
    <3> QED BY <1>5, <3>1
  <2>2. Controls(e) BY <1>2, ContsAre
  <2> HIDE DEF e
  <2>3. Go(Code("rot$i32_i32_i32"), AccumData(k, a, y) \o Num(x), e, << >>, AccumData(k, y, x) \o Num(a), e)
    BY <1>1, <1>3, <2>2, PrimitiveGoes DEF AccumData
  <2> QED BY <1>2, <1>4, <2>1, <2>3, DataRow DEF e
<1>28. Goes("factorial_accum$q2$k6$i32", AccumData(k, y, x) \o Num(a), AccumCont)
  <2>1. Conf("mul$i32", AccumData(k, y, x) \o Num(a), AccumCont \o Link("factorial_accum$q2$k7$i32"))
    <3>1. InAccumMore("mul$i32", k, x, a, AccumData(k, y, x) \o Num(a), AccumCont \o Link("factorial_accum$q2$k7$i32")) BY DEF InAccumMore
    <3> QED BY <1>5, <3>1
  <2> QED BY <1>1, <1>2, <1>3, <1>4, <2>1, AccumCodes, CallThenRow
<1>29. Goes("mul$i32", AccumData(k, y, x) \o Num(a), AccumCont \o Link("factorial_accum$q2$k7$i32"))
  <2> DEFINE e == AccumCont \o Link("factorial_accum$q2$k7$i32")
  <2>1. Conf("factorial_accum$q2$k7$i32", AccumData(k, y, b), AccumCont)
    <3>1. InAccumMore("factorial_accum$q2$k7$i32", k, x, a, AccumData(k, y, b), AccumCont) BY DEF InAccumMore
    <3> QED BY <1>5, <3>1
  <2>2. Controls(e) BY <1>2, ContsAre
  <2> HIDE DEF e
  <2>3. Go(Code("mul$i32"), AccumData(k, y, x) \o Num(a), e, << >>, AccumData(k, y, b), e)
    BY <1>1, <1>3, <2>2, PrimitiveGoes DEF AccumData
  <2> QED BY <1>2, <1>4, <2>1, <2>3, DataRow DEF e
<1>30. Goes("factorial_accum$q2$k7$i32", AccumData(k, y, b), AccumCont)
  <2>1. Conf("factorial_accum$i32", AccumData(k, y, b), AccumCont)
    <3>1. InAccum("factorial_accum$i32", k, y, b, AccumData(k, y, b), AccumCont) BY DEF InAccum
    <3>2. Accums(y, b) BY <1>1, AccumsOn
    <3> HIDE DEF y, b
    <3> QED BY <1>1, <3>1, <3>2 DEF Conf
  <2> HIDE DEF y, b
  <2> QED BY <1>1, <1>2, <1>3, <1>4, <2>1, AccumCodes, CallRow
<1> QED BY <1>21, <1>22, <1>23, <1>24, <1>25, <1>26, <1>27, <1>28, <1>29, <1>30 DEF InAccumMore

LEMMA ConfGoes == ASSUME FactorialInstance, Loaded, NEW w, NEW d, NEW c, Conf(w, d, c) PROVE Goes(w, d, c)
<1>1. CASE InMain(w, d, c) BY <1>1, MainGoes
<1>2. CASE \E k \in Ints : Counts(k) /\ InTimes(w, k, d, c) BY <1>2, TimesGo
<1>3. CASE \E k \in Ints : Counts(k) /\ Signed(k) >= 1 /\ InTimesEnd(w, k, d, c) BY <1>3, TimesEndGo
<1>4. CASE \E k \in Ints : Counts(k) /\ Signed(k) < 1 /\ InTimesLast(w, k, d, c) BY <1>4, TimesLastGo
<1>5. CASE \E k \in Ints : Later(k) /\ InTimesMore(w, k, d, c) BY <1>5, TimesMoreGo
<1>6. CASE \E k \in Ints : Later(k) /\ InFactorial(w, k, d, c) BY <1>6, FactorialGo
<1>7. CASE \E k \in Ints, x \in Ints, a \in Ints : Later(k) /\ Accums(x, a) /\ InAccum(w, k, x, a, d, c)
  BY <1>7, AccumGo
<1>8. CASE \E k \in Ints, x \in Ints, a \in Ints :
             Later(k) /\ Accums(x, a) /\ Signed(x) >= 1 /\ InAccumEnd(w, k, x, a, d, c)
  BY <1>8, AccumEndGo
<1>9. CASE \E k \in Ints, x \in Ints, a \in Ints :
             Later(k) /\ Accums(x, a) /\ Signed(x) < 1 /\ InAccumMore(w, k, x, a, d, c)
  BY <1>9, AccumMoreGo
<1> QED BY <1>1, <1>2, <1>3, <1>4, <1>5, <1>6, <1>7, <1>8, <1>9 DEF Conf
-----------------------------------------------------------------------------
(* In every configuration data is made of whole values and cont is a stack *)
(* of at most four locations.                                              *)
Fits(w, d, c) == w \in Words /\ Room(d, 2) /\ \E k \in 1 .. 4 : Depth(c, k)

LEMMA RoomsOverTwo ==
  ASSUME FactorialInstance, Loaded, NEW d, Data(d, 4 * LocSize)
  PROVE  /\ Room(d, 2)
         /\ \A n, m \in Nat : Room(d \o Num(n), 2) /\ Room(d \o Num(n) \o Num(m), 2) /\ Room(d \o Flag(n), 2)
         /\ \A u \in Words : Room(d \o Link(u), 2)
         /\ \A n \in Nat : \A u, v \in Words : Room(d \o Flag(n) \o Link(u) \o Link(v), 2)
<1>1. ASSUME NEW n \in Nat, NEW m \in Nat
      PROVE  Room(d \o Num(n), 2) /\ Room(d \o Num(n) \o Num(m), 2) /\ Room(d \o Flag(n), 2)
  BY RoomsOver, RoomLess
<1>2. ASSUME NEW u \in Words PROVE Room(d \o Link(u), 2)
  <2>1. wordMap[u] \in Nat /\ 0 \in Nat BY LinkIsLocation
  <2> QED BY <2>1, RoomsOver, RoomLess DEF Link
<1>3. ASSUME NEW n \in Nat, NEW u \in Words, NEW v \in Words
      PROVE  Room(d \o Flag(n) \o Link(u) \o Link(v), 2)
  <2>1. wordMap[u] \in Nat /\ wordMap[v] \in Nat BY LinkIsLocation
  <2> QED BY <2>1, RoomsOver DEF Link
<1> QED BY <1>1, <1>2, <1>3, BaseRooms

LEMMA ContsFit ==
  ASSUME FactorialInstance, Loaded, NEW w \in Words, NEW d, Room(d, 2)
  PROVE  /\ Fits(w, d, Bottom) /\ Fits(w, d, MoreCont) /\ Fits(w, d, AccumCont)
         /\ \A b \in Words : Fits(w, d, Bottom \o Link(b)) /\ Fits(w, d, AccumCont \o Link(b))
<1>1. 1 \in 1 .. 4 /\ 2 \in 1 .. 4 /\ 3 \in 1 .. 4 /\ 4 \in 1 .. 4 OBVIOUS
<1> QED BY <1>1, DepthsAre DEF Fits

LEMMA TimesFits ==
  ASSUME FactorialInstance, Loaded, NEW k \in Ints, NEW w, NEW d, NEW c,
         \/ InMain(w, d, c) \/ InTimes(w, k, d, c) \/ InTimesEnd(w, k, d, c)
         \/ InTimesLast(w, k, d, c) \/ InTimesMore(w, k, d, c)
  PROVE  Fits(w, d, c)
<1> DEFINE T == TimesData(k)
           C == CountData(k)
           p == Positive(k)
<1>1. k \in Nat /\ p \in Nat /\ 1 \in Nat BY IntegersAreNumbers, PositiveOf
<1>2. {"main", "main$q21", "times$i32", "dup$i32", "times$k19$i32", "icmp$sle_i32", "times$k20$i32",
       "times$q11$i32", "times$q13$i32", "if", "sub$i32", "times$q13$k14$i32", "times$q11$k12",
       "drop$i32", "drop$quot", "swap$quot_i32", "times$q13$k15$i32", "dup$quot", "times$q13$k16$i32",
       "apply", "times$q13$k17$i32", "swap$i32_quot", "times$q13$k18$i32", "select$quot", "if$k0",
       "tocont"} \subseteq Words
  BY WordsAre DEF AllWords
<1>3. TimesBranch(k) \in Words BY <1>2 DEF TimesBranch
<1>4. /\ Room(T, 2) /\ Room(C, 2) /\ Room(<< >>, 2) /\ Room(Link("main$q21"), 2)
      /\ Room(T \o Num(k), 2) /\ Room(T \o Num(k) \o Num(1), 2) /\ Room(T \o Num(1), 2)
      /\ Room(T \o Flag(p), 2) /\ Room(T \o Link(TimesBranch(k)), 2) /\ Room(C \o Link("main$q21"), 2)
      /\ Room(T \o Flag(p) \o Link("times$q11$i32") \o Link("times$q13$i32"), 2)
  <2>1. /\ Data(T, 4 * LocSize) /\ Data(C, 4 * LocSize) /\ Data(<< >>, 4 * LocSize)
        /\ Data(Link("main$q21"), 4 * LocSize)
    BY <1>1, DataIs
  <2> HIDE DEF T, C, p
  <2>2. Room(C \o Link("main$q21"), 2) BY <1>2, <2>1, RoomsOverTwo
  <2>3. /\ Room(T \o Num(k), 2) /\ Room(T \o Num(k) \o Num(1), 2) /\ Room(T \o Num(1), 2)
        /\ Room(T \o Flag(p), 2) /\ Room(T \o Link(TimesBranch(k)), 2)
    BY <1>1, <1>3, <2>1, RoomsOverTwo
  <2>4. Room(T \o Flag(p) \o Link("times$q11$i32") \o Link("times$q13$i32"), 2)
    BY <1>1, <1>2, <2>1, RoomsOverTwo
  <2> QED BY <2>1, <2>2, <2>3, <2>4, BaseRooms
<1>5. ASSUME NEW w1 \in Words, NEW d1, Room(d1, 2)
      PROVE  /\ Fits(w1, d1, Bottom) /\ Fits(w1, d1, MoreCont)
             /\ \A b \in Words : Fits(w1, d1, Bottom \o Link(b))
  BY <1>5, ContsFit
<1>6. CASE InMain(w, d, c) BY <1>2, <1>4, <1>5, <1>6 DEF InMain
<1>7. CASE InTimes(w, k, d, c) BY <1>2, <1>3, <1>4, <1>5, <1>7 DEF InTimes
<1>8. CASE InTimesEnd(w, k, d, c) BY <1>2, <1>4, <1>5, <1>8 DEF InTimesEnd
<1>9. CASE InTimesLast(w, k, d, c) BY <1>2, <1>4, <1>5, <1>9 DEF InTimesLast
<1>10. CASE InTimesMore(w, k, d, c) BY <1>2, <1>4, <1>5, <1>10 DEF InTimesMore
<1> QED BY <1>6, <1>7, <1>8, <1>9, <1>10

LEMMA AccumFits ==
  ASSUME FactorialInstance, Loaded, NEW k \in Ints, NEW x \in Ints, NEW a \in Ints, NEW w, NEW d, NEW c,
         \/ InFactorial(w, k, d, c) \/ InAccum(w, k, x, a, d, c)
         \/ InAccumEnd(w, k, x, a, d, c) \/ InAccumMore(w, k, x, a, d, c)
  PROVE  Fits(w, d, c)
<1> DEFINE A == AccumData(k, a, x)
           C == CountData(k)
           p == Positive(x)
           y == (x - 1) % Modulus
           b == (x * a) % Modulus
           u == "factorial_accum$q1$i32"
           v == "factorial_accum$q2$i32"
<1>1. /\ k \in Nat /\ x \in Nat /\ a \in Nat /\ 1 \in Nat /\ p \in Nat /\ N \in Nat
      /\ y \in Nat /\ b \in Nat
  <2>1. Modulus \in Nat \ {0} /\ x \in Nat /\ a \in Nat BY Sizes, IntegersAreNumbers
  <2>2. x - 1 \in Int /\ x * a \in Int BY <2>1
  <2>3. y \in 0 .. Modulus - 1 /\ b \in 0 .. Modulus - 1 BY <2>1, <2>2, Remainder
  <2> HIDE DEF y, b, p
  <2>4. p \in Nat /\ N \in Nat BY PositiveOf, IntegersAreNumbers, Literals DEF Loaded, p
  <2> QED BY <2>1, <2>3, <2>4, IntegersAreNumbers
<1>2. {"factorial$i32", "factorial_accum$i32", "swap$i32_i32", "factorial_accum$k8$i32", "dup$i32",
       "factorial_accum$k9$i32", "icmp$sle_i32", "factorial_accum$k10$i32", "factorial_accum$q1$i32",
       "factorial_accum$q2$i32", "if", "select$quot", "if$k0", "tocont", "drop$i32", "main$q21$k22",
       "factorial_accum$q2$k3$i32", "sub$i32", "factorial_accum$q2$k4$i32", "factorial_accum$q2$k5$i32",
       "rot$i32_i32_i32", "factorial_accum$q2$k6$i32", "mul$i32", "factorial_accum$q2$k7$i32"}
        \subseteq Words
  BY WordsAre DEF AllWords
<1>3. AccumBranch(x) \in Words BY <1>2 DEF AccumBranch
<1>4. /\ Room(A, 2) /\ Room(AccumData(k, x, a), 2) /\ Room(C \o Num(N), 2) /\ Room(C \o Num(a), 2)
      /\ Room(A \o Num(x), 2) /\ Room(A \o Num(x) \o Num(1), 2) /\ Room(A \o Num(y), 2)
      /\ Room(A \o Flag(p), 2) /\ Room(A \o Link(AccumBranch(x)), 2)
      /\ Room(A \o Flag(p) \o Link(u) \o Link(v), 2)
      /\ Room(AccumData(k, a, y) \o Num(x), 2) /\ Room(AccumData(k, y, x) \o Num(a), 2)
      /\ Room(AccumData(k, y, b), 2)
  <2> HIDE DEF y, b, p, C
  <2>1. /\ Data(A, 4 * LocSize) /\ Data(AccumData(k, x, a), 4 * LocSize) /\ Data(C, 4 * LocSize)
        /\ Data(AccumData(k, a, y), 4 * LocSize) /\ Data(AccumData(k, y, x), 4 * LocSize)
        /\ Data(AccumData(k, y, b), 4 * LocSize)
    BY <1>1, DataIs DEF C
  <2>2. u \in Words /\ v \in Words BY <1>2
  <2> HIDE DEF A, u, v
  <2>3. Room(C \o Num(N), 2) /\ Room(C \o Num(a), 2) BY <1>1, <2>1, RoomsOverTwo
  <2>4. /\ Room(A \o Num(x), 2) /\ Room(A \o Num(x) \o Num(1), 2) /\ Room(A \o Num(y), 2)
        /\ Room(A \o Flag(p), 2) /\ Room(A \o Link(AccumBranch(x)), 2)
    BY <1>1, <1>3, <2>1, RoomsOverTwo
  <2>5. Room(A \o Flag(p) \o Link(u) \o Link(v), 2) BY <1>1, <2>1, <2>2, RoomsOverTwo
  <2>6. Room(AccumData(k, a, y) \o Num(x), 2) /\ Room(AccumData(k, y, x) \o Num(a), 2)
    BY <1>1, <2>1, RoomsOverTwo
  <2> QED BY <2>1, <2>3, <2>4, <2>5, <2>6, BaseRooms
<1>5. ASSUME NEW w1 \in Words, NEW d1, Room(d1, 2)
      PROVE  /\ Fits(w1, d1, MoreCont) /\ Fits(w1, d1, AccumCont)
             /\ \A b1 \in Words : Fits(w1, d1, AccumCont \o Link(b1))
  BY <1>5, ContsFit
<1>6. CASE InFactorial(w, k, d, c) BY <1>2, <1>4, <1>5, <1>6 DEF InFactorial
<1>7. CASE InAccum(w, k, x, a, d, c) BY <1>2, <1>3, <1>4, <1>5, <1>7 DEF InAccum
<1>8. CASE InAccumEnd(w, k, x, a, d, c) BY <1>2, <1>4, <1>5, <1>8 DEF InAccumEnd
<1>9. CASE InAccumMore(w, k, x, a, d, c) BY <1>2, <1>4, <1>5, <1>9 DEF InAccumMore
<1> QED BY <1>6, <1>7, <1>8, <1>9

LEMMA ConfFits == ASSUME FactorialInstance, Loaded, NEW w, NEW d, NEW c, Conf(w, d, c) PROVE Fits(w, d, c)
<1>1. CASE InMain(w, d, c)
  <2>1. Count \in Ints BY Literals DEF Loaded
  <2> QED BY <1>1, <2>1, TimesFits
<1>2. CASE \E k \in Ints : \/ InTimes(w, k, d, c) \/ InTimesEnd(w, k, d, c)
                           \/ InTimesLast(w, k, d, c) \/ InTimesMore(w, k, d, c)
  BY <1>2, TimesFits
<1>3. CASE \E k \in Ints : InFactorial(w, k, d, c) BY <1>3, AccumFits
<1>4. CASE \E k \in Ints, x \in Ints, a \in Ints :
             \/ InAccum(w, k, x, a, d, c) \/ InAccumEnd(w, k, x, a, d, c)
             \/ InAccumMore(w, k, x, a, d, c)
  BY <1>4, AccumFits
<1> QED BY <1>1, <1>2, <1>3, <1>4 DEF Conf

(* What the driver finds is such a configuration, or the end.              *)
LEMMA LandsIn ==
  ASSUME FactorialInstance, Loaded, NEW d, NEW c, Lands(d, c)
  PROVE  /\ WholeCells(d) /\ Controls(c) /\ Len(c) >= LocSize
         /\ \/ d = << >> /\ IsNull(TopBytes(c, LocSize)) /\ BelowTop(c, LocSize) = << >>
            \/ \E w \in Words :
                 /\ TopBytes(c, LocSize) = Link(w)
                 /\ Conf(w, d, BelowTop(c, LocSize))
<1>1. CASE d = << >> /\ c = Bottom
  <2>1. << >> \in Bytes /\ Bottom \in Bytes /\ Len(Bottom) = LocSize /\ IsNull(Bottom)
    BY EmptySeq, BottomIsNull DEF Bytes
  <2>2. << >> \o Bottom = Bottom BY <2>1, ConcatEmptySeq DEF Bytes
  <2>3. TopBytes(Bottom, LocSize) = Bottom /\ BelowTop(Bottom, LocSize) = << >>
    BY <2>1, <2>2, TopOfPushed
  <2>4. WholeCells(<< >>) BY NoData DEF Data
  <2>5. Controls(Bottom) /\ LocSize \in Nat BY ContsAre, Sizes
  <2> QED BY <1>1, <2>1, <2>3, <2>4, <2>5
<1>2. CASE \E w \in Words, b \in Bytes : c = b \o Link(w) /\ Conf(w, d, b)
  <2>1. PICK w \in Words, b \in Bytes : c = b \o Link(w) /\ Conf(w, d, b) BY <1>2
  <2>2. Fits(w, d, b) BY <2>1, ConfFits
  <2>3. PICK k \in 1 .. 4 : Depth(b, k) BY <2>2 DEF Fits
  <2>4. WholeCells(d) BY <2>2 DEF Fits, Room
  <2>5. Depth(c, k + 1) BY <2>1, <2>3, DepthPushed
  <2>6. Controls(c) BY <2>5 DEF Controls
  <2>7. Link(w) \in Bytes /\ Len(Link(w)) = LocSize BY LinkIsLocation
  <2>8. TopBytes(c, LocSize) = Link(w) /\ BelowTop(c, LocSize) = b /\ Len(c) = Len(b) + LocSize
    BY <2>1, <2>7, TopOfPushed
  <2>9. Len(c) >= LocSize BY <2>8, Sizes, LenProperties DEF Bytes
  <2> QED BY <2>1, <2>4, <2>6, <2>8, <2>9
<1> QED BY <1>1, <1>2 DEF Lands
-----------------------------------------------------------------------------
(* Once the module is loaded nothing of this changes. *)

LEMMA Unmoved ==
  ASSUME UNCHANGED <<mod, slots, wordMap>>
  PROVE  /\ Loaded' = Loaded /\ N' = N /\ Count' = Count
         /\ \A w : Link(w)' = Link(w)
         /\ \A w : Code(w)' = Code(w)
         /\ \A b : IsLocation(b)' = IsLocation(b)
         /\ \A k : Later(k)' = Later(k) /\ Counts(k)' = Counts(k)
         /\ \A x, a : Accums(x, a)' = Accums(x, a)
<1>1. Loaded' = Loaded BY DEF Loaded
<1>2. N' = N /\ Count' = Count BY DEF N, Count
<1>3. \A w : Link(w)' = Link(w) BY DEF Link
<1>4. \A w : Code(w)' = Code(w)
  <2>1. ASSUME NEW w PROVE Code(w)' = Code(w) BY DEF Code, Compile
  <2> QED BY <2>1
<1>5. \A b : IsLocation(b)' = IsLocation(b) BY DEF IsLocation
<1>6. \A k : Later(k)' = Later(k) /\ Counts(k)' = Counts(k) BY <1>2 DEF Later, Counts
<1>7. \A x, a : Accums(x, a)' = Accums(x, a) BY <1>2 DEF Accums, Factored
<1> QED BY <1>1, <1>2, <1>3, <1>4, <1>5, <1>6, <1>7

LEMMA DataUnmoved ==
  ASSUME UNCHANGED <<mod, slots, wordMap>>
  PROVE  /\ \A k : TimesData(k)' = TimesData(k) /\ CountData(k)' = CountData(k)
         /\ \A k, u, v : AccumData(k, u, v)' = AccumData(k, u, v)
         /\ MoreCont' = MoreCont /\ AccumCont' = AccumCont
<1>1. \A w : Link(w)' = Link(w) BY Unmoved
<1>2. \A k : TimesData(k)' = TimesData(k) /\ CountData(k)' = CountData(k)
  BY <1>1 DEF TimesData, CountData
<1>3. \A k, u, v : AccumData(k, u, v)' = AccumData(k, u, v) BY <1>2 DEF AccumData
<1>4. MoreCont' = MoreCont BY <1>1 DEF MoreCont
<1>5. AccumCont' = AccumCont BY <1>1, <1>4 DEF AccumCont
<1> QED BY <1>2, <1>3, <1>4, <1>5

LEMMA ConfUnmoved ==
  ASSUME UNCHANGED <<mod, slots, wordMap>>, NEW w, NEW d, NEW c, Conf(w, d, c)
  PROVE  Conf(w, d, c)'
<1>1. N' = N /\ \A v : Link(v)' = Link(v) BY Unmoved
<1>2. \A k : Later(k)' = Later(k) /\ Counts(k)' = Counts(k) BY Unmoved
<1>3. \A x, a : Accums(x, a)' = Accums(x, a) BY Unmoved
<1>4. /\ \A k : TimesData(k)' = TimesData(k) /\ CountData(k)' = CountData(k)
      /\ \A k, u, v : AccumData(k, u, v)' = AccumData(k, u, v)
      /\ MoreCont' = MoreCont /\ AccumCont' = AccumCont
  BY DataUnmoved
<1>5. ASSUME NEW k
      PROVE  /\ InTimes(w, k, d, c) => InTimes(w, k, d, c)'
             /\ InTimesEnd(w, k, d, c) => InTimesEnd(w, k, d, c)'
             /\ InTimesLast(w, k, d, c) => InTimesLast(w, k, d, c)'
             /\ InTimesMore(w, k, d, c) => InTimesMore(w, k, d, c)'
             /\ InFactorial(w, k, d, c) => InFactorial(w, k, d, c)'
  <2>1. InTimes(w, k, d, c) => InTimes(w, k, d, c)' BY <1>1, <1>4 DEF InTimes
  <2>2. InTimesEnd(w, k, d, c) => InTimesEnd(w, k, d, c)' BY <1>1, <1>4 DEF InTimesEnd
  <2>3. InTimesLast(w, k, d, c) => InTimesLast(w, k, d, c)' BY <1>1, <1>4 DEF InTimesLast
  <2>4. InTimesMore(w, k, d, c) => InTimesMore(w, k, d, c)' BY <1>1, <1>4 DEF InTimesMore
  <2>5. InFactorial(w, k, d, c) => InFactorial(w, k, d, c)' BY <1>1, <1>4 DEF InFactorial
  <2> QED BY <2>1, <2>2, <2>3, <2>4, <2>5
<1>6. ASSUME NEW k, NEW x, NEW a
      PROVE  /\ InAccum(w, k, x, a, d, c) => InAccum(w, k, x, a, d, c)'
             /\ InAccumEnd(w, k, x, a, d, c) => InAccumEnd(w, k, x, a, d, c)'
             /\ InAccumMore(w, k, x, a, d, c) => InAccumMore(w, k, x, a, d, c)'
  <2>1. InAccum(w, k, x, a, d, c) => InAccum(w, k, x, a, d, c)' BY <1>1, <1>4 DEF InAccum
  <2>2. InAccumEnd(w, k, x, a, d, c) => InAccumEnd(w, k, x, a, d, c)' BY <1>1, <1>4 DEF InAccumEnd
  <2>3. InAccumMore(w, k, x, a, d, c) => InAccumMore(w, k, x, a, d, c)' BY <1>1, <1>4 DEF InAccumMore
  <2> QED BY <2>1, <2>2, <2>3
<1>7. CASE InMain(w, d, c)
  <2>1. InMain(w, d, c)' BY <1>7 DEF InMain
  <2> QED BY <2>1 DEF Conf
<1>8. CASE \E k \in Ints :
       \/ Counts(k) /\ InTimes(w, k, d, c)
       \/ Counts(k) /\ Signed(k) >= 1 /\ InTimesEnd(w, k, d, c)
       \/ Counts(k) /\ Signed(k) < 1 /\ InTimesLast(w, k, d, c)
       \/ Later(k) /\ InTimesMore(w, k, d, c)
       \/ Later(k) /\ InFactorial(w, k, d, c)
  <2>1. \E k \in Ints :
       \/ Counts(k)' /\ InTimes(w, k, d, c)'
       \/ Counts(k)' /\ Signed(k) >= 1 /\ InTimesEnd(w, k, d, c)'
       \/ Counts(k)' /\ Signed(k) < 1 /\ InTimesLast(w, k, d, c)'
       \/ Later(k)' /\ InTimesMore(w, k, d, c)'
       \/ Later(k)' /\ InFactorial(w, k, d, c)'
    BY <1>2, <1>5, <1>8
  <2> QED BY <2>1 DEF Conf
<1>9. CASE \E k \in Ints, x \in Ints, a \in Ints :
            /\ Later(k) /\ Accums(x, a)
            /\ \/ InAccum(w, k, x, a, d, c)
               \/ Signed(x) >= 1 /\ InAccumEnd(w, k, x, a, d, c)
               \/ Signed(x) < 1 /\ InAccumMore(w, k, x, a, d, c)
  <2>1. \E k \in Ints, x \in Ints, a \in Ints :
            /\ Later(k)' /\ Accums(x, a)'
            /\ \/ InAccum(w, k, x, a, d, c)'
               \/ Signed(x) >= 1 /\ InAccumEnd(w, k, x, a, d, c)'
               \/ Signed(x) < 1 /\ InAccumMore(w, k, x, a, d, c)'
    BY <1>2, <1>3, <1>6, <1>9
  <2> QED BY <2>1 DEF Conf
<1> QED BY <1>7, <1>8, <1>9 DEF Conf

LEMMA LandsUnmoved ==
  ASSUME UNCHANGED <<mod, slots, wordMap>>, NEW d, NEW c, Lands(d, c)
  PROVE  Lands(d, c)'
<1>1. CASE d = << >> /\ c = Bottom BY <1>1 DEF Lands
<1>2. CASE \E w \in Words, b \in Bytes : c = b \o Link(w) /\ Conf(w, d, b)
  <2>1. PICK w \in Words, b \in Bytes : c = b \o Link(w) /\ Conf(w, d, b) BY <1>2
  <2>2. Conf(w, d, b)' /\ Link(w)' = Link(w) BY <2>1, ConfUnmoved, Unmoved
  <2>3. \E w1 \in Words, b1 \in Bytes : c = b1 \o Link(w1)' /\ Conf(w1, d, b1)' BY <2>1, <2>2
  <2> QED BY <2>3 DEF Lands
<1> QED BY <1>1, <1>2 DEF Lands

LEMMA LeadsUnmoved ==
  ASSUME UNCHANGED <<mod, slots, wordMap>>
  PROVE  /\ \A c : Controls(c)' = Controls(c)
         /\ \A s, t : Leads(s, t) => Leads(s, t)'
<1>1. \A b : IsLocation(b)' = IsLocation(b) BY Unmoved
<1>2. ASSUME NEW c, NEW k PROVE Depth(c, k)' = Depth(c, k) BY <1>1 DEF Depth
<1>3. \A c : Controls(c)' = Controls(c) BY <1>2 DEF Controls
<1>4. \A s, t : Micro(s, t)' = Micro(s, t)
  <2>1. ASSUME NEW s, NEW t PROVE Micro(s, t)' = Micro(s, t)
    BY <1>3 DEF Micro
  <2> QED BY <2>1
<1>5. ASSUME NEW s, NEW t, Leads(s, t) PROVE Leads(s, t)'
  <2>1. \A S : s \in S /\ (\A x \in S : \A y : Micro(x, y)' => y \in S) => t \in S
    BY <1>4, <1>5 DEF Leads
  <2> QED BY <2>1 DEF Leads
<1> QED BY <1>3, <1>5
-----------------------------------------------------------------------------
(* The inductive invariant of the run: between two words the machine is in *)
(* a configuration, and within one the rest of its code leads to the next. *)

(* The code of a word from here on, and where it lands. *)
Finishes ==
  \E g, d, c : Leads(Now, St(<< >>, << >>, g, d, c)) /\ Lands(d, c)

ProgramInv ==
  /\ IF status = "load"
     THEN data = << >> /\ cont = << >> /\ \A l \in DOMAIN function : function[l] = Uninit
     ELSE Loaded
  /\ \A l \in DOMAIN function : function[l] # Uninit => function[l] = Code(slots[l])
  /\ status # "run" => code = << >>
  /\ status = "fetch" => Lands(data, cont)
  /\ status = "interpret" => Conf(slots[here], data, cont)
  /\ status = "run" => Controls(cont) /\ Finishes
  /\ status = "halted" => data = << >> /\ cont = << >>
  /\ status = "wild" => here # NULL /\ function[here] = Uninit /\ Controls(cont)
  /\ status \notin {"overrun", "asserted"}

LEMMA InitProgram == ASSUME Init PROVE ProgramInv
BY DEF Init, ProgramInv

(* The module fits the program area, and all of it is there when the       *)
(* driver looks main up.                                                   *)
LEMMA InsertWordProgram ==
  ASSUME FactorialInstance, LinkInv, ProgramInv, InsertWord
  PROVE  ProgramInv'
<1>1. status = "load" /\ Len(slots) < Len(mod.words) /\ data = << >> /\ cont = << >> /\ code = << >>
      /\ \A l \in DOMAIN function : function[l] = Uninit
  BY DEF InsertWord, ProgramInv
<1>2. mod \in Modules /\ mod.words = FactorialWords /\ Len(FactorialWords) = 42
  BY Literals, FactorialWordsAreAll DEF LinkInv, TypeOK
<1>3. ~((Len(slots) + 1) * LocSize > AreaSize)
  <2> DEFINE n == Len(slots) + 1
             m == 42 - n
  <2>1. n \in Nat /\ m \in Nat /\ LocSize \in Nat /\ AreaSize \in Nat
    <3>1. Len(slots) \in Nat BY LenProperties DEF LinkInv, TypeOK
    <3> QED BY <1>1, <1>2, <3>1, Sizes, VMAssumption
  <2>2. 42 * LocSize <= AreaSize BY <1>2 DEF FactorialInstance
  <2>3. \A x, y \in Nat : x * y \in Nat OBVIOUS
  <2>4. m * LocSize \in Nat /\ n * LocSize \in Nat BY <2>1, <2>3
  <2>5. n * LocSize + m * LocSize = 42 * LocSize BY <2>1
  <2> HIDE DEF m
  <2>6. n * LocSize <= AreaSize BY <2>1, <2>2, <2>4, <2>5
  <2> QED BY <2>1, <2>4, <2>6
<1>4. /\ function' = Append(function, Uninit)
      /\ UNCHANGED <<data, cont, here, current, status>>
  BY <1>3 DEF InsertWord
<1>5. function \in Seq(Seq(Compiled) \cup {Uninit}) BY DEF LinkInv, TypeOK
<1>6. \A l \in DOMAIN function' : function'[l] = Uninit
  <2>1. Len(function) \in Nat /\ DOMAIN function = 1 .. Len(function) BY <1>5, LenProperties
  <2>2. /\ DOMAIN function' = 1 .. Len(function) + 1
        /\ \A l \in 1 .. Len(function) : function'[l] = function[l]
        /\ function'[Len(function) + 1] = Uninit
    BY <1>4, <1>5, <2>1, AppendProperties, LenProperties
  <2> QED BY <1>1, <2>1, <2>2
<1> QED BY <1>1, <1>4, <1>6 DEF ProgramInv, current

LEMMA BootProgram ==
  ASSUME FactorialInstance, LinkInv, ProgramInv, Boot
  PROVE  ProgramInv'
<1>1. status = "load" /\ Len(slots) = Len(mod.words) /\ data = << >> /\ code = << >>
      /\ \A l \in DOMAIN function : function[l] = Uninit
  BY DEF Boot, ProgramInv
<1>2. mod \in Modules /\ mod.words = FactorialWords BY Literals DEF LinkInv, TypeOK
<1>3. Loaded
  <2>1. ASSUME NEW w \in Words PROVE wordMap[w] \in 1 .. Len(slots) /\ slots[wordMap[w]] = w
    <3>1. PICK i \in DOMAIN FactorialWords : w = FactorialWords[i] BY DEF FactorialInstance
    <3>2. slots \in Seq(Words) /\ DOMAIN slots = 1 .. Len(slots) BY LenProperties DEF LinkInv, TypeOK
    <3>3. DOMAIN FactorialWords = 1 .. Len(FactorialWords) BY FactorialWordsAreAll DEF FactorialWords
    <3>4. i \in DOMAIN slots BY <1>1, <1>2, <3>1, <3>2, <3>3
    <3>5. slots[i] = w BY <1>2, <3>1, <3>4 DEF LinkInv, InOrder
    <3>6. wordMap[w] = i BY <3>4, <3>5 DEF LinkInv, Linked
    <3> QED BY <3>2, <3>4, <3>5, <3>6
  <2> QED BY <1>2, <2>1 DEF Loaded, LinkInv, TypeOK
<1>4. Main = "main" /\ "main" \in Words BY WordsAre DEF AllWords, FactorialInstance
<1>5. wordMap[Main] # NULL BY <1>3, <1>4, LenProperties DEF Loaded, NULL
<1>6. /\ cont' = Bottom \o Link("main") /\ status' = "fetch"
      /\ UNCHANGED <<loader, function, data, here, current>>
  BY <1>4, <1>5 DEF Boot, PushBytes, Bottom, Link
<1>7. Lands(<< >>, Bottom \o Link("main"))
  <2>1. Conf("main", << >>, Bottom) BY DEF Conf, InMain
  <2>2. Bottom \in Bytes BY BottomIsNull
  <2> QED BY <1>4, <2>1, <2>2 DEF Lands
<1>8. UNCHANGED <<mod, slots, wordMap>> BY <1>6 DEF loader
<1>9. Lands(data, cont)'
  <2>1. PICK c : c = Bottom \o Link("main") OBVIOUS
  <2>2. Lands(<< >>, c)' BY <1>7, <1>8, <2>1, LandsUnmoved
  <2>3. data' = << >> /\ cont' = c BY <1>1, <1>6, <2>1
  <2> QED BY <2>2, <2>3
<1>10. Loaded' BY <1>3, <1>8, Unmoved
<1> QED BY <1>1, <1>6, <1>8, <1>9, <1>10 DEF ProgramInv, current

(* What a loaded machine keeps when it takes a step. *)
LEMMA Kept ==
  ASSUME ProgramInv, status # "load", UNCHANGED <<mod, slots, wordMap>>
  PROVE  /\ Loaded /\ Loaded'
         /\ UNCHANGED function =>
              (\A l \in DOMAIN function : function[l] # Uninit => function[l] = Code(slots[l]))'
<1>1. Loaded /\ Loaded' BY Unmoved DEF ProgramInv
<1>2. ASSUME UNCHANGED function
      PROVE  (\A l \in DOMAIN function : function[l] # Uninit => function[l] = Code(slots[l]))'
  <2>1. \A w : Code(w)' = Code(w) BY Unmoved
  <2>2. \A l \in DOMAIN function : function[l] # Uninit => function[l] = Code(slots[l]) BY DEF ProgramInv
  <2> QED BY <1>2, <2>1, <2>2
<1> QED BY <1>1, <1>2

LEMMA FetchProgram ==
  ASSUME FactorialInstance, LinkInv, ProgramInv, Fetch \/ FetchUnderrun
  PROVE  ProgramInv'
<1>1. status = "fetch" /\ Lands(data, cont) /\ Loaded /\ code = << >>
  BY DEF Fetch, FetchUnderrun, ProgramInv
<1>2. /\ Len(cont) >= LocSize
      /\ \/ data = << >> /\ IsNull(TopBytes(cont, LocSize)) /\ BelowTop(cont, LocSize) = << >>
         \/ \E w \in Words :
              TopBytes(cont, LocSize) = Link(w) /\ Conf(w, data, BelowTop(cont, LocSize))
  BY <1>1, LandsIn
<1>3. Len(cont) \in Nat /\ LocSize \in Nat BY Sizes, LenProperties DEF LinkInv, TypeOK, Bytes
<1>4. Fetch BY <1>2, <1>3 DEF FetchUnderrun
<1>5. UNCHANGED <<mod, slots, wordMap>> /\ UNCHANGED <<function, data, running, code, regs>>
  BY <1>4 DEF Fetch, loader, current
<1>6. /\ Loaded'
      /\ (\A l \in DOMAIN function : function[l] # Uninit => function[l] = Code(slots[l]))'
  BY <1>1, <1>5, Kept
<1>7. CASE data = << >> /\ IsNull(TopBytes(cont, LocSize)) /\ BelowTop(cont, LocSize) = << >>
  <2>1. ~IsLocation(TopBytes(cont, LocSize)) BY <1>7 DEF IsNull, IsLocation, NULL
  <2>2. status' = "halted" /\ cont' = << >> BY <1>4, <1>7, <2>1 DEF Fetch
  <2> QED BY <1>1, <1>5, <1>6, <1>7, <2>2 DEF ProgramInv
<1>8. CASE \E w \in Words :
             TopBytes(cont, LocSize) = Link(w) /\ Conf(w, data, BelowTop(cont, LocSize))
  <2>1. PICK w \in Words : TopBytes(cont, LocSize) = Link(w) /\ Conf(w, data, BelowTop(cont, LocSize))
    BY <1>8
  <2>2. /\ IsLocation(Link(w)) /\ ~IsNull(Link(w)) /\ Stored(Link(w)) = <<"loc", wordMap[w]>>
        /\ slots[wordMap[w]] = w
    BY <1>1, LinkIsLocation DEF Loaded
  <2>3. status' = "interpret" /\ here' = wordMap[w] /\ cont' = BelowTop(cont, LocSize)
    BY <1>4, <2>1, <2>2 DEF Fetch
  <2>4. PICK d, c : d = data /\ c = BelowTop(cont, LocSize) OBVIOUS
  <2>5. Conf(w, d, c)' BY <1>5, <2>1, <2>4, ConfUnmoved
  <2>6. slots'[here'] = w /\ data' = d /\ cont' = c BY <1>5, <2>2, <2>3, <2>4
  <2>7. Conf(slots[here], data, cont)' BY <2>5, <2>6
  <2> QED BY <1>1, <1>5, <1>6, <2>3, <2>7 DEF ProgramInv
<1> QED BY <1>2, <1>7, <1>8

LEMMA InterpretProgram ==
  ASSUME FactorialInstance, LinkInv, ProgramInv, InitFunction \/ RunUninitialised \/ RunFunction
  PROVE  ProgramInv'
<1> DEFINE w == slots[here]
<1>1. status = "interpret" /\ Conf(w, data, cont) /\ Loaded /\ code = << >>
  BY DEF InitFunction, RunUninitialised, RunFunction, ProgramInv
<1>2. w \in Words /\ Controls(cont)
  <2>1. w \in Words /\ \E k \in 1 .. 4 : Depth(cont, k) BY <1>1, ConfFits DEF Fits
  <2> QED BY <2>1, DepthFits
<1>3. here \in DOMAIN function /\ here # NULL
  <2>1. DOMAIN function = 1 .. Len(function) BY LenProperties DEF LinkInv, TypeOK
  <2> QED BY <1>1, <2>1, LenProperties DEF LinkInv, TypeOK, NULL
<1>4. \A l \in DOMAIN function : function[l] # Uninit => function[l] = Code(slots[l]) BY DEF ProgramInv
<1>5. UNCHANGED <<mod, slots, wordMap>> /\ UNCHANGED <<data, cont, here, code, regs>>
  BY DEF InitFunction, RunUninitialised, RunFunction, loader, current
<1>6. Loaded' BY <1>1, <1>5, Kept
<1>7. CASE InitFunction
  <2>1. ~(\E v \in Looked(mod.body[w]) : wordMap[v] = NULL)
    <3>1. SUFFICES ASSUME NEW v \in Looked(mod.body[w]) PROVE wordMap[v] # NULL OBVIOUS
    <3>2. PICK i \in DOMAIN mod.body[w] : mod.body[w][i].op = "lookup" /\ v = mod.body[w][i].w
      BY DEF Looked
    <3>3. mod.body[w] \in Seq(Instructions) BY <1>2, CompileType DEF LinkInv
    <3>4. mod.body[w][i] \in Instructions BY <3>2, <3>3, LenProperties, ElementOfSeq
    <3>5. v \in Words BY <3>2, <3>4 DEF Instructions, Shuffles
    <3> QED BY <1>1, <3>5, LenProperties DEF Loaded, NULL
  <2>2. function' = [function EXCEPT ![here] = Code(w)] /\ status' = "interpret"
    BY <1>1, <1>7, <2>1 DEF InitFunction, Code
  <2>3. (\A l \in DOMAIN function : function[l] # Uninit => function[l] = Code(slots[l]))'
    <3>1. \A v : Code(v)' = Code(v) BY <1>5, Unmoved
    <3>2. ASSUME NEW l \in DOMAIN function', function'[l] # Uninit PROVE function'[l] = Code(slots[l])
      <4>1. CASE l = here BY <1>3, <2>2, <4>1
      <4>2. CASE l # here
        <5>1. l \in DOMAIN function /\ function'[l] = function[l] BY <2>2, <3>2, <4>2
        <5> QED BY <1>4, <3>2, <5>1
      <4> QED BY <4>1, <4>2
    <3>3. ASSUME NEW l \in DOMAIN function', function'[l] # Uninit PROVE function'[l] = Code(slots[l])'
      <4>1. PICK v : v = slots[l] OBVIOUS
      <4>2. Code(v)' = Code(v) /\ function'[l] = Code(v) /\ slots'[l] = v BY <1>5, <3>1, <3>2, <3>3, <4>1
      <4> QED BY <4>2
    <3> QED BY <3>3
  <2>4. Conf(slots[here], data, cont)'
    <3>1. PICK v, d, c : v = w /\ d = data /\ c = cont OBVIOUS
    <3>2. Conf(v, d, c)' BY <1>1, <1>5, <3>1, ConfUnmoved
    <3> QED BY <1>5, <3>1, <3>2
  <2> QED BY <1>1, <1>5, <1>6, <2>2, <2>3, <2>4 DEF ProgramInv
<1>8. CASE RunUninitialised
  <2>1. status' = "wild" /\ function' = function /\ function[here] = Uninit
    BY <1>8 DEF RunUninitialised
  <2>2. (\A l \in DOMAIN function : function[l] # Uninit => function[l] = Code(slots[l]))'
    BY <1>1, <1>5, <2>1, Kept
  <2>3. Controls(cont)'
    <3>1. PICK c : c = cont OBVIOUS
    <3>2. Controls(c)' BY <1>2, <1>5, <3>1, LeadsUnmoved
    <3> QED BY <1>5, <3>1, <3>2
  <2> QED BY <1>1, <1>3, <1>5, <1>6, <2>1, <2>2, <2>3 DEF ProgramInv
<1>9. CASE RunFunction
  <2>1. status' = "run" /\ function' = function /\ function[here] # Uninit /\ running' = function[here]
    BY <1>9 DEF RunFunction
  <2>2. (\A l \in DOMAIN function : function[l] # Uninit => function[l] = Code(slots[l]))'
    BY <1>1, <1>5, <2>1, Kept
  <2>3. Controls(cont)'
    <3>1. PICK c : c = cont OBVIOUS
    <3>2. Controls(c)' BY <1>2, <1>5, <3>1, LeadsUnmoved
    <3> QED BY <1>5, <3>1, <3>2
  <2>4. running' = Code(w) BY <1>3, <1>4, <2>1
  <2>5. Goes(w, data, cont) BY <1>1, ConfGoes
  <2>6. PICK d1, c1 : Go(Code(w), data, cont, << >>, d1, c1) /\ Lands(d1, c1) BY <2>5 DEF Goes
  <2>7. PICK g1 : Leads(St(Code(w), << >>, regs, data, cont), St(<< >>, << >>, g1, d1, c1))
    BY <2>6 DEF Go
  <2>8. PICK s, t : s = St(Code(w), << >>, regs, data, cont) /\ t = St(<< >>, << >>, g1, d1, c1) OBVIOUS
  <2>9. Leads(s, t)' BY <1>5, <2>7, <2>8, LeadsUnmoved
  <2>10. Now' = s BY <1>1, <1>5, <2>4, <2>8 DEF Now, St
  <2>11. Lands(d1, c1)' BY <1>5, <2>6, LandsUnmoved
  <2>12. Finishes'
    <3>1. Leads(Now, St(<< >>, << >>, g1, d1, c1))' BY <2>8, <2>9, <2>10 DEF St
    <3> QED BY <2>11, <3>1 DEF Finishes
  <2> QED BY <1>1, <1>5, <1>6, <2>1, <2>2, <2>3, <2>12 DEF ProgramInv
<1> QED BY <1>7, <1>8, <1>9

LEMMA RunProgram ==
  ASSUME FactorialInstance, LinkInv, ProgramInv, Next, status = "run"
  PROVE  ProgramInv'
<1>1. Controls(cont) /\ Loaded BY DEF ProgramInv
<1>2. PICK g, d, c : Leads(Now, St(<< >>, << >>, g, d, c)) /\ Lands(d, c) BY DEF ProgramInv, Finishes
<1>3. PICK t : t = St(<< >>, << >>, g, d, c) OBVIOUS
<1>4. CASE Now = t
  <2>1. running = << >> /\ code = << >> /\ data = d /\ cont = c BY <1>3, <1>4 DEF Now, St
  <2>2. Return
    BY <2>1 DEF Next, InsertWord, Boot, Drive, InitFunction, RunFunction, NextInstruction, Fetch,
                FetchUnderrun, RunUninitialised, Execute, RunPop, RunPush, RunConst, RunSub, RunMul,
                RunICmp, RunSelect, At, Done, Stopped
  <2>3. /\ status' = "fetch" /\ UNCHANGED <<mod, slots, wordMap>>
        /\ UNCHANGED <<function, data, cont, here, running, code, regs>>
    BY <2>2 DEF Return, loader, current
  <2>4. /\ Loaded'
        /\ (\A l \in DOMAIN function : function[l] # Uninit => function[l] = Code(slots[l]))'
    BY <2>3, Kept
  <2>5. Lands(d, c)' BY <1>2, <2>3, LandsUnmoved
  <2>6. Lands(data, cont)' BY <2>1, <2>3, <2>5
  <2> QED BY <2>1, <2>3, <2>4, <2>6 DEF ProgramInv
<1>5. CASE Now # t
  <2>1. PICK s : s = Now OBVIOUS
  <2>2. PICK u : Micro(s, u) /\ Leads(u, t) BY <1>2, <1>3, <1>5, <2>1, LeadsFrom
  <2>3. Now' = u /\ status' = "run" /\ UNCHANGED Elsewhere BY <2>1, <2>2, StepsAreMicro DEF LinkInv
  <2>4. UNCHANGED <<mod, slots, wordMap>> /\ UNCHANGED <<function, here>> BY <2>3 DEF Elsewhere
  <2>5. /\ Loaded'
        /\ (\A l \in DOMAIN function : function[l] # Uninit => function[l] = Code(slots[l]))'
    BY <2>4, Kept
  <2>6. Controls(cont)'
    <3>1. PICK b : b = u.cont OBVIOUS
    <3>2. Controls(b) BY <2>2, <3>1 DEF Micro
    <3>3. Controls(b)' BY <2>4, <3>2, LeadsUnmoved
    <3>4. cont' = b BY <2>3, <3>1 DEF Now, St
    <3> QED BY <3>3, <3>4
  <2>7. Finishes'
    <3>1. Leads(u, t)' BY <2>2, <2>4, LeadsUnmoved
    <3>2. Lands(d, c)' BY <1>2, <2>4, LandsUnmoved
    <3>3. Leads(Now, St(<< >>, << >>, g, d, c))' BY <1>3, <2>3, <3>1 DEF St
    <3> QED BY <3>2, <3>3 DEF Finishes
  <2> QED BY <2>3, <2>5, <2>6, <2>7 DEF ProgramInv
<1> QED BY <1>4, <1>5

(* A machine that stopped, or that does nothing, keeps it.                 *)
LEMMA StoppedProgram ==
  ASSUME ProgramInv, UNCHANGED vars
  PROVE  ProgramInv'
<1>1. /\ UNCHANGED <<mod, slots, wordMap>>
      /\ UNCHANGED <<function, data, cont, here, running, code, regs, status>>
  BY DEF vars
<1>2. \A w : Code(w)' = Code(w) BY <1>1, Unmoved
<1>3. Loaded => Loaded' BY <1>1, Unmoved
<1>4. \A b : IsLocation(b)' = IsLocation(b) BY <1>1, Unmoved
<1>5. \A d, c : Lands(d, c) => Lands(d, c)' BY <1>1, LandsUnmoved
<1>6. \A w, d, c : Conf(w, d, c) => Conf(w, d, c)' BY <1>1, ConfUnmoved
<1>7. (\A c : Controls(c)' = Controls(c)) /\ (\A s, t : Leads(s, t) => Leads(s, t)')
  BY <1>1, LeadsUnmoved
<1>8. (\A l \in DOMAIN function : function[l] # Uninit => function[l] = Code(slots[l]))'
  <2>1. \A l \in DOMAIN function : function[l] # Uninit => function[l] = Code(slots[l]) BY DEF ProgramInv
  <2> QED BY <1>1, <1>2, <2>1
<1>9. (status = "fetch" => Lands(data, cont))'
  <2>1. PICK d, c : d = data /\ c = cont OBVIOUS
  <2> QED BY <1>1, <1>5, <2>1 DEF ProgramInv
<1>10. (status = "interpret" => Conf(slots[here], data, cont))'
  <2>1. PICK w, d, c : w = slots[here] /\ d = data /\ c = cont OBVIOUS
  <2>2. status = "interpret" => Conf(w, d, c)' BY <1>6, <2>1 DEF ProgramInv
  <2> QED BY <1>1, <2>1, <2>2
<1>11. Controls(cont) => Controls(cont)'
  <2>1. PICK c : c = cont OBVIOUS
  <2> QED BY <1>1, <1>7, <2>1
<1>12. Finishes => Finishes'
  <2>1. SUFFICES ASSUME Finishes PROVE Finishes' OBVIOUS
  <2>2. PICK g, d, c : Leads(Now, St(<< >>, << >>, g, d, c)) /\ Lands(d, c) BY <2>1 DEF Finishes
  <2>3. PICK s, t : s = Now /\ t = St(<< >>, << >>, g, d, c) OBVIOUS
  <2>4. Leads(s, t)' /\ Lands(d, c)' BY <1>5, <1>7, <2>2, <2>3
  <2>5. Now' = s BY <1>1, <2>3 DEF Now, St
  <2>6. Leads(Now, St(<< >>, << >>, g, d, c))' BY <2>3, <2>4, <2>5 DEF St
  <2> QED BY <2>4, <2>6 DEF Finishes
<1> QED BY <1>1, <1>3, <1>8, <1>9, <1>10, <1>11, <1>12 DEF ProgramInv

LEMMA ProgramStep ==
  ASSUME FactorialInstance, LinkInv, ProgramInv, [Next]_vars
  PROVE  ProgramInv'
<1>1. CASE InsertWord BY <1>1, InsertWordProgram
<1>2. CASE Boot BY <1>2, BootProgram
<1>3. CASE Fetch \/ FetchUnderrun BY <1>3, FetchProgram
<1>4. CASE InitFunction \/ RunUninitialised \/ RunFunction BY <1>4, InterpretProgram
<1>5. CASE Return \/ NextInstruction \/ Execute
  <2>1. status = "run"
    BY <1>5 DEF Return, NextInstruction, Execute, RunPop, RunPush, RunConst, RunSub, RunMul, RunICmp,
                RunSelect, At
  <2>2. Next BY <1>5 DEF Next, Drive
  <2> QED BY <2>1, <2>2, RunProgram
<1>6. CASE Done \/ UNCHANGED vars BY <1>6, StoppedProgram DEF Done
<1> QED BY <1>1, <1>2, <1>3, <1>4, <1>5, <1>6 DEF Next, Drive
-----------------------------------------------------------------------------
(* What the invariant says of the program. *)

LEMMA CellsOfDepth ==
  ASSUME FactorialInstance, NEW k \in 1 .. 5, Depth(cont, k)
  PROVE  Cells = k
<1>1. LocSize \in Nat \ {0} /\ Len(cont) = k * LocSize BY Sizes DEF Depth
<1>2. k = 1 \/ k = 2 \/ k = 3 \/ k = 4 \/ k = 5 OBVIOUS
<1>3. CASE k = 1 BY <1>1, <1>3 DEF Cells
<1>4. CASE k = 2 BY <1>1, <1>4 DEF Cells
<1>5. CASE k = 3 BY <1>1, <1>5 DEF Cells
<1>6. CASE k = 4 BY <1>1, <1>6 DEF Cells
<1>7. CASE k = 5 BY <1>1, <1>7 DEF Cells
<1> QED BY <1>2, <1>3, <1>4, <1>5, <1>6, <1>7

LEMMA StacksOfProgram == ASSUME FactorialInstance, LinkInv, ProgramInv PROVE StacksKept
<1>1. CASE Lives \/ status = "wild"
  <2>1. Controls(cont) /\ (status = "fetch" => WholeCells(data))
    <3>1. CASE status \in {"run", "wild"} BY <3>1 DEF ProgramInv
    <3>2. CASE status = "fetch" BY <3>2, LandsIn DEF ProgramInv
    <3>3. CASE status = "interpret"
      <4>1. \E k \in 1 .. 4 : Depth(cont, k) BY <3>3, ConfFits DEF ProgramInv, Fits
      <4> QED BY <3>3, <4>1, DepthFits
    <3> QED BY <1>1, <3>1, <3>2, <3>3 DEF Lives
  <2>2. PICK k \in 1 .. 5 : Depth(cont, k) BY <2>1 DEF Controls
  <2>3. Cells = k BY <2>2, CellsOfDepth
  <2>4. Len(cont) = Cells * LocSize BY <2>2, <2>3 DEF Depth
  <2>5. Cell(1) = LocBytes(NULL)
    <3>1. (1 - 1) * LocSize + 1 = 1 /\ 1 * LocSize = LocSize BY Sizes
    <3> QED BY <2>2, <3>1 DEF Cell, Depth, Bottom
  <2>6. \A j \in 2 .. Cells : IsLocation(Cell(j)) BY <2>2, <2>3 DEF Cell, Depth
  <2> QED BY <2>1, <2>3, <2>4, <2>5, <2>6 DEF StacksKept, ControlStack, WholeData, TailCalls
<1>2. CASE ~(Lives \/ status = "wild")
  <2>1. cont = << >> /\ status # "fetch" BY <1>2 DEF ProgramInv, LinkInv, TypeOK, Lives, Stopped
  <2>2. Cells = 0
    <3>1. Len(cont) = 0 BY <2>1
    <3>2. LocSize \in Nat \ {0} BY Sizes
    <3> QED BY <3>1, <3>2 DEF Cells
  <2> QED BY <1>2, <2>1, <2>2 DEF StacksKept, ControlStack, WholeData, TailCalls
<1> QED BY <1>1, <1>2

LEMMA EndOfProgram == ASSUME ProgramInv PROVE EndsClean
BY DEF ProgramInv, EndsClean

LEMMA ResultsOfProgram == ASSUME FactorialInstance, LinkInv, ProgramInv PROVE Computes
<1>1. FactorialComputes
  <2>1. SUFFICES ASSUME Interprets("main$q21$k22")
                 PROVE  TopBytes(data, SizeOf[I32]) = IntBytes(Factored(N), I32)
    BY DEF FactorialComputes
  <2>2. Conf("main$q21$k22", data, cont) /\ Loaded BY <2>1 DEF Interprets, ProgramInv
  <2>3. PICK k \in Ints, x \in Ints, a \in Ints :
          Accums(x, a) /\ Signed(x) >= 1 /\ data = CountData(k) \o Num(a)
    BY <2>2 DEF Conf, InMain, InTimes, InTimesEnd, InTimesLast, InTimesMore, InFactorial, InAccum,
                InAccumEnd, InAccumMore, TimesBranch, AccumBranch
  <2>4. a = Factored(N) BY <2>3 DEF Accums
  <2>5. CountData(k) \in Bytes /\ Num(a) \in Bytes /\ Len(Num(a)) = LocSize
    <3>1. k \in Nat /\ a \in Nat BY IntegersAreNumbers
    <3>2. Data(CountData(k), 4 * LocSize) BY <2>2, <3>1, DataIs
    <3> QED BY <3>1, <3>2, Stores DEF Data
  <2>6. TopBytes(CountData(k) \o Num(a), LocSize) = Num(a) BY <2>5, TopOfPushed
  <2>7. SizeOf[I32] = LocSize BY DEF FactorialInstance
  <2> QED BY <2>3, <2>4, <2>6, <2>7 DEF Num
<1>2. TimesApplies
  <2>1. SUFFICES ASSUME Interprets("main$q21")
                 PROVE  \E k \in Ints :
                          /\ Signed(Count) < 1
                          /\ k = Half - 1 \/ Signed(k) < Signed(Count)
                          /\ data = IntBytes(k, I32) \o LocBytes(wordMap["main$q21"])
    BY DEF TimesApplies
  <2>2. Conf("main$q21", data, cont) BY <2>1 DEF Interprets, ProgramInv
  <2>3. \E k \in Ints : Later(k) /\ data = CountData(k)
    BY <2>2 DEF Conf, InMain, InTimes, InTimesEnd, InTimesLast, InTimesMore, InFactorial, InAccum,
                InAccumEnd, InAccumMore, TimesBranch, AccumBranch
  <2> QED BY <2>3 DEF Later, CountData, Num, Link
<1> QED BY <1>1, <1>2 DEF Computes
-----------------------------------------------------------------------------
(* The factorial program, run by WordInterpretable::interpret, is always   *)
(* in a configuration that ProgramInv describes, or on its way to one by   *)
(* the code of the word that it is in.                                     *)
THEOREM ProgramInvariant == ASSUME FactorialInstance PROVE Spec => []ProgramInv
<1>1. Init => ProgramInv BY InitProgram
<1>2. LinkInv /\ ProgramInv /\ [Next]_vars => ProgramInv' BY ProgramStep
<1> QED BY <1>1, <1>2, LinkInvariant, PTL DEF Spec

(* Whatever the width of the integers, the sizes and the two literals:     *)
(* ToCont, FromCont and the shuffles agree on every path of the factorial  *)
(* program, and cont stays within five locations however long it runs.     *)
THEOREM ProgramKeepsStacks == ASSUME FactorialInstance PROVE Spec => []StacksKept
<1>1. LinkInv /\ ProgramInv => StacksKept BY StacksOfProgram
<1> QED BY <1>1, ProgramInvariant, LinkInvariant, PTL

(* It ends at the NULL of main with both stacks empty, or in the read of   *)
(* an uninitialised WordInterpretable::function, and in no other way.      *)
THEOREM ProgramEndsClean == ASSUME FactorialInstance PROVE Spec => []EndsClean
<1>1. ProgramInv => EndsClean BY EndOfProgram
<1> QED BY <1>1, ProgramInvariant, PTL

(* Its two loops compute what their code says: factorial the wrapped       *)
(* product, and times the counts on which it runs its quotation.           *)
THEOREM ProgramComputes == ASSUME FactorialInstance PROVE Spec => []Computes
<1>1. LinkInv /\ ProgramInv => Computes BY ResultsOfProgram
<1> QED BY <1>1, ProgramInvariant, LinkInvariant, PTL
=============================================================================
