------------------------------- MODULE LlackVM -------------------------------
(***************************************************************************)
(* The Llack virtual machine: the driver loop of tools/llack/main.cpp, the *)
(* ProgramWriter that lays out the words of a module in the program area,  *)
(* the WordInterpretable that compiles a word the first time it is run,    *)
(* and the code that each LlackInstruction generates, run on the byte      *)
(* stacks of VMState.                                                      *)
(*                                                                         *)
(* A module is a record: `words' is the vector of LlackModule::words, in   *)
(* the order of Word::Create, and `body' gives the instructions of each.   *)
(***************************************************************************)
EXTENDS ByteStack

CONSTANTS
  Words,      \* the names of words
  Main,       \* the word the driver looks up: "main"
  Modules,    \* the modules the driver may be handed
  Types,      \* the LlackTypes, Loc (LocationType) and Bit (i1) among them
  Loc, Bit,
  SizeOf,     \* TargetData::getTypeStoreSize of each type
  Half,       \* 2^(width - 1) of the integers
  AreaSize,   \* bytes in the program area of the ProgramWriter
  StackSize   \* bytes in each stack of VMState

ASSUME VMAssumption ==
  /\ Main \in Words
  /\ Loc \in Types /\ Bit \in Types
  /\ SizeOf \in [Types -> Nat \ {0}]
  /\ Half \in Nat \ {0}
  /\ AreaSize \in Nat
  /\ StackSize \in Nat
  /\ 2 * SizeOf[Loc] <= StackSize

NULL == 0
LocSize == SizeOf[Loc]
Modulus == 2 * Half
Ints == 0 .. Modulus - 1
Signed(n) == IF n >= Half THEN n - Modulus ELSE n

(* The subclasses of LlackInstruction. *)
Predicates == {"eq", "ne", "ugt", "uge", "ult", "ule", "sgt", "sge", "slt", "sle"}
Shuffles == {i \in [op : {"shuffle"}, in : Seq(Types), out : Seq(Nat)] :
               \A j \in DOMAIN i.out : i.out[j] < Len(i.in)}
Instructions ==
  [op : {"push"}, t : Types, v : Ints] \cup [op : {"lookup"}, w : Words]
    \cup [op : {"tocont", "fromcont"}] \cup [op : {"sub", "mul", "select"}, t : Types]
    \cup [op : {"icmp"}, p : Predicates, t : Types] \cup Shuffles

(* Word::Create makes a new word each time: no word is listed twice. *)
ASSUME ModulesAssumption ==
  \A m \in Modules :
    /\ m.words \in Seq(Words)
    /\ \A i, j \in DOMAIN m.words : m.words[i] = m.words[j] => i = j
    /\ m.body \in [Words -> Seq(Instructions)]

VARIABLES
  mod,        \* the LlackModule
  slots,      \* the program area: the word whose WordInterpretable is there
  wordMap,    \* ProgramWriter::wordMap, NULL for a word never inserted
  function,   \* WordInterpretable::function of every slot
  data, cont, \* the stacks of VMState
  here,       \* the location being interpreted
  running,    \* the instructions of its function still to run
  code, regs, \* what is left of the code of the current one; its LLVM values
  status      \* where the driver is, or how it ended

loader  == <<mod, slots, wordMap>>
current == <<running, code, regs>>
vars == <<mod, slots, wordMap, function, data, cont, here, running, code, regs, status>>

(* The member WordInterpretable::function before initFunction assigns it:  *)
(* the constructor does not initialise it.                                 *)
Uninit == << [op |-> "uninitialised"] >>

Stopped == {"halted", "wild", "overrun", "asserted"}

LocBytes(l) == BytesOf(<<"loc", l>>, LocSize)
IntBytes(n, t) == BytesOf(<<"int", n>>, SizeOf[t])
-----------------------------------------------------------------------------
(* Loading: ProgramWriter, newVMState, the lookup of main.                 *)

Init ==
  /\ mod \in Modules
  /\ slots = << >>
  /\ wordMap = [w \in Words |-> NULL]
  /\ function = << >>
  /\ data = << >> /\ cont = << >>
  /\ here = NULL
  /\ running = << >> /\ code = << >> /\ regs = << >>
  /\ status = "load"

(* Mutant: the map gets the location before `next' is read. *)
InsertWordEarly ==
  /\ status = "load"
  /\ Len(slots) < Len(mod.words)
  /\ LET w == mod.words[Len(slots) + 1]
     IN  /\ slots' = Append(slots, w)
         /\ wordMap' = [wordMap EXCEPT ![w] = Len(slots)]
  /\ function' = Append(function, Uninit)
  /\ UNCHANGED <<mod, data, cont, here, current, status>>

(* ProgramWriter::insertWord, called by main for every word in turn.  It   *)
(* never compares `next' with `last': past the area it writes over foreign *)
(* memory.                                                                 *)
InsertWord ==
  /\ status = "load"
  /\ Len(slots) < Len(mod.words)
  /\ LET w == mod.words[Len(slots) + 1]
     IN  IF (Len(slots) + 1) * LocSize > AreaSize
         THEN /\ status' = "overrun"
              /\ UNCHANGED <<slots, wordMap, function>>
         ELSE /\ slots' = Append(slots, w)
              /\ wordMap' = [wordMap EXCEPT ![w] = Len(slots) + 1]
              /\ function' = Append(function, Uninit)
              /\ UNCHANGED status
  /\ UNCHANGED <<mod, data, cont, here, current>>

(* Mutant: main forgets the NULL below its own location. *)
BootBare ==
  /\ status = "load"
  /\ Len(slots) = Len(mod.words) /\ wordMap[Main] # NULL
  /\ cont' = LocBytes(wordMap[Main]) /\ status' = "fetch"
  /\ UNCHANGED <<loader, function, data, here, current>>

(* newVMState, then NULL and the location of main onto cont.  A module     *)
(* without a main is not caught: getWordLocation reads the name of the     *)
(* NULL word before the assertion in main is reached.                      *)
Boot ==
  /\ status = "load"
  /\ Len(slots) = Len(mod.words)
  /\ IF wordMap[Main] = NULL
     THEN cont' = LocBytes(NULL) /\ status' = "wild"
     ELSE cont' = PushBytes(LocBytes(NULL), LocBytes(wordMap[Main])) /\ status' = "fetch"
  /\ UNCHANGED <<loader, function, data, here, current>>
-----------------------------------------------------------------------------
(* The driver loop and WordInterpretable.                                  *)

(* A NULL pointer is all zero bits, whoever stored them. *)
IsNull(bytes) == IsWhole(bytes) /\ Stored(bytes) \in {<<"loc", NULL>>, <<"int", 0>>}
IsLocation(bytes) ==
  /\ IsWhole(bytes)
  /\ Stored(bytes)[1] = "loc"
  /\ Stored(bytes)[2] \in 1..Len(slots)

(* Pop the next location: NULL ends the loop; anything that is not the     *)
(* location of an inserted word is dereferenced all the same.              *)
Fetch ==
  /\ status = "fetch"
  /\ Len(cont) >= LocSize
  /\ cont' = BelowTop(cont, LocSize)
  /\ LET top == TopBytes(cont, LocSize)
     IN  \/ /\ IsNull(top)
            /\ status' = "halted"
            /\ here' = NULL
         \/ /\ IsLocation(top)
            /\ status' = "interpret"
            /\ here' = Stored(top)[2]
         \/ /\ ~IsNull(top) /\ ~IsLocation(top)
            /\ status' = "wild"
            /\ here' = NULL
  /\ UNCHANGED <<loader, function, data, current>>

(* The same pop with too few bytes left on cont. *)
FetchUnderrun ==
  /\ status = "fetch"
  /\ Len(cont) < LocSize
  /\ status' = "overrun"
  /\ UNCHANGED <<loader, function, data, cont, here, current>>

(* codeGen of a word: every LookupLlackInst becomes a push of the location *)
(* that wordMap holds at this moment.                                      *)
Compile(body) ==
  [i \in DOMAIN body |->
     IF body[i].op = "lookup"
     THEN [op |-> "pushloc", l |-> wordMap[body[i].w]]
     ELSE body[i]]

Looked(body) == {body[i].w : i \in {j \in DOMAIN body : body[j].op = "lookup"}}

(* Mutant: lookupWordLocation without its assertion. *)
InitFunctionUnchecked ==
  /\ status = "interpret"
  /\ function[here] = Uninit
  /\ function' = [function EXCEPT ![here] = Compile(mod.body[slots[here]])]
  /\ UNCHANGED <<loader, data, cont, here, current, status>>

(* interpret, when the read of the uninitialised member yields NULL: build *)
(* the function.  lookupWordLocation asserts that every location is known. *)
InitFunction ==
  /\ status = "interpret"
  /\ function[here] = Uninit
  /\ LET body == mod.body[slots[here]]
     IN  IF \E w \in Looked(body) : wordMap[w] = NULL
         THEN status' = "asserted" /\ UNCHANGED function
         ELSE function' = [function EXCEPT ![here] = Compile(body)] /\ UNCHANGED status
  /\ UNCHANGED <<loader, data, cont, here, current>>

(* interpret, when that read yields anything else: runFunction is handed a *)
(* pointer to no function.                                                 *)
RunUninitialised ==
  /\ status = "interpret"
  /\ function[here] = Uninit
  /\ status' = "wild"
  /\ UNCHANGED <<loader, function, data, cont, here, current>>

(* interpret, when the function is there: run it. *)
RunFunction ==
  /\ status = "interpret"
  /\ function[here] # Uninit
  /\ running' = function[here]
  /\ status' = "run"
  /\ UNCHANGED <<loader, function, data, cont, here, code, regs>>

(* CreateRetVoid: back to the loop. *)
Return ==
  /\ status = "run"
  /\ running = << >> /\ code = << >>
  /\ status' = "fetch"
  /\ UNCHANGED <<loader, function, data, cont, here, current>>
-----------------------------------------------------------------------------
(* The code that the codeGen of each instruction emits: a sequence of pops *)
(* into fresh values, at most one operation on them, and pushes.           *)

Pop(s, t, r)  == [op |-> "pop", s |-> s, t |-> t, r |-> r]
Push(s, r)    == [op |-> "push", s |-> s, r |-> r]
Constant(v, t) == [op |-> "const", v |-> v, t |-> t, r |-> 1]

(* Mutant: the operands in the order they are popped. *)
BinaryPopped(op, t) ==
  << Pop("data", t, 1), Pop("data", t, 2),
     [op |-> op, t |-> t, a |-> 1, b |-> 2, r |-> 3], Push("data", 3) >>

Binary(op, t) ==
  << Pop("data", t, 1), Pop("data", t, 2),
     [op |-> op, t |-> t, a |-> 2, b |-> 1, r |-> 3], Push("data", 3) >>

(* Mutant: the operands in the order of Sub and Mul. *)
CompareBelow(p, t) ==
  << Pop("data", t, 1), Pop("data", t, 2),
     [op |-> "icmp", p |-> p, t |-> t, a |-> 2, b |-> 1, r |-> 3], Push("data", 3) >>

(* ICmpLlackInst takes its left operand from the top, unlike Sub and Mul. *)
Compare(p, t) ==
  << Pop("data", t, 1), Pop("data", t, 2),
     [op |-> "icmp", p |-> p, t |-> t, a |-> 1, b |-> 2, r |-> 3], Push("data", 3) >>

(* Mutant: the condition popped with the type of the choices. *)
SelectAllSame(t) ==
  << Pop("data", t, 1), Pop("data", t, 2), Pop("data", t, 3),
     [op |-> "select", c |-> 3, a |-> 2, b |-> 1, r |-> 4], Push("data", 4) >>

Select(t) ==
  << Pop("data", t, 1), Pop("data", t, 2), Pop("data", Bit, 3),
     [op |-> "select", c |-> 3, a |-> 2, b |-> 1, r |-> 4], Push("data", 4) >>

(* Mutants: the popped values not reversed; reversed, but off by one. *)
ShuffleUnreversed(in, out) ==
  [i \in 1 .. Len(in) |-> Pop("data", in[i], i)]
    \o [j \in 1 .. Len(out) |-> Push("data", out[j] + 1)]
ShuffleOffByOne(in, out) ==
  [i \in 1 .. Len(in) |-> Pop("data", in[i], i)]
    \o [j \in 1 .. Len(out) |-> Push("data", Len(in) - 1 - out[j])]

(* The consumed types are popped in the order listed, the first from the   *)
(* top; the reversal makes index 0 the deepest of the popped values.       *)
Shuffle(in, out) ==
  [i \in 1 .. Len(in) |-> Pop("data", in[i], i)]
    \o [j \in 1 .. Len(out) |-> Push("data", Len(in) - out[j])]

CodeOf(i) ==
  CASE i.op = "push"     -> <<Constant(<<"int", i.v>>, i.t), Push("data", 1)>>
    [] i.op = "pushloc"  -> <<Constant(<<"loc", i.l>>, Loc), Push("data", 1)>>
    [] i.op = "tocont"   -> <<Pop("data", Loc, 1), Push("cont", 1)>>
    [] i.op = "fromcont" -> <<Pop("cont", Loc, 1), Push("data", 1)>>
    [] i.op \in {"sub", "mul"} -> Binary(i.op, i.t)
    [] i.op = "icmp"     -> Compare(i.p, i.t)
    [] i.op = "select"   -> Select(i.t)
    [] i.op = "shuffle"  -> Shuffle(i.in, i.out)

(* How many LLVM values that code names. *)
ValuesOf(i) == IF i.op = "shuffle" THEN Len(i.in) ELSE 4

NextInstruction ==
  /\ status = "run"
  /\ code = << >> /\ running # << >>
  /\ code' = CodeOf(Head(running))
  /\ regs' = [r \in 1 .. ValuesOf(Head(running)) |-> << >>]
  /\ running' = Tail(running)
  /\ UNCHANGED <<loader, function, data, cont, here, status>>
-----------------------------------------------------------------------------
(* Running that code.  It checks no bound: popping below the bottom of a   *)
(* stack or pushing past its end touches foreign memory, and the model     *)
(* stops there ("overrun").                                                *)

At(op) == status = "run" /\ code # << >> /\ Head(code).op = op
Stack(s) == IF s = "data" THEN data ELSE cont
SetStack(s, bytes) ==
  /\ data' = IF s = "data" THEN bytes ELSE data
  /\ cont' = IF s = "cont" THEN bytes ELSE cont

(* ImmediateStackCodeGen::pop *)
RunPop ==
  /\ At("pop")
  /\ LET c == Head(code)
         n == SizeOf[c.t]
     IN  IF Len(Stack(c.s)) < n
         THEN status' = "overrun" /\ UNCHANGED <<data, cont, regs>>
         ELSE /\ SetStack(c.s, BelowTop(Stack(c.s), n))
              /\ regs' = [regs EXCEPT ![c.r] = TopBytes(Stack(c.s), n)]
              /\ UNCHANGED status
  /\ code' = Tail(code)
  /\ UNCHANGED <<loader, function, here, running>>

(* ImmediateStackCodeGen::push *)
RunPush ==
  /\ At("push")
  /\ LET c == Head(code)
         after == PushBytes(Stack(c.s), regs[c.r])
     IN  IF Len(after) > StackSize
         THEN status' = "overrun" /\ UNCHANGED <<data, cont>>
         ELSE SetStack(c.s, after) /\ UNCHANGED status
  /\ code' = Tail(code)
  /\ UNCHANGED <<loader, function, here, running, regs>>

(* The instruction's own operation assigns one value and touches no stack. *)
Assign(r, bytes) ==
  /\ regs' = [regs EXCEPT ![r] = bytes]
  /\ code' = Tail(code)
  /\ UNCHANGED <<loader, function, data, cont, here, running, status>>

RunConst == At("const") /\ LET c == Head(code) IN Assign(c.r, BytesOf(c.v, SizeOf[c.t]))

(* Bytes that are not one stored integer read as any integer. *)
IntsOf(bytes) ==
  IF IsWhole(bytes) /\ Stored(bytes)[1] = "int" THEN {Stored(bytes)[2]} ELSE Ints

(* Mutant: the difference is never taken. *)
RunSubKeep ==
  /\ At("sub")
  /\ LET c == Head(code) IN \E x \in IntsOf(regs[c.a]) : Assign(c.r, IntBytes(x, c.t))

RunSub ==
  /\ At("sub")
  /\ LET c == Head(code)
     IN  \E x \in IntsOf(regs[c.a]), y \in IntsOf(regs[c.b]) :
           Assign(c.r, IntBytes((x - y) % Modulus, c.t))

RunMul ==
  /\ At("mul")
  /\ LET c == Head(code)
     IN  \E x \in IntsOf(regs[c.a]), y \in IntsOf(regs[c.b]) :
           Assign(c.r, IntBytes((x * y) % Modulus, c.t))

Holds(p, x, y) ==
  CASE p = "eq"  -> x = y  [] p = "ne"  -> x # y
    [] p = "ugt" -> x > y  [] p = "uge" -> x >= y
    [] p = "ult" -> x < y  [] p = "ule" -> x <= y
    [] p = "sgt" -> Signed(x) > Signed(y)  [] p = "sge" -> Signed(x) >= Signed(y)
    [] p = "slt" -> Signed(x) < Signed(y)  [] p = "sle" -> Signed(x) <= Signed(y)

RunICmp ==
  /\ At("icmp")
  /\ LET c == Head(code)
     IN  \E x \in IntsOf(regs[c.a]), y \in IntsOf(regs[c.b]) :
           Assign(c.r, IntBytes(IF Holds(c.p, x, y) THEN 1 ELSE 0, Bit))

RunSelect ==
  /\ At("select")
  /\ LET c == Head(code)
     IN  \E x \in IntsOf(regs[c.c]) : Assign(c.r, regs[IF x # 0 THEN c.a ELSE c.b])
-----------------------------------------------------------------------------
Done == status \in Stopped /\ UNCHANGED vars

Drive == InitFunction \/ RunFunction \/ Return \/ NextInstruction \/ Fetch \/ FetchUnderrun
Execute == RunPop \/ RunPush \/ RunConst \/ RunSub \/ RunMul \/ RunICmp \/ RunSelect

Next == InsertWord \/ Boot \/ Drive \/ RunUninitialised \/ Execute \/ Done

(* The process is a single thread that nothing blocks: while it is alive   *)
(* and has a next step, it takes one.                                      *)
Spec == Init /\ [][Next]_vars
FairSpec == Spec /\ WF_vars(Next)
-----------------------------------------------------------------------------
(* What holds of every module.                                             *)

Bytes == Seq(Byte)
Compiled ==
  [op : {"push"}, t : Types, v : Ints] \cup [op : {"pushloc"}, l : Nat]
    \cup [op : {"tocont", "fromcont"}] \cup [op : {"sub", "mul", "select"}, t : Types]
    \cup [op : {"icmp"}, p : Predicates, t : Types] \cup Shuffles

(* The operations of generated code that names the values in R. *)
Operations(R) ==
  [op : {"pop"}, s : {"data", "cont"}, t : Types, r : R]
    \cup [op : {"push"}, s : {"data", "cont"}, r : R]
    \cup [op : {"const"}, v : Value, t : Types, r : R]
    \cup [op : {"sub", "mul"}, t : Types, a : R, b : R, r : R]
    \cup [op : {"icmp"}, p : Predicates, t : Types, a : R, b : R, r : R]
    \cup [op : {"select"}, c : R, a : R, b : R, r : R]

(* Types, for any module: in particular generated code never names an LLVM *)
(* value that its instruction does not have (codeGen of the instructions), *)
(* and an index of a shuffle stays inside its popped values.               *)
TypeOK ==
  /\ mod \in Modules
  /\ slots \in Seq(Words)
  /\ wordMap \in [Words -> Nat]
  /\ function \in Seq(Seq(Compiled) \cup {Uninit})
  /\ Len(function) = Len(slots)
  /\ data \in Bytes /\ cont \in Bytes
  /\ here \in 0 .. Len(slots)
  /\ status \in {"interpret", "run"} => here # NULL
  /\ running \in Seq(Compiled)
  /\ regs \in Seq(Bytes)
  /\ code \in Seq(Operations(DOMAIN regs))
  /\ status \in Stopped \cup {"load", "fetch", "interpret", "run"}

(* The program area and the map agree, and compiled code is linked: where  *)
(* the word of a slot looks a word up, its function pushes the location at *)
(* which that very word sits (insertWord, lookupWordLocation, codeGen of   *)
(* LookupLlackInst).  So whenever a word runs, before or after any other   *)
(* was compiled, it calls the words its source names.                      *)
Linked ==
  /\ \A l \in DOMAIN slots : wordMap[slots[l]] = l
  /\ \A w \in Words : wordMap[w] # NULL =>
        wordMap[w] \in DOMAIN slots /\ slots[wordMap[w]] = w
  /\ \A l \in DOMAIN function : function[l] # Uninit =>
        LET body == mod.body[slots[l]]
        IN  /\ DOMAIN function[l] = DOMAIN body
            /\ \A i \in DOMAIN body : body[i].op = "lookup" =>
                  /\ function[l][i].l \in DOMAIN slots
                  /\ slots[function[l][i].l] = body[i].w

(* The words are inserted in the order of the module, and within the area: *)
(* one word too many ends the loading.                                     *)
InOrder ==
  /\ Len(slots) <= Len(mod.words)
  /\ Len(slots) * LocSize <= AreaSize
  /\ \A l \in DOMAIN slots : slots[l] = mod.words[l]

LinkInv == TypeOK /\ InOrder /\ Linked
=============================================================================
