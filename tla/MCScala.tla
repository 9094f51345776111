------------------------------- MODULE MCScala -------------------------------
(***************************************************************************)
(* The Scala parts that are not the mid-level compiler, on small inputs:   *)
(* in each behaviour one of them works and the others rest.  The bytecode  *)
(* program is extended, and rests where it starts.                         *)
(***************************************************************************)
EXTENDS BytecodeProgram, TLC, SequencesExt

CONSTANTS
  MidDefinitions, TestDefinitions,  \* Definitions of MidTerm
  Problems,                         \* of Unification
  InferTerms, Ground                \* of TypeInference

VARIABLES
  part,                                            \* the part that works
  quotations, defined, named,                      \* MidTerm
  given, tve, todo, outcome, stale,                \* Unification
  term, result                                     \* TypeInference

MidPrimitives == {"p", "tocont"}
TestPrimitives ==
  {"dup", "swap", "rot", "drop", "select", "tocont", "fromcont", "add", "sub", "mul", "icmp"}

T == INSTANCE MidTerm WITH Definitions <- MidDefinitions, Primitives <- MidPrimitives,
       Attempts <- 3, Steps <- 40, Main <- {<<w, <<"i32", "quot">>>> : w \in {"f", "g"}}, dict <- quotations
Test == INSTANCE MidTerm WITH Definitions <- TestDefinitions, Primitives <- TestPrimitives,
          Attempts <- 6, Steps <- 0, Main <- {}, dict <- quotations
U == INSTANCE Unification
I == INSTANCE TypeInference WITH Terms <- {}, Fuel <- 12
FM == INSTANCE FactorialModule
ASSUME BytecodeAssumed == ProgramAssumption /\ OnlyCallsJump

(* The constructors of terms and types, for the inputs. *)
TS == INSTANCE MidTerm WITH Definitions <- {}, Primitives <- {}, Attempts <- 0, Steps <- 0, Main <- {}, dict <- quotations
US == INSTANCE Unification WITH Problems <- {}
LS == INSTANCE TypeInference WITH Terms <- {}, Ground <- {}, Fuel <- 0

midVars == <<quotations, defined, named>>
bytecodeVars == <<vars, machine>>
unifyVars == <<given, tve, todo, outcome, stale>>
inferVars == <<term, result>>
partVars == <<part, midVars, bytecodeVars, unifyVars, inferVars>>

MidRests == quotations = << >> /\ defined = << >> /\ named = << >>
BytecodeRests == dict = [w \in Words |-> << >>] /\ ProgramInit
UnifyRests ==
  /\ given = <<U!TInt, U!TInt>> /\ tve = [n |-> 0, s |-> << >>]
  /\ todo = << >> /\ outcome = "rests" /\ stale = FALSE
InferRests == term = "rests" /\ result = "rests"

PartInit ==
  \/ part = "terms" /\ T!Init /\ BytecodeRests /\ UnifyRests /\ InferRests
  \/ part = "test" /\ Test!Init /\ BytecodeRests /\ UnifyRests /\ InferRests
  \/ part = "bytecode" /\ ProgramInit /\ MidRests /\ UnifyRests /\ InferRests
  \/ part = "unify" /\ U!Init /\ MidRests /\ BytecodeRests /\ InferRests
  \/ part = "infer" /\ (\E e \in InferTerms : I!Start(e)) /\ MidRests /\ BytecodeRests /\ UnifyRests

(* Nobody has to define more: the bound on attempts is reached. *)
Enough == Len(named) = IF part = "terms" THEN 3 ELSE 6

PartNext ==
  /\ part' = part
  /\ \/ part = "terms" /\ T!Next /\ UNCHANGED <<bytecodeVars, unifyVars, inferVars>>
     \/ part = "test" /\ Test!Next /\ UNCHANGED <<bytecodeVars, unifyVars, inferVars>>
     \/ part \in {"terms", "test"} /\ Enough /\ UNCHANGED partVars
     \/ part = "bytecode" /\ Next /\ UNCHANGED <<midVars, unifyVars, inferVars>>
     \/ part = "unify" /\ U!Next /\ UNCHANGED <<midVars, bytecodeVars, inferVars>>
     \/ part = "infer" /\ I!Next /\ UNCHANGED <<midVars, bytecodeVars, unifyVars>>

(* compile and run are loops, and nothing else runs beside them. *)
PartSpec == PartInit /\ [][PartNext]_partVars /\ WF_bytecodeVars(Next)
-----------------------------------------------------------------------------
(* Calls in front, in the middle and at the end; quotations that use the   *)
(* variables in another order, some not at all, and contain others;        *)
(* recursion; calls of a word that is not defined.                         *)
V(i) == TS!Variable(i)
MidBodies ==
  { <<TS!WordTerm("p", <<V(1), V(0)>>)>>,
    <<TS!LiteralTerm("one", V(1)), TS!WordTerm("p", <<V(1)>>), TS!LiteralTerm("two", V(0))>>,
    <<TS!QuotationTerm(<<TS!WordTerm("p", <<V(1), TS!Constant("i8")>>), TS!LiteralTerm("one", V(0))>>),
      TS!WordTerm("tocont", << >>), TS!WordTerm("p", <<V(0)>>)>>,
    <<TS!QuotationTerm(<<TS!QuotationTerm(<<TS!LiteralTerm("two", V(0)), TS!WordTerm("p", <<V(1), V(0)>>)>>),
                      TS!WordTerm("p", <<V(1)>>), TS!WordTerm("tocont", << >>)>>),
      TS!LiteralTerm("one", V(0)), TS!QuotationTerm(<<TS!WordTerm("p", <<V(1)>>)>>),
      TS!WordTerm("tocont", << >>), TS!WordTerm("tocont", << >>)>>,
    <<TS!WordTerm("g", <<V(1), V(0)>>), TS!WordTerm("p", <<V(1)>>), TS!WordTerm("f", <<V(1), V(1)>>)>>,
    <<TS!QuotationTerm(<<TS!WordTerm("f", <<V(1), V(0)>>), TS!WordTerm("p", <<V(0), V(1)>>)>>),
      TS!QuotationTerm(<< >>), TS!WordTerm("tocont", << >>), TS!WordTerm("tocont", << >>),
      TS!WordTerm("g", <<V(0), V(1)>>)>> }

MCDefinitions ==
  {[wid |-> w, terms |-> b] : w \in {"f", "g"}, b \in MidBodies}
    \cup {[wid |-> "f$q0", terms |-> <<TS!WordTerm("p", << >>)>>],
          [wid |-> "f$k1", terms |-> <<TS!WordTerm("p", <<TS!Constant("i8")>>)>>]}
-----------------------------------------------------------------------------
(* MidTest.testCompile: its definitions, in its order. *)
Word(w, args) == TS!WordTerm(w, args)
Arg == V(0)
Q == TS!Constant(FM!Quot)
I32 == TS!Constant(FM!I32)
Sle == TS!Constant("sle")
OneLit == TS!LiteralTerm(1, Arg)

MidTestApply == <<Word("tocont", << >>)>>
MidTestIf == <<Word("select", <<Q>>), Word("tocont", << >>)>>
MidTestFactorial == <<OneLit, Word("factorial_accum", <<Arg>>)>>
MidTestAccum ==
  <<Word("swap", <<Arg, Arg>>), Word("dup", <<Arg>>), OneLit, Word("icmp", <<Sle, Arg>>),
    TS!QuotationTerm(<<Word("drop", <<Arg>>)>>),
    TS!QuotationTerm(<<Word("dup", <<Arg>>), OneLit, Word("sub", <<Arg>>), Word("swap", <<Arg, Arg>>),
                    Word("rot", <<Arg, Arg, Arg>>), Word("mul", <<Arg>>),
                    Word("factorial_accum", <<Arg>>)>>),
    Word("if", << >>)>>
MidTestTimes ==
  <<Word("dup", <<Arg>>), OneLit, Word("icmp", <<Sle, Arg>>),
    TS!QuotationTerm(<<Word("drop", <<Arg>>), Word("drop", <<Q>>)>>),
    TS!QuotationTerm(<<OneLit, Word("sub", <<Arg>>), Word("swap", <<Q, Arg>>), Word("dup", <<Q>>),
                    Word("apply", << >>), Word("swap", <<Arg, Q>>), Word("times", <<Arg>>)>>),
    Word("if", << >>)>>
MidTestMain ==
  <<TS!QuotationTerm(<<TS!LiteralTerm(5, I32), Word("factorial", <<I32>>), Word("drop", <<I32>>)>>),
    TS!LiteralTerm(3, I32), Word("times", <<I32>>)>>

MidTestDefinitions ==
  { [wid |-> "apply", terms |-> MidTestApply], [wid |-> "if", terms |-> MidTestIf],
    [wid |-> "factorial", terms |-> MidTestFactorial],
    [wid |-> "factorial_accum", terms |-> MidTestAccum],
    [wid |-> "times", terms |-> MidTestTimes], [wid |-> "main", terms |-> MidTestMain] }
MidTestOrder == <<"apply", "if", "factorial", "factorial_accum", "times", "main">>

(* addPrimitive: the instruction that a primitive writes for its arguments. *)
Writes(w, args) ==
  CASE w = "dup" -> FM!Shuffled(args, <<0, 0>>)
    [] w = "swap" -> FM!Shuffled(args, <<1, 0>>)
    [] w = "rot" -> FM!Shuffled(args, <<1, 2, 0>>)
    [] w = "drop" -> FM!Shuffled(args, << >>)
    [] w \in {"select", "add", "sub", "mul"} -> FM!On(w, args[1])
    [] w = "icmp" -> <<[op |-> "icmp", p |-> args[1], t |-> args[2]]>>
    [] OTHER -> <<[op |-> w]>>

(* The name that getWord of Compiler makes of a word and its arguments. *)
NameOf(w, args) ==
  IF args = << >> THEN w
  ELSE FoldLeft(LAMBDA n, a : n \o "_" \o a, w \o "$" \o args[1], Tail(args))

(* What the compiler writes for one concrete word, and the words it needs. *)
Instructions(w, args) ==
  IF w \in TestPrimitives THEN Writes(w, args)
  ELSE Test!Map(LAMBDA t : CASE t.kind = "push" -> FM!Lookup(NameOf(t.w, t.args))
                        [] t.kind = "lit" -> [op |-> "push", t |-> t.args[1], v |-> t.v]
                        [] t.kind = "tocont" -> FM!ToCont,
           Test!Specialized(quotations.m[w].linear, args))
Callees(w, args) ==
  IF w \in TestPrimitives THEN {}
  ELSE {<<t.w, t.args>> : t \in {u \in ToSet(Test!Specialized(quotations.m[w].linear, args)) : u.kind = "push"}}
RECURSIVE Closure(_)
Closure(S) ==
  LET more == S \cup UNION {Callees(c[1], c[2]) : c \in S}
  IN  IF more = S THEN S ELSE Closure(more)

(* The module of main, by its concrete words (MidCompiler shows that       *)
(* compile builds it: Faithful, Closed, Complete and Minimal).             *)
Compiled == Closure({<<"main", << >>>>})
AllDefined == Len(defined) = Cardinality(MidTestDefinitions)

(* The module that createFactorialModule builds by hand is the one that    *)
(* the definitions of MidTest compile to, word for word, with names drawn  *)
(* in their order; in any order of definition it has as many words         *)
(* (llacktest.cpp is the output of CPlusPlusEmitter).                      *)
MidTestIsFactorialModule ==
  part = "test" /\ AllDefined =>
    /\ Cardinality(Compiled) = Len(FM!FactorialWords)
    /\ Test!Map(LAMBDA def : def.wid, defined) = MidTestOrder =>
         /\ {NameOf(c[1], c[2]) : c \in Compiled} = ToSet(FM!FactorialWords)
         /\ \A c \in Compiled : Instructions(c[1], c[2]) = FM!Body(3, 5)[NameOf(c[1], c[2])]
-----------------------------------------------------------------------------
(* Programs: a main word and two others, with recursion, mutual recursion, *)
(* shared callees, empty and unknown words.                                *)
Code(op) == [do |-> "append", code |-> [op |-> op]]
PushOne == [do |-> "append", code |-> Push(1)]
PushTwo == [do |-> "append", code |-> Push(2)]
Truth(b) == [do |-> "append", code |-> [op |-> "Push", value |-> [bool |-> b]]]
CallOf(w) == [do |-> "call", w |-> w]

MCPrimitives == {[op |-> op] : op \in {"Drop", "Dup", "Swap", "D2R", "R2D", "Add", "Mul", "Choose", "Dump"}}
  \cup {[op |-> "Push", value |-> [bool |-> b]] : b \in BOOLEAN} \cup {Push(1), Push(2)}

MainBodies == { <<PushOne, PushTwo, CallOf("f"), Code("Swap")>>, <<PushOne, CallOf("f"), CallOf("g"), CallOf("f")>>,
                <<PushTwo, CallOf("g"), Code("D2R"), PushOne, CallOf("f"), Code("R2D"), Code("Swap")>>,
                <<CallOf("f")>>, <<PushOne, CallOf("main")>>,
                <<Truth(TRUE), PushOne, PushTwo, Code("Choose"), CallOf("f"), Code("Dump"), Truth(FALSE),
                  PushTwo, PushTwo, Code("Mul"), PushOne, Code("Choose")>> }
OtherBodies == { <<Code("Dup")>>, <<Code("Dup"), Code("Add")>>, <<Code("Drop")>>,
                 <<CallOf("g"), PushTwo>>, <<CallOf("f")>>, <<PushOne, Code("Swap"), CallOf("g")>>,
                 <<CallOf("g"), CallOf("g")>>, <<Code("Drop"), CallOf("f")>>, Undefined }

ProgramBodies(M, O) == {[w \in Words |-> IF w = "main" THEN m ELSE IF w = "f" THEN f ELSE g] : m \in M, f \in O, g \in O}
EmptyDictionaries ==
  ProgramBodies({<<CallOf("f"), PushOne>>, <<CallOf("f"), CallOf("g")>>, << >>}, {<<CallOf("g")>>, << >>, <<PushOne>>})
MCDictionaries == ProgramBodies(MainBodies, OtherBodies) \cup EmptyDictionaries
-----------------------------------------------------------------------------
(* Types: all pairs of words, with stack variables that occur up to three  *)
(* times, and the pairs of main.                                           *)
StackVars == {US!TStV(0), US!TStV(2)}
Elements == {US!TInt, US!TV(1)}
Stacks1 == StackVars \cup {US!TStCons(s, t) : s \in StackVars, t \in Elements}
Quotes == {US!TFn(a, b) : a \in StackVars \cup {US!TStCons(US!TStV(0), US!TInt)}, b \in Stacks1}
Stacks2 == Stacks1 \cup {US!TStCons(s, q) : s \in StackVars, q \in {US!TFn(US!TStV(0), US!TStV(2)), US!TFn(US!TStV(2), US!TStV(2))}}
              \cup {US!TStCons(US!TStCons(US!TStV(0), a), b) : a, b \in Elements}
WordTypes == {US!TFn(a, b) : a \in Stacks2, b \in Stacks2}
             \cup {US!TFn(US!TV(1), b) : b \in {US!TV(1), US!TV(3), US!TInt, US!TFn(US!TV(1), US!TInt), US!TFn(US!TV(3), US!TV(1)), US!TFn(US!TInt, US!TInt)}}
MCProblems == WordTypes \X WordTypes
-----------------------------------------------------------------------------
(* Terms: all that nest two constructors over two names, closed by up to   *)
(* two abstractions, with and without Fix; and those that main prints.     *)
Atoms == {LS!V("x"), LS!V("y"), LS!I(0)}
Over(es, fs) ==
  {LS!L("x", e) : e \in es} \cup {LS!Fix(e) : e \in es} \cup {LS!A(e, f) : e \in es, f \in fs}
    \cup {LS!Plus(e, f) : e \in es, f \in fs}
Once == Atoms \cup Over(Atoms, Atoms) \cup {LS!IFZ(LS!V("x"), a, b) : a, b \in Atoms}
Twice == Once \cup Over(Once, Once)
           \cup {LS!IFZ(c, a, LS!I(1)) : c \in Once, a \in Once}
Closed == {LS!L("x", LS!L("y", e)) : e \in Twice}
           \cup {LS!A(LS!L("x", LS!A(LS!L("y", e), LS!I(0))), LS!I(1)) : e \in Twice}
           \cup {LS!A(LS!A(LS!Fix(LS!L("x", LS!L("y", e))), LS!I(1)), LS!I(0)) : e \in Twice}

swapTyp == US!TFn(US!TStCons(US!TStCons(US!TStV(2), US!TV(1)), US!TV(0)),
                 US!TStCons(US!TStCons(US!TStV(2), US!TV(0)), US!TV(1)))
constantlyTyp == US!TFn(US!TStCons(US!TStV(1), US!TV(0)),
                       US!TStCons(US!TStV(1), US!TFn(US!TStV(2), US!TStCons(US!TStV(2), US!TV(0)))))
Swap == LS!SW(swapTyp)
Constantly == LS!SW(constantlyTyp)
Printed0 == LS!Fix(LS!L("self", LS!L("counter", LS!IFZ(LS!V("counter"), LS!I(0), LS!A(LS!V("self"), LS!V("counter"))))))

MCTerms == Closed \cup {Printed0, LS!SW(US!TFn(US!TStV(100), US!TStV(100))), LS!QCons(Swap, LS!QNil),
                        LS!QCons(Constantly, LS!QCons(Swap, LS!QNil))}
Ground1 == {US!TInt} \cup {US!TFn(US!TInt, US!TInt)}
MCGround == Ground1 \cup {US!TFn(a, b) : a, b \in Ground1}
-----------------------------------------------------------------------------
(* What MidTerm, BytecodeProgram, Unification and TypeInference say of the *)
(* part that works: each is stated and explained in its module; Links and  *)
(* Runs of the program also hold where it rests.                           *)

(* The words a definition leaves do what its quotation does, a push passes *)
(* as many arguments as its word's variables need, and a definition fails  *)
(* only over a name that a caller chose.                                   *)
Flattened == part = "terms" => T!Means /\ T!CallsMatch /\ T!FailsOverCallers
(* compile ends for every dictionary, whatever calls whatever. *)
CompileEnds == part = "bytecode" => Compiles
(* unify finds the most general unifier while it binds fresh variables. *)
UnifiesAsRobinson == part = "unify" => U!UnifiesAsRobinson
(* Only a stack variable is ever given a second value. *)
TypeVariablesKeepValue == U!TypeVariablesKeepValue
(* A term that has a type does not go wrong, and every type it has is an   *)
(* instance of the inferred one.                                           *)
Typed == part = "infer" => I!TypedTermsRun /\ I!MostGeneral
=============================================================================
