# Llack: a formal model

Llack is a stack language in three layers. A compiler in Scala (`scala/mid`)
turns generic words into concrete ones in continuation-passing form; a module of
words is printed as C++ source (`scala/vm`); a virtual machine in C++ (`cpp`)
loads such a module, compiles each word with LLVM the first time it is run, and
runs it on untyped byte stacks. The repository ships one program in that form,
the factorial module, and a driver that runs it. Beside these lie two prototypes
in Scala, of a bytecode compiler and of type inference, and LlackCore, a renamed
copy of the core library of LLVM 2.3.

This directory models the path from a dictionary of terms to the running
machine, both prototypes, and the parts of LlackCore that keep state which can go
wrong: names and ownership, uses and operands, phi nodes, dominators, pass
managers, types, constants and what constants are folded into.

## The system

| Part | Source | State | Operations |
|---|---|---|---|
| Driver | `cpp/tools/llack/main.cpp` | the `VMState`, the loop | load every word, push NULL and main, pop a location and interpret it until NULL |
| ProgramWriter | `cpp/lib/llack/llack.cpp`, `cpp/include/llack.h` | the program area, `wordMap` | `insertWord`, `getWordLocation` |
| WordInterpretable | same | `function` | `interpret`, `initFunction`, `codeGen` |
| Llack instructions | same | none | one `codeGen` each, in terms of pops and pushes |
| Code generation interface | same | one stack code generator per stack | push, pop, `lookupWordLocation`, `flush` |
| Stack code generators | same | `ImmediateStackCodeGen`: none; `CachingStackCodeGen`: `cache` | push, pop, flush |
| Factorial module | `cpp/lib/llacktest/llacktest.cpp` | none | 42 words |
| Mid-level compiler | `scala/mid/.../Compiler.scala` | the set of words to compile, the module | `compile` |
| Dictionary | `scala/mid/.../Dictionary.scala` | the map, `nextId` | `freshWordId`, `update`, `apply` |
| Terms | `scala/mid/.../Term.scala` | `VariableRewriter` | flatten, cut into continuations, substitute |
| Module, Disassembler, C++ emitter | `scala/vm` | none | print a module |
| Bytecode prototype | `prototypes/compiler` | array and patch stack; data, retain and return stack | compile and patch, run |
| Type inference prototype | `prototypes/typeinference` | the substitution | unify, infer |
| LlackCore: names | `Value.cpp`, `ValueSymbolTable.cpp`, `SymbolTableListTraitsImpl.h`, `LeakDetector.cpp`, `Function.cpp`, `Module.cpp` | names, tables, parents, lists of children, leak detector | create, insert, remove, move, rename, take a name, delete, get or insert a function |
| LlackCore: uses | `Use.cpp`, `Use.h`, `User`, `Instructions.cpp` | lists of uses, tags, hung-off arrays | set, swap, add, remove, resize, clone, destroy, replace |
| LlackCore: phi nodes | `BasicBlock.cpp`, `Instructions.cpp` | the entries of each phi node | `removePredecessor` |
| LlackCore: dominators | `Dominators.h`, `Dominators.cpp` | tree, DFS numbers, frontiers | split, change and erase nodes, `dominates` |
| LlackCore: pass managers | `PassManager.cpp` | managers, available analyses, last users | schedule, run |
| LlackCore: types | `Type.cpp`, `Type.h`, `DerivedTypes.h`, `TypeSymbolTable.cpp` | unique maps, users, references, forwarding | factories, refine, promote, name |
| LlackCore: constants | `Constants.cpp`, `ConstantFold.cpp`, `Instructions.cpp` | unique maps, uses | make, fold, cast, replace, convert |

They interact by plain calls in one thread. The coupling that matters goes
through memory. In the machine, the driver trusts that what lies on top of
`cont` is a location, and only the words of the module, all of them together, put
it there; generated code agrees with other generated code on sizes and positions
of values by nothing but convention. In LlackCore the same fact is kept in
several places that callbacks have to keep in step: a use and the list it is in,
a name and the table of whoever owns the value, a phi node and the edges of the
graph, an analysis and the pass that was told it is there, an object and the map
that makes it unique.

What is hard here, and what has to be right:

- the control stack holds locations on one NULL, whatever the program does, and
  values of different sizes lie side by side on `data` without a pop that cuts
  one in two (`StacksKept`, `EndsClean`);
- words are compiled one by one while the program runs, each linked against the
  map as it is then (`Linked`, `LinkInv`);
- a code generator that holds values back must be invisible (`Implements`,
  `OneImplements`);
- the compiler's result must not depend on the order in which a hash set yields
  words, on recursion, on earlier calls or on earlier exceptions (`Closed`,
  `Complete`, `Minimal`, `Faithful`, `SetOnce`, `Returns`);
- quotations, once flattened, do what they did before, though their variables are
  renumbered (`Flattened`, `MidTestIsFactorialModule`);
- the patch stack of the prototype links every call once, and its return before
  the last bytecode changes nothing (`Links`, `Runs`, `CompileEnds`); unification is
  sound and most general (`UnifiesAsRobinson`, `Typed`, `TypeVariablesKeepValue`);
- a use is in exactly the list of the value it holds, also when arrays move, are
  copied or are destroyed (`ListsExact`, `OperandsExact`), and finds its user from
  two bits in each of its neighbours (`Found`);
- a table holds exactly the names of what it is the table of, when blocks with
  everything in them move between functions (`TablesExact`);
- a block keeps for every edge what the edge brought while edges leave in any
  order (`PhisExact`);
- dominance is answered from a tree that is patched, and from numbers that may
  be older than the tree (`DominatorsExact`, `SplitsCover`);
- an analysis that a pass requires is there, true of what the pass runs on, and
  not yet freed (`Promised`);
- folding never invents a value, wherever the globals end up
  (`FoldsKeepMeaning`, `CastsChosen`, `PredicatesAgree`);
- types and constants are made once, while refining one object merges others
  (`TypesUnique`, `ConstantsUnique`, `ShapesKept`, `TreesKept`).

Nothing is persisted and nothing runs concurrently, so there are no crashes,
messages or races to model.

## The modules

### The machine

`ByteStack` defines the byte stacks. A byte carries the value it was stored as
part of, the size of that store and its position in it, so a load that cuts
values can be told from one that does not; nothing in the code sees these tags.

`LlackVM` is the machine. The loader is `InsertWord` and `Boot`; the loop of
`main` is `Fetch` (with `FetchUnderrun` for a pop below the bottom of `cont`);
`interpret` is `InitFunction`, `RunUninitialised` and `RunFunction`; a compiled
function is its list of instructions with every lookup replaced by the location
found at that moment. `NextInstruction` expands an instruction into the pops,
operation and pushes its `codeGen` emits (`Binary`, `Compare`, `Select`,
`Shuffle`, ...), and `RunPop`, `RunPush`, `RunConst`, `RunSub`, `RunMul`,
`RunICmp` and `RunSelect` run these. `status` says where the driver is; its
final values are `halted` (the NULL was popped), `wild` (a jump or a read
through a pointer to nothing), `overrun` (memory outside the program area or a
stack was touched) and `asserted`. The model stops where the code has undefined
behaviour: after it nothing is known. Where undefined behaviour is a choice, the
read of the uninitialised `function`, both outcomes are there.

`FactorialModule` is the data of `createFactorialModule`, with the literals 3
and 5 of its `main` as parameters. `FactorialProgram` runs it in `LlackVM` and
states what that run must do.

`StackMachine` is what `StackCodeGen` promises: pushes and pops on stacks of
bytes. `ProgramCodeGen` is `ProgramVMCodeGenInterface` with its generators, on
the memory that the emitted code works on (a word is one basic block, so
emitting and executing happen in the same order); `Implements` is the refinement
of `StackMachine`, with a stack mapped to the memory below its top pointer
followed by what a flush has still to write. `Class` chooses the generator:
`getStack` in the code builds the immediate one.

### The compilers and the prototypes

`MidCompiler` is `Compiler.compile`, one action per step of its loop. A generic
word is what its writer does: append an instruction, push a quotation, or throw.
The dictionary is any function from concrete words to these, or to "undefined".
Names and concrete words are distinct sets, as `getWord` identifies words by a
string it makes of a word id and its arguments.

`MidTerm` is `Term.scala` with `Dictionary`: one action, `Define`, adds a
quotation as words in continuation-passing form. Its property runs quotation and
words side by side.

`BytecodeCompiler`, `BytecodeVM` and `BytecodeProgram` are the prototype
compiler, its machine, and `main`, which joins them; what a run does is compared
with executing the words in place. `Unification` takes one equation per step;
`TypeInference` is `teval`, compared with the typing rules and with running the
term.

### Values of LlackCore and what refers to them

`UseList` is the list of uses of each value, threaded through the uses:
`addToList`, `removeFromList`, `set` and `swap` on the two fields `Next` and
`Prev`, where `Prev` is the address of whatever points to the use. `Waymarks` is
`initTags` and the walk of `getImpliedUser`, one use looked at per step.
`Operands` is phi nodes and switches with their hung-off arrays, and branches,
whose operands lie in front of them; there the list of a value is abstracted to
the set of uses that hold it, which `UseList` justifies. `OperandLists` is the
abstract specification: a user is a sequence of values, and nothing else.

`ValueNames` has the parent of every value, the list of every container, the
tables and the leak detector in one record `ir`; each operation of the code is one
operator from state to state, composed of the helpers that the code calls
(`AddNodeToList`, `SetParent`, `ReinsertValue`, ...), in its order. A name is a
sequence of integers: a character is negative, and a number that a table appends
is one element. So the digits of two appended numbers cannot run together, as in
`x1` with 1 and `x` with 11, which end in the same name in the code; there
`UniqueName` would try the next number.

`PhiNodes` is `removePredecessor` with `removeIncomingValue`, `hasConstantValue`
and the replacement of the phi nodes that merge nothing any more; the history
variable `brought` is what each predecessor brings to each phi node.

### Analyses and passes

`Dominators` keeps a graph, the tree with its numbers and the frontiers under
`Split`, `splitBasicBlock`, folding and queries. `Calculate` is in a header that
is not in the repository, so it is stated by its meaning. The loops of the code
(numbering, building the tree, `calculate` of the frontiers) are functions of the
number of steps taken, each step an operator (`NumberNext`, `VisitNext`); children
are put on the list of work in any order. `PassManager` schedules
and runs passes; what a pass requires, preserves and where it runs is a constant,
and `bad` collects what was not as promised. The availability maps start empty in
each run; what the resolver of a pass was given (`impl`, `AnalysisImpls`) stays.

### Data of LlackCore

`CoreTypes` has types as values, `TypeRefinement` as objects with addresses,
users, references and unique maps. `ConstantData` has constants as values,
`ConstantTable` as objects. `Casts`, `CmpPredicates` and `ConstantFold` are the
pure parts: the choice and elimination of casts, the tables of predicates, and
what a constant expression is folded into. `ConstantMeaning` is their reference
definition and not translated from the code: the set of values a constant may
have, given where the globals are. `BitValues` has the arithmetic that the code
takes from `APInt` and `APFloat`, which are outside the repository.

### Proofs and instances

`LlackVMProofs` (with the factorial module), `ProgramCodeGenProofs`,
`MidCompilerProofs`, `BytecodeProofs`, `CoreValuesProofs` (for `UseList`,
`Waymarks`, `PhiNodes` and `CmpPredicates`), `OperandsProofs` and
`ValueNamesProofs` hold the proofs. The modules `MC...` give the constants
values for TLC. Four of them hold several independent parts: a variable `part`,
chosen at the start and kept, says which part is at work, and the variables of
the others rest at a fixed value. Most parts are instances; `MCScala` extends
`BytecodeProgram`, and `MCCoreValues` extends `UseList` and `PhiNodes`, so that
the properties of these modules are checked, and proved, under one name. They
hold where the module rests as well.
Every step of such a run is thus a step of one instance, and a property of the
run is the conjunction of what each part has to satisfy. In the module for
data, `client` does the same among the kinds of clients of one part.

Definitions whose comment starts with "Mutant" are variants with a plausible
slip; no specification uses them. They are there to show that each property
notices one.

## The runs

| Run | Question | Bounds |
|---|---|---|
| `factorial_safe` | does the machine run the factorial module cleanly to an end, and what has it computed by then? | 3-bit integers, all 64 pairs of literals; locations and i32 of 4 bytes, i1 of 1; area and stacks as shipped, 1024 bytes |
| `vm_edges` | do types and links hold for broken modules? | 3 words, 2-bit integers, stacks of 9 bytes, area for 2 words |
| `codegen_immediate` | is the emitted code a stack machine, and is the caching class one with at most one value pending? | immediate: 2 stacks of 3 bytes, types of 1 and 2 bytes; caching: 2 stacks of 4 bytes, 2 values, `MaxCache` 1 |
| `mid_distinct` | is the compiled module right? | 4 concrete words, of which two share a name in half of the dictionaries, writers of up to two items |
| `scala` | are terms, bytecode and types handled right? | words of up to four terms and three attempts to define one, and `MidTest` itself; dictionaries of three words, stacks up to 6; all pairs of word types with up to two elements; all terms that nest two constructors over two names |
| `core_values` | are uses, operands, phi nodes and names kept? | 4 uses of 2 values; a phi node up to 12 uses, two up to 4, two switches and a branch up to 6; 2 phi nodes, 3 edges from 3 predecessors; 2 instructions, an instruction with 2 blocks, 2 functions with 2 modules, a table renames 1 or 2 times |
| `core_passes` | are dominators, passes and tags right? | graphs of 4 blocks and 4 edges with 1 new block, of 3 and 3 with 2; 4 registered passes, 4 or 5 scheduled, 2 functions of 2 blocks; arrays of up to 140 uses |
| `core_data` | are constants folded right, types and constants unique? | integers of 3 bits (stand for i32), pointers of 6, floats of 3 and 6; types of up to 3 levels; up to 6 operations of a client |

`scala` gives its counts by the sets of inputs in `MCScala`, `core_data` by those
in `MCCoreData`.

Four more runs show a disagreement between the code and what is written about it:

- `factorial_result`: `ICmpLlackInst` takes the top of the stack as its left
  operand, `SubLlackInst` and `MulLlackInst` as their right one. The factorial
  module is written for the latter order: the machine leaves 1 where `factorial`
  of 2 is wanted. For the same reason `times` with a positive count applies its
  quotation not even once: the shipped program computes nothing.
- `factorial_wild`: `WordInterpretable::function` is read before anything is
  written to it.
- `factorial_wide`: `ShuffleLlackInst` pops its types in the order listed, though
  they are listed from the bottom of the stack up. It goes unnoticed because a
  location and an i32 have the same size on the shipped target; with an integer
  of 8 bytes `swap$quot_i32` cuts values in two.
- `codegen_caching`: with two values pending, `CachingStackCodeGen::flush` writes
  them in reverse. The class is not used by the shipped interface.

### Why the bounds are enough

The factorial module has no data-dependent control but the two comparisons with
1, so each pair of literals is one path up to the choice of reading the
uninitialised member; 3-bit integers have positive values, zero, negative values
and the wrap-around, each more than once, and every loop runs from none to
several times. Three bytes of stack fit a value of each size, one after another
and over the remains of an earlier one. Three words suffice for self-recursion,
mutual recursion, a shared callee, an unreachable word, an undefined one and one
that throws after scheduling another; the fourth shares a name.

A list of uses has four cases (alone, first, middle, last), and a swap touches
two lists. A phi node of 12 uses has grown more than once and shrunk by
`resizeOperands`; two of 4 uses can refer to each other and to themselves. With 3
edges from 3 predecessors, one of them the block itself, every count that
`removePredecessor` tells apart occurs, with one block along two edges as well.
A walk of tags over 140 uses meets numbers of up to eight digits and starts at
every place between two of them. Four blocks are the fewest with an irreducible
loop beside a block it does not reach; a new block is enough for numbers that are
older than the tree. Two analyses of which one may require the other give
transitive requirements, invalidation and a last user that changes; the four
families put them at one level, one around the other, and on the fly. Integers of 3 bits have the boundaries
of signed and unsigned comparison apart, shifts that are too wide, and a divisor
of -1; pointers of 6 bits are wider than an integer, as Int64 is beside Int32.

### Inputs that are left out

The code asserts, is undefined or is wrong for some inputs; what is assumed of a
client is stated where the inputs are.

- `Operands`: `Careful` clients clone no empty phi node and add no case to a
  cloned switch (see the list of slips below).
- `Dominators`: `Whole` says that all blocks of the function can be reached.
- `PassManager`: a pass in the loop over functions or blocks preserves the
  analyses of the levels around it, which are not computed again within the loop
  (`Keeping`); a pass requires analyses of its own level or of one around it, but
  for a module pass that has its function analyses run on the fly (`Requiring`).
- Folding: no IntToPtr or FPExt of undef; no comparison of vectors with undef
  elements, and no shuffle of a vector that is undef as a whole; no cast between
  float formats of one size; no element taken from beyond a vector; a bitcast of
  a float is to an integer of its size (`Foldable`); a global that need not be
  there is not compared with an offset from null (`Comparable`). That a
  constant cannot trap is claimed of results that are no vector; the negation of
  a NaN is a NaN of either sign.
- Casts: a type that is no single value is not cast to itself.
- Types: no array of void, labels or functions; functions occur behind pointers.
- `ConstantTable`: two pointer types, one of them abstract, with an array and a
  structure each, a vector of integers, three globals and one instruction;
  replacements are globals, null and undef; an address is not taken of an address.

### Deadlock

Deadlock is checked where the system never stops: a stopped machine stutters
explicitly (`Done`), an idle compiler can be called again, generators always have
a pop, push or flush to do, and a finished prototype stutters (`Ended`, `Printed`).
The three `core_` runs switch the check off, because their behaviours do end: in
`core_values` the edges of a block run out and a table has renamed as often as the
bound allows; in `core_passes` the new blocks of a function run out, as many
passes as the bound allows are scheduled, and a walk has found its user; in
`core_data` a computation is done, or a client has used up its steps.

### Fairness

`LlackVM!FairSpec` asks for weak fairness of the whole next-state relation: the
machine is one thread that never waits, so while it is alive and has a step, it
takes one. Nothing is assumed about which outcome the uninitialised read has.
`MidCompiler!FairSpec` asks the same of the steps of a running `compile`; nothing
forces a call. In `scala` the step of `BytecodeProgram` is weakly fair, and in
`core_passes` that of the walk in `Waymarks`: each is one loop, with nothing
running beside it. `RunsToEnd`, `Returns`, `CompileEnds` and the end of the walk in
`Found` rest on these.

## What is proved

All theorems hold for every value of the constants under the assumptions named
`VMAssumption`, `ModulesAssumption`, `CodeGenAssumption`, `CompilerAssumption`,
`BytecodeAssumption`, `ProgramAssumption`, `UsesAssumption`, `OperandsAssumption`,
`NamesAssumption`, `MarksAssumption`, `PhisAssumption` and `DominatorsAssumption`; those about the factorial
program also under `FactorialInstance`, two about the prototype under
`OnlyCallsJump`, which are described with them. TLC evaluates each of them on the instances it checks: those of
modules that are instantiated, not extended, through an `ASSUME` of the MC module.
They say that the kinds of objects are distinct, that `None` and `Undef` are not
among the wrong ones, that bounds are numbers, that there are finitely many uses
(`UseList`), and that a function is read with finitely many blocks, its entry among
them (`Dominators`). Four say something of the code's callers: `ModulesAssumption`,
that no word is listed twice and that a shuffle produces values it consumed, which
nothing in the machine checks; `OperandsAssumption`, that clients are `Careful`, since the
code is wrong otherwise; `PhisAssumption`, that a value which is neither an
instruction nor a phi node is there on every path; and `DominatorsAssumption`, that
every block can be reached (`Whole`), since `Split` is wrong otherwise.

### The machine and its code generator

- `TypeCorrect`: `Spec => []TypeOK` of `LlackVM`. The invariant is inductive. Its
  core is that the code of an instruction only names LLVM values it has, for
  shuffles of any length: this needs the condition on production indices that
  `Shuffles` states and the compiler's callers have to respect.
- `LinkCorrect` and `LinkInvariant`: `Linked` alone is not inductive. Inserting a
  word must not move one that is there, which needs that the program area is a
  prefix of the module's words (`InOrder`) and that no word is listed twice.
  `LinkInv` is the invariant, and a property of `vm_edges` itself; it also says
  that the words inserted fit the area, of which a longer module runs out.
- `ImmediateImplements`: with the immediate class, `ProgramCodeGen` implements
  `StackMachine`. The refinement mapping needs that caches stay empty and that
  fields hold nothing but the immediate class; each push, pop and flush then
  maps to a push, a pop or a stutter.
- `CachingImplements`: so does the caching class as long as no more than one value
  is pending on a stack (`MaxCache` is at most 1, as in the run). The invariant
  `CInv` says that what is pending fits above the top pointer, so that a flush
  writes it where storing it at once would have put it. The bound is needed, and is
  the whole of the bug: a flush of two values reverses them (`codegen_caching`).

### The factorial program

`ProgramInvariant`, `ProgramKeepsStacks` (`StacksKept`), `ProgramEndsClean`
(`EndsClean`) and `ProgramComputes` (`Computes`) hold for integers of any width,
any literals and any sizes, under `FactorialInstance`: an i32 and a location have
one size, as on the shipped target (`factorial_wide` shows what happens
otherwise), integers have at least two bits, the program area holds the module
and a stack has room for eight locations and an i1. The counts of the loops are
thus not bounded.

None of the four is inductive. Between two words the machine is in one of the
configurations of `Conf`: which word is next, what is on the data stack and
which locations are on `cont`, with the numbers that the loops have reached as
parameters. Within a word it takes the steps of `Micro`, of which there is at
most one from each state; `Leads` is that such steps lead from one state to
another, and for each word and configuration it is proved that they lead to
`Lands`: the location of another word in its configuration, or the NULL that was
pushed before `main`. So `ProgramInv` says of a machine inside a word only that it
is on its way there (`Finishes`), and `Computes` is read off the configurations,
with the product that the accumulator holds taken modulo the word size.

### The mid-level compiler

Every safety property of its run, for every dictionary, naming and sequence of
calls, finite or not: `TypeCorrect`, `RemoveRedundant`, `QuotationsStay`,
`ModuleClosed`, `ModuleComplete`, `ModuleFaithful`, `ModuleMinimal`. They share the
invariant `Base`: types; `Scheduled`, that the words to do are in the module under
names of their own and without a quotation; `Underway`, that the writer of a round
is between two items of its word. `SetOnce`, `RedundantRemove` and `Complete` rest
on `Scheduled` (without it a name could be written a second time, or a word lose
its turn to another of its name), `Faithful` on both. `Minimal` is strengthened by
`Needed`: what is needed bounds the words to do as well as the module.
`CompilerAssumption` says that the instructions a writer appends are not pushes of
words, which in the code go through `pushQuotation`.

### The compiler of the prototype and its run

- `CompilerTypeCorrect`, `CompilerKeepsHoles`, `CompilerLinks`, `CompilerWritesOnce`
  (`TypeOK`, `HolesKept`, `LinksAsWritten`, `WrittenOnce`), for every dictionary, with
  words that call each other in any way. `LinksAsWritten` speaks of the finished
  array only. `IInv` of `BytecodeProofs` says what holds while it grows: every word
  that has an address but the one being written is there with all its items and
  its Return (`Whole`), the one being written up to the item reached (`Begun`, `Open`);
  the words lie one after another without a gap (`Laid`); the null bytecodes are
  the holes that a patch is left for, no two patches at one place (`Exact`). A call
  is right when it pushes the address of its callee or has such a hole.
- `RunKeepsTailCalls` (`TailCalls`), for every dictionary, even with writers that
  append jumps of their own.
- `ProgramLinks` (`Links`) and `ProgramRuns` (`Runs`) put together what the run `scala`
  checks of the compiler and of the run, for every dictionary.
- `ProgramRunsAsWritten` (`RunsAsWritten`): the run of the array implements the
  execution of the words in place. `Said` is the mapping: from the address and the
  return addresses, with the dictionary, it makes the list of items that are left
  to do. A step of `run` is the next item, done whole, or leaves `Said` as it is:
  a push of an address before its Apply, and the end. The eager Return, several
  Returns at once for tail calls, and exceptions on empty stacks or values of the
  wrong kind are in it. This and `ProgramStaysInside` (`StaysInside`) rest on `IInv`
  and on `Goes`: the run is at an item, between the push of an address and its
  Apply with that address on top, or at the end. Both ask for `OnlyCallsJump`, that
  no writer appends an Apply or a Return of its own: where these lead depends on
  the data, and the property could not be stated of them. In `main` of the
  prototype one word breaks this, and nothing calls it. Words without items are no
  place to be; the properties leave such programs out.

### Uses

- `UsesLinked`: `Linked`, that every use which holds a value is what its `Prev`
  points to, is inductive together with the types. A swap goes through up to four
  states of the list in which it does not hold for the two uses, so the lemmas
  are about `RemoveFromList` and `AddToList` alone, with the hypothesis that the
  use concerned is in no list, or in one.
- `UsesListed`: following `Next` from the head of a value reaches exactly the
  uses that hold it, and ends. `Linked` does not say so: a cycle beside the list
  is linked as well. `IsExact` says that each value has a sequence of uses that
  `Next` runs through, without repetition and with every use of the value in it;
  the lemmas say what adding a use in front and taking out the k-th makes of that
  sequence. That it is no longer than there are uses follows from its having no
  repetition, and is where finiteness is needed.
- `OperandsStayExact`, `OperandsTyped`: the invariant `IInv` of `OperandsProofs`
  describes each user on its own, by its record, the lengths of its two arrays and
  what their uses hold (`IsSound`). A step on one user leaves the others alone, so
  each action is proved for one record.
- `OperandsImplement`: `Operands` implements `OperandLists`, with a user mapped to
  the values in its first `ops` places. This needs `FInv`, that none of these is
  empty (`IsFilled`), and that the new array after a resize begins with what the
  old one held. `ReplaceEverywhere` changes many users in one step.
- `WalkEndsAtUser`, `WalkStaysInside`, `WalkAdvances`: for arrays of any length and
  a walk from any use. `Count` gives for each place the number that `initTags` has
  still to write there, and where digits start again. The invariant says that
  once a walk reads digits, its offset is the number that was left when these
  digits were written; at the next stop this is the distance to the end. Since each
  step goes forward, a walk takes at most as many steps as there are uses.

### Names

`NamesTyped`, `TablesStayExact`, `LeaksStayExact`, `AnswersHaveNames`, for any sets of
instructions, blocks, arguments, functions and modules and any names. In the
middle of an operation a value may have a name that is in no table: when a block
changes its function, its instructions leave the old table one by one, then the
parent is set, then they enter the new one. So the table that a value's name is
in is a function of its own, `sc`, in `Exact(s, sc)`; each helper has a lemma that
says how it changes `sc`, and at the end of each operation `sc` is `ScopeOf` again.
The loop over the instructions of a block is a recursive function of the number
of those done; the lemma on it is by induction (see below). The leak detector is
part of the same invariant (`All`), since a value leaves it when it is given a
parent: `Listed` says that the parent and the lists agree.

### Phi nodes

`EntriesAlwaysMatch`, `ValuesAlwaysKept`, `ReplacementsDominate`, and the three
together (`PhisStayExact`), for any number of phi nodes, predecessors and edges, and whatever order the blocks are listed in.
None of the three is inductive. The invariant says that one list of blocks is
behind all phi nodes, and determines each entry by it: the entry for a block is
what that block brought, or what the phi node that it brought has been replaced by
(`Merged`). `removePredecessor` changes phi nodes one by one, and replacing one
changes the entries of others, done or not; `Mid(t, done, old, new)` is the
invariant between two of them, when those in `done` list the new blocks and the
rest the old ones. What has replaced a phi node is described by `Settled`: it is
there on every path, and agrees with what the edges that are left brought.
When only an edge of the block to itself is left, a phi node that brings itself is
replaced by undef; such a block is not entered any more, hence `Enters` in the
invariant, as `Entered` in the properties.

### Dominators

- `TreeStaysExact`, `AnswersStayExact`, `FrontiersStayExact` and the three together,
  `DominatorsStayExact` (`DominatorsExact`): for functions of any size, any splits,
  folds and queries in any order, and any limit on slow queries.
- The invariant `TreeInvariant` says of the tree what the properties say of its
  answers: the parent of each block is its immediate dominator (`IsTree`), the lists
  of children are the inverse of the parents without repetition (`Shape`), and if the
  numbers are said to be valid, to compare them is to ask for dominance (`Numbered`).
  `TreeExact` alone would not do: the next split asks the old tree, with its numbers,
  about the new edges.
- Reachability is a recursive function on sets of blocks. `ReachedIsLeast` and
  `WithoutIs` give it by what it is closed under, and everything else about paths
  follows from that: the dominators of a block are a chain (`DomChain`), those of a
  block are its own and what its predecessors have in common (`DomOfPreds`).
- A change of the function is described by what it does to the paths: a block on
  some edges to one block (`Through`), a block cut in two (`Cut`), a block passed by
  (`PassedBy`). For each the dominators afterwards are given from those before, and
  then the tree that `Split`, the moves and `eraseNode` leave is shown to be theirs.
  That `Split` asks only whether the successor dominates its other predecessors is
  enough by `ThroughAbove` and `ThroughBeside`.
- The numbers are those of a walk with a stack; its invariant says which numbers
  the blocks have that are done, open and still to come. Erasing a leaf
  keeps the numbers of the others nested.
- `calculate` of the frontiers goes over a list of work. `Placed` says where each block is:
  seen (`V`), finished (`F`), or on the list below those it waits for; `Found` says that a
  block has found its own part once it is seen and a child's part once the child is
  finished (`Part`). Every step makes `V` or `F` larger, so after twice as many steps as there are
  blocks nothing is left. `FrontierParts` is why the parts are the whole frontier.

### Comparisons

`IntegerPredicatesHold`, `RangesExact` and `FloatPredicatesHold` are what the run
checks of the tables in `CmpPredicates` on three bits, for every number of bits
(the patterns are `0 .. 2 * n - 1`, of which `n` are not negative). Each predicate is
first shown to say what its name says of two numbers (`Says`); what the tables
answer is then compared by cases, and for a range with the remainders that its
two ends are taken to. The hypotheses of `RangesExact` say that the predicate
selects something and not everything, for which there is no range to make.

### How recursion is handled

The definitions the proofs are about recurse through functions on numbers. A
fact about all values of such a function is proved by choosing the least number
for which it fails, from the library's theorem that `<` is well-founded on the
numbers (`LeastNumber`, `UpTo`, `Induction` in the modules that need it); the
induction theorems that take a predicate as a parameter are out of the prover's
reach, and so are `RECURSIVE` operators.

### What stays with TLC

- Liveness (`RunsToEnd`, `Returns`, `CompileEnds`, the end of the walk in `Found`): the
  prover has no support for fairness and ENABLED. Of `Found`, the theorems show
  that the walk stays inside, goes forward, and can only end at the user.
- What is computed by `RECURSIVE` operators over terms, types, graphs or
  schedules: the properties of `scala` but for `Links` and the safety part of `Runs`,
  those of `core_data` and `Promised`. Their reference definitions recurse over data too
  (meaning of an expression, unifiers).
- `SplitsCover`, of the frontiers that `splitBlock` patches.
- That the bound of one pending value in `CachingImplements` cannot be dropped: the
  counterexample is TLC's.

## Slips in the code that no run is about

Read while modelling, and mostly kept out by the inputs above. Where a property
covers a hazard but for such a slip, the hazard in `PROJECT.json` has a note.

Use lists and instructions: a cloned `SwitchInst` has an uninitialised
`ReservedSpace` (`Instructions.cpp:2742`); cloning a phi node without operands
allocates no array (146); `resizeOperands` never trims, whatever its comment says
(206, `Instructions.h:1911`); with two edges of which one is the block's own,
`removePredecessor` keeps single-entry phi nodes on purpose, and `hasConstantValue`
removes them all the same (`BasicBlock.cpp:190-209`); `swapOperands`,
`isCommutative` and `isEquality` of vector comparisons run into assertions.

Types: `~Type` never drops its reference to the type it was forwarded to;
`TypesEqual` is not symmetric; `TypeSymbolTable::remove` may return a type that it
has just freed; the test `NewTy != this` after forwarding cannot fail
(`Type.cpp:1421`); `LlackDeleteTypeName` increments an erased iterator
(`Core.cpp:79`).

Constants: the replacement for an InsertElement reads operand 1 where it means 2
(`Constants.cpp:2659`); `ConstantStruct` computes whether all operands are zero
before the one in question is replaced (2541-2547), so that an all-null structure
can exist beside the zero aggregate; the indices in the equality of expression
keys are compared in a branch that is never reached (1660-1663); in the
conversion of expressions the default precedes the case of GetElementPtr;
`typeBecameConcrete` leaves its map entry behind; the constant of a recursive type
that is forwarded but not yet converted leaves a dangling entry (1188; types are
not recursive in `ConstantTable`); `getZExt` to the constant's own type asserts
(1677); `getWithOperandReplaced` of a comparison asserts.

Folding: `undef ashr X` is undef though its sign bits repeat; comparisons with
undef are undef for predicates they decide; non-strict relations decide strict
predicates; `x == x` is taken as ordered and equal though x may be NaN; the
sign that an extension calls for is assigned to a variable that is not read any
more (`ConstantFold.cpp:1105-1125`);
addresses of aliases, one past the end, in zero-sized types from null and with
negative offsets from null are compared as if they were in range;
vectors are compared by their first elements even if they have none; a bitcast
between different structures is called valid, and so is a truncation that changes
the number of elements; pairs of casts assume pointers of 64 bits;
`makeConstantRange` has no range for what selects all or nothing.

Passes and analyses: an analysis that a pass in an inner manager does not preserve
is taken from the maps of the managers around it for good (`PassManager.cpp:746`);
one that an inner manager frees stays available in an outer one (791); one that is
not found leaves the pointer to an older one in the pass (926); what an analysis
requires transitively can be freed before its last use (401). The frontier of a
split is made from that of the first predecessor alone (`Dominators.cpp:106`), which
is why `SplitCovers` excludes splits that put the new block above its successor;
with unreachable blocks `Split` can misplace it (`Dominators.h:285`).

Prototypes: an empty word at the end of the array reads past it
(`Compiler.scala:97`); stack variables are not chased (`TypeInference.scala:120`).

## What is not modelled

- LLVM itself: a load, a store, pointer arithmetic, integer operations and
  comparisons do what their names say; types have a store size and stacks no
  alignment, as in the code.
- Deallocation in the machine (`~WordInterpretable`, `freeVMState`, the generators
  that `flushStack` forgets), and everything that is printed.
- Host pointers wider than 32 bits: the data layout in `main.cpp` is 32-bit, and
  `lookupWordLocation` casts a location to `int`.
- `SimpleVMCodeGenInterface`, the `Interpretable` classes without a body, the
  Scala classes without behaviour, and the build files.
- Of LlackCore: printing, automatic upgrades, name mangling, attributes,
  accessors, the C interface but for type names, the verifier (a list of local
  checks), post dominators, analysis groups, `doInitialization` and
  `doFinalization`, timing, and the vector branch of the folding of comparison
  instructions.

## What could come next

- A proof that the last users of `PassManager` are right, which needs its
  operators as recursive functions, and of the tables of `Casts` for every width.
- A stack discipline for all modules in continuation-passing form, of which
  `StacksKept` of the factorial module would be an instance.
