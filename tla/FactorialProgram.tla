--------------------------- MODULE FactorialProgram ---------------------------
(***************************************************************************)
(* The program of tools/llack/main.cpp: the virtual machine run on the     *)
(* module of createFactorialModule(), and what that run must do.           *)
(***************************************************************************)
EXTENDS LlackVM, FactorialModule

(* The literals of main in the module that was loaded: how often, and of   *)
(* what, main wants the factorial.                                         *)
Count == mod.body["main"][2].v
N     == mod.body["main$q21"][1].v

(* The driver is about to interpret the word w. *)
Interprets(w) == status = "interpret" /\ slots[here] = w

Lives == status \in {"fetch", "interpret", "run"}

(* The k-th location on cont, from the bottom. *)
Cells == Len(cont) \div LocSize
Cell(k) == SubSeq(cont, (k - 1) * LocSize + 1, k * LocSize)
-----------------------------------------------------------------------------
(* The loop of main pops a location, never anything else: while the        *)
(* program lives, cont is a stack of whole locations of inserted words on  *)
(* one NULL, the one main pushed first.  ToCont moves whatever four bytes  *)
(* are on top of data there, so this is a property of all the words of the *)
(* module together.                                                        *)
ControlStack ==
  Lives =>
    /\ Len(cont) = Cells * LocSize
    /\ Cells >= 1 /\ Cell(1) = LocBytes(NULL)
    /\ \A k \in 2 .. Cells : IsLocation(Cell(k))

(* Pushes and pops agree on sizes: between two words data is made of whole *)
(* values.  Shuffle pops the types it lists first-listed first, against    *)
(* the order in which they lie on the stack, so this depends on quot and   *)
(* i32 having the same size.                                               *)
WholeData == status = "fetch" => WholeCells(data)

(* Calls in tail position leave nothing behind: however many iterations of *)
(* times and factorial_accum run, cont holds at most the NULL, three       *)
(* continuations and the word to call, so 1024 bytes are enough.           *)
TailCalls == Cells <= 5

(* Both stacks are what the words took them for: ToCont, FromCont,         *)
(* PopLoc and the shuffles agree with each other on every path, and cont   *)
(* does not grow with the number of iterations.                            *)
StacksKept == ControlStack /\ WholeData /\ TailCalls

(* The program ends only in the two ways main.cpp and llack.h allow: at    *)
(* the NULL of main with both stacks empty, or by the read of a function   *)
(* member that the constructor of WordInterpretable left uninitialised.    *)
(* No word runs off a stack, jumps to a value that is no location, or      *)
(* looks up a word that is not there.                                      *)
EndsClean ==
  /\ status = "halted" => data = << >> /\ cont = << >>
  /\ status = "wild" => here # NULL /\ function[here] = Uninit
  /\ status \notin {"overrun", "asserted"}

(* What the code of factorial computes, icmp taking its operands in the    *)
(* order of ICmpLlackInst::codeGen: the recursion ends as soon as 1 <= n,  *)
(* so from a positive n at once, and from any other n after the product of *)
(* n, n - 1, ... down to the least integer, when n - 1 wraps around.       *)
Product[i \in -Half .. Half] == IF i = -Half THEN i ELSE i * Product[i - 1]
Factored(n) == IF Signed(n) >= 1 THEN 1 ELSE Product[Signed(n)] % Modulus

FactorialComputes ==
  Interprets("main$q21$k22") =>
    TopBytes(data, SizeOf[I32]) = IntBytes(Factored(N), I32)

(* times runs its quotation only for a count that is not positive, and     *)
(* each time it does the quotation lies on the count it will go on with,   *)
(* still below the original one.                                           *)
TimesApplies ==
  Interprets("main$q21") =>
    \E k \in Ints :
      /\ Signed(Count) < 1
      /\ k = Half - 1 \/ Signed(k) < Signed(Count)
      /\ data = IntBytes(k, I32) \o LocBytes(wordMap["main$q21"])

(* What the two loops compute. *)
Computes == FactorialComputes /\ TimesApplies

(* The loop of main ends: every run of the program stops. *)
Terminates == <>(status \in Stopped)

(* For a positive count the program halts without the factorial ever being *)
(* computed; for any other it computes it, if it survives.                 *)
FactorialReached ==
  /\ Signed(Count) >= 1 => [](~Interprets("factorial$i32"))
  /\ Signed(Count) < 1 => <>(Interprets("factorial$i32") \/ status = "wild")
(* Every run stops, with or without factorial in between. *)
RunsToEnd == Terminates /\ FactorialReached
-----------------------------------------------------------------------------
(* The instances of the program that the theorems are about: the word      *)
(* locations and i32 of one size, whatever it is, integers of at least two *)
(* bits and any two literals, and room for the module and for the deepest  *)
(* stacks the program builds.                                              *)
FactorialInstance ==
  /\ Loc = Quot /\ I32 \in Types /\ SizeOf[I32] = LocSize
  /\ Half >= 2
  /\ Main = "main" /\ Words = {FactorialWords[i] : i \in DOMAIN FactorialWords}
  /\ Modules \subseteq {FactorialModule(c, n) : c \in Ints, n \in Ints}
  /\ Len(FactorialWords) * LocSize <= AreaSize
  /\ 8 * LocSize + SizeOf[Bit] <= StackSize
-----------------------------------------------------------------------------
(* Claims of the sources that the code does not keep.                      *)

Factorial[i \in Nat] == IF i = 0 THEN 1 ELSE i * Factorial[i - 1]

(* MidTest.scala defines the word as "factorial": before main drops it,    *)
(* the result for a positive n is n!.                                      *)
FactorialResult ==
  Interprets("main$q21$k22") /\ Signed(N) >= 1 =>
    TopBytes(data, SizeOf[I32]) = IntBytes(Factorial[N] % Modulus, I32)

(* llack.h on Interpretable::interpret: "Execute this region at the given  *)
(* VPC."  Interpreting a word never jumps to where no code is.             *)
NeverWild == status # "wild"
=============================================================================
