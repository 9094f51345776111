--------------------------- MODULE BytecodeProgram ---------------------------
(***************************************************************************)
(* main of prototypes/compiler: a dictionary is compiled and the array is  *)
(* run.  What the run does is what the words say, executed in place.       *)
(***************************************************************************)
EXTENDS BytecodeCompiler

CONSTANTS
  Width,  \* of an Int
  Deep    \* bound: the run is followed while no stack is deeper

VARIABLES ip, data, retain, return_, vm

VM == INSTANCE BytecodeVM WITH byteCode <- bcArray

(* Writers append bytecodes of the machine, which has integers to compute  *)
(* with.                                                                   *)
ProgramAssumption ==
  /\ BytecodeAssumption
  /\ Primitives \subseteq VM!Plain \cup {Apply, Return}
  /\ 2 ^ Width \in Nat \ {0} /\ 2 ^ (Width - 1) \in Nat

(* No writer appends an Apply or a Return of its own (in main of the       *)
(* prototype one word does, which nothing calls): only calls jump.         *)
OnlyCallsJump == Primitives \subseteq VM!Plain

machine == <<ip, data, retain, return_, vm>>

ProgramInit == Init /\ VM!VMInit

(* run is called with the array that compile returns. *)
Start ==
  /\ phase = "done" /\ vm = "off" /\ vm' = "running"
  /\ UNCHANGED <<vars, ip, data, retain, return_>>

Shallow == Len(data) < Deep /\ Len(return_) < Deep
Running == Shallow /\ VM!Run /\ UNCHANGED <<dict, wordAddressMap, addressPatches, patch, writing, rest, phase>>

(* Nothing happens after an exception, or at the end of run. *)
Ended ==
  /\ phase = "failed" \/ vm \notin {"off", "running"} \/ ~Shallow
  /\ UNCHANGED <<vars, machine>>

Next == (Compile /\ UNCHANGED machine) \/ Start \/ Running \/ Ended

Spec == ProgramInit /\ [][Next]_<<vars, machine>>
FairSpec == Spec /\ WF_<<vars, machine>>(Next)
-----------------------------------------------------------------------------
(* The words executed in place: the first item that is left to do is done. *)
(* A value is taken from the stacks only if it is there and of the kind    *)
(* that the bytecode works on.                                             *)
Failed(s) == [s EXCEPT !.todo = << >>, !.status = "failed"]
Primitive(s, code) ==
  LET d == s.data
      n == Len(d)
      to(new, k) == [s EXCEPT !.data = new \o SubSeq(d, k + 1, n)]
      ints == n > 1 /\ VM!IsInt(d[1]) /\ VM!IsInt(d[2])
      op == code.op
  IN  CASE op = "Push" -> to(<<code.value>>, 0)
        [] op = "Drop" /\ n > 0 -> to(<< >>, 1)
        [] op = "Dup" /\ n > 0 -> to(<<d[1], d[1]>>, 1)
        [] op = "Swap" /\ n > 1 -> to(<<d[2], d[1]>>, 2)
        [] op = "Add" /\ ints -> to(<<VM!Integer(VM!Wrapped(d[1].int + d[2].int))>>, 2)
        [] op = "Mul" /\ ints -> to(<<VM!Integer(VM!Wrapped(d[1].int * d[2].int))>>, 2)
        [] op = "Choose" /\ n > 2 /\ VM!IsBool(d[3]) -> to(<<IF d[3].bool THEN d[2] ELSE d[1]>>, 3)
        [] op = "Dump" -> s
        [] op = "D2R" /\ n > 0 -> [to(<< >>, 1) EXCEPT !.retain = <<d[1]>> \o @]
        [] op = "R2D" /\ s.retain # << >> ->
             [to(<<Head(s.retain)>>, 0) EXCEPT !.retain = Tail(@)]
        [] OTHER -> Failed(s)

(* What is left of each word that is not at its end, the innermost first.  *)
Left(items, outer) == IF items = << >> THEN outer ELSE <<items>> \o outer
Execute(s) ==
  LET item == Head(Head(s.todo))
      more == [s EXCEPT !.todo = Left(Tail(Head(@)), Tail(@))]
  IN  IF item.do = "append" THEN Primitive(more, item.code)
      ELSE [more EXCEPT !.todo = <<dict[item.w]>> \o @]

Reached == {w \in Words : Written(w)}
EmptyWord == \E w \in Reached : dict[w] = << >>

(* The items from the address a to the end of its word, and all that the   *)
(* run has still to do: return addresses are where it goes on, but for the *)
(* end of the program, -1.                                                 *)
Spots == UNION {{w} \X DOMAIN dict[w] : w \in Reached}
ItemsAt(a) ==
  LET p == CHOOSE p \in Spots : Place(p[1], p[2]) = a + 1
  IN  SubSeq(dict[p[1]], p[2], Len(dict[p[1]]))
Outer(r) == [i \in 1 .. (IF r # << >> /\ r[Len(r)] = -1 THEN Len(r) - 1 ELSE Len(r)) |-> ItemsAt(r[i])]
Todo(a, r) == IF a = -1 THEN << >> ELSE <<ItemsAt(a)>> \o Outer(r)

(* Where the run is in the words: all that is left to do, and the stacks.  *)
(* Between the push of an address and its Apply it is before the call.  A  *)
(* word without items is no place to be, and is left out of this.          *)
Calling == ip # -1 /\ bcArray[ip + 1] = Apply
Said ==
  IF vm = "off" \/ EmptyWord
  THEN [todo |-> <<dict[Main]>>, data |-> << >>, retain |-> << >>, status |-> "fine"]
  ELSE IF vm \notin {"running", "stopped"}
  THEN [todo |-> << >>, data |-> data, retain |-> retain, status |-> "failed"]
  ELSE IF Calling
  THEN [todo |-> Todo(ip - 1, return_), data |-> Tail(data), retain |-> retain, status |-> "fine"]
  ELSE [todo |-> Todo(ip, return_), data |-> data, retain |-> retain, status |-> "fine"]

(* The compiled program computes what its words say: a step of run does    *)
(* the next item, all of it and nothing else, or takes an address, or is   *)
(* the end, which is where the words end (run, with its eager Return,      *)
(* against the dictionary).                                                *)
DoesNextItem ==
  /\ vm = "running" /\ ~EmptyWord /\ Said.todo # << >>
  /\ Said' = Execute(Said)
RunsAsWritten == [][DoesNextItem]_Said

(* A call in tail position leaves nothing behind: no return address is     *)
(* that of a Return, and the end of the program, -1, is only at the bottom *)
(* ("to allow tail recursion").                                            *)
TailCalls ==
  \A i \in DOMAIN return_ :
    IF return_[i] = -1 THEN i = Len(return_)
    ELSE bcArray[return_[i] + 1] # Return

(* run never leaves the array, and meets a Return only in a word that is   *)
(* empty.                                                                  *)
StaysInside == vm \in {"index", "return"} => EmptyWord

(* All of this, at every step of every program. *)
Runs == [](TailCalls /\ StaysInside) /\ RunsAsWritten

(* compile ends for every dictionary, whatever calls whatever.             *)
Compiles == <>(phase \in {"done", "failed"})
=============================================================================
