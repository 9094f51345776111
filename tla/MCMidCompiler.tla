---------------------------- MODULE MCMidCompiler ----------------------------
(* Instances of MidCompiler: every dictionary of three words whose writers *)
(* push up to two quotations, and some that append or throw; in one half   *)
(* of them two of the words get the same name.                             *)
EXTENDS MidCompiler, TLC

CONSTANTS a, b, c, d, n1, n2, n3, add

MCConcrete == {a, b, c, d}
MCNames == {n1, n2, n3}
MCNameOf == a :> n1 @@ b :> n2 @@ c :> n3 @@ d :> n1
MCInstructions == {add}

Quote(x) == [do |-> "quote", c |-> x]
Add == [do |-> "append", inst |-> add]
Fail == [do |-> "throw"]

(* What the words may be when the second of the three is y. *)
MCItems(y) ==
  LET three == {a, y, c}
  IN  {<< >>, <<Add, Quote(a)>>, <<Quote(c), Fail>>}
        \cup {<<Quote(x)>> : x \in three}
        \cup {<<Quote(y), Quote(x)>> : x \in three} \cup {<<Quote(x), Quote(a)>> : x \in three}
MCGeneric(x, y) == [extern : {x = a}, items : MCItems(y)] \cup {Undefined}
MCWith(y) ==
  {a :> ga @@ y :> gy @@ c :> gc @@ (CHOOSE z \in {b, d} : z # y) :> Undefined :
     ga \in MCGeneric(a, y), gy \in MCGeneric(y, y), gc \in MCGeneric(c, y)}
MCDictionaries == MCWith(b) \cup MCWith(d)
=============================================================================
