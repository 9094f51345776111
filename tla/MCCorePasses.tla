----------------------------- MODULE MCCorePasses -----------------------------
(***************************************************************************)
(* What the passes of LlackCore rest on, on small instances: the dominator *)
(* tree, the pass managers and the walk from a use to its user.  In each   *)
(* behaviour one of them is at work.  The dominator tree is extended: what *)
(* is said of it also holds where it rests.                                *)
(***************************************************************************)
EXTENDS Dominators

VARIABLES
  part,                           \* the part at work
  cls, tpm, bad,                  \* PassManager
  tags, current, offset, found    \* Waymarks

(* CFGs of four blocks with one new block, in the configuration, and of    *)
(* three with two.                                                         *)
Three == INSTANCE Dominators WITH Old <- {1, 2, 3}, New <- {11, 12}, MaxEdges <- 3
ASSUME GraphsAssumed == DominatorsAssumption /\ Three!DominatorsAssumption

(* Two analyses, A and B, of which B may require A, and two passes, P and  *)
(* Q, whose requirements and preserved sets are all those of a family: of  *)
(* function passes; with module passes, where P preserves the module       *)
(* analysis; with block passes, where Q preserves what it is run on; and   *)
(* with function analyses that a module pass asks for.                     *)
Usage(levels, reqs, transs, keeps) ==
  {u \in [level : levels, req : reqs, trans : transs, keeps : keeps] : u.trans \subseteq u.req}
Both == {"A", "B"}
Sets == SUBSET Both
ClassSeq == <<"A", "B", "P", "Q">>
Family(la, lb, lp, lq) ==
  [c \in ToSet(ClassSeq) |->
     CASE c = "A" -> Usage(la, {{}}, {{}}, {Both})
       [] c = "B" -> Usage(lb, {{}, {"A"}}, {{}}, {Both})
       [] c = "P" -> Usage(lp, {{}, {"A"}, {"B"}}, {{}}, Sets)
       [] c = "Q" -> Usage(lq, {{"A"}, Both}, {{}}, {{}, {"B"}, Both})]
Keeping(usages, c, kept) == {u \in usages[c] : kept \subseteq u.keeps}
Requiring(usages, c, req) == {u \in usages[c] : u.req \subseteq req}
FunctionUsages == Family({2}, {2}, {2}, {2})
ModuleUsages ==
  LET us == Family({1}, {2}, {2}, {1})
  IN  [us EXCEPT !["P"] = Keeping(us, "P", {"A"}), !["Q"] = Requiring(us, "Q", {"A"})]
BlockUsages ==
  LET us == Family({2}, {3}, {2}, {3})
  IN  [us EXCEPT !["P"] = Requiring(us, "P", {"A"}), !["Q"] = Keeping(us, "Q", {"A"})]
FlyUsages ==
  LET us == Family({2}, {2}, {2}, {1}) IN [us EXCEPT !["P"] = Requiring(us, "P", {"A"})]

Functions4 == INSTANCE PassManager WITH Classes <- ClassSeq, Analysis <- Both, Usages <- FunctionUsages,
                Funcs <- {1, 2}, Blocks <- {1, 2}, MaxPasses <- 4
Modules5 == INSTANCE PassManager WITH Classes <- ClassSeq, Analysis <- Both, Usages <- ModuleUsages,
              Funcs <- {1, 2}, Blocks <- {1, 2}, MaxPasses <- 5
Blocks5 == INSTANCE PassManager WITH Classes <- ClassSeq, Analysis <- Both, Usages <- BlockUsages,
             Funcs <- {1, 2}, Blocks <- {1, 2}, MaxPasses <- 5
Fly4 == INSTANCE PassManager WITH Classes <- ClassSeq, Analysis <- Both, Usages <- FlyUsages,
          Funcs <- {1, 2}, Blocks <- {1, 2}, MaxPasses <- 4

W == INSTANCE Waymarks WITH MaxLen <- 140
ASSUME MarksAssumed == W!MarksAssumption

passVars == <<cls, tpm, bad>>
markVars == <<tags, current, offset, found>>
partVars == <<part, vars, passVars, markVars>>

TreeRests ==
  succ = Entry :> {} /\ tree = Recalculate(succ) /\ df = CalculateFrontier(succ, tree)
PassesRest == cls = << >> /\ tpm = << >> /\ bad = {}
MarksRest == tags = << >> /\ current = 0 /\ offset = 0 /\ found = TRUE

PartInit ==
  \/ part = "four" /\ Init /\ PassesRest /\ MarksRest
  \/ part = "three" /\ Three!Init /\ PassesRest /\ MarksRest
  \/ part = "functions" /\ Functions4!Init /\ TreeRests /\ MarksRest
  \/ part = "modules" /\ Modules5!Init /\ TreeRests /\ MarksRest
  \/ part = "blocks" /\ Blocks5!Init /\ TreeRests /\ MarksRest
  \/ part = "fly" /\ Fly4!Init /\ TreeRests /\ MarksRest
  \/ part = "marks" /\ W!WalkInit /\ TreeRests /\ PassesRest

PartNext ==
  /\ part' = part
  /\ \/ part = "four" /\ Next /\ UNCHANGED <<passVars, markVars>>
     \/ part = "three" /\ Three!Next /\ UNCHANGED <<passVars, markVars>>
     \/ part = "functions" /\ Functions4!Next /\ UNCHANGED <<vars, markVars>>
     \/ part = "modules" /\ Modules5!Next /\ UNCHANGED <<vars, markVars>>
     \/ part = "blocks" /\ Blocks5!Next /\ UNCHANGED <<vars, markVars>>
     \/ part = "fly" /\ Fly4!Next /\ UNCHANGED <<vars, markVars>>
     \/ part = "marks" /\ W!WalkNext /\ UNCHANGED <<vars, passVars>>

(* getImpliedUser is one loop. *)
PartSpec == PartInit /\ [][PartNext]_partVars /\ WF_markVars(W!WalkNext)
-----------------------------------------------------------------------------
(* A split that moves no successor under the new block, and the split of a *)
(* block in two, leave no frontier without a block it had.                 *)
SplitsCover == [][part = "four" => SplitCovers]_vars

(* Each analysis that a pass requires is there and true when it runs, and   *)
(* the memory of every pass is released before it runs again.              *)
Promised == Functions4!Promised /\ Functions4!NothingHeld

(* The walk of getImpliedUser from any use ends, at the end of the array.  *)
Found == W!Found
=============================================================================
