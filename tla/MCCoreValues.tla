----------------------------- MODULE MCCoreValues -----------------------------
(***************************************************************************)
(* Values of LlackCore and what refers to them, on small instances: in     *)
(* each behaviour one part is at work and the others rest.  Uses and phi   *)
(* nodes are extended: what is said of them also holds where they rest.    *)
(***************************************************************************)
EXTENDS UseList, PhiNodes, Integers, Sequences, TLC

CONSTANTS i1, i2, b1, b2, a1, f1, f2, f3, m1, m2   \* the values that have names

VARIABLES
  part,                                            \* the part at work
  val, user, len, wild,                            \* Operands
  ir, answer, missed                               \* ValueNames

(* One phi node that grows to twelve uses; two that refer to each other;   *)
(* switches and a branch.                                                  *)
Grow == INSTANCE Operands WITH Phis <- {"p"}, Switches <- {}, Branches <- {}, Others <- {"b"},
          Undef <- "b", MaxOps <- 12, MaxTotal <- 8, Careful <- TRUE
Pair == INSTANCE Operands WITH Phis <- {"p", "q"}, Switches <- {}, Branches <- {}, Others <- {"b"},
          Undef <- "b", MaxOps <- 4, MaxTotal <- 4, Careful <- TRUE
Ends == INSTANCE Operands WITH Phis <- {}, Switches <- {"s", "t"}, Branches <- {"r"},
          Others <- {"b", "c"}, Undef <- "b", MaxOps <- 6, MaxTotal <- 4, Careful <- TRUE

(* A block with two predecessors outside and an edge to itself. *)
MCNodes == <<"phi1", "phi2">>
Inside == {"undef", "entry", "mine", "phi1", "phi2"}
MCAvailable ==
  ("left" :> {"const", "undef", "entry", "inst"}) @@ ("right" :> {"const", "undef", "entry"})
    @@ ("self" :> Inside)

(* One name that is asked for again and again, and one that looks like     *)
(* what the first is renamed to: two instructions of a block; an           *)
(* instruction whose block moves; functions that come and go in modules.   *)
X == -1
MCNames == {<<X>>, <<X, 1>>}
Renamed == INSTANCE ValueNames WITH Insts <- {i1, i2}, Blocks <- {b1}, Args <- {}, Funcs <- {f1},
             Mods <- {}, Internal <- {}, Names <- MCNames, MaxUnique <- 1
Moved == INSTANCE ValueNames WITH Insts <- {i1}, Blocks <- {b1, b2}, Args <- {}, Funcs <- {f1, f2},
           Mods <- {}, Internal <- {}, Names <- {<<X>>}, MaxUnique <- 1
Global == INSTANCE ValueNames WITH Insts <- {}, Blocks <- {}, Args <- {a1}, Funcs <- {f1, f3},
            Mods <- {m1, m2}, Internal <- {f3}, Names <- MCNames, MaxUnique <- 2

operandVars == <<val, user, len, wild>>
nameVars == <<ir, answer, missed>>
vars == <<part, mem, operandVars, phiVars, nameVars>>

OperandsRest == val = << >> /\ user = << >> /\ len = << >> /\ wild = FALSE
PhisRest ==
  /\ edges = [p \in Preds |-> 0] /\ front = << >> /\ entries = [x \in Phis |-> << >>]
  /\ sees = [x \in Phis |-> x] /\ brought = [x \in Phis |-> [p \in Preds |-> Undef]]
NamesRest == ir = << >> /\ answer = << >> /\ missed = {}

PartInit ==
  \/ part = "uses" /\ Init /\ OperandsRest /\ PhisRest /\ NamesRest
  \/ /\ mem = NoUses
     /\ \/ part = "grow" /\ Grow!Init /\ PhisRest /\ NamesRest
        \/ part = "pair" /\ Pair!Init /\ PhisRest /\ NamesRest
        \/ part = "ends" /\ Ends!Init /\ PhisRest /\ NamesRest
        \/ part = "phi" /\ PhiInit /\ OperandsRest /\ NamesRest
        \/ part = "renamed" /\ Renamed!Init /\ OperandsRest /\ PhisRest
        \/ part = "moved" /\ Moved!Init /\ OperandsRest /\ PhisRest
        \/ part = "global" /\ Global!Init /\ OperandsRest /\ PhisRest

PartNext ==
  /\ part' = part
  /\ \/ part = "uses" /\ Next /\ UNCHANGED <<operandVars, phiVars, nameVars>>
     \/ part = "grow" /\ Grow!Next /\ UNCHANGED <<mem, phiVars, nameVars>>
     \/ part = "pair" /\ Pair!Next /\ UNCHANGED <<mem, phiVars, nameVars>>
     \/ part = "ends" /\ Ends!Next /\ UNCHANGED <<mem, phiVars, nameVars>>
     \/ part = "phi" /\ PhiNext /\ UNCHANGED <<mem, operandVars, nameVars>>
     \/ part = "renamed" /\ Renamed!Next /\ UNCHANGED <<mem, operandVars, phiVars>>
     \/ part = "moved" /\ Moved!Next /\ UNCHANGED <<mem, operandVars, phiVars>>
     \/ part = "global" /\ Global!Next /\ UNCHANGED <<mem, operandVars, phiVars>>

PartSpec == PartInit /\ [][PartNext]_vars
-----------------------------------------------------------------------------
(* A use that holds a value is an operand of a user that exists, no array  *)
(* of uses leaks, ReservedSpace is what was allocated, and nothing         *)
(* undefined is done to an array.                                          *)
OperandsExact ==
  CASE part = "grow" -> Grow!TypeOK /\ Grow!OperandsExact
    [] part = "pair" -> Pair!TypeOK /\ Pair!OperandsExact
    [] part = "ends" -> Ends!TypeOK /\ Ends!OperandsExact
    [] OTHER -> TRUE
ASSUME NamesAssumed == Renamed!NamesAssumption /\ Moved!NamesAssumption /\ Global!NamesAssumption
ASSUME PhisAssumed == PhisAssumption
ASSUME OperandsAssumed == Grow!OperandsAssumption /\ Pair!OperandsAssumption /\ Ends!OperandsAssumption

(* A client of any user sees a sequence of operands. *)
Implements ==
  [][/\ part = "grow" => Grow!AbstractStep
     /\ part = "pair" => Pair!AbstractStep
     /\ part = "ends" => Ends!AbstractStep]_operandVars

(* A table holds the names of exactly the values it is the table of, each  *)
(* value is in the list of its parent, once, and the leak detector would   *)
(* report exactly the values that no one owns.  What getOrInsertFunction   *)
(* answers has the name that was asked for.                                *)
TablesExact ==
  CASE part = "renamed" -> Renamed!TypeOK /\ Renamed!TablesExact /\ Renamed!LeaksExact
    [] part = "moved" -> Moved!TypeOK /\ Moved!TablesExact /\ Moved!LeaksExact
    [] part = "global" -> Global!TypeOK /\ Global!TablesExact /\ Global!LeaksExact /\ Global!AnswerHasName
    [] OTHER -> TRUE
=============================================================================
