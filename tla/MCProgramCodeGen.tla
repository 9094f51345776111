--------------------------- MODULE MCProgramCodeGen ---------------------------
(* Instances of ProgramCodeGen: two of the three stacks, two types, small  *)
(* memories.  Beside the immediate generators that llack.cpp uses runs a   *)
(* set of caching ones with one value in their caches: in each behaviour   *)
(* one of the two does something.                                          *)
EXTENDS ProgramCodeGen, TLC

MCJunk == <<<<"int", 0>>, 1, 1>>
MCValue == {<<"int", 7>>}
MCValues == {<<"int", 7>>, <<"loc", 1>>}
MCOneSize == "i32" :> 2 @@ "quot" :> 2
MCTwoSizes == "i8" :> 1 @@ "i32" :> 2

VARIABLES
  part,   \* which of the two works
  memory1, top1, field1, cache1, popped1
vars1 == <<memory1, top1, field1, cache1, popped1>>
One == INSTANCE ProgramCodeGen
         WITH Types <- {"quot", "i32"}, SizeOf <- MCOneSize, Values <- MCValues, Capacity <- 4,
              Class <- "caching", MaxCache <- 1,
              memory <- memory1, top <- top1, field <- field1, cache <- cache1, popped <- popped1

BothInit == Init /\ One!Init /\ part \in {"immediate", "caching"}
BothNext ==
  /\ part' = part
  /\ \/ part = "immediate" /\ Next /\ UNCHANGED vars1
     \/ part = "caching" /\ One!Next /\ UNCHANGED vars
Both == BothInit /\ [][BothNext]_<<part, vars, vars1>>

(* The caching generators keep the promise of StackCodeGen as long as at   *)
(* most one value is pending on a stack: CachingStackCodeGen.              *)
OneImplements == One!Implements
=============================================================================
