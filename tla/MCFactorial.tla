----------------------------- MODULE MCFactorial -----------------------------
(* Instances of FactorialProgram: the module for every pair of literals,   *)
(* in integers of a few bits.                                              *)
EXTENDS FactorialProgram, TLC

MCTypes == {Quot, I32, "i1"}
MCSizeOf == Quot :> 4 @@ I32 :> 4 @@ "i1" :> 1
MCWideSizeOf == Quot :> 4 @@ I32 :> 8 @@ "i1" :> 1
MCWords == {FactorialWords[i] : i \in DOMAIN FactorialWords}
(* Named apart from the value of Modules, so that TLC computes it once. *)
EveryModule == {FactorialModule(c, n) : c \in Ints, n \in Ints}
MCModules == EveryModule
MCShippedLike == {FactorialModule(0, 2)}
MCOnce == {FactorialModule(0, 1)}

(* Where i32 and a location have one size, the instance is one of those    *)
(* the theorems are about.                                                 *)
ASSUME InstanceAssumed == SizeOf[I32] = SizeOf[Loc] => FactorialInstance
=============================================================================
