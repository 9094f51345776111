---------------------------- MODULE ProgramCodeGen ----------------------------
(***************************************************************************)
(* ProgramVMCodeGenInterface with the stack code generators it delegates   *)
(* to.  The code of a word is straight-line, and each instruction goes to  *)
(* the end of the one basic block: so emitting it and executing it are the *)
(* same here, and `memory' and `top' are what the code emitted so far has  *)
(* made of the stacks of VMState.                                          *)
(***************************************************************************)
EXTENDS ByteStack

CONSTANTS
  Stacks, Types, SizeOf, Values, Capacity,   \* as in StackMachine
  Class,      \* the StackCodeGen that getStack builds: "immediate" in the
              \* code, "caching" for the CachingStackCodeGen beside it
  Junk,       \* the byte that fresh memory holds
  MaxCache    \* bound: values pending in one cache

ASSUME CodeGenAssumption ==
  /\ SizeOf \in [Types -> Nat \ {0}]
  /\ Values \subseteq Value
  /\ Capacity \in Nat /\ MaxCache \in Nat
  /\ Class \in {"immediate", "caching"}
  /\ Junk \in Byte

VARIABLES
  memory, top,   \* the bytes of each stack, and its top pointer
  field,         \* dataStackCodeGen, retainStackCodeGen, contStackCodeGen
  cache,         \* CachingStackCodeGen::cache of the one in the field
  popped         \* the bytes of the value last popped

vars == <<memory, top, field, cache, popped>>

Init ==
  /\ memory = [s \in Stacks |-> [i \in 1 .. Capacity |-> Junk]]
  /\ top = [s \in Stacks |-> 0]
  /\ field = [s \in Stacks |-> "null"]
  /\ cache = [s \in Stacks |-> << >>]
  /\ popped = << >>

(* The generator in the field is built on its first use. *)
GetStack(s) == field' = [field EXCEPT ![s] = IF @ = "null" THEN Class ELSE @]

(* Store at the top pointer, then move it up.  What is above stays. *)
Written(mem, at, bytes) ==
  [i \in 1 .. Capacity |-> IF i \in at + 1 .. at + Len(bytes) THEN bytes[i - at] ELSE mem[i]]
(* Mutant: the top pointer is moved before the store, not after it. *)
StoreAbove(s, bytes) ==
  /\ top[s] + Len(bytes) <= Capacity
  /\ memory' = [memory EXCEPT ![s] = Written(@, top[s] + Len(bytes), bytes)]
  /\ top' = [top EXCEPT ![s] = @ + Len(bytes)]

Store(s, bytes) ==
  /\ top[s] + Len(bytes) <= Capacity
  /\ memory' = [memory EXCEPT ![s] = Written(@, top[s], bytes)]
  /\ top' = [top EXCEPT ![s] = @ + Len(bytes)]

(* Move the top pointer down, then load from there.  The memory stays. *)
Load(s, n) ==
  /\ n <= top[s]
  /\ top' = [top EXCEPT ![s] = @ - n]
  /\ popped' = SubSeq(memory[s], top[s] - n + 1, top[s])
  /\ UNCHANGED memory

(* The bytes of a list of values, each a byte sequence of its own. *)
Joined(items) ==
  LET j[n \in 0 .. Len(items)] == IF n = 0 THEN << >> ELSE j[n - 1] \o items[n]
  IN  j[Len(items)]
Backwards(items) == [i \in 1 .. Len(items) |-> items[Len(items) + 1 - i]]
-----------------------------------------------------------------------------
(* pushData, pushRetain and pushCont. *)
PushImmediate(s, v, t) ==
  /\ GetStack(s)
  /\ field'[s] = "immediate"
  /\ Store(s, BytesOf(v, SizeOf[t]))
  /\ UNCHANGED <<cache, popped>>

PushCaching(s, v, t) ==
  /\ GetStack(s)
  /\ field'[s] = "caching"
  /\ Len(cache[s]) < MaxCache
  /\ top[s] + Len(Joined(cache[s])) + SizeOf[t] <= Capacity
  /\ cache' = [cache EXCEPT ![s] = Append(@, BytesOf(v, SizeOf[t]))]
  /\ UNCHANGED <<memory, top, popped>>

(* popData, popRetain and popCont.  Only a delegate looks at the type. *)
PopImmediate(s, t) ==
  /\ GetStack(s)
  /\ cache[s] = << >>
  /\ Load(s, SizeOf[t])
  /\ UNCHANGED cache

PopCached(s, t) ==
  /\ GetStack(s)
  /\ cache[s] # << >>
  /\ popped' = cache[s][Len(cache[s])]
  /\ cache' = [cache EXCEPT ![s] = SubSeq(@, 1, Len(@) - 1)]
  /\ UNCHANGED <<memory, top>>

(* Mutant: the field is set to NULL and the cache never written. *)
FlushedNone(s) == << >>

(* flush, which initFunction calls at the end of a word.  The caching      *)
(* class writes its cache from the last value to the first and forgets     *)
(* nothing; but the field is set to NULL, so the generator with its cache  *)
(* is never used again.                                                    *)
Flushed(s) == IF field[s] = "caching" THEN Joined(Backwards(cache[s])) ELSE << >>

Flush ==
  /\ \E s \in Stacks : field[s] # "null"
  /\ memory' = [s \in Stacks |-> Written(memory[s], top[s], Flushed(s))]
  /\ top' = [s \in Stacks |-> top[s] + Len(Flushed(s))]
  /\ field' = [s \in Stacks |-> "null"]
  /\ cache' = [s \in Stacks |-> << >>]
  /\ UNCHANGED popped

Next ==
  \/ \E s \in Stacks, t \in Types, v \in Values : PushImmediate(s, v, t) \/ PushCaching(s, v, t)
  \/ \E s \in Stacks, t \in Types : PopImmediate(s, t) \/ PopCached(s, t)
  \/ Flush

Spec == Init /\ [][Next]_vars
-----------------------------------------------------------------------------
TypeOK ==
  /\ memory \in [Stacks -> [1 .. Capacity -> Byte]]
  /\ top \in [Stacks -> 0 .. Capacity]
  /\ field \in [Stacks -> {"null", Class}]
  /\ cache \in [Stacks -> Seq(Seq(Byte))]
  /\ popped \in Seq(Byte)

(* What the program would find on a stack: the memory below the top        *)
(* pointer, and above it what a flush has still to write.                  *)
Visible(s) ==
  LET stored == SubSeq(memory[s], 1, top[s])
  IN  IF cache[s] = << >> THEN stored ELSE stored \o Joined(cache[s])

Machine == INSTANCE StackMachine WITH stacks <- [s \in Stacks |-> Visible(s)]

(* The generators keep the promise of StackCodeGen: pushes, pops and       *)
(* flushes of the three stacks, in any order, have the effect on memory    *)
(* that they would have on stacks of bytes.  (llack.h says of the caching  *)
(* class only that it updates the top pointer less often.)                 *)
Implements == Machine!Spec
=============================================================================
