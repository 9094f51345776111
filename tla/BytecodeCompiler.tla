--------------------------- MODULE BytecodeCompiler ---------------------------
(***************************************************************************)
(* Compiler.compile of prototypes/compiler: words are written one after    *)
(* another into one array of bytecodes.  A call is written as a hole and   *)
(* an Apply; holes are filled, the last one first, with a push of the      *)
(* callee's address, and a callee met for the first time is written then.  *)
(***************************************************************************)
EXTENDS Integers, Sequences, FiniteSets

CONSTANTS
  Words,         \* ConcreteWordId: a word id with its arguments
  Main,          \* the word compiled, without arguments
  Primitives,    \* the bytecodes that a writer may append
  Dictionaries,  \* what the dictionary may be
  NoWord         \* no word is being written

(* What a writer does, in order: append a bytecode, or append a call.      *)
Items == [do : {"append"}, code : Primitives] \cup [do : {"call"}, w : Words]
Undefined == <<[do |-> "undefined"]>>

Push(a) == [op |-> "Push", value |-> [int |-> a]]
Apply   == [op |-> "Apply"]
Return  == [op |-> "Return"]
Null    == [op |-> "null"]

(* A writer appends bytecodes, never null, and there is a word to compile. *)
BytecodeAssumption ==
  /\ Main \in Words /\ NoWord \notin Words
  /\ Null \notin Primitives
  /\ Dictionaries \subseteq [Words -> Seq(Items) \cup {Undefined}]

VARIABLES
  dict,
  bcArray,
  wordAddressMap,  \* the address of each word, None while it is not written
  addressPatches,  \* the stack of holes: [at, w] records
  patch,           \* the hole for which a word is being written
  writing, rest,   \* the word being written, what its writer has still to do
  phase            \* "write", "loop", "done" or "failed"

vars == <<dict, bcArray, wordAddressMap, addressPatches, patch, writing, rest, phase>>

None == -1
NoPatch == [at |-> None, w |-> NoWord]
currentAddress == Len(bcArray)

(* Mutant: the Apply is filled. *)
FilledAfter(array, at, a) == [array EXCEPT ![at + 2] = Push(a)]
(* bcArray(patchAddress) = Push(wordAddress).  Addresses count from 0.     *)
Filled(array, at, a) == [array EXCEPT ![at + 1] = Push(a)]

(* writeWord: the address is noted before the dictionary is asked, which   *)
(* ends the compilation if the word, or its arguments, are unknown.        *)
StartWord(w) ==
  /\ wordAddressMap' = [wordAddressMap EXCEPT ![w] = currentAddress]
  /\ writing' = w
  /\ IF dict[w] = Undefined THEN phase' = "failed" /\ rest' = << >>
     ELSE phase' = "write" /\ rest' = dict[w]

Init ==
  /\ dict \in Dictionaries
  /\ bcArray = << >> /\ addressPatches = << >> /\ patch = NoPatch
  /\ wordAddressMap = [w \in Words |-> None]
  /\ writing = NoWord /\ rest = << >> /\ phase = "start"

WriteMain == phase = "start" /\ StartWord(Main) /\ UNCHANGED <<dict, bcArray, addressPatches, patch>>

AppendCode ==
  /\ phase = "write" /\ rest # << >> /\ Head(rest).do = "append"
  /\ bcArray' = Append(bcArray, Head(rest).code)
  /\ rest' = Tail(rest)
  /\ UNCHANGED <<dict, wordAddressMap, addressPatches, patch, writing, phase>>

(* Mutant: the hole is noted after it is made. *)
AppendCallLate ==
  /\ phase = "write" /\ rest # << >> /\ Head(rest).do = "call"
  /\ addressPatches' = <<[at |-> currentAddress + 1, w |-> Head(rest).w]>> \o addressPatches
  /\ bcArray' = bcArray \o <<Null, Apply>>
  /\ rest' = Tail(rest)
  /\ UNCHANGED <<dict, wordAddressMap, patch, writing, phase>>
AppendCall ==
  /\ phase = "write" /\ rest # << >> /\ Head(rest).do = "call"
  /\ addressPatches' = <<[at |-> currentAddress, w |-> Head(rest).w]>> \o addressPatches
  /\ bcArray' = bcArray \o <<Null, Apply>>
  /\ rest' = Tail(rest)
  /\ UNCHANGED <<dict, wordAddressMap, patch, writing, phase>>

(* Mutant: the word is left open. *)
EndWordOpen ==
  /\ phase = "write" /\ rest = << >>
  /\ bcArray' = IF patch = NoPatch THEN bcArray ELSE Filled(bcArray, patch.at, wordAddressMap[patch.w])
  /\ patch' = NoPatch /\ writing' = NoWord /\ phase' = "loop"
  /\ UNCHANGED <<dict, wordAddressMap, addressPatches, rest>>
(* The writer is done: Return ends the word, and the hole it was written   *)
(* for is filled.  (The main word is written for none.)                    *)
EndWord ==
  /\ phase = "write" /\ rest = << >>
  /\ bcArray' = IF patch = NoPatch THEN Append(bcArray, Return)
                ELSE Filled(Append(bcArray, Return), patch.at, wordAddressMap[patch.w])
  /\ patch' = NoPatch /\ writing' = NoWord /\ phase' = "loop"
  /\ UNCHANGED <<dict, wordAddressMap, addressPatches, rest>>

(* Mutants: the callee is taken to be written; the hole stays on the stack; *)
(* a word is written again for each hole.                                  *)
PopUnwritten ==
  /\ phase = "loop" /\ addressPatches # << >>
  /\ LET p == Head(addressPatches) IN bcArray' = Filled(bcArray, p.at, wordAddressMap[p.w])
  /\ addressPatches' = Tail(addressPatches)
  /\ UNCHANGED <<dict, wordAddressMap, patch, writing, rest, phase>>
PopKeep ==
  /\ phase = "loop" /\ addressPatches # << >>
  /\ LET p == Head(addressPatches) IN
       IF wordAddressMap[p.w] = None
       THEN patch' = p /\ StartWord(p.w) /\ UNCHANGED bcArray
       ELSE /\ bcArray' = Filled(bcArray, p.at, wordAddressMap[p.w])
            /\ UNCHANGED <<wordAddressMap, patch, writing, rest, phase>>
  /\ UNCHANGED <<dict, addressPatches>>
PopAlways ==
  /\ phase = "loop" /\ addressPatches # << >>
  /\ addressPatches' = Tail(addressPatches)
  /\ patch' = Head(addressPatches) /\ StartWord(Head(addressPatches).w)
  /\ UNCHANGED <<dict, bcArray>>
(* The last hole is filled, or its word is written first.                  *)
PopPatch ==
  /\ phase = "loop" /\ addressPatches # << >>
  /\ LET p == Head(addressPatches) IN
       /\ addressPatches' = Tail(addressPatches)
       /\ IF wordAddressMap[p.w] = None
          THEN patch' = p /\ StartWord(p.w) /\ UNCHANGED bcArray
          ELSE /\ bcArray' = Filled(bcArray, p.at, wordAddressMap[p.w])
               /\ UNCHANGED <<wordAddressMap, patch, writing, rest, phase>>
  /\ UNCHANGED dict

Finish ==
  /\ phase = "loop" /\ addressPatches = << >>
  /\ phase' = "done"
  /\ UNCHANGED <<dict, bcArray, wordAddressMap, addressPatches, patch, writing, rest>>

Compile == WriteMain \/ AppendCode \/ AppendCall \/ EndWord \/ PopPatch \/ Finish
-----------------------------------------------------------------------------
Written(w) == wordAddressMap[w] # None
Holes == {addressPatches[i] : i \in DOMAIN addressPatches} \cup ({patch} \ {NoPatch})

TypeOK ==
  /\ dict \in [Words -> Seq(Items) \cup {Undefined}]
  /\ bcArray \in Seq(Primitives \cup {Apply, Return, Null} \cup [op : {"Push"}, value : [int : 0 .. Len(bcArray)]])
  /\ wordAddressMap \in [Words -> Nat \cup {None}]
  /\ addressPatches \in Seq([at : Nat, w : Words])
  /\ patch \in [at : Nat, w : Words] \cup {NoPatch}
  /\ writing \in Words \cup {NoWord} /\ rest \in Seq(Items)
  /\ phase \in {"start", "write", "loop", "done", "failed"}

(* Each hole is in the array and is filled once: the holes still to be     *)
(* filled are the null bytecodes, and no two are at one place, whatever    *)
(* was written between the push of a patch and its use.                    *)
HolesKept ==
  /\ \A h \in Holes : h.at < Len(bcArray) /\ bcArray[h.at + 1] = Null
  /\ \A i \in DOMAIN bcArray : bcArray[i] = Null =>
       \E h \in Holes : h.at = i - 1
  /\ \A i, j \in DOMAIN addressPatches : addressPatches[i].at = addressPatches[j].at => i = j
  /\ \A i \in DOMAIN addressPatches : addressPatches[i].at # patch.at

(* How many places the first n items of a word take: a bytecode takes one, *)
(* a call two; and where its i-th item is, if there is one, and its Return *)
(* if there is not.                                                        *)
Calls(items, n) == {i \in 1 .. n : items[i].do = "call"}
Offset(items, n) == n + Cardinality(Calls(items, n))
Place(w, i) == wordAddressMap[w] + Offset(dict[w], i - 1) + 1

(* The finished array is what a linker with all addresses at hand writes:  *)
(* main is there, each word's items are at its address, in order, up to a  *)
(* Return, and each call pushes its callee's address.                      *)
LinksAsWritten ==
  phase = "done" =>
    /\ Written(Main)
    /\ \A w \in Words : Written(w) =>
         /\ \A i \in DOMAIN dict[w] :
              LET item == dict[w][i] IN
                IF item.do = "append" THEN bcArray[Place(w, i)] = item.code
                ELSE /\ Written(item.w)
                     /\ bcArray[Place(w, i)] = Push(wordAddressMap[item.w])
                     /\ bcArray[Place(w, i) + 1] = Apply
         /\ bcArray[Place(w, Len(dict[w]) + 1)] = Return

(* No word is written twice, and nothing but the words is: the array is as *)
(* long as the words together.                                             *)
WrittenOnce ==
  phase = "done" =>
    \A k \in 1 .. Len(bcArray) :
      \E w \in Words : /\ Written(w)
                       /\ wordAddressMap[w] < k /\ k <= Place(w, Len(dict[w]) + 1)
                       /\ \A v \in Words \ {w} :
                            Written(v) => ~(wordAddressMap[v] < k /\ k <= Place(v, Len(dict[v]) + 1))
(* All of this: the finished array calls what the words call, each word    *)
(* that is reached is written, and once, and a hole that is not filled is  *)
(* on the stack.                                                           *)
Links == TypeOK /\ HolesKept /\ LinksAsWritten /\ WrittenOnce
=============================================================================
