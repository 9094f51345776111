--------------------------- MODULE MidCompilerProofs ---------------------------
(***************************************************************************)
(* The safety properties of MidCompiler, for every dictionary, naming and  *)
(* sequence of calls.  The invariant is built in layers: types and the     *)
(* round underway; the words scheduled; then each property from these.     *)
(***************************************************************************)
EXTENDS MidCompiler, SequenceTheorems, TLAPS

(* A written quotation is not None. *)
LEMMA Distinguished ==
  ASSUME NEW e, NEW c
  PROVE  [extern |-> e, code |-> c] # None
<1>1. "extern" \in DOMAIN [extern |-> e, code |-> c]  OBVIOUS
<1>2. "extern" \notin DOMAIN None  BY DEF None
<1> QED BY <1>1, <1>2

(* What an item carries, by what it does (InstructionBuffer). *)
LEMMA ItemType ==
  ASSUME NEW i \in Items
  PROVE  /\ i.do = "append" => i.inst \in Instructions /\ Written(i) = i.inst
         /\ i.do = "quote" => i.c \in Concrete /\ Written(i) = [op |-> "lookup", w |-> NameOf[i.c]]
BY DEF Items, Written

(* The rest of the writer's work, one item on. *)
LEMMA RestTail ==
  ASSUME TypeOK, rest # << >>
  PROVE  /\ Head(rest) \in Items /\ Head(rest) = rest[1]
         /\ Tail(rest) \in Seq(Items) /\ Len(Tail(rest)) = Len(rest) - 1
         /\ \A i \in 1 .. Len(Tail(rest)) : Tail(rest)[i] = rest[i + 1]
         /\ Len(rest) \in Nat \ {0}
BY HeadTailProperties DEF TypeOK

(* getWord keeps what it is given and leaves an entry of the name asked    *)
(* for; it schedules exactly the words it adds.                            *)
LEMMA GetWordFacts ==
  ASSUME TypeOK, NEW c \in Concrete, NEW S \in SUBSET Concrete, GetWord(c, S)
  PROVE  /\ words' \subseteq Names /\ wordsToCompile' \subseteq Concrete
         /\ words' = words \cup {NameOf[c]}
         /\ NameOf[c] \in words => wordsToCompile' = S
         /\ NameOf[c] \notin words => wordsToCompile' = S \cup {c}
BY CompilerAssumption DEF GetWord, TypeOK

(* An exception leaves the module as it is and forgets the round. *)
LEMMA ThrowFacts ==
  ASSUME [Next]_vars, (\E c \in Concrete : NotDefined(c)) \/ WriterThrows
  PROVE  Throw
BY DEF NotDefined, WriterThrows
-----------------------------------------------------------------------------
(* Types, and the round underway.                                          *)

(* Init establishes the types and has no round underway. *)
LEMMA InitType == Init => TypeOK /\ Underway
<1> SUFFICES ASSUME Init PROVE TypeOK /\ Underway
  OBVIOUS
<1>1. dict \in [Concrete -> Generic \cup {Undefined}]
  BY CompilerAssumption DEF Init
<1>2. quotation \in [Names -> {None} \cup [extern : BOOLEAN, code : Seq(Code)]]
  BY DEF Init
<1>3. rest \in Seq(Items) /\ buf \in Seq(Code)
  BY DEF Init
<1>4. failed \in BOOLEAN /\ phase = "idle" /\ cwid = NoWord
  BY DEF Init
<1>5. words \subseteq Names /\ wordsToCompile \subseteq Concrete /\ called \subseteq Concrete
  BY DEF Init
<1> QED BY <1>1, <1>2, <1>3, <1>4, <1>5 DEF TypeOK, Underway

(* Writing one more item keeps what is written and what is left in line    *)
(* with the word's items.                                                  *)
LEMMA OneMore ==
  ASSUME NEW items, NEW S, NEW s \in Seq(S), NEW Q, NEW r \in Seq(Q), r # << >>,
         NEW x \in S, x = Written(r[1]),
         Len(s) + Len(r) = Len(items),
         \A i \in 1 .. Len(s) : s[i] = Written(items[i]),
         \A i \in 1 .. Len(r) : r[i] = items[Len(s) + i]
  PROVE  LET s2 == Append(s, x)
             r2 == Tail(r)
         IN  /\ Len(s2) + Len(r2) = Len(items)
             /\ \A i \in 1 .. Len(s2) : s2[i] = Written(items[i])
             /\ \A i \in 1 .. Len(r2) : r2[i] = items[Len(s2) + i]
<1> DEFINE s2 == Append(s, x)
           r2 == Tail(r)
<1>1. /\ Len(s2) = Len(s) + 1 /\ s2[Len(s) + 1] = x /\ Len(s) \in Nat
      /\ \A i \in 1 .. Len(s) : s2[i] = s[i]
  OBVIOUS
<1>2. /\ Len(r2) = Len(r) - 1 /\ Len(r) \in Nat \ {0}
      /\ \A i \in 1 .. Len(r2) : r2[i] = r[i + 1]
  BY HeadTailProperties
<1>3. x = Written(items[Len(s) + 1])
  BY <1>2
<1> HIDE DEF s2, r2
<1>4. Len(s2) + Len(r2) = Len(items)
  <2>1. Len(s2) + Len(r2) = Len(s) + Len(r)
    BY <1>1, <1>2
  <2> QED BY <2>1
<1>5. ASSUME NEW i \in 1 .. Len(s2) PROVE s2[i] = Written(items[i])
  <2>1. CASE i \in 1 .. Len(s)  BY <2>1, <1>1
  <2>2. CASE i = Len(s) + 1  BY <2>2, <1>1, <1>3
  <2> QED BY <2>1, <2>2, <1>1
<1>6. ASSUME NEW i \in 1 .. Len(r2) PROVE r2[i] = items[Len(s2) + i]
  <2>1. i + 1 \in 1 .. Len(r) /\ r2[i] = r[i + 1] /\ i \in Nat
    BY <1>2
  <2>2. r[i + 1] = items[Len(s) + (i + 1)]
    BY <2>1
  <2>3. Len(s) + (i + 1) = Len(s2) + i
    BY <1>1
  <2> QED BY <2>1, <2>2, <2>3
<1> QED BY <1>4, <1>5, <1>6 DEF s2, r2

(* Every step keeps the types; a round goes through the items of its word  *)
(* in order.                                                               *)
LEMMA StepType == TypeOK /\ Underway /\ [Next]_vars => TypeOK' /\ Underway'
<1> SUFFICES ASSUME TypeOK, Underway, [Next]_vars PROVE TypeOK' /\ Underway'
  OBVIOUS
<1>1. ASSUME NEW c \in Concrete, Compile(c) PROVE TypeOK' /\ Underway'
  <2>1. /\ words' \subseteq Names /\ wordsToCompile' \subseteq Concrete
    BY <1>1, GetWordFacts DEF Compile
  <2>2. phase # "write" /\ phase' = "loop" /\ cwid' = NoWord
    BY <1>1 DEF Compile, TypeOK
  <2> QED BY <1>1, <2>1, <2>2 DEF Compile, TypeOK, Underway
<1>2. ASSUME NEW c \in Concrete, Take(c) PROVE TypeOK' /\ Underway'
  <2>1. dict[c] \in Generic /\ dict[c].items \in Seq(Items)
    BY <1>2 DEF Take, TypeOK, Generic
  <2>2. TypeOK'
    BY <1>2, <2>1 DEF Take, TypeOK
  <2>3. Underway'
    BY <1>2, <2>1 DEF Take, Underway
  <2> QED BY <2>2, <2>3
<1>3. ASSUME Throw PROVE TypeOK' /\ Underway'
  BY <1>3 DEF Throw, NoRound, TypeOK, Underway
<1>4. CASE AppendInst
  <2>1. /\ phase = "write" /\ rest # << >> /\ Head(rest).do = "append"
        /\ buf' = Append(buf, Head(rest).inst) /\ rest' = Tail(rest)
        /\ UNCHANGED <<dict, words, quotation, wordsToCompile, phase, cwid, called, failed>>
    BY <1>4 DEF AppendInst, Writes
  <2>2. Head(rest).inst \in Code /\ Head(rest).inst = Written(rest[1])
    BY <2>1, RestTail, ItemType DEF Code
  <2>3. TypeOK'
    BY <2>1, <2>2, RestTail DEF TypeOK
  <2>4. Underway'
    <3> DEFINE items == dict[cwid].items
    <3>1. /\ rest \in Seq(Items) /\ buf \in Seq(Code)
          /\ Len(buf) + Len(rest) = Len(items)
          /\ \A i \in 1 .. Len(buf) : buf[i] = Written(items[i])
          /\ \A i \in 1 .. Len(rest) : rest[i] = items[Len(buf) + i]
      BY <2>1 DEF TypeOK, Underway
    <3> HIDE DEF items
    <3>2. /\ Len(buf') + Len(rest') = Len(items)
          /\ \A i \in 1 .. Len(buf') : buf'[i] = Written(items[i])
          /\ \A i \in 1 .. Len(rest') : rest'[i] = items[Len(buf') + i]
      BY <2>1, <2>2, <3>1, OneMore
    <3> QED BY <2>1, <3>2 DEF items, Underway, Written
  <2> QED BY <2>3, <2>4
<1>5. CASE PushQuotation
  <2>1. /\ phase = "write" /\ rest # << >> /\ Head(rest).do = "quote"
        /\ GetWord(Head(rest).c, wordsToCompile)
        /\ buf' = Append(buf, [op |-> "lookup", w |-> NameOf[Head(rest).c]])
        /\ rest' = Tail(rest)
        /\ UNCHANGED <<dict, quotation, phase, cwid, called, failed>>
    BY <1>5 DEF PushQuotation, Writes
  <2> DEFINE inst == [op |-> "lookup", w |-> NameOf[Head(rest).c]]
  <2>2. Head(rest).c \in Concrete /\ inst \in Code /\ inst = Written(rest[1])
    BY <2>1, RestTail, ItemType, CompilerAssumption DEF Code
  <2>3. words' \subseteq Names /\ wordsToCompile' \subseteq Concrete
    BY <2>1, <2>2, GetWordFacts DEF TypeOK
  <2> HIDE DEF inst
  <2>4. TypeOK'
    BY <2>1, <2>2, <2>3, RestTail DEF TypeOK, inst
  <2>5. buf' = Append(buf, inst)
    BY <2>1 DEF inst
  <2>6. Underway'
    <3> DEFINE items == dict[cwid].items
    <3>1. /\ rest \in Seq(Items) /\ buf \in Seq(Code)
          /\ Len(buf) + Len(rest) = Len(items)
          /\ \A i \in 1 .. Len(buf) : buf[i] = Written(items[i])
          /\ \A i \in 1 .. Len(rest) : rest[i] = items[Len(buf) + i]
      BY <2>1 DEF TypeOK, Underway
    <3> HIDE DEF items
    <3>2. /\ Len(buf') + Len(rest') = Len(items)
          /\ \A i \in 1 .. Len(buf') : buf'[i] = Written(items[i])
          /\ \A i \in 1 .. Len(rest') : rest'[i] = items[Len(buf') + i]
      BY <2>1, <2>2, <2>5, <3>1, OneMore
    <3> QED BY <2>1, <3>2 DEF items, Underway, Written
  <2> QED BY <2>4, <2>6
<1>6. CASE Finish
  <2>1. cwid \in Concrete /\ NameOf[cwid] \in Names /\ dict[cwid] \in Generic
    BY <1>6, CompilerAssumption DEF Finish, TypeOK, Underway
  <2>2. [extern |-> dict[cwid].extern, code |-> buf] \in [extern : BOOLEAN, code : Seq(Code)]
    BY <2>1 DEF TypeOK, Generic
  <2>3. quotation' \in [Names -> {None} \cup [extern : BOOLEAN, code : Seq(Code)]]
    BY <1>6, <2>1, <2>2 DEF Finish, TypeOK
  <2>4. /\ words' \subseteq Names /\ wordsToCompile' \subseteq Concrete
        /\ phase' = "loop" /\ cwid' = NoWord /\ rest' = << >> /\ buf' = << >>
        /\ UNCHANGED <<dict, called, failed>>
    BY <1>6, <2>1 DEF Finish, NoRound, TypeOK
  <2> QED BY <2>3, <2>4 DEF TypeOK, Underway
<1>7. CASE Return
  BY <1>7 DEF Return, TypeOK, Underway
<1>8. CASE UNCHANGED vars
  BY <1>8 DEF vars, work, TypeOK, Underway, Written
<1> QED
  BY <1>1, <1>2, <1>3, <1>4, <1>5, <1>6, <1>7, <1>8 DEF Next, Loop, NotDefined, WriterThrows

(* Types, for every dictionary: what a writer appends is code, and what    *)
(* compile works on is a concrete word (Compiler.compile).                 *)
THEOREM TypeCorrect == Spec => []TypeOK
<1>1. Init => TypeOK /\ Underway
  BY InitType
<1>2. TypeOK /\ Underway /\ [Next]_vars => (TypeOK /\ Underway)'
  BY StepType
<1> QED BY <1>1, <1>2, PTL DEF Spec
-----------------------------------------------------------------------------
(* The words to do.                                                        *)

(* Nothing is scheduled at first. *)
LEMMA InitScheduled == Init => Scheduled
BY DEF Init, Scheduled, Working, Compiled, RedundantRemove

(* Every step schedules only words whose name is new to the module, and    *)
(* takes a word from those to do before its quotation is set.              *)
LEMMA StepScheduled ==
  TypeOK /\ Underway /\ Scheduled /\ [Next]_vars => Scheduled'
<1> SUFFICES ASSUME TypeOK, Underway, Scheduled, [Next]_vars PROVE Scheduled'
  OBVIOUS
<1> USE DEF Compiled, RedundantRemove
<1>1. ASSUME NEW c \in Concrete, Compile(c) PROVE Scheduled'
  <2>1. /\ words' = words \cup {NameOf[c]}
        /\ NameOf[c] \in words => wordsToCompile' = {}
        /\ NameOf[c] \notin words => wordsToCompile' = {c}
    BY <1>1, GetWordFacts DEF Compile
  <2>2. phase' = "loop" /\ quotation' = quotation
    BY <1>1 DEF Compile
  <2>3. NameOf[c] \in Names
    BY CompilerAssumption
  <2> QED BY <2>1, <2>2, <2>3 DEF Scheduled, Working
<1>2. ASSUME NEW c \in Concrete, Take(c) PROVE Scheduled'
  <2>1. Working' = Working /\ words' = words /\ quotation' = quotation /\ phase' = "write"
    BY <1>2 DEF Take, Working
  <2>2. cwid' \notin wordsToCompile'
    BY <1>2 DEF Take
  <2> QED BY <2>1, <2>2 DEF Scheduled
<1>3. ASSUME Throw PROVE Scheduled'
  BY <1>3 DEF Throw, NoRound, Scheduled, Working
<1>4. CASE AppendInst
  BY <1>4 DEF AppendInst, Writes, Scheduled, Working
<1>5. CASE PushQuotation
  <2> DEFINE d == Head(rest).c
  <2>1. /\ phase = "write" /\ d \in Concrete /\ GetWord(d, wordsToCompile)
        /\ UNCHANGED <<quotation, phase, cwid>>
    BY <1>5, RestTail, ItemType DEF PushQuotation, Writes
  <2>2. /\ words' = words \cup {NameOf[d]}
        /\ NameOf[d] \in words => wordsToCompile' = wordsToCompile
        /\ NameOf[d] \notin words => wordsToCompile' = wordsToCompile \cup {d}
    BY <2>1, GetWordFacts DEF TypeOK
  <2>3. NameOf[d] \in Names
    BY <2>1, CompilerAssumption
  <2>4. CASE NameOf[d] \in words
    BY <2>1, <2>2, <2>4 DEF Scheduled, Working
  <2>5. CASE NameOf[d] \notin words
    <3>1. Working' = Working \cup {d} /\ d \notin Working /\ cwid \in Working
      BY <2>1, <2>2, <2>5 DEF Scheduled, Working
    <3>2. ~Compiled(NameOf[d])
      BY <2>3, <2>5 DEF Scheduled
    <3> HIDE DEF d
    <3>3. \A x \in Working' : NameOf[x] \in words' /\ ~Compiled(NameOf[x])'
      BY <2>1, <2>2, <3>1, <3>2 DEF Scheduled
    <3>4. \A x, y \in Working' : NameOf[x] = NameOf[y] => x = y
      BY <2>5, <3>1 DEF Scheduled
    <3>5. cwid' \notin wordsToCompile'
      BY <2>1, <2>2, <2>5, <3>1 DEF Scheduled
    <3> QED BY <2>1, <2>2, <3>3, <3>4, <3>5 DEF Scheduled
  <2> QED BY <2>4, <2>5
<1>6. CASE Finish
  <2>1. /\ phase = "write" /\ phase' = "loop"
        /\ words' = words \cup {NameOf[cwid]} /\ wordsToCompile' = wordsToCompile \ {cwid}
        /\ \A n \in Names : n # NameOf[cwid] => quotation'[n] = quotation[n]
    BY <1>6 DEF Finish, TypeOK
  <2>2. cwid \in Concrete /\ wordsToCompile \subseteq Concrete /\ cwid \in Working
    BY <2>1 DEF TypeOK, Working
  <2>3. Working' = Working \ {cwid}
    BY <2>1 DEF Working
  <2>4. \A x \in Working' : NameOf[x] \in Names /\ NameOf[x] # NameOf[cwid]
    BY <2>1, <2>2, <2>3, CompilerAssumption DEF Scheduled, Working
  <2>5. \A x \in Working' : NameOf[x] \in words' /\ ~Compiled(NameOf[x])'
    BY <2>1, <2>3, <2>4 DEF Scheduled
  <2>6. \A x, y \in Working' : NameOf[x] = NameOf[y] => x = y
    BY <2>3 DEF Scheduled
  <2>7. \A n \in Names : Compiled(n)' => n \in words'
    BY <2>1 DEF Scheduled
  <2> QED BY <2>1, <2>5, <2>6, <2>7 DEF Scheduled
<1>7. CASE Return
  BY <1>7 DEF Return, Scheduled, Working
<1>8. CASE UNCHANGED vars
  BY <1>8 DEF vars, work, Scheduled, Working
<1> QED
  BY <1>1, <1>2, <1>3, <1>4, <1>5, <1>6, <1>7, <1>8 DEF Next, Loop, NotDefined, WriterThrows

(* The part of the invariant that every property rests on. *)
Base == TypeOK /\ Underway /\ Scheduled

(* It is an invariant. *)
LEMMA BaseInvariant == Spec => []Base
<1>1. Init => Base
  BY InitType, InitScheduled DEF Base
<1>2. Base /\ [Next]_vars => Base'
  BY StepType, StepScheduled DEF Base
<1> QED BY <1>1, <1>2, PTL DEF Spec

(* The second removal in compile is redundant, as its comment asks: no     *)
(* writer ever schedules the word being written (Compiler.scala:59).       *)
THEOREM RemoveRedundant == Spec => []RedundantRemove
<1>1. Base => RedundantRemove
  BY DEF Base, Scheduled
<1> QED BY <1>1, BaseInvariant, PTL

(* A quotation is set once, whatever names collide, calls are repeated or  *)
(* writers throw (Compiler.scala:56-58).                                   *)
THEOREM QuotationsStay == Spec => SetOnce
<1>1. Base /\ [Next]_vars => [\A n \in Names : Compiled(n) => quotation'[n] = quotation[n]]_vars
  <2> SUFFICES ASSUME Base, Next, NEW n \in Names, Compiled(n) PROVE quotation'[n] = quotation[n]
    OBVIOUS
  <2>1. CASE Finish
    <3>1. NameOf[cwid] # n
      BY <2>1 DEF Finish, Base, Scheduled, Working
    <3> QED BY <2>1, <3>1 DEF Finish, Base, TypeOK
  <2>2. CASE UNCHANGED quotation
    BY <2>2
  <2> QED
    BY <2>1, <2>2 DEF Next, Loop, Compile, Take, NotDefined, WriterThrows, Throw, AppendInst,
                      PushQuotation, Return
<1> QED BY <1>1, BaseInvariant, PTL DEF Spec, SetOnce
-----------------------------------------------------------------------------
(* The module that compile builds.                                         *)

(* Every step keeps the module closed: whoever refers to a word has looked *)
(* it up before.                                                           *)
LEMMA StepClosed == Base /\ Closed /\ [Next]_vars => Closed'
<1> SUFFICES ASSUME Base, Closed, [Next]_vars, NEW n \in Names,
                    \/ \E m \in Names : Compiled(m)' /\ Refers(quotation'[m].code, n)
                    \/ phase' = "write" /\ Refers(buf', n)
             PROVE  n \in words'
  BY DEF Closed, Refers
<1> USE DEF Base
<1>1. ASSUME words \subseteq words', quotation' = quotation,
             phase' = "write" /\ Refers(buf', n) => phase = "write" /\ Refers(buf, n)
      PROVE  n \in words'
  BY <1>1 DEF Closed, Compiled
<1>2. ASSUME NEW c \in Concrete, Compile(c) PROVE n \in words'
  BY <1>1, <1>2, GetWordFacts DEF Compile
<1>3. ASSUME NEW c \in Concrete, Take(c) PROVE n \in words'
  <2>1. ~Refers(buf', n)
    BY <1>3 DEF Take, Refers
  <2> QED BY <1>1, <1>3, <2>1 DEF Take
<1>4. ASSUME Throw PROVE n \in words'
  BY <1>1, <1>4 DEF Throw
<1>5. CASE AppendInst
  <2>1. /\ phase = "write" /\ rest # << >> /\ Head(rest).do = "append"
        /\ buf' = Append(buf, Head(rest).inst)
        /\ words' = words /\ quotation' = quotation
    BY <1>5 DEF AppendInst, Writes
  <2>2. Head(rest).inst # [op |-> "lookup", w |-> n]
    BY <2>1, RestTail, ItemType, CompilerAssumption
  <2>3. Refers(buf', n) => Refers(buf, n)
    BY <2>1, <2>2 DEF Refers, TypeOK
  <2> QED BY <1>1, <2>1, <2>3
<1>6. CASE PushQuotation
  <2> DEFINE d == Head(rest).c
             inst == [op |-> "lookup", w |-> NameOf[d]]
  <2>1. /\ phase = "write" /\ d \in Concrete /\ GetWord(d, wordsToCompile)
        /\ buf' = Append(buf, inst) /\ quotation' = quotation
    BY <1>6, RestTail, ItemType DEF PushQuotation, Writes
  <2> HIDE DEF d
  <2>2. words' = words \cup {NameOf[d]}
    <3>1. wordsToCompile \in SUBSET Concrete
      BY DEF TypeOK
    <3> QED BY <2>1, <3>1, GetWordFacts
  <2>3. CASE n = NameOf[d]
    BY <2>2, <2>3
  <2>4. CASE n # NameOf[d]
    <3>1. inst # [op |-> "lookup", w |-> n]
      BY <2>4
    <3> HIDE DEF inst
    <3>2. Refers(buf', n) => Refers(buf, n)
      BY <2>1, <3>1 DEF Refers, TypeOK
    <3> QED BY <1>1, <2>1, <2>2, <3>2
  <2> QED BY <2>3, <2>4
<1>7. CASE Finish
  <2>1. /\ phase = "write" /\ phase' = "loop" /\ words \subseteq words'
        /\ NameOf[cwid] \in Names
        /\ quotation' = [quotation EXCEPT ![NameOf[cwid]] =
                            [extern |-> dict[cwid].extern, code |-> buf]]
    BY <1>7, CompilerAssumption DEF Finish, TypeOK
  <2>2. PICK m \in Names : Compiled(m)' /\ Refers(quotation'[m].code, n)
    BY <2>1
  <2>3. CASE m = NameOf[cwid]
    <3>1. quotation'[m].code = buf
      BY <2>1, <2>3 DEF TypeOK
    <3> QED BY <2>1, <2>2, <3>1 DEF Closed
  <2>4. CASE m # NameOf[cwid]
    <3>1. quotation'[m] = quotation[m]
      BY <2>1, <2>4 DEF TypeOK
    <3> QED BY <2>1, <2>2, <3>1 DEF Closed, Compiled
  <2> QED BY <2>3, <2>4
<1>8. CASE Return
  BY <1>1, <1>8 DEF Return
<1>9. CASE UNCHANGED vars
  BY <1>1, <1>9 DEF vars, work
<1> QED
  BY <1>2, <1>3, <1>4, <1>5, <1>6, <1>7, <1>8, <1>9 DEF Next, Loop, NotDefined, WriterThrows

(* Every word of the module that nothing has thrown in has a quotation or  *)
(* is scheduled: a step that takes a word from those to do gives it one.   *)
LEMMA StepComplete == Base /\ Complete /\ [Next]_vars => Complete'
<1> SUFFICES ASSUME Base, Complete, [Next]_vars, ~failed', NEW n \in words'
             PROVE  Compiled(n)' \/ \E c \in Working' : NameOf[c] = n
  BY DEF Complete
<1> USE DEF Base
<1>1. ASSUME NEW c \in Concrete, Compile(c) PROVE Compiled(n)' \/ \E x \in Working' : NameOf[x] = n
  <2>1. /\ words' = words \cup {NameOf[c]} /\ failed' = failed /\ quotation' = quotation
        /\ NameOf[c] \notin words => wordsToCompile' = {c}
        /\ Working = {}
    BY <1>1, GetWordFacts DEF Compile, Scheduled, Working
  <2> QED BY <2>1 DEF Complete, Working, Compiled
<1>2. ASSUME NEW c \in Concrete, Take(c) PROVE Compiled(n)' \/ \E x \in Working' : NameOf[x] = n
  <2>1. Working' = Working /\ UNCHANGED <<words, quotation, failed>>
    BY <1>2 DEF Take, Working
  <2> QED BY <2>1 DEF Complete, Compiled
<1>3. ASSUME Throw PROVE FALSE
  BY <1>3 DEF Throw
<1>4. CASE AppendInst
  BY <1>4 DEF AppendInst, Writes, Complete, Working, Compiled
<1>5. CASE PushQuotation
  <2> DEFINE d == Head(rest).c
  <2>1. /\ phase = "write" /\ d \in Concrete /\ GetWord(d, wordsToCompile)
        /\ UNCHANGED <<quotation, phase, cwid, failed>>
    BY <1>5, RestTail, ItemType DEF PushQuotation, Writes
  <2>2. /\ words' = words \cup {NameOf[d]}
        /\ NameOf[d] \in words => wordsToCompile' = wordsToCompile
        /\ NameOf[d] \notin words => wordsToCompile' = wordsToCompile \cup {d}
    BY <2>1, GetWordFacts DEF TypeOK
  <2> HIDE DEF d
  <2> QED BY <2>1, <2>2 DEF Complete, Working, Compiled
<1>6. CASE Finish
  <2>1. /\ phase = "write" /\ phase' = "loop" /\ failed' = failed
        /\ words' = words \cup {NameOf[cwid]} /\ wordsToCompile' = wordsToCompile \ {cwid}
        /\ cwid \in Working /\ NameOf[cwid] \in Names
        /\ quotation' = [quotation EXCEPT ![NameOf[cwid]] =
                            [extern |-> dict[cwid].extern, code |-> buf]]
    BY <1>6, CompilerAssumption DEF Finish, TypeOK, Working
  <2>2. CASE n = NameOf[cwid]
    <3>1. quotation'[n] = [extern |-> dict[cwid].extern, code |-> buf]
      BY <2>1, <2>2 DEF TypeOK
    <3> QED BY <3>1, Distinguished DEF Compiled
  <2>3. CASE n # NameOf[cwid]
    <3>1. n \in words /\ n \in Names /\ quotation'[n] = quotation[n]
      BY <2>1, <2>3 DEF TypeOK
    <3> QED BY <2>1, <2>3, <3>1 DEF Complete, Working, Compiled
  <2> QED BY <2>2, <2>3
<1>7. CASE Return
  BY <1>7 DEF Return, Complete, Working, Compiled
<1>8. CASE UNCHANGED vars
  BY <1>8 DEF vars, work, Complete, Working, Compiled
<1> QED
  BY <1>1, <1>2, <1>3, <1>4, <1>5, <1>6, <1>7, <1>8 DEF Next, Loop, NotDefined, WriterThrows
(* A quotation that is set is the writing of the word being compiled; no   *)
(* other step touches one.                                                 *)
LEMMA StepFaithful == Base /\ Faithful /\ [Next]_vars => Faithful'
<1> SUFFICES ASSUME Base, Faithful, [Next]_vars PROVE Faithful'
  OBVIOUS
<1> USE DEF Base
<1>1. CASE quotation' = quotation /\ dict' = dict
  BY <1>1, SMTT(30) DEF Faithful, Compiled, Written
<1>2. CASE Finish
  <2>1. /\ phase = "write" /\ rest = << >> /\ dict' = dict
        /\ cwid \in Concrete /\ NameOf[cwid] \in Names /\ dict[cwid] # Undefined
        /\ quotation' = [quotation EXCEPT ![NameOf[cwid]] =
                            [extern |-> dict[cwid].extern, code |-> buf]]
    BY <1>2, CompilerAssumption DEF Finish, TypeOK, Underway
  <2>2. dict[cwid].items \in Seq(Items)
    BY <2>1 DEF TypeOK, Generic
  <2>3. /\ Len(buf) = Len(dict[cwid].items)
        /\ \A i \in DOMAIN dict[cwid].items : buf[i] = Written(dict[cwid].items[i])
    BY <2>1, <2>2 DEF Underway, TypeOK
  <2> SUFFICES ASSUME NEW n \in Names, Compiled(n)'
               PROVE  \E c \in Concrete :
                        /\ NameOf[c] = n /\ dict[c] # Undefined
                        /\ quotation'[n].extern = dict[c].extern
                        /\ Len(quotation'[n].code) = Len(dict[c].items)
                        /\ \A i \in DOMAIN dict[c].items :
                              quotation'[n].code[i] = Written(dict[c].items[i])
    BY <2>1 DEF Faithful, Written
  <2>4. CASE n = NameOf[cwid]
    <3>1. quotation'[n] = [extern |-> dict[cwid].extern, code |-> buf]
      BY <2>1, <2>4 DEF TypeOK
    <3>2. quotation'[n].extern = dict[cwid].extern /\ quotation'[n].code = buf
      BY <3>1
    <3> QED BY <2>1, <2>3, <2>4, <3>2
  <2>5. CASE n # NameOf[cwid]
    <3>1. quotation'[n] = quotation[n]
      BY <2>1, <2>5 DEF TypeOK
    <3> QED BY <3>1 DEF Faithful, Compiled
  <2> QED BY <2>4, <2>5
<1> QED
  BY <1>1, <1>2 DEF Next, Loop, Compile, Take, NotDefined, WriterThrows, Throw, AppendInst,
                    PushQuotation, Return, vars

(* Only a main word, or a word that a word to do pushes, is ever looked    *)
(* up; so what is needed bounds the module and the words to do.            *)
LEMMA StepMinimal ==
  Base /\ Minimal /\ Needed /\ [Next]_vars => Minimal' /\ Needed'
<1> SUFFICES ASSUME Base, Minimal, Needed, [Next]_vars,
                    NEW T \in SUBSET Concrete, Needs(T)'
             PROVE  Working' \subseteq T /\ \A n \in words' : \E c \in T : NameOf[c] = n
  BY DEF Minimal, Needed
<1> USE DEF Base
<1>1. dict' = dict /\ called \subseteq called'
  BY DEF Next, Loop, Compile, Take, NotDefined, WriterThrows, Throw, AppendInst,
         PushQuotation, Finish, Return, vars
<1>2. Needs(T) /\ called' \subseteq T
  BY <1>1 DEF Needs
<1>3. Working \subseteq T /\ \A n \in words : \E c \in T : NameOf[c] = n
  BY <1>2 DEF Minimal, Needed
<1>4. ASSUME NEW c \in Concrete, Compile(c)
      PROVE  Working' \subseteq T /\ \A n \in words' : \E x \in T : NameOf[x] = n
  <2>1. c \in T /\ phase' = "loop"
    BY <1>2, <1>4 DEF Compile
  <2>2. words' = words \cup {NameOf[c]} /\ wordsToCompile' \subseteq {c}
    BY <1>4, GetWordFacts DEF Compile
  <2> QED BY <1>3, <2>1, <2>2 DEF Working
<1>5. ASSUME NEW c \in Concrete, Take(c)
      PROVE  Working' \subseteq T /\ \A n \in words' : \E x \in T : NameOf[x] = n
  BY <1>3, <1>5 DEF Take, Working
<1>6. ASSUME Throw
      PROVE  Working' \subseteq T /\ \A n \in words' : \E x \in T : NameOf[x] = n
  BY <1>3, <1>6 DEF Throw, Working
<1>7. CASE AppendInst
  BY <1>3, <1>7 DEF AppendInst, Working
<1>8. CASE PushQuotation
  <2> DEFINE d == Head(rest).c
             items == dict[cwid].items
  <2>1. /\ phase = "write" /\ rest # << >> /\ d \in Concrete /\ Head(rest).do = "quote"
        /\ GetWord(d, wordsToCompile)
        /\ UNCHANGED <<phase, cwid>>
    BY <1>8, RestTail, ItemType DEF PushQuotation, Writes
  <2>2. dict[cwid] # Undefined /\ items \in Seq(Items) /\ cwid \in T /\ cwid \in Concrete
    BY <1>3, <2>1 DEF Underway, TypeOK, Generic, Working
  <2>3. Len(buf) + 1 \in DOMAIN items /\ Head(rest) = items[Len(buf) + 1]
    <3>1. /\ Len(buf) + Len(rest) = Len(items) /\ buf \in Seq(Code)
          /\ \A i \in 1 .. Len(rest) : rest[i] = items[Len(buf) + i]
      BY <2>1 DEF Underway, TypeOK
    <3>2. Head(rest) = rest[1] /\ Len(rest) \in Nat \ {0}
      BY <2>1, RestTail
    <3> HIDE DEF items
    <3> QED BY <2>2, <3>1, <3>2
  <2>4. d \in T
    BY <1>2, <2>1, <2>2, <2>3 DEF Needs
  <2> HIDE DEF d
  <2>5. words' = words \cup {NameOf[d]} /\ wordsToCompile' \subseteq wordsToCompile \cup {d}
    <3>1. wordsToCompile \in SUBSET Concrete
      BY DEF TypeOK
    <3> QED BY <2>1, <3>1, GetWordFacts
  <2> QED BY <1>3, <2>1, <2>4, <2>5 DEF Working
<1>9. CASE Finish
  BY <1>3, <1>9 DEF Finish, Working
<1>10. CASE Return
  BY <1>3, <1>10 DEF Return, Working
<1>11. CASE UNCHANGED vars
  BY <1>3, <1>11 DEF vars, work, Working
<1> QED
  BY <1>4, <1>5, <1>6, <1>7, <1>8, <1>9, <1>10, <1>11 DEF Next, Loop, NotDefined, WriterThrows
-----------------------------------------------------------------------------
(* The theorems about the module.                                          *)

(* Nothing dangles: after any calls, finished or not, each quotation       *)
(* refers only to words of the module (pushQuotation of                    *)
(* SimpleInstructionBuffer).                                               *)
THEOREM ModuleClosed == Spec => []Closed
<1>1. Init => Closed
  BY DEF Init, Closed, Compiled, Refers
<1>2. Closed /\ Base /\ [Next]_vars => Closed'
  BY StepClosed
<1> QED BY <1>1, <1>2, BaseInvariant, PTL DEF Spec

(* Nothing is missing: while no call has thrown, a word without a          *)
(* quotation is one the running call has still to write (the loop of       *)
(* Compiler.compile).                                                      *)
THEOREM ModuleComplete == Spec => []Complete
<1>1. Init => Complete
  BY DEF Init, Complete
<1>2. Complete /\ Base /\ [Next]_vars => Complete'
  BY StepComplete
<1> QED BY <1>1, <1>2, BaseInvariant, PTL DEF Spec

(* Every quotation is, item by item, the writing of a concrete word of its *)
(* name (Compiler.scala:41-58).                                            *)
THEOREM ModuleFaithful == Spec => []Faithful
<1>1. Init => Faithful
  BY DEF Init, Faithful, Compiled
<1>2. Faithful /\ Base /\ [Next]_vars => Faithful'
  BY StepFaithful
<1> QED BY <1>1, <1>2, BaseInvariant, PTL DEF Spec

(* Nothing is superfluous: the module has only words that the main words   *)
(* of the calls need (getWord is the only place a word is added).          *)
THEOREM ModuleMinimal == Spec => []Minimal
<1>1. Init => Minimal /\ Needed
  BY DEF Init, Minimal, Needed, Working
<1>2. Minimal /\ Needed /\ Base /\ [Next]_vars => (Minimal /\ Needed)'
  BY StepMinimal
<1> QED BY <1>1, <1>2, BaseInvariant, PTL DEF Spec
=============================================================================
