------------------------ MODULE ProgramCodeGenProofs ------------------------
(***************************************************************************)
(* The code generator as the program builds it, with immediate stack code  *)
(* generators, implements the stacks of bytes of StackMachine, for every   *)
(* set of stacks, types and values and every capacity.  With caching       *)
(* generators it does so as long as one value at most is pending on each   *)
(* stack: with two, flush writes them in the wrong order.                  *)
(***************************************************************************)
EXTENDS ProgramCodeGen, SequenceTheorems, TLAPS

(* Nothing is ever pending in a cache. *)
NoCache == \A s \in Stacks : cache[s] = << >>

Inv == TypeOK /\ NoCache

LEMMA BytesType ==
  ASSUME NEW v \in Value, NEW n \in Nat
  PROVE  BytesOf(v, n) \in Seq(Byte) /\ Len(BytesOf(v, n)) = n
BY DEF BytesOf, Byte

(* Storing above the top extends what lies below the new top by the stored *)
(* bytes and changes nothing else there (ImmediateStackCodeGen::push).     *)
LEMMA WrittenAbove ==
  ASSUME NEW mem \in [1 .. Capacity -> Byte], NEW at \in 0 .. Capacity,
         NEW bytes \in Seq(Byte), at + Len(bytes) <= Capacity
  PROVE  /\ Written(mem, at, bytes) \in [1 .. Capacity -> Byte]
         /\ SubSeq(Written(mem, at, bytes), 1, at + Len(bytes)) = SubSeq(mem, 1, at) \o bytes
<1> DEFINE m == Written(mem, at, bytes)
           n == at + Len(bytes)
<1>1. /\ Len(bytes) \in Nat /\ Capacity \in Nat /\ at \in Nat /\ n \in Nat
      /\ \A i \in 1 .. Len(bytes) : bytes[i] \in Byte
  BY LenProperties, ElementOfSeq, CodeGenAssumption
<1>2. ASSUME NEW i \in 1 .. Capacity
      PROVE  /\ m[i] = IF i \in at + 1 .. n THEN bytes[i - at] ELSE mem[i]
             /\ m[i] \in Byte
  <2>1. m[i] = IF i \in at + 1 .. n THEN bytes[i - at] ELSE mem[i]
    BY DEF Written
  <2>2. i \in at + 1 .. n => i - at \in 1 .. Len(bytes) BY <1>1
  <2> QED BY <1>1, <2>1, <2>2
<1>3. m \in [1 .. Capacity -> Byte] BY <1>2 DEF Written
<1>4. /\ SubSeq(m, 1, n) \in Seq(Byte) /\ Len(SubSeq(m, 1, n)) = n
      /\ \A i \in 1 .. n : SubSeq(m, 1, n)[i] = m[i]
  <2>1. \A i \in 1 .. n : m[i] \in Byte BY <1>1, <1>2
  <2> HIDE DEF m, n
  <2> QED BY <1>1, <2>1, SubSeqProperties
<1>5. /\ SubSeq(mem, 1, at) \in Seq(Byte) /\ Len(SubSeq(mem, 1, at)) = at
      /\ \A i \in 1 .. at : SubSeq(mem, 1, at)[i] = mem[i]
  <2>1. \A i \in 1 .. at : mem[i] \in Byte BY <1>1
  <2> QED BY <1>1, <2>1, SubSeqProperties
<1> DEFINE t == SubSeq(mem, 1, at) \o bytes
<1>6. /\ t \in Seq(Byte) /\ Len(t) = n
      /\ \A i \in 1 .. n : t[i] = IF i <= at THEN SubSeq(mem, 1, at)[i] ELSE bytes[i - at]
  BY <1>1, <1>5, ConcatProperties
<1>7. \A i \in 1 .. n : SubSeq(m, 1, n)[i] = t[i]
  <2>1. ASSUME NEW i \in 1 .. n PROVE SubSeq(m, 1, n)[i] = t[i]
    <3>1. i \in 1 .. Capacity BY <1>1
    <3>2. SubSeq(m, 1, n)[i] = IF i \in at + 1 .. n THEN bytes[i - at] ELSE mem[i]
      BY <1>2, <1>4, <3>1
    <3>3. CASE i <= at
      <4>1. t[i] = mem[i] BY <1>1, <1>5, <1>6, <3>3
      <4> QED BY <1>1, <3>2, <3>3, <4>1
    <3>4. CASE ~(i <= at)
      <4>1. t[i] = bytes[i - at] BY <1>6, <3>4
      <4> QED BY <1>1, <3>2, <3>4, <4>1
    <3> QED BY <3>3, <3>4
  <2> QED BY <2>1
<1>8. SubSeq(m, 1, n) = t
  <2> HIDE DEF m, n, t
  <2> QED BY <1>4, <1>6, <1>7, SeqEqual
<1> QED BY <1>3, <1>8

(* Popping n bytes leaves what lies below them and yields the rest         *)
(* (ImmediateStackCodeGen::pop).                                           *)
LEMMA LoadedTop ==
  ASSUME NEW mem \in [1 .. Capacity -> Byte], NEW at \in 0 .. Capacity,
         NEW n \in Nat, n <= at
  PROVE  LET below == SubSeq(mem, 1, at)
         IN  /\ below \in Seq(Byte) /\ Len(below) = at
             /\ BelowTop(below, n) = SubSeq(mem, 1, at - n)
             /\ TopBytes(below, n) = SubSeq(mem, at - n + 1, at)
             /\ SubSeq(mem, at - n + 1, at) \in Seq(Byte)
<1> DEFINE below == SubSeq(mem, 1, at)
<1>1. Capacity \in Nat /\ at \in Nat /\ \A i \in 1 .. at : mem[i] \in Byte
  BY CodeGenAssumption
<1>2. /\ below \in Seq(Byte) /\ Len(below) = at
      /\ \A i \in 1 .. at : below[i] = mem[i]
  BY <1>1, SubSeqProperties
<1>3. ASSUME NEW j \in Int, NEW k \in Int, 1 <= j, k <= at
      PROVE  SubSeq(below, j, k) = SubSeq(mem, j, k) /\ SubSeq(mem, j, k) \in Seq(Byte)
  <2> HIDE DEF below
  <2>1. \A i \in j .. k : below[i] \in Byte /\ mem[i] \in Byte /\ below[i] = mem[i]
    BY <1>1, <1>2, <1>3
  <2>2. /\ SubSeq(below, j, k) \in Seq(Byte) /\ SubSeq(mem, j, k) \in Seq(Byte)
        /\ Len(SubSeq(below, j, k)) = Len(SubSeq(mem, j, k))
        /\ Len(SubSeq(below, j, k)) = IF j <= k THEN k - j + 1 ELSE 0
        /\ \A i \in 1 .. k - j + 1 : SubSeq(below, j, k)[i] = below[j + i - 1]
        /\ \A i \in 1 .. k - j + 1 : SubSeq(mem, j, k)[i] = mem[j + i - 1]
    BY <2>1, SubSeqProperties
  <2>3. \A i \in 1 .. k - j + 1 : j + i - 1 \in j .. k OBVIOUS
  <2>4. \A i \in 1 .. Len(SubSeq(below, j, k)) : SubSeq(below, j, k)[i] = SubSeq(mem, j, k)[i]
    BY <2>1, <2>2, <2>3
  <2> QED BY <2>2, <2>4, SeqEqual
<1> HIDE DEF below
<1>4. BelowTop(below, n) = SubSeq(mem, 1, at - n)
  BY <1>1, <1>2, <1>3 DEF BelowTop
<1>5. /\ TopBytes(below, n) = SubSeq(mem, at - n + 1, at)
      /\ SubSeq(mem, at - n + 1, at) \in Seq(Byte)
  BY <1>1, <1>2, <1>3 DEF TopBytes
<1> QED BY <1>2, <1>4, <1>5 DEF below

-----------------------------------------------------------------------------
(* With an empty cache the program sees the memory below the top pointer. *)
LEMMA VisibleMemory ==
  ASSUME NoCache, NEW s \in Stacks
  PROVE  Visible(s) = SubSeq(memory[s], 1, top[s])
BY DEF NoCache, Visible

LEMMA InitInv == Init => Inv
<1> SUFFICES ASSUME Init PROVE Inv OBVIOUS
<1>1. memory \in [Stacks -> [1 .. Capacity -> Byte]]
  BY CodeGenAssumption DEF Init
<1>2. top \in [Stacks -> 0 .. Capacity] BY CodeGenAssumption DEF Init
<1> QED BY <1>1, <1>2, EmptySeq DEF Inv, TypeOK, NoCache, Init

(* The steps of immediate generators, each with what it does to memory. *)
LEMMA PushStep ==
  ASSUME Class = "immediate", Inv, NEW s \in Stacks, NEW t \in Types, NEW v \in Values,
         PushImmediate(s, v, t)
  PROVE  Inv' /\ Machine!Push(s, v, t)
<1> DEFINE bytes == BytesOf(v, SizeOf[t])
<1>1. bytes \in Seq(Byte) /\ Len(bytes) = SizeOf[t] /\ SizeOf[t] \in Nat
  BY BytesType, CodeGenAssumption
<1>2. /\ memory[s] \in [1 .. Capacity -> Byte] /\ top[s] \in 0 .. Capacity /\ Capacity \in Nat
      /\ \A r \in Stacks : memory[r] \in [1 .. Capacity -> Byte] /\ top[r] \in 0 .. Capacity
  BY CodeGenAssumption DEF Inv, TypeOK
<1>3. /\ top[s] + Len(bytes) <= Capacity
      /\ memory' = [memory EXCEPT ![s] = Written(@, top[s], bytes)]
      /\ top' = [top EXCEPT ![s] = @ + Len(bytes)]
      /\ cache' = cache /\ popped' = popped
  BY DEF PushImmediate, Store
<1> HIDE DEF bytes
<1>4. /\ Written(memory[s], top[s], bytes) \in [1 .. Capacity -> Byte]
      /\ SubSeq(Written(memory[s], top[s], bytes), 1, top[s] + Len(bytes))
           = SubSeq(memory[s], 1, top[s]) \o bytes
  BY <1>1, <1>2, <1>3, WrittenAbove
<1>5. field' \in [Stacks -> {"null", Class}]
  BY DEF PushImmediate, GetStack, Inv, TypeOK
<1>6. /\ memory'[s] = Written(memory[s], top[s], bytes)
      /\ top'[s] = top[s] + Len(bytes) /\ top'[s] \in 0 .. Capacity
      /\ \A r \in Stacks \ {s} : memory'[r] = memory[r] /\ top'[r] = top[r]
  BY <1>1, <1>2, <1>3 DEF Inv, TypeOK
<1>7. /\ memory' \in [Stacks -> [1 .. Capacity -> Byte]]
      /\ top' \in [Stacks -> 0 .. Capacity]
  BY <1>2, <1>3, <1>4, <1>6 DEF Inv, TypeOK
<1>8. Inv' BY <1>3, <1>5, <1>7 DEF Inv, TypeOK, NoCache
<1>9. /\ \A r \in Stacks : Visible(r) = SubSeq(memory[r], 1, top[r])
      /\ \A r \in Stacks : Visible(r)' = SubSeq(memory'[r], 1, top'[r])
  BY <1>8 DEF Inv, NoCache, Visible
<1>10. Len(Visible(s)) = top[s]
  BY <1>2, <1>9, LoadedTop
<1>11. /\ Visible(s)' = PushBytes(Visible(s), bytes)
       /\ \A r \in Stacks \ {s} : Visible(r)' = Visible(r)
  BY <1>4, <1>6, <1>9 DEF PushBytes
<1>12. [r \in Stacks |-> Visible(r)]'
         = [[r \in Stacks |-> Visible(r)] EXCEPT ![s] = PushBytes(@, bytes)]
  BY <1>11
<1>13. [r \in Stacks |-> Visible(r)][s] = Visible(s) OBVIOUS
<1>14. Len([r \in Stacks |-> Visible(r)][s]) + SizeOf[t] <= Capacity
  BY <1>1, <1>3, <1>10, <1>13
<1>15. Machine!Push(s, v, t)
  BY <1>3, <1>12, <1>14 DEF Machine!Push, Machine!PushBytes, Machine!BytesOf, PushBytes, BytesOf, bytes
<1> QED BY <1>8, <1>15

LEMMA PopStep ==
  ASSUME Class = "immediate", Inv, NEW s \in Stacks, NEW t \in Types, PopImmediate(s, t)
  PROVE  Inv' /\ Machine!Pop(s, t)
<1> DEFINE n == SizeOf[t]
<1>1. n \in Nat BY CodeGenAssumption
<1>2. /\ memory[s] \in [1 .. Capacity -> Byte] /\ top[s] \in 0 .. Capacity /\ Capacity \in Nat
  BY CodeGenAssumption DEF Inv, TypeOK
<1>3. /\ n <= top[s]
      /\ top' = [top EXCEPT ![s] = @ - n]
      /\ popped' = SubSeq(memory[s], top[s] - n + 1, top[s])
      /\ memory' = memory /\ cache' = cache
  BY DEF PopImmediate, Load
<1> HIDE DEF n
<1>4. /\ Len(SubSeq(memory[s], 1, top[s])) = top[s]
      /\ BelowTop(SubSeq(memory[s], 1, top[s]), n) = SubSeq(memory[s], 1, top[s] - n)
      /\ TopBytes(SubSeq(memory[s], 1, top[s]), n) = SubSeq(memory[s], top[s] - n + 1, top[s])
      /\ SubSeq(memory[s], top[s] - n + 1, top[s]) \in Seq(Byte)
  BY <1>1, <1>2, <1>3, LoadedTop
<1>5. field' \in [Stacks -> {"null", Class}]
  BY DEF PopImmediate, GetStack, Inv, TypeOK
<1>6. /\ top' \in [Stacks -> 0 .. Capacity] /\ top'[s] = top[s] - n
      /\ \A r \in Stacks \ {s} : top'[r] = top[r]
  BY <1>1, <1>2, <1>3 DEF Inv, TypeOK
<1>7. Inv' BY <1>3, <1>4, <1>5, <1>6 DEF Inv, TypeOK, NoCache
<1>8. /\ \A r \in Stacks : Visible(r) = SubSeq(memory[r], 1, top[r])
      /\ \A r \in Stacks : Visible(r)' = SubSeq(memory'[r], 1, top'[r])
  BY <1>7 DEF Inv, NoCache, Visible
<1>9. /\ Visible(s)' = BelowTop(Visible(s), n)
      /\ \A r \in Stacks \ {s} : Visible(r)' = Visible(r)
  BY <1>3, <1>4, <1>6, <1>8
<1>10. [r \in Stacks |-> Visible(r)]'
         = [[r \in Stacks |-> Visible(r)] EXCEPT ![s] = BelowTop(@, n)]
  BY <1>9
<1>11. [r \in Stacks |-> Visible(r)][s] = Visible(s) OBVIOUS
<1>12. n <= Len(Visible(s)) /\ popped' = TopBytes(Visible(s), n)
  BY <1>3, <1>4, <1>8
<1>13. Machine!Pop(s, t)
  BY <1>10, <1>11, <1>12 DEF Machine!Pop, Machine!BelowTop, Machine!TopBytes, BelowTop, TopBytes, n
<1> QED BY <1>7, <1>13

LEMMA FlushStep ==
  ASSUME Class = "immediate", Inv, Flush
  PROVE  Inv' /\ memory' = memory /\ top' = top /\ popped' = popped
<1>1. \A s \in Stacks : field[s] # "caching" BY DEF Inv, TypeOK
<1>2. \A s \in Stacks : Flushed(s) = << >> BY <1>1 DEF Flushed
<1>3. Capacity \in Nat /\ memory \in [Stacks -> [1 .. Capacity -> Byte]]
      /\ top \in [Stacks -> 0 .. Capacity]
  BY CodeGenAssumption DEF Inv, TypeOK
<1>4. \A s \in Stacks : Written(memory[s], top[s], << >>) = memory[s]
  <2>1. ASSUME NEW s \in Stacks PROVE Written(memory[s], top[s], << >>) = memory[s]
    <3>1. \A i \in 1 .. Capacity : ~(i \in top[s] + 1 .. top[s] + Len(<< >>))
      BY <1>3, EmptySeq
    <3>2. Written(memory[s], top[s], << >>) = [i \in 1 .. Capacity |-> memory[s][i]]
      BY <3>1 DEF Written
    <3> QED BY <1>3, <3>2
  <2> QED BY <2>1
<1>5. memory' = memory
  <2>1. memory' = [s \in Stacks |-> memory[s]] BY <1>2, <1>4 DEF Flush
  <2> QED BY <1>3, <2>1
<1>6. top' = top
  <2>1. \A s \in Stacks : top[s] + Len(Flushed(s)) = top[s] BY <1>2, <1>3, EmptySeq
  <2>2. top' = [s \in Stacks |-> top[s]] BY <2>1 DEF Flush
  <2> QED BY <1>3, <2>2
<1>7. /\ field' \in [Stacks -> {"null", Class}]
      /\ cache' \in [Stacks -> Seq(Seq(Byte))] /\ \A s \in Stacks : cache'[s] = << >>
      /\ popped' = popped
  BY EmptySeq DEF Flush
<1> QED BY <1>5, <1>6, <1>7 DEF Inv, TypeOK, NoCache

(* The class getStack builds never sees the actions of the other. *)
LEMMA OnlyImmediate ==
  ASSUME Class = "immediate", Inv, Next
  PROVE  \/ \E s \in Stacks, t \in Types, v \in Values : PushImmediate(s, v, t)
         \/ \E s \in Stacks, t \in Types : PopImmediate(s, t)
         \/ Flush
<1>1. \A s \in Stacks, t \in Types, v \in Values : ~PushCaching(s, v, t)
  BY DEF PushCaching, GetStack, Inv, TypeOK
<1>2. \A s \in Stacks, t \in Types : ~PopCached(s, t)
  BY DEF PopCached, Inv, NoCache
<1> QED BY <1>1, <1>2 DEF Next

(* Refinement: with the ImmediateStackCodeGen that getStack builds, code   *)
(* generated through ProgramVMCodeGenInterface works on the memory of      *)
(* VMState as on three stacks of bytes, whatever is pushed, popped and     *)
(* flushed in whatever order.                                              *)
THEOREM ImmediateImplements ==
  ASSUME Class = "immediate"
  PROVE  Spec => Implements
<1>1. Init => Inv /\ Machine!Init
  <2> SUFFICES ASSUME Init PROVE Inv /\ Machine!Init OBVIOUS
  <2>1. Inv BY InitInv
  <2>2. \A s \in Stacks : Visible(s) = << >>
    <3>1. SUFFICES ASSUME NEW s \in Stacks PROVE Visible(s) = << >>
      OBVIOUS
    <3>2. Visible(s) = SubSeq(memory[s], 1, 0) BY DEF Visible, Init
    <3> QED BY <3>2, SubSeqEmpty
  <2> QED BY <2>1, <2>2 DEF Machine!Init, Init
<1>2. Inv /\ [Next]_vars => Inv' /\ [Machine!Next]_<<[s \in Stacks |-> Visible(s)], popped>>
  <2> SUFFICES ASSUME Inv, [Next]_vars
               PROVE  Inv' /\ [Machine!Next]_<<[s \in Stacks |-> Visible(s)], popped>>
    OBVIOUS
  <2>1. ASSUME NEW s \in Stacks, NEW t \in Types, NEW v \in Values, PushImmediate(s, v, t)
        PROVE  Inv' /\ Machine!Next
    BY <2>1, PushStep DEF Machine!Next
  <2>2. ASSUME NEW s \in Stacks, NEW t \in Types, PopImmediate(s, t)
        PROVE  Inv' /\ Machine!Next
    BY <2>2, PopStep DEF Machine!Next
  <2>3. ASSUME Inv', memory' = memory, top' = top, popped' = popped
        PROVE  <<[s \in Stacks |-> Visible(s)], popped>>' = <<[s \in Stacks |-> Visible(s)], popped>>
    <3>1. \A s \in Stacks : Visible(s)' = Visible(s)
      BY <2>3 DEF Inv, NoCache, Visible
    <3> QED BY <2>3, <3>1
  <2>4. CASE Flush BY <2>3, <2>4, FlushStep
  <2>5. CASE UNCHANGED vars
    <3>1. Inv' BY <2>5 DEF vars, Inv, TypeOK, NoCache
    <3> QED BY <2>3, <2>5, <3>1 DEF vars
  <2>6. CASE Next BY <2>1, <2>2, <2>4, <2>6, OnlyImmediate
  <2> QED BY <2>5, <2>6
<1> QED BY <1>1, <1>2, PTL DEF Spec, Implements, Machine!Spec
-----------------------------------------------------------------------------
(* The other class, as long as no more than one value is pending.          *)
LEMMA JoinedFew ==
  /\ Joined(<< >>) = << >>
  /\ \A b \in Seq(Byte) : Joined(<<b>>) = b
<1>1. Joined(<< >>) = << >>
  <2> DEFINE f == [n \in 0 .. 0 |-> << >>]
             Is(j) == j = [n \in 0 .. 0 |-> IF n = 0 THEN << >> ELSE j[n - 1] \o << >>[n]]
  <2>1. Is(f) OBVIOUS
  <2>2. Is(CHOOSE j : Is(j)) BY <2>1
  <2>3. ASSUME NEW j, Is(j) PROVE j[0] = << >> BY <2>3
  <2>4. Joined(<< >>) = (CHOOSE j : Is(j))[0]
    <3>1. Len(<< >>) = 0 BY EmptySeq
    <3> QED BY <3>1 DEF Joined
  <2> HIDE DEF Is
  <2> QED BY <2>2, <2>3, <2>4
<1>2. ASSUME NEW b \in Seq(Byte) PROVE Joined(<<b>>) = b
  <2> DEFINE f == [n \in 0 .. 1 |-> IF n = 0 THEN << >> ELSE b]
             Is(j) == j = [n \in 0 .. 1 |-> IF n = 0 THEN << >> ELSE j[n - 1] \o <<b>>[n]]
  <2>1. << >> \o b = b BY ConcatEmptySeq
  <2>2. Is(f)
    <3>1. f[0] = << >> /\ f[1] = b OBVIOUS
    <3>2. ASSUME NEW n \in 0 .. 1
          PROVE  f[n] = IF n = 0 THEN << >> ELSE f[n - 1] \o <<b>>[n]
      <4>1. CASE n = 0 BY <4>1
      <4>2. CASE n = 1 BY <2>1, <3>1, <4>2
      <4> QED BY <4>1, <4>2
    <3> QED BY <3>2
  <2>3. Is(CHOOSE j : Is(j)) BY <2>2
  <2>4. ASSUME NEW j, Is(j) PROVE j[1] = b
    <3>1. j[0] = << >> /\ j[1] = j[0] \o <<b>>[1] BY <2>4
    <3> QED BY <2>1, <3>1
  <2>5. Joined(<<b>>) = (CHOOSE j : Is(j))[1] BY DEF Joined
  <2> HIDE DEF Is
  <2> QED BY <2>3, <2>4, <2>5
<1> QED BY <1>1, <1>2

(* A generator that holds a value back is in its field, and its stack has  *)
(* room for the value.                                                     *)
Pending(s) ==
  /\ field[s] = "caching"
  /\ \E b \in Seq(Byte) :
       /\ cache[s] = <<b>> /\ top[s] + Len(b) <= Capacity
       /\ \E t \in Types : Len(b) = SizeOf[t]
CInv == TypeOK /\ \A s \in Stacks : cache[s] = << >> \/ Pending(s)

LEMMA VisibleFew ==
  ASSUME CInv, NEW s \in Stacks
  PROVE  /\ cache[s] = << >> => Visible(s) = SubSeq(memory[s], 1, top[s])
         /\ \A b \in Seq(Byte) : cache[s] = <<b>> => Visible(s) = SubSeq(memory[s], 1, top[s]) \o b
<1>1. ASSUME NEW b \in Seq(Byte), cache[s] = <<b>>
      PROVE  Visible(s) = SubSeq(memory[s], 1, top[s]) \o b
  <2>1. <<b>> # << >> OBVIOUS
  <2>2. Joined(<<b>>) = b BY JoinedFew
  <2> QED BY <1>1, <2>1, <2>2 DEF Visible
<1> QED BY <1>1 DEF Visible

(* What a flush writes is what the program sees above the top pointer.     *)
LEMMA FlushedFew ==
  ASSUME CInv, NEW s \in Stacks
  PROVE  /\ cache[s] = << >> => Flushed(s) = << >>
         /\ \A b \in Seq(Byte) : cache[s] = <<b>> => Flushed(s) = b
<1>1. Backwards(<< >>) = << >>
  <2>1. Len(<< >>) = 0 BY EmptySeq
  <2> QED BY <2>1 DEF Backwards
<1>2. ASSUME NEW b \in Seq(Byte) PROVE Backwards(<<b>>) = <<b>>
  <2>1. Len(<<b>>) = 1 /\ <<b>>[1] = b /\ <<b>> = [i \in 1 .. 1 |-> b] OBVIOUS
  <2>2. \A i \in 1 .. 1 : <<b>>[1 + 1 - i] = b OBVIOUS
  <2> QED BY <2>1, <2>2 DEF Backwards
<1>3. ASSUME cache[s] = << >> PROVE Flushed(s) = << >>
  BY <1>1, <1>3, JoinedFew DEF Flushed
<1>4. ASSUME NEW b \in Seq(Byte), cache[s] = <<b>> PROVE Flushed(s) = b
  <2>1. field[s] = "caching" BY <1>4 DEF CInv, Pending
  <2>2. Joined(<<b>>) = b BY JoinedFew
  <2> QED BY <1>2, <1>4, <2>1, <2>2 DEF Flushed
<1> QED BY <1>3, <1>4

(* Where a stack, its field and its cache are left alone, nothing changes. *)
LEMMA SameStack ==
  ASSUME CInv, NEW s \in Stacks, memory'[s] = memory[s], top'[s] = top[s], cache'[s] = cache[s]
  PROVE  Visible(s)' = Visible(s)
BY DEF Visible, Joined

LEMMA InitCInv == ASSUME Init PROVE CInv
BY InitInv DEF Inv, NoCache, CInv

(* The field of a stack that is used has a caching generator.              *)
LEMMA FieldSet ==
  ASSUME Class = "caching", CInv, NEW s \in Stacks, GetStack(s)
  PROVE  /\ field' \in [Stacks -> {"null", Class}] /\ field'[s] = "caching"
         /\ \A r \in Stacks : field[r] = "caching" => field'[r] = "caching"
BY DEF GetStack, CInv, TypeOK

LEMMA PushCachingStep ==
  ASSUME Class = "caching", MaxCache <= 1, CInv,
         NEW s \in Stacks, NEW t \in Types, NEW v \in Values, PushCaching(s, v, t)
  PROVE  CInv' /\ Machine!Push(s, v, t)
<1> DEFINE b == BytesOf(v, SizeOf[t])
<1>1. b \in Seq(Byte) /\ Len(b) = SizeOf[t] /\ SizeOf[t] \in Nat
  BY BytesType, CodeGenAssumption
<1>2. cache[s] = << >>
  <2>1. MaxCache \in Nat /\ Len(cache[s]) < MaxCache BY CodeGenAssumption DEF PushCaching
  <2>2. cache[s] \in Seq(Seq(Byte)) BY DEF CInv, TypeOK
  <2>3. Len(cache[s]) = 0 BY <2>1, <2>2
  <2> QED BY <2>2, <2>3, EmptySeq
<1>3. /\ GetStack(s) /\ memory' = memory /\ top' = top /\ popped' = popped
      /\ cache' = [cache EXCEPT ![s] = Append(@, b)]
      /\ top[s] + Len(Joined(cache[s])) + SizeOf[t] <= Capacity
  BY DEF PushCaching
<1> HIDE DEF b
<1>4. Append(<< >>, b) = <<b>> OBVIOUS
<1>5. cache \in [Stacks -> Seq(Seq(Byte))] BY DEF CInv, TypeOK
<1>6. /\ cache' \in [Stacks -> Seq(Seq(Byte))] /\ cache'[s] = <<b>>
      /\ \A r \in Stacks \ {s} : cache'[r] = cache[r]
  BY <1>1, <1>2, <1>3, <1>4, <1>5
<1>7. top[s] \in Nat /\ Capacity \in Nat BY CodeGenAssumption DEF CInv, TypeOK
<1>8. top[s] + SizeOf[t] <= Capacity
  <2>1. Len(Joined(cache[s])) = 0 BY <1>2, JoinedFew, EmptySeq
  <2> QED BY <1>1, <1>3, <1>7, <2>1
<1>9. /\ field' \in [Stacks -> {"null", Class}] /\ field'[s] = "caching"
      /\ \A r \in Stacks : field[r] = "caching" => field'[r] = "caching"
  BY <1>3, FieldSet
<1>10. CInv'
  <2>1. TypeOK' BY <1>3, <1>6, <1>9 DEF CInv, TypeOK
  <2>2. ASSUME NEW r \in Stacks PROVE cache'[r] = << >> \/ Pending(r)'
    <3>1. CASE r = s BY <1>1, <1>3, <1>6, <1>8, <1>9, <3>1 DEF Pending
    <3>2. CASE r # s BY <1>3, <1>6, <1>9, <3>2 DEF CInv, Pending
    <3> QED BY <3>1, <3>2
  <2> QED BY <2>1, <2>2 DEF CInv
<1>11. Visible(s) = SubSeq(memory[s], 1, top[s]) BY <1>2, VisibleFew
<1>12. Visible(s)' = SubSeq(memory[s], 1, top[s]) \o b
  <2>1. <<b>> # << >> /\ Joined(<<b>>) = b BY <1>1, JoinedFew
  <2>2. Visible(s)' = IF cache'[s] = << >> THEN SubSeq(memory'[s], 1, top'[s])
                      ELSE SubSeq(memory'[s], 1, top'[s]) \o Joined(cache'[s])
    BY DEF Visible, Joined
  <2> QED BY <1>3, <1>6, <2>1, <2>2
<1>13. \A r \in Stacks \ {s} : Visible(r)' = Visible(r) BY <1>3, <1>6, SameStack
<1>14. [r \in Stacks |-> Visible(r)]' = [[r \in Stacks |-> Visible(r)] EXCEPT ![s] = PushBytes(@, b)]
  BY <1>11, <1>12, <1>13 DEF PushBytes
<1>15. [r \in Stacks |-> Visible(r)][s] = Visible(s) OBVIOUS
<1>16. Len(Visible(s)) = top[s]
  <2>1. memory[s] \in [1 .. Capacity -> Byte] /\ top[s] \in 0 .. Capacity BY DEF CInv, TypeOK
  <2>2. 0 \in Nat /\ 0 <= top[s] BY <1>7
  <2> QED BY <1>11, <2>1, <2>2, LoadedTop
<1>17. Machine!Push(s, v, t)
  <2>1. Len([r \in Stacks |-> Visible(r)][s]) + SizeOf[t] <= Capacity BY <1>8, <1>15, <1>16
  <2> QED BY <1>3, <1>14, <2>1 DEF Machine!Push, Machine!PushBytes, Machine!BytesOf, PushBytes, BytesOf, b
<1> QED BY <1>10, <1>17

(* What was put on top can be taken off.                                   *)
LEMMA Taken ==
  ASSUME NEW a \in Seq(Byte), NEW b \in Seq(Byte)
  PROVE  /\ Len(a \o b) = Len(a) + Len(b)
         /\ BelowTop(a \o b, Len(b)) = a /\ TopBytes(a \o b, Len(b)) = b
<1> DEFINE c == a \o b
           m == Len(a)
           n == Len(b)
<1>1. m \in Nat /\ n \in Nat OBVIOUS
<1>2. /\ c \in Seq(Byte) /\ Len(c) = m + n
      /\ \A i \in 1 .. m + n : c[i] = IF i <= m THEN a[i] ELSE b[i - m]
  BY ConcatProperties
<1>3. /\ a = SubSeq(c, 1, m) /\ b = SubSeq(c, m + 1, m + n)
  <2> HIDE DEF c
  <2>1. \A i \in 1 .. m + n : c[i] \in Byte BY <1>1, <1>2
  <2>2. /\ SubSeq(c, 1, m) \in Seq(Byte) /\ Len(SubSeq(c, 1, m)) = m
        /\ \A i \in 1 .. m : SubSeq(c, 1, m)[i] = c[i]
    <3>1. \A i \in 1 .. m : c[i] \in Byte BY <1>1, <2>1
    <3> HIDE DEF m
    <3> QED BY <1>1, <3>1, SubSeqProperties
  <2>3. /\ SubSeq(c, m + 1, m + n) \in Seq(Byte) /\ Len(SubSeq(c, m + 1, m + n)) = n
        /\ \A i \in 1 .. n : SubSeq(c, m + 1, m + n)[i] = c[m + i]
    <3>1. \A i \in m + 1 .. m + n : c[i] \in Byte BY <1>1, <2>1
    <3> HIDE DEF m, n
    <3>2. /\ SubSeq(c, m + 1, m + n) \in Seq(Byte)
          /\ Len(SubSeq(c, m + 1, m + n)) = IF m + 1 <= m + n THEN m + n - (m + 1) + 1 ELSE 0
          /\ \A i \in 1 .. m + n - (m + 1) + 1 : SubSeq(c, m + 1, m + n)[i] = c[m + 1 + i - 1]
      BY <1>1, <3>1, SubSeqProperties
    <3>3. m + n - (m + 1) + 1 = n BY <1>1
    <3>4. \A i \in 1 .. n : m + 1 + i - 1 = m + i BY <1>1
    <3> QED BY <1>1, <3>2, <3>3, <3>4
  <2>4. \A i \in 1 .. m : SubSeq(c, 1, m)[i] = a[i] BY <1>1, <1>2, <2>2
  <2>5. \A i \in 1 .. n : SubSeq(c, m + 1, m + n)[i] = b[i]
    <3>1. ASSUME NEW i \in 1 .. n PROVE c[m + i] = b[i]
      <4>1. m + i \in 1 .. m + n /\ ~(m + i <= m) /\ m + i - m = i BY <1>1
      <4> QED BY <1>2, <4>1
    <3> QED BY <2>3, <3>1
  <2>6. a = SubSeq(c, 1, m) BY <2>2, <2>4, SeqEqual
  <2>7. b = SubSeq(c, m + 1, m + n) BY <2>3, <2>5, SeqEqual
  <2> QED BY <2>6, <2>7
<1>4. m + n - n = m /\ m + n - n + 1 = m + 1 BY <1>1
<1>5. BelowTop(c, n) = SubSeq(c, 1, m) /\ TopBytes(c, n) = SubSeq(c, m + 1, m + n)
  BY <1>2, <1>4 DEF BelowTop, TopBytes
<1> QED BY <1>2, <1>3, <1>5

LEMMA PopCachedStep ==
  ASSUME Class = "caching", CInv, NEW s \in Stacks, NEW t \in Types, PopCached(s, t)
  PROVE  CInv' /\ \E u \in Types : Machine!Pop(s, u)
<1>1. /\ GetStack(s) /\ memory' = memory /\ top' = top /\ cache[s] # << >>
      /\ popped' = cache[s][Len(cache[s])]
      /\ cache' = [cache EXCEPT ![s] = SubSeq(@, 1, Len(@) - 1)]
  BY DEF PopCached
<1>2. PICK b \in Seq(Byte) :
        cache[s] = <<b>> /\ top[s] + Len(b) <= Capacity /\ \E t1 \in Types : Len(b) = SizeOf[t1]
  BY <1>1 DEF CInv, Pending
<1>3. PICK u \in Types : Len(b) = SizeOf[u] BY <1>2
<1>4. Len(<<b>>) = 1 /\ <<b>>[1] = b /\ SubSeq(<<b>>, 1, 0) = << >> BY SubSeqEmpty
<1>5. cache \in [Stacks -> Seq(Seq(Byte))] /\ popped \in Seq(Byte) BY DEF CInv, TypeOK
<1>6. /\ popped' = b
      /\ cache' \in [Stacks -> Seq(Seq(Byte))] /\ cache'[s] = << >>
      /\ \A r \in Stacks \ {s} : cache'[r] = cache[r]
  BY <1>1, <1>2, <1>4, <1>5, EmptySeq
<1>7. /\ field' \in [Stacks -> {"null", Class}]
      /\ \A r \in Stacks : field[r] = "caching" => field'[r] = "caching"
  BY <1>1, FieldSet
<1>8. CInv'
  <2>1. TypeOK' BY <1>1, <1>6, <1>7 DEF CInv, TypeOK
  <2>2. ASSUME NEW r \in Stacks PROVE cache'[r] = << >> \/ Pending(r)'
    <3>1. CASE r = s BY <1>6, <3>1
    <3>2. CASE r # s BY <1>1, <1>6, <1>7, <3>2 DEF CInv, Pending
    <3> QED BY <3>1, <3>2
  <2> QED BY <2>1, <2>2 DEF CInv
<1> DEFINE a == SubSeq(memory[s], 1, top[s])
<1>9. a \in Seq(Byte) /\ Len(a) = top[s] /\ Len(b) \in Nat
  <2>1. memory[s] \in [1 .. Capacity -> Byte] /\ top[s] \in 0 .. Capacity /\ Capacity \in Nat
    BY CodeGenAssumption DEF CInv, TypeOK
  <2>2. 0 \in Nat /\ 0 <= top[s] BY <2>1
  <2> QED BY <2>1, <2>2, LoadedTop
<1>10. Visible(s) = a \o b BY <1>2, VisibleFew
<1>11. Visible(s)' = a BY <1>1, <1>6 DEF Visible
<1>12. \A r \in Stacks \ {s} : Visible(r)' = Visible(r) BY <1>1, <1>6, SameStack
<1> HIDE DEF a
<1>13. /\ Len(a \o b) = Len(a) + Len(b) /\ BelowTop(a \o b, Len(b)) = a
       /\ TopBytes(a \o b, Len(b)) = b
  BY <1>9, Taken
<1>14. [r \in Stacks |-> Visible(r)]'
         = [[r \in Stacks |-> Visible(r)] EXCEPT ![s] = BelowTop(@, SizeOf[u])]
  BY <1>3, <1>10, <1>11, <1>12, <1>13
<1>15. [r \in Stacks |-> Visible(r)][s] = Visible(s) OBVIOUS
<1>16. SizeOf[u] <= Len(Visible(s)) /\ popped' = TopBytes(Visible(s), SizeOf[u])
  <2>1. Len(a) \in Nat BY <1>9
  <2> QED BY <1>3, <1>6, <1>9, <1>10, <1>13, <2>1
<1>17. Machine!Pop(s, u)
  BY <1>14, <1>15, <1>16 DEF Machine!Pop, Machine!BelowTop, Machine!TopBytes, BelowTop, TopBytes
<1> QED BY <1>8, <1>17

(* With nothing pending it pops from memory, as the other class does.      *)
LEMMA PopDelegateStep ==
  ASSUME Class = "caching", CInv, NEW s \in Stacks, NEW t \in Types, PopImmediate(s, t)
  PROVE  CInv' /\ Machine!Pop(s, t)
<1> DEFINE n == SizeOf[t]
<1>1. n \in Nat BY CodeGenAssumption
<1>2. memory[s] \in [1 .. Capacity -> Byte] /\ top[s] \in 0 .. Capacity /\ Capacity \in Nat
  BY CodeGenAssumption DEF CInv, TypeOK
<1>3. /\ GetStack(s) /\ cache[s] = << >> /\ n <= top[s]
      /\ top' = [top EXCEPT ![s] = @ - n]
      /\ popped' = SubSeq(memory[s], top[s] - n + 1, top[s])
      /\ memory' = memory /\ cache' = cache
  BY DEF PopImmediate, Load
<1> HIDE DEF n
<1>4. /\ Len(SubSeq(memory[s], 1, top[s])) = top[s]
      /\ BelowTop(SubSeq(memory[s], 1, top[s]), n) = SubSeq(memory[s], 1, top[s] - n)
      /\ TopBytes(SubSeq(memory[s], 1, top[s]), n) = SubSeq(memory[s], top[s] - n + 1, top[s])
      /\ SubSeq(memory[s], top[s] - n + 1, top[s]) \in Seq(Byte)
  BY <1>1, <1>2, <1>3, LoadedTop
<1>5. /\ field' \in [Stacks -> {"null", Class}]
      /\ \A r \in Stacks : field[r] = "caching" => field'[r] = "caching"
  BY <1>3, FieldSet
<1>6. /\ top' \in [Stacks -> 0 .. Capacity] /\ top'[s] = top[s] - n
      /\ \A r \in Stacks \ {s} : top'[r] = top[r]
  BY <1>1, <1>2, <1>3 DEF CInv, TypeOK
<1>7. CInv'
  <2>1. TypeOK' BY <1>3, <1>4, <1>5, <1>6 DEF CInv, TypeOK
  <2>2. ASSUME NEW r \in Stacks PROVE cache'[r] = << >> \/ Pending(r)'
    <3>1. CASE r = s BY <1>3, <3>1
    <3>2. CASE r # s BY <1>3, <1>5, <1>6, <3>2 DEF CInv, Pending
    <3> QED BY <3>1, <3>2
  <2> QED BY <2>1, <2>2 DEF CInv
<1>8. Visible(s) = SubSeq(memory[s], 1, top[s]) BY <1>3, VisibleFew
<1>9. Visible(s)' = SubSeq(memory[s], 1, top[s] - n) BY <1>3, <1>6 DEF Visible
<1>10. \A r \in Stacks \ {s} : Visible(r)' = Visible(r) BY <1>3, <1>6, SameStack
<1>11. [r \in Stacks |-> Visible(r)]'
         = [[r \in Stacks |-> Visible(r)] EXCEPT ![s] = BelowTop(@, n)]
  BY <1>4, <1>8, <1>9, <1>10
<1>12. [r \in Stacks |-> Visible(r)][s] = Visible(s) OBVIOUS
<1>13. n <= Len(Visible(s)) /\ popped' = TopBytes(Visible(s), n) BY <1>3, <1>4, <1>8
<1>14. Machine!Pop(s, t)
  BY <1>11, <1>12, <1>13 DEF Machine!Pop, Machine!BelowTop, Machine!TopBytes, BelowTop, TopBytes, n
<1> QED BY <1>7, <1>14

(* A single value is written where it would have been stored at once.      *)
LEMMA FlushFewStep ==
  ASSUME Class = "caching", CInv, Flush
  PROVE  /\ CInv' /\ popped' = popped
         /\ [s \in Stacks |-> Visible(s)]' = [s \in Stacks |-> Visible(s)]
<1>1. /\ memory' = [s \in Stacks |-> Written(memory[s], top[s], Flushed(s))]
      /\ top' = [s \in Stacks |-> top[s] + Len(Flushed(s))]
      /\ field' = [s \in Stacks |-> "null"] /\ cache' = [s \in Stacks |-> << >>] /\ popped' = popped
  BY DEF Flush
<1>2. ASSUME NEW s \in Stacks
      PROVE  /\ memory'[s] \in [1 .. Capacity -> Byte] /\ top'[s] \in 0 .. Capacity
             /\ Visible(s)' = Visible(s)
  <2>1. memory[s] \in [1 .. Capacity -> Byte] /\ top[s] \in 0 .. Capacity /\ Capacity \in Nat
    BY CodeGenAssumption DEF CInv, TypeOK
  <2>2. Visible(s)' = SubSeq(memory'[s], 1, top'[s]) BY <1>1 DEF Visible
  <2>3. ASSUME NEW b \in Seq(Byte), Flushed(s) = b, top[s] + Len(b) <= Capacity
        PROVE  /\ memory'[s] \in [1 .. Capacity -> Byte] /\ top'[s] \in 0 .. Capacity
               /\ Visible(s)' = SubSeq(memory[s], 1, top[s]) \o b
    <3>1. memory'[s] = Written(memory[s], top[s], b) /\ top'[s] = top[s] + Len(b) BY <1>1, <2>3
    <3>2. /\ Written(memory[s], top[s], b) \in [1 .. Capacity -> Byte]
          /\ SubSeq(Written(memory[s], top[s], b), 1, top[s] + Len(b)) = SubSeq(memory[s], 1, top[s]) \o b
      BY <2>1, <2>3, WrittenAbove
    <3>3. Len(b) \in Nat OBVIOUS
    <3>4. memory'[s] \in [1 .. Capacity -> Byte] BY <3>1, <3>2
    <3>5. top'[s] \in 0 .. Capacity BY <2>1, <2>3, <3>1, <3>3
    <3>6. Visible(s)' = SubSeq(Written(memory[s], top[s], b), 1, top[s] + Len(b)) BY <2>2, <3>1
    <3>7. Visible(s)' = SubSeq(memory[s], 1, top[s]) \o b BY <3>2, <3>6
    <3> QED BY <3>4, <3>5, <3>7
  <2>4. CASE cache[s] = << >>
    <3>1. Flushed(s) = << >> /\ << >> \in Seq(Byte) /\ Len(<< >>) = 0 BY <2>4, FlushedFew, EmptySeq
    <3>2. Visible(s) = SubSeq(memory[s], 1, top[s]) BY <2>4, VisibleFew
    <3>3. top[s] + Len(<< >>) <= Capacity BY <2>1, <3>1
    <3>4. SubSeq(memory[s], 1, top[s]) \in Seq(Byte)
      <4>1. 0 \in Nat /\ 0 <= top[s] BY <2>1
      <4> QED BY <2>1, <4>1, LoadedTop
    <3>5. SubSeq(memory[s], 1, top[s]) \o << >> = SubSeq(memory[s], 1, top[s])
      BY <3>4, ConcatEmptySeq
    <3> QED BY <2>3, <3>1, <3>2, <3>3, <3>5
  <2>5. CASE Pending(s)
    <3>1. PICK b \in Seq(Byte) : cache[s] = <<b>> /\ top[s] + Len(b) <= Capacity BY <2>5 DEF Pending
    <3>2. Flushed(s) = b BY <3>1, FlushedFew
    <3>3. Visible(s) = SubSeq(memory[s], 1, top[s]) \o b BY <3>1, VisibleFew
    <3> QED BY <2>3, <3>1, <3>2, <3>3
  <2> QED BY <2>4, <2>5 DEF CInv
<1>3. memory' \in [Stacks -> [1 .. Capacity -> Byte]] /\ top' \in [Stacks -> 0 .. Capacity]
  BY <1>1, <1>2
<1>4. cache' \in [Stacks -> Seq(Seq(Byte))] /\ \A s \in Stacks : cache'[s] = << >>
  BY <1>1, EmptySeq
<1>5. popped' \in Seq(Byte) BY <1>1 DEF CInv, TypeOK
<1>6. field' \in [Stacks -> {"null", Class}] BY <1>1
<1>7. CInv' BY <1>3, <1>4, <1>5, <1>6 DEF CInv, TypeOK
<1>8. [s \in Stacks |-> Visible(s)]' = [s \in Stacks |-> Visible(s)] BY <1>2
<1> QED BY <1>1, <1>7, <1>8

(* Refinement: a CachingStackCodeGen keeps the promise of StackCodeGen as  *)
(* long as no more than one value is pending on a stack, for any stacks,   *)
(* types and values.  With two it does not: its flush reverses them.       *)
THEOREM CachingImplements ==
  ASSUME Class = "caching", MaxCache <= 1
  PROVE  Spec => Implements
<1>1. Init => CInv /\ Machine!Init
  <2> SUFFICES ASSUME Init PROVE CInv /\ Machine!Init OBVIOUS
  <2>1. \A s \in Stacks : Visible(s) = << >>
    <3>1. SUFFICES ASSUME NEW s \in Stacks PROVE Visible(s) = << >> OBVIOUS
    <3>2. Visible(s) = SubSeq(memory[s], 1, 0) BY DEF Visible, Init
    <3> QED BY <3>2, SubSeqEmpty
  <2> QED BY <2>1, InitCInv DEF Machine!Init, Init
<1>2. CInv /\ [Next]_vars => CInv' /\ [Machine!Next]_<<[s \in Stacks |-> Visible(s)], popped>>
  <2> SUFFICES ASSUME CInv, [Next]_vars
               PROVE  CInv' /\ [Machine!Next]_<<[s \in Stacks |-> Visible(s)], popped>>
    OBVIOUS
  <2>1. ASSUME NEW s \in Stacks, NEW t \in Types, NEW v \in Values, PushCaching(s, v, t)
        PROVE  CInv' /\ Machine!Next
    BY <2>1, PushCachingStep DEF Machine!Next
  <2>2. ASSUME NEW s \in Stacks, NEW t \in Types, NEW v \in Values PROVE ~PushImmediate(s, v, t)
    BY FieldSet DEF PushImmediate
  <2>3. ASSUME NEW s \in Stacks, NEW t \in Types, PopCached(s, t) PROVE CInv' /\ Machine!Next
    BY <2>3, PopCachedStep DEF Machine!Next
  <2>4. ASSUME NEW s \in Stacks, NEW t \in Types, PopImmediate(s, t) PROVE CInv' /\ Machine!Next
    BY <2>4, PopDelegateStep DEF Machine!Next
  <2>5. CASE Flush BY <2>5, FlushFewStep
  <2>6. CASE UNCHANGED vars
    <3>1. CInv' BY <2>6 DEF vars, CInv, TypeOK, Pending
    <3>2. \A s \in Stacks : Visible(s)' = Visible(s) BY <2>6, SameStack DEF vars
    <3> QED BY <2>6, <3>1, <3>2 DEF vars
  <2>7. CASE Next BY <2>1, <2>2, <2>3, <2>4, <2>5, <2>7 DEF Next
  <2> QED BY <2>6, <2>7
<1> QED BY <1>1, <1>2, PTL DEF Spec, Implements, Machine!Spec
=============================================================================
