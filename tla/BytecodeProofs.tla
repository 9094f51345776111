--------------------------- MODULE BytecodeProofs ---------------------------
(***************************************************************************)
(* The compiler of the prototype links every program: whatever the words   *)
(* call, each is written once, and in the finished array each call pushes  *)
(* the address of the word it calls.                                       *)
(***************************************************************************)
EXTENDS BytecodeProgram, SequenceTheorems, FiniteSetTheorems, TLAPS

-----------------------------------------------------------------------------
(* Places. *)

Size(item) == IF item.do = "call" THEN 2 ELSE 1

LEMMA OffsetIsNat ==
  ASSUME NEW s, NEW n \in Nat
  PROVE  IsFiniteSet(Calls(s, n)) /\ Offset(s, n) \in Nat /\ Offset(s, n) >= n
<1>1. IsFiniteSet(1 .. n) /\ Calls(s, n) \in SUBSET (1 .. n) BY FS_Interval DEF Calls
<1>2. IsFiniteSet(Calls(s, n)) BY <1>1, FS_Subset
<1>3. Cardinality(Calls(s, n)) \in Nat BY <1>2, FS_CardinalityType
<1> QED BY <1>2, <1>3 DEF Offset

LEMMA OffsetZero == ASSUME NEW s PROVE Offset(s, 0) = 0
<1>1. Calls(s, 0) = {} BY DEF Calls
<1>2. Cardinality(Calls(s, 0)) = 0 BY <1>1, FS_EmptySet
<1> QED BY <1>2 DEF Offset

(* One item more takes one place more, or two. *)
LEMMA OffsetNext ==
  ASSUME NEW s, NEW n \in Nat
  PROVE  Offset(s, n + 1) = Offset(s, n) + Size(s[n + 1])
<1>1. IsFiniteSet(Calls(s, n)) /\ Cardinality(Calls(s, n)) \in Nat
  BY OffsetIsNat, FS_CardinalityType
<1>2. CASE s[n + 1].do = "call"
  <2>1. Calls(s, n + 1) = Calls(s, n) \cup {n + 1} BY <1>2 DEF Calls
  <2>2. n + 1 \notin Calls(s, n) BY DEF Calls
  <2>3. Cardinality(Calls(s, n + 1)) = Cardinality(Calls(s, n)) + 1
    BY <1>1, <2>1, <2>2, FS_AddElement
  <2> QED BY <1>1, <1>2, <2>3 DEF Offset, Size
<1>3. CASE s[n + 1].do # "call"
  <2>1. Calls(s, n + 1) = Calls(s, n) BY <1>3 DEF Calls
  <2> QED BY <1>1, <1>3, <2>1 DEF Offset, Size
<1> QED BY <1>2, <1>3

LEMMA OffsetGrows ==
  ASSUME NEW s, NEW m \in Nat, NEW n \in Nat, m <= n
  PROVE  Offset(s, m) <= Offset(s, n)
<1>1. Calls(s, m) \in SUBSET Calls(s, n) BY DEF Calls
<1>2. IsFiniteSet(Calls(s, n)) BY OffsetIsNat
<1>3. /\ Cardinality(Calls(s, m)) <= Cardinality(Calls(s, n))
      /\ Cardinality(Calls(s, m)) \in Nat /\ Cardinality(Calls(s, n)) \in Nat
  BY <1>1, <1>2, FS_Subset, FS_CardinalityType
<1> QED BY <1>3 DEF Offset

LEMMA Differ ==
  /\ Null # Apply /\ Null # Return /\ \A i : Null # Push(i)
<1> QED BY DEF Null, Apply, Return, Push

LEMMA Item == ASSUME NEW item \in Items
  PROVE  \/ item.do = "append" /\ item.code \in Primitives
         \/ item.do = "call" /\ item.w \in Words
<1> QED BY DEF Items
-----------------------------------------------------------------------------
(* An array a, the addresses m of the words in it and the holes H that are *)
(* still to be filled; the dictionary is d.                                *)

Codes(n) == Primitives \cup {Apply, Return, Null} \cup [op : {"Push"}, value : [int : 0 .. n]]
Hole == [at : Nat, w : Words]

Array(a, m) ==
  /\ a \in Seq(Codes(Len(a)))
  /\ m \in [Words -> Nat \cup {None}]
  /\ \A w \in Words : m[w] # None => m[w] <= Len(a)

(* The holes are the null bytecodes, no two at one place. *)
Exact(a, H) ==
  /\ H \subseteq Hole
  /\ \A h \in H : h.at < Len(a) /\ a[h.at + 1] = Null
  /\ \A i \in 1 .. Len(a) : a[i] = Null => \E h \in H : h.at = i - 1
  /\ \A g, h \in H : g.at = h.at => g = h

(* The item is at place k: a call pushes the address of its callee, or has *)
(* a hole for it.                                                          *)
Called(a, m, H, item, k) ==
  \/ a[k] = Null /\ \E h \in H : h.at = k - 1 /\ h.w = item.w
  \/ m[item.w] # None /\ a[k] = Push(m[item.w])
ItemAt(a, m, H, item, k) ==
  /\ k >= 1 /\ k + Size(item) - 1 <= Len(a)
  /\ item.do = "append" => a[k] = item.code
  /\ item.do = "call" => a[k + 1] = Apply /\ Called(a, m, H, item, k)

(* The first n items of w are where they belong. *)
Begun(d, a, m, H, w, n) ==
  /\ d[w] \in Seq(Items) /\ n \in 0 .. Len(d[w]) /\ m[w] # None
  /\ \A i \in 1 .. n : ItemAt(a, m, H, d[w][i], m[w] + Offset(d[w], i - 1) + 1)
(* So are all, and the Return. *)
End(d, m, w) == m[w] + Offset(d[w], Len(d[w])) + 1
Whole(d, a, m, H, w) ==
  /\ Begun(d, a, m, H, w, Len(d[w]))
  /\ End(d, m, w) <= Len(a) /\ a[End(d, m, w)] = Return

(* Every word but u is whole, and the words lie one after another without  *)
(* a gap, u last.                                                          *)
After(d, m, u, v, w) == v # u /\ End(d, m, v) <= m[w]
Laid(d, a, m, H, u) ==
  /\ \A w \in Words : m[w] # None /\ w # u => Whole(d, a, m, H, w)
  /\ \A v, w \in Words : m[v] # None /\ m[w] # None /\ v # w =>
       After(d, m, u, v, w) \/ After(d, m, u, w, v)
  /\ \A k \in 1 .. Len(a) : \E w \in Words : m[w] # None /\ m[w] < k /\ (w # u => k <= End(d, m, w))

Good(d, a, m, H, u) == Array(a, m) /\ Exact(a, H) /\ Laid(d, a, m, H, u)
-----------------------------------------------------------------------------
(* What an operation may do to the array: make it longer, and fill holes   *)
(* with the addresses they are for.                                        *)
Keeps(a, m, H, b, n, J) ==
  /\ Len(a) <= Len(b)
  /\ \A k \in 1 .. Len(a) : a[k] # Null => b[k] = a[k]
  /\ \A h \in H : \/ h \in J /\ b[h.at + 1] = Null
                  \/ n[h.w] # None /\ b[h.at + 1] = Push(n[h.w])
  /\ \A w \in Words : m[w] # None => n[w] = m[w]

LEMMA ItemKept ==
  ASSUME BytecodeAssumption, NEW a, NEW m, NEW H, NEW b, NEW n, NEW J, Keeps(a, m, H, b, n, J),
         Array(a, m), Exact(a, H), b \in Seq(Codes(Len(b))),
         NEW item \in Items, NEW k \in Nat, ItemAt(a, m, H, item, k)
  PROVE  ItemAt(b, n, J, item, k)
<1>1. Len(a) \in Nat /\ Len(b) \in Nat /\ Len(a) <= Len(b) BY DEF Array, Keeps
<1>2. CASE item.do = "append" /\ item.code \in Primitives
  <2>1. k \in 1 .. Len(a) /\ a[k] = item.code BY <1>1, <1>2 DEF ItemAt, Size
  <2>2. a[k] # Null BY <1>2, <2>1 DEF BytecodeAssumption
  <2>3. b[k] = item.code BY <2>1, <2>2 DEF Keeps
  <2> QED BY <1>1, <1>2, <2>1, <2>3 DEF ItemAt, Size
<1>3. CASE item.do = "call" /\ item.w \in Words
  <2>1. k \in 1 .. Len(a) /\ k + 1 \in 1 .. Len(a) /\ a[k + 1] = Apply /\ Called(a, m, H, item, k)
    BY <1>1, <1>3 DEF ItemAt, Size
  <2>2. b[k + 1] = Apply BY <2>1, Differ DEF Keeps
  <2>3. Called(b, n, J, item, k)
    <3>1. CASE a[k] = Null /\ \E h \in H : h.at = k - 1 /\ h.w = item.w
      <4>1. PICK h \in H : h.at = k - 1 /\ h.w = item.w BY <3>1
      <4>2. h.at + 1 = k BY <4>1
      <4>3. \/ h \in J /\ b[k] = Null
            \/ n[h.w] # None /\ b[k] = Push(n[h.w])
        BY <4>2 DEF Keeps
      <4> QED BY <4>1, <4>3 DEF Called
    <3>2. CASE m[item.w] # None /\ a[k] = Push(m[item.w])
      <4>1. n[item.w] = m[item.w] BY <1>3, <3>2 DEF Keeps
      <4>2. b[k] = a[k] BY <2>1, <3>2, Differ DEF Keeps
      <4> QED BY <3>2, <4>1, <4>2 DEF Called
    <3> QED BY <2>1, <3>1, <3>2 DEF Called
  <2> QED BY <1>1, <1>3, <2>1, <2>2, <2>3 DEF ItemAt, Size
<1> QED BY <1>2, <1>3, Item

LEMMA WordKept ==
  ASSUME BytecodeAssumption, NEW d, NEW a, NEW m, NEW H, NEW b, NEW n, NEW J,
         Keeps(a, m, H, b, n, J), Array(a, m), Exact(a, H), b \in Seq(Codes(Len(b))),
         NEW w \in Words
  PROVE  /\ \A c : Begun(d, a, m, H, w, c) => Begun(d, b, n, J, w, c)
         /\ Whole(d, a, m, H, w) => Whole(d, b, n, J, w)
<1>1. ASSUME NEW c, Begun(d, a, m, H, w, c) PROVE Begun(d, b, n, J, w, c)
  <2>1. n[w] = m[w] /\ m[w] \in Nat BY <1>1 DEF Begun, Keeps, Array
  <2>2. ASSUME NEW i \in 1 .. c
        PROVE  ItemAt(b, n, J, d[w][i], n[w] + Offset(d[w], i - 1) + 1)
    <3>1. d[w][i] \in Items /\ i - 1 \in Nat BY <1>1, <2>2 DEF Begun
    <3>2. m[w] + Offset(d[w], i - 1) + 1 \in Nat BY <2>1, <3>1, OffsetIsNat
    <3>3. ItemAt(a, m, H, d[w][i], m[w] + Offset(d[w], i - 1) + 1) BY <1>1 DEF Begun
    <3> QED BY <2>1, <3>1, <3>2, <3>3, ItemKept
  <2> QED BY <1>1, <2>1, <2>2 DEF Begun
<1>2. ASSUME Whole(d, a, m, H, w) PROVE Whole(d, b, n, J, w)
  <2>1. n[w] = m[w] /\ m[w] \in Nat /\ Len(d[w]) \in Nat BY <1>2 DEF Whole, Begun, Keeps, Array
  <2>2. End(d, n, w) = End(d, m, w) /\ End(d, m, w) \in Nat /\ End(d, m, w) >= 1
    BY <2>1, OffsetIsNat DEF End
  <2>3. End(d, m, w) \in 1 .. Len(a) /\ a[End(d, m, w)] = Return BY <1>2, <2>2 DEF Whole, Array
  <2>4. b[End(d, m, w)] = Return BY <2>3, Differ DEF Keeps
  <2>5. Len(a) \in Nat /\ Len(b) \in Nat /\ Len(a) <= Len(b) BY DEF Array, Keeps
  <2> QED BY <1>1, <1>2, <2>2, <2>3, <2>4, <2>5 DEF Whole
<1> QED BY <1>1, <1>2

(* The words stay laid out if the array only grows under the word that is  *)
(* being written.                                                          *)
LEMMA LaidKept ==
  ASSUME BytecodeAssumption, NEW d, NEW a, NEW m, NEW H, NEW b, NEW J, NEW u,
         Keeps(a, m, H, b, m, J), Array(a, m), Exact(a, H), b \in Seq(Codes(Len(b))),
         Laid(d, a, m, H, u), Len(b) = Len(a) \/ (u \in Words /\ m[u] # None)
  PROVE  Laid(d, b, m, J, u)
<1>1. \A w \in Words : m[w] # None /\ w # u => Whole(d, b, m, J, w) BY WordKept DEF Laid
<1>2. ASSUME NEW k \in 1 .. Len(b)
      PROVE  \E w \in Words : m[w] # None /\ m[w] < k /\ (w # u => k <= End(d, m, w))
  <2>1. CASE k \in 1 .. Len(a) BY <2>1 DEF Laid
  <2>2. CASE k \notin 1 .. Len(a)
    <3>1. Len(a) \in Nat /\ k > Len(a) BY <2>2 DEF Array
    <3>2. u \in Words /\ m[u] # None BY <2>2
    <3>3. m[u] \in Nat /\ m[u] <= Len(a) BY <3>2 DEF Array
    <3> QED BY <3>1, <3>2, <3>3
  <2> QED BY <2>1, <2>2
<1> QED BY <1>1, <1>2 DEF Laid
-----------------------------------------------------------------------------
(* The operations. *)

(* A word is begun at the end of the array. *)
LEMMA StartGood ==
  ASSUME BytecodeAssumption, NEW d, NEW a, NEW m, NEW H, Good(d, a, m, H, NoWord),
         NEW w \in Words, m[w] = None, NEW n \in [Words -> Nat \cup {None}],
         n[w] = Len(a), \A v \in Words : v # w => n[v] = m[v]
  PROVE  /\ Good(d, a, n, H, w)
         /\ d[w] \in Seq(Items) => Begun(d, a, n, H, w, 0)
<1>1. Array(a, m) /\ Exact(a, H) /\ Laid(d, a, m, H, NoWord) BY DEF Good
<1>2. Len(a) \in Nat /\ Len(a) # None BY <1>1 DEF Array, None
<1>3. n[w] = Len(a) /\ \A v \in Words : v # w => n[v] = m[v] OBVIOUS
<1>4. Keeps(a, m, H, a, n, H)
  <2>1. \A h \in H : a[h.at + 1] = Null BY <1>1 DEF Exact
  <2> QED BY <1>2, <1>3, <2>1 DEF Keeps
<1>5. Array(a, n) BY <1>1, <1>2, <1>3 DEF Array
<1>6. a \in Seq(Codes(Len(a))) BY <1>1 DEF Array
<1>7. Laid(d, a, n, H, w)
  <2>1. ASSUME NEW v \in Words, n[v] # None, v # w
        PROVE  /\ Whole(d, a, m, H, v) /\ Whole(d, a, n, H, v)
               /\ End(d, n, v) = End(d, m, v) /\ End(d, n, v) <= n[w]
    <3>1. m[v] # None /\ n[v] = m[v] BY <1>3, <2>1
    <3>2. Whole(d, a, m, H, v) BY <1>1, <2>1, <3>1 DEF Laid, BytecodeAssumption
    <3>3. Whole(d, a, n, H, v) BY <1>1, <1>4, <1>6, <3>2, WordKept
    <3>4. End(d, n, v) = End(d, m, v) BY <3>1 DEF End
    <3> QED BY <1>3, <3>2, <3>3, <3>4 DEF Whole
  <2>2. ASSUME NEW v \in Words, NEW x \in Words, n[v] # None, n[x] # None, v # x
        PROVE  After(d, n, w, v, x) \/ After(d, n, w, x, v)
    <3>1. CASE v = w BY <2>1, <2>2, <3>1 DEF After
    <3>2. CASE x = w BY <2>1, <2>2, <3>2 DEF After
    <3>3. CASE v # w /\ x # w
      <4>1. m[v] # None /\ m[x] # None /\ n[v] = m[v] /\ n[x] = m[x] BY <1>3, <2>2, <3>3
      <4>2. After(d, m, NoWord, v, x) \/ After(d, m, NoWord, x, v) BY <1>1, <2>2, <4>1 DEF Laid
      <4> QED BY <2>1, <2>2, <3>3, <4>1, <4>2 DEF After
    <3> QED BY <3>1, <3>2, <3>3
  <2>3. ASSUME NEW k \in 1 .. Len(a)
        PROVE  \E v \in Words : n[v] # None /\ n[v] < k /\ (v # w => k <= End(d, n, v))
    <3>1. PICK v \in Words : m[v] # None /\ m[v] < k /\ (v # NoWord => k <= End(d, m, v))
      BY <1>1 DEF Laid
    <3>2. v # w /\ v # NoWord /\ n[v] = m[v] BY <1>3, <3>1 DEF BytecodeAssumption
    <3>3. End(d, n, v) = End(d, m, v) BY <3>2 DEF End
    <3> QED BY <3>1, <3>2, <3>3
  <2> QED BY <2>1, <2>2, <2>3 DEF Laid
<1>8. d[w] \in Seq(Items) => Begun(d, a, n, H, w, 0) BY <1>2, <1>3 DEF Begun
<1> QED BY <1>1, <1>3, <1>5, <1>7, <1>8 DEF Good

(* A bytecode is appended to the word being written. *)
LEMMA AppendGood ==
  ASSUME BytecodeAssumption, NEW d, NEW a, NEW m, NEW H, NEW u \in Words, Good(d, a, m, H, u),
         m[u] # None, NEW b, NEW code, code \in Primitives \/ code = Return, b = Append(a, code)
  PROVE  /\ Good(d, b, m, H, u) /\ Keeps(a, m, H, b, m, H)
         /\ Len(b) = Len(a) + 1 /\ b[Len(a) + 1] = code
<1>1. Array(a, m) /\ Exact(a, H) /\ Laid(d, a, m, H, u) BY DEF Good
<1>2. a \in Seq(Codes(Len(a))) /\ Len(a) \in Nat BY <1>1 DEF Array
<1>3. Len(b) = Len(a) + 1 /\ b[Len(a) + 1] = code /\ \A k \in 1 .. Len(a) : b[k] = a[k]
  BY <1>2
<1>4. code # Null BY Differ DEF BytecodeAssumption
<1>5. b \in Seq(Codes(Len(b)))
  <2>1. Codes(Len(a)) \subseteq Codes(Len(b)) /\ code \in Codes(Len(b)) BY <1>2, <1>3 DEF Codes
  <2>2. a \in Seq(Codes(Len(b))) BY <1>2, <2>1
  <2> QED BY <2>1, <2>2
<1>6. H \subseteq Hole /\ \A h \in H : h.at \in Nat /\ h.at < Len(a) /\ a[h.at + 1] = Null
  BY <1>1 DEF Exact, Hole
<1>7. \A h \in H : h.at + 1 \in 1 .. Len(a) BY <1>2, <1>6
<1>8. Keeps(a, m, H, b, m, H) BY <1>2, <1>3, <1>6, <1>7 DEF Keeps
<1>9. Array(b, m) BY <1>1, <1>2, <1>3, <1>5 DEF Array
<1>10. Exact(b, H)
  <2>1. ASSUME NEW i \in 1 .. Len(b), b[i] = Null PROVE \E h \in H : h.at = i - 1
    <3>1. i \in 1 .. Len(a) BY <1>2, <1>3, <1>4, <2>1
    <3> QED BY <1>1, <1>3, <2>1, <3>1 DEF Exact
  <2>2. \A h \in H : h.at < Len(b) /\ b[h.at + 1] = Null BY <1>2, <1>3, <1>6, <1>7
  <2> QED BY <1>1, <2>1, <2>2 DEF Exact
<1>11. Laid(d, b, m, H, u) BY <1>1, <1>5, <1>8, LaidKept
<1> QED BY <1>3, <1>8, <1>9, <1>10, <1>11 DEF Good

(* A call is appended: a hole for the callee's address, and an Apply. *)
WithCall(a) == a \o <<Null, Apply>>
HoleFor(a, c) == [at |-> Len(a), w |-> c]

LEMMA CallGood ==
  ASSUME BytecodeAssumption, NEW d, NEW a, NEW m, NEW H, NEW u \in Words, Good(d, a, m, H, u),
         m[u] # None, NEW c \in Words
  PROVE  /\ Good(d, WithCall(a), m, H \cup {HoleFor(a, c)}, u)
         /\ Keeps(a, m, H, WithCall(a), m, H \cup {HoleFor(a, c)})
<1> DEFINE new == HoleFor(a, c)
           b == WithCall(a)
           J == H \cup {new}
<1>1. Array(a, m) /\ Exact(a, H) /\ Laid(d, a, m, H, u) BY DEF Good
<1>2. a \in Seq(Codes(Len(a))) /\ Len(a) \in Nat BY <1>1 DEF Array
<1>3. /\ Len(b) = Len(a) + 2 /\ b[Len(a) + 1] = Null /\ b[Len(a) + 2] = Apply
      /\ \A k \in 1 .. Len(a) : b[k] = a[k]
  BY <1>2 DEF WithCall
<1>4. new.at = Len(a) /\ new.w = c BY DEF HoleFor
<1>5. b \in Seq(Codes(Len(b)))
  <2>1. /\ Codes(Len(a)) \subseteq Codes(Len(b))
        /\ Null \in Codes(Len(b)) /\ Apply \in Codes(Len(b))
    BY <1>2, <1>3 DEF Codes
  <2>2. a \in Seq(Codes(Len(b))) BY <1>2, <2>1
  <2>3. <<Null, Apply>> \in Seq(Codes(Len(b))) BY <2>1
  <2> QED BY <2>2, <2>3 DEF WithCall
<1> HIDE DEF b
<1>6. H \subseteq Hole /\ \A h \in H : h.at \in Nat /\ h.at < Len(a) /\ a[h.at + 1] = Null
  BY <1>1 DEF Exact, Hole
<1>7. \A h \in H : h.at + 1 \in 1 .. Len(a) BY <1>2, <1>6
<1>8. Keeps(a, m, H, b, m, J) BY <1>2, <1>3, <1>6, <1>7 DEF Keeps
<1>9. Array(b, m) BY <1>1, <1>2, <1>3, <1>5 DEF Array
<1>10. Exact(b, J)
  <2>1. ASSUME NEW i \in 1 .. Len(b), b[i] = Null PROVE \E h \in J : h.at = i - 1
    <3>1. i \in 1 .. Len(a) \/ i = Len(a) + 1 BY <1>2, <1>3, <2>1, Differ
    <3>2. CASE i \in 1 .. Len(a) BY <1>1, <1>3, <2>1, <3>2 DEF Exact
    <3>3. CASE i = Len(a) + 1
      <4>1. new \in J /\ new.at = i - 1 BY <1>2, <1>4, <3>3
      <4> QED BY <4>1
    <3> QED BY <3>1, <3>2, <3>3
  <2>2. \A h \in J : h.at < Len(b) /\ b[h.at + 1] = Null
    BY <1>2, <1>3, <1>4, <1>6, <1>7
  <2>3. new \in Hole /\ new.at = Len(a) BY <1>2 DEF Hole, HoleFor
  <2>4. J \subseteq Hole BY <1>6, <2>3
  <2>5. ASSUME NEW g \in J, NEW h \in J, g.at = h.at PROVE g = h
    <3>1. CASE g \in H /\ h \in H BY <1>1, <2>5, <3>1 DEF Exact
    <3>2. CASE g = new /\ h = new BY <3>2
    <3>3. CASE g \in H /\ h = new BY <1>2, <1>6, <2>3, <2>5, <3>3
    <3>4. CASE g = new /\ h \in H BY <1>2, <1>6, <2>3, <2>5, <3>4
    <3> QED BY <3>1, <3>2, <3>3, <3>4
  <2> QED BY <2>1, <2>2, <2>4, <2>5 DEF Exact
<1>11. Laid(d, b, m, J, u) BY <1>1, <1>5, <1>8, LaidKept
<1> QED BY <1>8, <1>9, <1>10, <1>11 DEF Good, b

(* A hole is filled. *)
LEMMA FillGood ==
  ASSUME BytecodeAssumption, NEW d, NEW a, NEW m, NEW H, NEW u, Good(d, a, m, H, u),
         NEW h \in H, m[h.w] # None, NEW b, b = Filled(a, h.at, m[h.w]),
         NEW J, J = H \ {h}
  PROVE  Good(d, b, m, J, u) /\ Keeps(a, m, H, b, m, J) /\ Len(b) = Len(a)
<1>1. Array(a, m) /\ Exact(a, H) /\ Laid(d, a, m, H, u) BY DEF Good
<1>2. a \in Seq(Codes(Len(a))) /\ Len(a) \in Nat BY <1>1 DEF Array
<1>3. H \subseteq Hole /\ \A g \in H : g.at \in Nat /\ g.at < Len(a) /\ a[g.at + 1] = Null
  BY <1>1 DEF Exact, Hole
<1>4. \A g \in H : g.at + 1 \in 1 .. Len(a) BY <1>2, <1>3
<1>5. h.w \in Words /\ m[h.w] \in 0 .. Len(a)
  <2>1. h.w \in Words BY <1>3 DEF Hole
  <2> QED BY <1>1, <1>2, <2>1 DEF Array
<1>6. /\ Len(b) = Len(a) /\ b[h.at + 1] = Push(m[h.w])
      /\ \A k \in 1 .. Len(a) : k # h.at + 1 => b[k] = a[k]
      /\ b \in Seq(Codes(Len(a)))
  <2>1. Push(m[h.w]) \in Codes(Len(a)) BY <1>5 DEF Push, Codes
  <2> QED BY <1>2, <1>4, <2>1 DEF Filled
<1>7. \A g \in J : g \in H /\ g.at # h.at BY <1>1 DEF Exact
<1>8. Keeps(a, m, H, b, m, J)
  <2>1. \A k \in 1 .. Len(a) : a[k] # Null => b[k] = a[k] BY <1>3, <1>6
  <2>2. ASSUME NEW g \in H PROVE \/ g \in J /\ b[g.at + 1] = Null
                                 \/ m[g.w] # None /\ b[g.at + 1] = Push(m[g.w])
    <3>1. CASE g = h BY <1>6, <3>1
    <3>2. CASE g # h
      <4>1. g \in J /\ g.at \in Nat /\ h.at \in Nat /\ g.at # h.at BY <1>3, <1>7, <3>2
      <4>2. b[g.at + 1] = a[g.at + 1] BY <1>4, <1>6, <4>1
      <4> QED BY <1>3, <4>1, <4>2
    <3> QED BY <3>1, <3>2
  <2> QED BY <1>2, <1>6, <2>1, <2>2 DEF Keeps
<1>9. Array(b, m) BY <1>1, <1>2, <1>6 DEF Array
<1>10. Exact(b, J)
  <2>1. ASSUME NEW i \in 1 .. Len(b), b[i] = Null PROVE \E g \in J : g.at = i - 1
    <3>1. i # h.at + 1 BY <1>6, <2>1, Differ
    <3>2. a[i] = Null BY <1>6, <2>1, <3>1
    <3>3. PICK g \in H : g.at = i - 1 BY <1>1, <1>6, <2>1, <3>2 DEF Exact
    <3>4. g # h BY <1>3, <3>1, <3>3
    <3> QED BY <3>3, <3>4
  <2>2. ASSUME NEW g \in J PROVE g.at < Len(b) /\ b[g.at + 1] = Null
    <3>1. g \in H /\ g.at # h.at /\ g.at \in Nat /\ h.at \in Nat BY <1>3, <1>7
    <3> QED BY <1>3, <1>4, <1>6, <3>1
  <2>3. J \subseteq Hole /\ \A g, f \in J : g.at = f.at => g = f BY <1>1 DEF Exact
  <2> QED BY <2>1, <2>2, <2>3 DEF Exact
<1>11. Laid(d, b, m, J, u)
  <2>1. b \in Seq(Codes(Len(b))) BY <1>6
  <2>2. Len(b) = Len(a) \/ (u \in Words /\ m[u] # None) BY <1>6
  <2> QED BY <1>1, <1>8, <2>1, <2>2, LaidKept
<1> QED BY <1>6, <1>8, <1>9, <1>10, <1>11 DEF Good

(* A word whose items are all written is ended with Return. *)
LEMMA EndGood ==
  ASSUME BytecodeAssumption, NEW d, NEW a, NEW m, NEW H, NEW u \in Words, Good(d, a, m, H, u),
         Begun(d, a, m, H, u, Len(d[u])), Len(a) = m[u] + Offset(d[u], Len(d[u])),
         NEW b, b = Append(a, Return)
  PROVE  Good(d, b, m, H, NoWord)
<1>1. m[u] # None /\ Array(a, m) /\ Exact(a, H) BY DEF Begun, Good
<1>2. /\ Good(d, b, m, H, u) /\ Keeps(a, m, H, b, m, H)
      /\ Len(b) = Len(a) + 1 /\ b[Len(a) + 1] = Return
  <2>1. Good(d, Append(a, Return), m, H, u) BY <1>1, AppendGood
  <2>2. Keeps(a, m, H, Append(a, Return), m, H) BY <1>1, AppendGood
  <2>3. a \in Seq(Codes(Len(a))) BY <1>1 DEF Array
  <2> QED BY <2>1, <2>2, <2>3
<1>3. Array(b, m) /\ Exact(b, H) /\ Laid(d, b, m, H, u) BY <1>2 DEF Good
<1>4. Len(a) \in Nat /\ Len(b) \in Nat /\ b \in Seq(Codes(Len(b))) BY <1>1, <1>3 DEF Array
<1>5. End(d, m, u) = Len(b) BY <1>2 DEF End
<1>6. Whole(d, b, m, H, u)
  <2>1. Begun(d, b, m, H, u, Len(d[u])) BY <1>1, <1>2, <1>4, WordKept
  <2> QED BY <1>2, <1>4, <1>5, <2>1 DEF Whole
<1>7. Laid(d, b, m, H, NoWord)
  <2>1. \A w \in Words : m[w] # None => Whole(d, b, m, H, w) BY <1>3, <1>6 DEF Laid
  <2>2. ASSUME NEW v \in Words, NEW w \in Words, m[v] # None, m[w] # None, v # w
        PROVE  After(d, m, NoWord, v, w) \/ After(d, m, NoWord, w, v)
    <3>1. After(d, m, u, v, w) \/ After(d, m, u, w, v) BY <1>3, <2>2 DEF Laid
    <3> QED BY <3>1 DEF After, BytecodeAssumption
  <2>3. ASSUME NEW k \in 1 .. Len(b)
        PROVE  \E w \in Words : m[w] # None /\ m[w] < k /\ k <= End(d, m, w)
    <3>1. PICK w \in Words : m[w] # None /\ m[w] < k /\ (w # u => k <= End(d, m, w))
      BY <1>3 DEF Laid
    <3>2. CASE w = u BY <1>4, <1>5, <3>1, <3>2
    <3>3. CASE w # u BY <3>1, <3>3
    <3> QED BY <3>2, <3>3
  <2> QED BY <2>1, <2>2, <2>3 DEF Laid
<1> QED BY <1>3, <1>7 DEF Good
-----------------------------------------------------------------------------
(* The invariant.  r are the items of u that its writer has still to       *)
(* write, after n of them.                                                 *)
Open(d, a, m, H, u, r, n) ==
  /\ Begun(d, a, m, H, u, n) /\ Len(a) = m[u] + Offset(d[u], n)
  /\ Len(r) + n = Len(d[u]) /\ \A i \in 1 .. Len(r) : r[i] = d[u][n + i]

(* No two holes on the stack are at one place, nor one there and p. *)
Distinct(s, p) ==
  /\ \A i, j \in DOMAIN s : s[i].at = s[j].at => i = j
  /\ \A i \in DOMAIN s : s[i].at # p.at

(* The main word is written first. *)
MainFirst == wordAddressMap[Main] = 0

Phases ==
  /\ phase = "start" => bcArray = << >> /\ addressPatches = << >> /\ \A w \in Words : ~ Written(w)
  /\ phase \in {"start", "loop", "done"} => writing = NoWord /\ patch = NoPatch
  /\ phase = "done" => addressPatches = << >>
  /\ phase # "start" => MainFirst
  /\ phase = "write" => /\ writing \in Words
                        /\ \E n \in Nat : Open(dict, bcArray, wordAddressMap, Holes, writing, rest, n)
  /\ patch # NoPatch => patch.w = writing

IInv ==
  /\ TypeOK /\ Phases
  /\ Distinct(addressPatches, patch)
  /\ Good(dict, bcArray, wordAddressMap, Holes, writing)

LEMMA StartHolds == ASSUME BytecodeAssumption, Init PROVE IInv
<1>1. TypeOK
  <2>1. bcArray = << >> /\ addressPatches = << >> /\ rest = << >> BY DEF Init
  <2>2. \A S : << >> \in Seq(S) OBVIOUS
  <2>3. dict \in [Words -> Seq(Items) \cup {Undefined}] BY DEF Init, BytecodeAssumption
  <2> QED BY <2>1, <2>2, <2>3 DEF Init, TypeOK
<1>2. Phases BY DEF Init, Phases, Written
<1>3. Distinct(addressPatches, patch) BY DEF Init, Distinct
<1>4. Holes = {} BY DEF Init, Holes
<1>5. Good(dict, bcArray, wordAddressMap, Holes, writing)
  <2>1. bcArray = << >> /\ Len(bcArray) = 0 /\ wordAddressMap = [w \in Words |-> None] BY DEF Init
  <2>2. Array(bcArray, wordAddressMap) BY <2>1 DEF Array
  <2>3. Exact(bcArray, Holes) BY <1>4, <2>1 DEF Exact
  <2>4. Laid(dict, bcArray, wordAddressMap, Holes, writing) BY <2>1 DEF Laid
  <2> QED BY <2>2, <2>3, <2>4 DEF Good
<1> QED BY <1>1, <1>2, <1>3, <1>5 DEF IInv

(* The bytecodes of TypeOK are those of Array. *)
LEMMA TypeOfArray == TypeOK <=>
  /\ dict \in [Words -> Seq(Items) \cup {Undefined}]
  /\ bcArray \in Seq(Codes(Len(bcArray)))
  /\ wordAddressMap \in [Words -> Nat \cup {None}]
  /\ addressPatches \in Seq(Hole)
  /\ patch \in Hole \cup {NoPatch}
  /\ writing \in Words \cup {NoWord} /\ rest \in Seq(Items)
  /\ phase \in {"start", "write", "loop", "done", "failed"}
<1> QED BY DEF TypeOK, Codes, Hole

(* writeWord keeps the invariant. *)
LEMMA StartWordKeeps ==
  ASSUME BytecodeAssumption, IInv, writing = NoWord, NEW w \in Words, wordAddressMap[w] = None,
         StartWord(w), dict' = dict, bcArray' = bcArray, Holes' = Holes,
         addressPatches' \in Seq(Hole), patch' \in Hole \cup {NoPatch},
         Distinct(addressPatches', patch'), patch' # NoPatch => patch'.w = w,
         (w = Main /\ Len(bcArray) = 0) \/ MainFirst
  PROVE  IInv'
<1>1. Good(dict, bcArray, wordAddressMap, Holes, NoWord) /\ TypeOK BY DEF IInv
<1>2. wordAddressMap' = [wordAddressMap EXCEPT ![w] = Len(bcArray)] /\ writing' = w
  BY DEF StartWord, currentAddress
<1>3. Len(bcArray) \in Nat /\ wordAddressMap \in [Words -> Nat \cup {None}] BY <1>1, TypeOfArray
<1>4. /\ Good(dict, bcArray, wordAddressMap', Holes, w)
      /\ wordAddressMap'[w] = Len(bcArray)
      /\ \A v \in Words : v # w => wordAddressMap'[v] = wordAddressMap[v]
      /\ dict[w] \in Seq(Items) => Begun(dict, bcArray, wordAddressMap', Holes, w, 0)
  <2>1. /\ wordAddressMap' \in [Words -> Nat \cup {None}]
        /\ wordAddressMap'[w] = Len(bcArray)
        /\ \A v \in Words : v # w => wordAddressMap'[v] = wordAddressMap[v]
    BY <1>2, <1>3
  <2> QED BY <1>1, <2>1, StartGood
<1>5. dict[w] \in Seq(Items) \cup {Undefined} BY <1>1, TypeOfArray
<1>6. /\ phase' \in {"failed", "write"} /\ rest' \in Seq(Items)
      /\ phase' = "write" => rest' = dict[w] /\ dict[w] \in Seq(Items)
  <2>1. CASE dict[w] = Undefined
    <3>1. phase' = "failed" /\ rest' = << >> BY <2>1 DEF StartWord
    <3> QED BY <3>1
  <2>2. CASE dict[w] # Undefined
    <3>1. phase' = "write" /\ rest' = dict[w] BY <2>2 DEF StartWord
    <3> QED BY <1>5, <2>2, <3>1
  <2> QED BY <2>1, <2>2
<1>7. TypeOK'
  <2>1. wordAddressMap' \in [Words -> Nat \cup {None}] BY <1>4 DEF Good, Array
  <2>2. /\ dict' \in [Words -> Seq(Items) \cup {Undefined}]
        /\ bcArray' \in Seq(Codes(Len(bcArray')))
    BY <1>1, TypeOfArray
  <2> QED BY <1>2, <1>6, <2>1, <2>2 DEF TypeOK, Codes, Hole
<1>8. Phases'
  <2>1. MainFirst'
    <3>1. Main \in Words BY DEF BytecodeAssumption
    <3>2. CASE w = Main /\ Len(bcArray) = 0 BY <1>4, <3>2 DEF MainFirst
    <3>3. CASE MainFirst
      <4>1. wordAddressMap[Main] # None BY <3>3 DEF MainFirst, None
      <4> QED BY <1>4, <3>1, <3>3, <4>1 DEF MainFirst
    <3> QED BY <3>2, <3>3
  <2>2. ASSUME phase' = "write"
        PROVE  Open(dict', bcArray', wordAddressMap', Holes', writing', rest', 0)
    <3>1. Begun(dict, bcArray, wordAddressMap', Holes, w, 0) /\ rest' = dict[w] BY <1>4, <1>6, <2>2
    <3>2. Len(bcArray) = wordAddressMap'[w] + Offset(dict[w], 0) BY <1>4, <1>3, OffsetZero
    <3> QED BY <1>2, <1>6, <2>2, <3>1, <3>2 DEF Open
  <2>3. phase' = "write" => \E n \in Nat : Open(dict', bcArray', wordAddressMap', Holes', writing', rest', n)
    BY <2>2
  <2> QED BY <1>2, <1>6, <2>1, <2>3 DEF Phases
<1> QED BY <1>2, <1>4, <1>7, <1>8 DEF IInv

(* The holes on the stack are the first and the others. *)
LEMMA StackHoles ==
  ASSUME NEW s \in Seq(Hole), s # << >>, NEW p \in Hole \cup {NoPatch}, Distinct(s, p)
  PROVE  /\ Head(s) \in Hole /\ Head(s) # NoPatch
         /\ {s[i] : i \in DOMAIN s} = {Head(s)} \cup {Tail(s)[i] : i \in DOMAIN Tail(s)}
         /\ Head(s) \notin {Tail(s)[i] : i \in DOMAIN Tail(s)}
         /\ Tail(s) \in Seq(Hole) /\ Distinct(Tail(s), Head(s)) /\ Distinct(Tail(s), p)
<1>1. /\ Len(s) \in Nat /\ Len(s) >= 1 /\ DOMAIN s = 1 .. Len(s) /\ Head(s) = s[1] /\ s[1] \in Hole
      /\ Tail(s) \in Seq(Hole) /\ DOMAIN Tail(s) = 1 .. (Len(s) - 1)
      /\ \A i \in 1 .. (Len(s) - 1) : Tail(s)[i] = s[i + 1]
  OBVIOUS
<1>2. Head(s) # NoPatch BY <1>1 DEF Hole, NoPatch, None
<1>3. {s[i] : i \in DOMAIN s} = {Head(s)} \cup {Tail(s)[i] : i \in DOMAIN Tail(s)}
  <2>1. ASSUME NEW i \in 1 .. Len(s)
        PROVE  s[i] \in {Head(s)} \cup {Tail(s)[j] : j \in DOMAIN Tail(s)}
    <3>1. CASE i = 1 BY <1>1, <3>1
    <3>2. CASE i # 1
      <4>1. i - 1 \in 1 .. (Len(s) - 1) /\ Tail(s)[i - 1] = s[i] BY <1>1, <3>2
      <4> QED BY <1>1, <4>1
    <3> QED BY <3>1, <3>2
  <2>2. ASSUME NEW i \in 1 .. (Len(s) - 1) PROVE Tail(s)[i] \in {s[j] : j \in DOMAIN s}
    <3>1. i + 1 \in 1 .. Len(s) BY <1>1
    <3> QED BY <1>1, <3>1
  <2>3. Head(s) \in {s[j] : j \in DOMAIN s}
    <3>1. 1 \in 1 .. Len(s) BY <1>1
    <3> QED BY <1>1, <3>1
  <2> QED BY <1>1, <2>1, <2>2, <2>3
<1>4. ASSUME NEW i \in DOMAIN Tail(s)
      PROVE  Tail(s)[i].at # Head(s).at /\ Tail(s)[i].at # p.at
  <2>1. i + 1 \in 1 .. Len(s) /\ 1 \in 1 .. Len(s) /\ i + 1 # 1 BY <1>1, <1>4
  <2>2. s[i + 1].at # s[1].at /\ s[i + 1].at # p.at BY <1>1, <2>1 DEF Distinct
  <2> QED BY <1>1, <1>4, <2>2
<1>5. ASSUME NEW i \in DOMAIN Tail(s), NEW j \in DOMAIN Tail(s), Tail(s)[i].at = Tail(s)[j].at
      PROVE  i = j
  <2>1. i \in Int /\ j \in Int /\ i + 1 \in 1 .. Len(s) /\ j + 1 \in 1 .. Len(s) BY <1>1, <1>5
  <2>2. s[i + 1].at = s[j + 1].at BY <1>1, <1>5
  <2>3. i + 1 = j + 1 BY <1>1, <2>1, <2>2 DEF Distinct
  <2> QED BY <2>1, <2>3
<1> QED BY <1>1, <1>2, <1>3, <1>4, <1>5 DEF Distinct

LEMMA HolesOf ==
  /\ patch = NoPatch => Holes = {addressPatches[i] : i \in DOMAIN addressPatches}
  /\ patch # NoPatch => Holes = {addressPatches[i] : i \in DOMAIN addressPatches} \cup {patch}
<1> QED BY DEF Holes

LEMMA WriteMainKeeps == ASSUME BytecodeAssumption, IInv, WriteMain PROVE IInv'
<1>1. phase = "start" /\ StartWord(Main) /\ UNCHANGED <<dict, bcArray, addressPatches, patch>>
  BY DEF WriteMain
<1>2. writing = NoWord /\ patch = NoPatch /\ wordAddressMap[Main] = None
  BY <1>1 DEF IInv, Phases, Written, BytecodeAssumption
<1>3. addressPatches' \in Seq(Hole) /\ patch' \in Hole \cup {NoPatch} BY <1>1, TypeOfArray DEF IInv
<1>4. Holes' = Holes /\ Distinct(addressPatches', patch') BY <1>1 DEF Holes, IInv
<1>5. Main \in Words BY DEF BytecodeAssumption
<1>6. Len(bcArray) = 0 BY <1>1 DEF IInv, Phases
<1> QED BY <1>1, <1>2, <1>3, <1>4, <1>5, <1>6, StartWordKeeps

(* What the word being written has still to write. *)
First(r) == Head(r)
Others(r) == Tail(r)

LEMMA FirstOthers ==
  ASSUME NEW r \in Seq(Items), r # << >>
  PROVE  /\ First(r) \in Items /\ First(r) = r[1] /\ Len(r) \in Nat /\ Len(r) >= 1
         /\ Others(r) \in Seq(Items) /\ Len(Others(r)) = Len(r) - 1
         /\ \A i \in 1 .. (Len(r) - 1) : Others(r)[i] = r[i + 1]
<1> QED BY DEF First, Others

(* An item is written: the word is begun by one more. *)
LEMMA ItemWritten ==
  ASSUME BytecodeAssumption, NEW d, NEW a, NEW m, NEW H, NEW u \in Words, NEW r \in Seq(Items),
         r # << >>, \E n \in Nat : Open(d, a, m, H, u, r, n), Good(d, a, m, H, u),
         NEW b, NEW J, Good(d, b, m, J, u), Keeps(a, m, H, b, m, J),
         Len(b) = Len(a) + Size(First(r)), ItemAt(b, m, J, First(r), Len(a) + 1)
  PROVE  \E n \in Nat : Open(d, b, m, J, u, Others(r), n)
<1>. PICK n \in Nat : Open(d, a, m, H, u, r, n) OBVIOUS
<1>1. /\ First(r) = r[1] /\ Len(r) \in Nat /\ Len(r) >= 1
      /\ Others(r) \in Seq(Items) /\ Len(Others(r)) = Len(r) - 1
      /\ \A i \in 1 .. (Len(r) - 1) : Others(r)[i] = r[i + 1]
  BY FirstOthers
<1>2. Array(a, m) /\ Exact(a, H) /\ Array(b, m) BY DEF Good
<1>3. b \in Seq(Codes(Len(b))) /\ Len(b) \in Nat /\ Len(a) \in Nat BY <1>2 DEF Array
<1>4. Begun(d, b, m, J, u, n) BY <1>2, <1>3, WordKept DEF Open
<1>5. m[u] \in Nat /\ d[u] \in Seq(Items) /\ Len(d[u]) \in Nat BY <1>2, <1>4 DEF Array, Begun
<1>6. Len(a) = m[u] + Offset(d[u], n) /\ Offset(d[u], n) \in Nat BY OffsetIsNat DEF Open
<1>7. Len(r) + n = Len(d[u]) /\ n + 1 \in 1 .. Len(d[u]) /\ Len(Others(r)) + (n + 1) = Len(d[u])
  <2>1. Len(r) + n = Len(d[u]) BY DEF Open
  <2>2. Len(r) \in Nat /\ Len(r) >= 1 /\ Len(d[u]) \in Nat /\ Len(Others(r)) = Len(r) - 1 BY <1>1, <1>5
  <2> QED BY <2>1, <2>2
<1>8. First(r) = d[u][n + 1] BY <1>1 DEF Open
<1>9. ASSUME NEW i \in 1 .. Len(Others(r)) PROVE Others(r)[i] = d[u][(n + 1) + i]
  <2>1. i \in 1 .. (Len(r) - 1) /\ i + 1 \in 1 .. Len(r) /\ n + (i + 1) = (n + 1) + i BY <1>1
  <2>2. r[i + 1] = d[u][n + (i + 1)] BY <2>1 DEF Open
  <2> QED BY <1>1, <2>1, <2>2
<1>10. Begun(d, b, m, J, u, n + 1)
  <2>1. ASSUME NEW i \in 1 .. (n + 1)
        PROVE  ItemAt(b, m, J, d[u][i], m[u] + Offset(d[u], i - 1) + 1)
    <3>1. CASE i \in 1 .. n BY <1>4, <3>1 DEF Begun
    <3>2. CASE i = n + 1
      <4>1. i - 1 = n BY <3>2
      <4>2. m[u] + Offset(d[u], i - 1) + 1 = Len(a) + 1 BY <1>6, <4>1
      <4> QED BY <1>8, <3>2, <4>2
    <3> QED BY <3>1, <3>2
  <2> QED BY <1>4, <1>5, <1>7, <2>1 DEF Begun
<1>11. Len(b) = m[u] + Offset(d[u], n + 1)
  <2>1. Offset(d[u], n + 1) = Offset(d[u], n) + Size(d[u][n + 1]) BY OffsetNext
  <2>2. Size(d[u][n + 1]) \in Nat BY DEF Size
  <2> QED BY <1>5, <1>6, <1>8, <2>1, <2>2
<1>12. Open(d, b, m, J, u, Others(r), n + 1) BY <1>7, <1>9, <1>10, <1>11 DEF Open
<1> QED BY <1>12

(* What the invariant says while a word is written. *)
LEMMA Writing == ASSUME IInv, phase = "write"
  PROVE  /\ writing \in Words /\ Written(writing) /\ wordAddressMap[writing] # None
         /\ rest \in Seq(Items) /\ addressPatches \in Seq(Hole) /\ patch \in Hole \cup {NoPatch}
         /\ Good(dict, bcArray, wordAddressMap, Holes, writing)
         /\ Len(bcArray) \in Nat /\ MainFirst /\ (patch # NoPatch => patch.w = writing)
         /\ \E n \in Nat : Open(dict, bcArray, wordAddressMap, Holes, writing, rest, n)
<1>1. PICK n \in Nat : Open(dict, bcArray, wordAddressMap, Holes, writing, rest, n)
  BY DEF IInv, Phases
<1>2. wordAddressMap[writing] # None BY <1>1 DEF Open, Begun
<1>3. Len(bcArray) \in Nat BY TypeOfArray DEF IInv
<1> QED BY <1>2, <1>3, TypeOfArray DEF IInv, Phases, Written, MainFirst

LEMMA AppendCodeKeeps == ASSUME BytecodeAssumption, IInv, AppendCode PROVE IInv'
<1> DEFINE code == Head(rest).code
<1>1. /\ phase = "write" /\ rest # << >> /\ Head(rest).do = "append"
      /\ bcArray' = Append(bcArray, code) /\ rest' = Tail(rest)
      /\ UNCHANGED <<dict, wordAddressMap, addressPatches, patch, writing, phase>>
  BY DEF AppendCode
<1>2. /\ writing \in Words /\ wordAddressMap[writing] # None /\ rest \in Seq(Items)
      /\ Good(dict, bcArray, wordAddressMap, Holes, writing) /\ Len(bcArray) \in Nat
      /\ \E n \in Nat : Open(dict, bcArray, wordAddressMap, Holes, writing, rest, n)
  BY <1>1, Writing
<1>3. First(rest) \in Items /\ Others(rest) \in Seq(Items) BY <1>1, <1>2, FirstOthers
<1>4. Head(rest) = First(rest) /\ Tail(rest) = Others(rest) BY DEF First, Others
<1>5. First(rest).do = "append" /\ code = First(rest).code /\ rest' = Others(rest) BY <1>1, <1>4
<1>6. code \in Primitives BY <1>3, <1>5, Item
<1> HIDE DEF code
<1>7. /\ Good(dict, bcArray', wordAddressMap, Holes, writing)
      /\ Keeps(bcArray, wordAddressMap, Holes, bcArray', wordAddressMap, Holes)
      /\ Len(bcArray') = Len(bcArray) + 1 /\ bcArray'[Len(bcArray) + 1] = code
  <2>1. Good(dict, Append(bcArray, code), wordAddressMap, Holes, writing)
    BY <1>2, <1>6, AppendGood
  <2>2. Keeps(bcArray, wordAddressMap, Holes, Append(bcArray, code), wordAddressMap, Holes)
    BY <1>2, <1>6, AppendGood
  <2>3. bcArray \in Seq(Codes(Len(bcArray))) BY <1>2 DEF Good, Array
  <2> QED BY <1>1, <2>1, <2>2, <2>3
<1>8. Size(First(rest)) = 1 BY <1>5 DEF Size
<1>9. ItemAt(bcArray', wordAddressMap, Holes, First(rest), Len(bcArray) + 1)
  BY <1>2, <1>5, <1>7, <1>8 DEF ItemAt
<1>10. \E n \in Nat : Open(dict, bcArray', wordAddressMap, Holes, writing, Others(rest), n)
  BY <1>1, <1>2, <1>7, <1>8, <1>9, ItemWritten
<1>11. Holes' = Holes BY <1>1 DEF Holes
<1>12. Phases' BY <1>1, <1>2, <1>5, <1>10, <1>11 DEF IInv, Phases, Written, MainFirst
<1>13. TypeOK'
  <2>1. bcArray' \in Seq(Codes(Len(bcArray'))) BY <1>7 DEF Good, Array
  <2> QED BY <1>1, <1>3, <1>5, <2>1 DEF IInv, TypeOK, Codes
<1> QED BY <1>1, <1>7, <1>11, <1>12, <1>13 DEF IInv

(* A hole is put before the others. *)
Pushed(h, s) == <<h>> \o s

LEMMA StackPush ==
  ASSUME NEW s \in Seq(Hole), NEW h \in Hole, NEW p \in Hole \cup {NoPatch}, Distinct(s, p),
         \A i \in DOMAIN s : s[i].at < h.at, p.at < h.at
  PROVE  /\ Pushed(h, s) \in Seq(Hole) /\ Distinct(Pushed(h, s), p)
         /\ {Pushed(h, s)[i] : i \in DOMAIN Pushed(h, s)} = {s[i] : i \in DOMAIN s} \cup {h}
<1> DEFINE t == Pushed(h, s)
<1>1. /\ Len(s) \in Nat /\ DOMAIN s = 1 .. Len(s) /\ t \in Seq(Hole)
      /\ DOMAIN t = 1 .. (Len(s) + 1) /\ t[1] = h
      /\ \A i \in 1 .. (Len(s) + 1) : i # 1 => t[i] = s[i - 1] /\ i - 1 \in 1 .. Len(s)
      /\ \A i \in 1 .. Len(s) : t[i + 1] = s[i] /\ i + 1 \in 1 .. (Len(s) + 1)
  BY DEF Pushed
<1>2. \A i \in 1 .. Len(s) : s[i].at \in Nat /\ s[i].at < h.at
  <2>1. \A i \in 1 .. Len(s) : s[i] \in Hole BY <1>1
  <2> QED BY <1>1, <2>1 DEF Hole
<1>3. h.at \in Nat /\ p.at \in Int BY DEF Hole, NoPatch, None
<1> HIDE DEF t
<1>4. ASSUME NEW i \in DOMAIN t, NEW j \in DOMAIN t, t[i].at = t[j].at PROVE i = j
  <2>1. i \in 1 .. (Len(s) + 1) /\ j \in 1 .. (Len(s) + 1) BY <1>1
  <2>2. CASE i = 1 /\ j = 1 BY <2>2
  <2>3. CASE i = 1 /\ j # 1
    <3>1. t[j] = s[j - 1] /\ j - 1 \in 1 .. Len(s) BY <1>1, <2>1, <2>3
    <3> QED BY <1>1, <1>2, <1>3, <1>4, <2>3, <3>1
  <2>4. CASE i # 1 /\ j = 1
    <3>1. t[i] = s[i - 1] /\ i - 1 \in 1 .. Len(s) BY <1>1, <2>1, <2>4
    <3> QED BY <1>1, <1>2, <1>3, <1>4, <2>4, <3>1
  <2>5. CASE i # 1 /\ j # 1
    <3>1. /\ t[i] = s[i - 1] /\ i - 1 \in 1 .. Len(s)
          /\ t[j] = s[j - 1] /\ j - 1 \in 1 .. Len(s)
      BY <1>1, <2>1, <2>5
    <3>2. i - 1 = j - 1 BY <1>1, <1>4, <3>1 DEF Distinct
    <3> QED BY <2>1, <3>2
  <2> QED BY <2>2, <2>3, <2>4, <2>5
<1>5. ASSUME NEW i \in DOMAIN t PROVE t[i].at # p.at
  <2>1. CASE i = 1 BY <1>1, <1>3, <2>1
  <2>2. CASE i # 1
    <3>1. t[i] = s[i - 1] /\ i - 1 \in 1 .. Len(s) BY <1>1, <2>2
    <3> QED BY <1>1, <3>1 DEF Distinct
  <2> QED BY <2>1, <2>2
<1>6. {t[i] : i \in DOMAIN t} = {s[i] : i \in DOMAIN s} \cup {h}
  <2>1. ASSUME NEW i \in DOMAIN t PROVE t[i] \in {s[j] : j \in DOMAIN s} \cup {h}
    <3>1. CASE i = 1 BY <1>1, <3>1
    <3>2. CASE i # 1
      <4>1. t[i] = s[i - 1] /\ i - 1 \in DOMAIN s BY <1>1, <3>2
      <4> QED BY <4>1
    <3> QED BY <3>1, <3>2
  <2>2. ASSUME NEW i \in DOMAIN s PROVE s[i] \in {t[j] : j \in DOMAIN t}
    <3>1. t[i + 1] = s[i] /\ i + 1 \in DOMAIN t BY <1>1
    <3> QED BY <3>1
  <2>3. h \in {t[j] : j \in DOMAIN t}
    <3>1. 1 \in DOMAIN t /\ t[1] = h BY <1>1
    <3> QED BY <3>1
  <2> QED BY <2>1, <2>2, <2>3
<1> QED BY <1>1, <1>4, <1>5, <1>6 DEF Distinct, t

LEMMA AppendCallKeeps == ASSUME BytecodeAssumption, IInv, AppendCall PROVE IInv'
<1> DEFINE c == Head(rest).w
           new == HoleFor(bcArray, c)
           J == Holes \cup {new}
<1>1. /\ phase = "write" /\ rest # << >> /\ Head(rest).do = "call"
      /\ addressPatches' = Pushed(new, addressPatches)
      /\ bcArray' = WithCall(bcArray) /\ rest' = Tail(rest)
      /\ UNCHANGED <<dict, wordAddressMap, patch, writing, phase>>
  BY DEF AppendCall, currentAddress, HoleFor, WithCall, Pushed
<1>2. /\ writing \in Words /\ wordAddressMap[writing] # None /\ rest \in Seq(Items)
      /\ Good(dict, bcArray, wordAddressMap, Holes, writing) /\ Len(bcArray) \in Nat
      /\ addressPatches \in Seq(Hole) /\ patch \in Hole \cup {NoPatch}
      /\ \E n \in Nat : Open(dict, bcArray, wordAddressMap, Holes, writing, rest, n)
  BY <1>1, Writing
<1>3. First(rest) \in Items /\ Others(rest) \in Seq(Items) BY <1>1, <1>2, FirstOthers
<1>4. Head(rest) = First(rest) /\ Tail(rest) = Others(rest) BY DEF First, Others
<1>5. First(rest).do = "call" /\ c = First(rest).w /\ rest' = Others(rest) BY <1>1, <1>4
<1>6. c \in Words BY <1>3, <1>5, Item
<1> HIDE DEF c
<1>7. /\ Good(dict, bcArray', wordAddressMap, J, writing)
      /\ Keeps(bcArray, wordAddressMap, Holes, bcArray', wordAddressMap, J)
      /\ Len(bcArray') = Len(bcArray) + 2
      /\ bcArray'[Len(bcArray) + 1] = Null /\ bcArray'[Len(bcArray) + 2] = Apply
  <2>1. /\ Good(dict, WithCall(bcArray), wordAddressMap, J, writing)
        /\ Keeps(bcArray, wordAddressMap, Holes, WithCall(bcArray), wordAddressMap, J)
    BY <1>2, <1>6, CallGood
  <2>2. bcArray \in Seq(Codes(Len(bcArray))) BY <1>2 DEF Good, Array
  <2>3. /\ Len(WithCall(bcArray)) = Len(bcArray) + 2
        /\ WithCall(bcArray)[Len(bcArray) + 1] = Null /\ WithCall(bcArray)[Len(bcArray) + 2] = Apply
    BY <2>2 DEF WithCall
  <2> QED BY <1>1, <2>1, <2>3
<1>8. new \in Hole /\ new.at = Len(bcArray) /\ new.w = c BY <1>2, <1>6 DEF Hole, HoleFor
<1>9. \A h \in Holes : h.at < Len(bcArray) BY <1>2 DEF Good, Exact
<1>10. /\ addressPatches' \in Seq(Hole) /\ Distinct(addressPatches', patch)
       /\ {addressPatches'[i] : i \in DOMAIN addressPatches'}
            = {addressPatches[i] : i \in DOMAIN addressPatches} \cup {new}
  <2>1. \A i \in DOMAIN addressPatches : addressPatches[i] \in Holes BY DEF Holes
  <2>2. patch.at < Len(bcArray)
    <3>1. CASE patch = NoPatch BY <1>2, <3>1 DEF NoPatch, None
    <3>2. CASE patch # NoPatch BY <1>9, <3>2 DEF Holes
    <3> QED BY <3>1, <3>2
  <2>3. Distinct(addressPatches, patch) BY DEF IInv
  <2>4. (\A i \in DOMAIN addressPatches : addressPatches[i].at < new.at) /\ patch.at < new.at
    BY <1>8, <1>9, <2>1, <2>2
  <2> HIDE DEF new
  <2>5. /\ Pushed(new, addressPatches) \in Seq(Hole) /\ Distinct(Pushed(new, addressPatches), patch)
        /\ {Pushed(new, addressPatches)[i] : i \in DOMAIN Pushed(new, addressPatches)}
             = {addressPatches[i] : i \in DOMAIN addressPatches} \cup {new}
    BY <1>2, <1>8, <2>3, <2>4, StackPush
  <2> QED BY <1>1, <2>5
<1>11. Holes' = J BY <1>1, <1>10 DEF Holes
<1>12. Size(First(rest)) = 2 BY <1>5 DEF Size
<1>13. ItemAt(bcArray', wordAddressMap, J, First(rest), Len(bcArray) + 1)
  <2>1. Called(bcArray', wordAddressMap, J, First(rest), Len(bcArray) + 1)
    <3>1. new \in J /\ new.at = (Len(bcArray) + 1) - 1 /\ new.w = First(rest).w BY <1>2, <1>5, <1>8
    <3> QED BY <1>7, <3>1 DEF Called
  <2> QED BY <1>2, <1>5, <1>7, <1>12, <2>1 DEF ItemAt
<1> HIDE DEF J
<1>14. \E n \in Nat : Open(dict, bcArray', wordAddressMap, J, writing, Others(rest), n)
  BY <1>1, <1>2, <1>7, <1>12, <1>13, ItemWritten
<1>15. Phases' BY <1>1, <1>2, <1>5, <1>11, <1>14 DEF IInv, Phases, Written, MainFirst
<1>16. TypeOK'
  <2>1. bcArray' \in Seq(Codes(Len(bcArray'))) BY <1>7 DEF Good, Array
  <2> QED BY <1>1, <1>3, <1>5, <1>10, <2>1 DEF IInv, TypeOK, Codes, Hole
<1> QED BY <1>1, <1>7, <1>10, <1>11, <1>15, <1>16 DEF IInv

LEMMA EndWordKeeps == ASSUME BytecodeAssumption, IInv, EndWord PROVE IInv'
<1> DEFINE b == Append(bcArray, Return)
<1>1. /\ phase = "write" /\ rest = << >>
      /\ bcArray' = IF patch = NoPatch THEN b ELSE Filled(b, patch.at, wordAddressMap[patch.w])
      /\ patch' = NoPatch /\ writing' = NoWord /\ phase' = "loop"
      /\ UNCHANGED <<dict, wordAddressMap, addressPatches, rest>>
  BY DEF EndWord
<1>2. /\ writing \in Words /\ wordAddressMap[writing] # None
      /\ Good(dict, bcArray, wordAddressMap, Holes, writing)
      /\ addressPatches \in Seq(Hole) /\ patch \in Hole \cup {NoPatch}
      /\ MainFirst /\ (patch # NoPatch => patch.w = writing)
  BY <1>1, Writing
<1>3. PICK n \in Nat : Open(dict, bcArray, wordAddressMap, Holes, writing, rest, n) BY <1>1, Writing
<1>4. n = Len(dict[writing])
  <2>1. Len(rest) = 0 BY <1>1
  <2>2. Len(rest) + n = Len(dict[writing]) BY <1>3 DEF Open
  <2> QED BY <2>1, <2>2
<1>5. Good(dict, b, wordAddressMap, Holes, NoWord)
  <2>1. /\ Begun(dict, bcArray, wordAddressMap, Holes, writing, Len(dict[writing]))
        /\ Len(bcArray) = wordAddressMap[writing] + Offset(dict[writing], Len(dict[writing]))
    BY <1>3, <1>4 DEF Open
  <2> QED BY <1>2, <2>1, EndGood
<1> HIDE DEF b
<1>6. Holes' = {addressPatches[i] : i \in DOMAIN addressPatches} BY <1>1 DEF Holes
<1>7. Good(dict, bcArray', wordAddressMap, Holes', NoWord)
  <2>1. CASE patch = NoPatch BY <1>1, <1>5, <1>6, <2>1, HolesOf
  <2>2. CASE patch # NoPatch
    <3>1. Holes = Holes' \cup {patch} BY <1>6, <2>2, HolesOf
    <3>2. patch \notin Holes'
      <4>1. \A i \in DOMAIN addressPatches : addressPatches[i].at # patch.at BY DEF IInv, Distinct
      <4> QED BY <1>6, <4>1
    <3>3. Holes' = Holes \ {patch} /\ patch \in Holes BY <3>1, <3>2
    <3>4. wordAddressMap[patch.w] # None BY <1>2, <2>2
    <3>5. Good(dict, Filled(b, patch.at, wordAddressMap[patch.w]), wordAddressMap, Holes \ {patch}, NoWord)
      BY <1>5, <3>3, <3>4, FillGood
    <3> QED BY <1>1, <2>2, <3>3, <3>5
  <2> QED BY <2>1, <2>2
<1>8. Distinct(addressPatches, NoPatch)
  <2>1. \A i \in DOMAIN addressPatches : addressPatches[i] \in Hole BY <1>2
  <2>2. \A i \in DOMAIN addressPatches : addressPatches[i].at \in Nat BY <2>1 DEF Hole
  <2> QED BY <2>2 DEF IInv, Distinct, NoPatch, None
<1>9. Phases' BY <1>1, <1>2 DEF Phases, Written, MainFirst
<1>10. TypeOK'
  <2>1. bcArray' \in Seq(Codes(Len(bcArray'))) BY <1>7 DEF Good, Array
  <2> QED BY <1>1, <2>1 DEF IInv, TypeOK, Codes
<1> QED BY <1>1, <1>7, <1>8, <1>9, <1>10 DEF IInv

LEMMA PopPatchKeeps == ASSUME BytecodeAssumption, IInv, PopPatch PROVE IInv'
<1> DEFINE p == Head(addressPatches)
<1>1. /\ phase = "loop" /\ addressPatches # << >> /\ addressPatches' = Tail(addressPatches)
      /\ IF wordAddressMap[p.w] = None
         THEN patch' = p /\ StartWord(p.w) /\ UNCHANGED bcArray
         ELSE /\ bcArray' = Filled(bcArray, p.at, wordAddressMap[p.w])
              /\ UNCHANGED <<wordAddressMap, patch, writing, rest, phase>>
      /\ dict' = dict
  BY DEF PopPatch
<1>2. /\ writing = NoWord /\ patch = NoPatch /\ addressPatches \in Seq(Hole)
      /\ Distinct(addressPatches, patch) /\ MainFirst
      /\ Good(dict, bcArray, wordAddressMap, Holes, NoWord)
  BY <1>1, TypeOfArray DEF IInv, Phases
<1>3. /\ p \in Hole /\ p # NoPatch
      /\ {addressPatches[i] : i \in DOMAIN addressPatches}
           = {p} \cup {addressPatches'[i] : i \in DOMAIN addressPatches'}
      /\ p \notin {addressPatches'[i] : i \in DOMAIN addressPatches'}
      /\ addressPatches' \in Seq(Hole)
      /\ Distinct(addressPatches', p) /\ Distinct(addressPatches', patch)
  BY <1>1, <1>2, StackHoles
<1>4. p.w \in Words BY <1>3 DEF Hole
<1> HIDE DEF p
<1>5. CASE wordAddressMap[p.w] = None
  <2>1. patch' = p /\ StartWord(p.w) /\ bcArray' = bcArray BY <1>1, <1>5
  <2>2. Holes' = Holes BY <1>2, <1>3, <2>1 DEF Holes
  <2> QED BY <1>1, <1>2, <1>3, <1>4, <1>5, <2>1, <2>2, StartWordKeeps
<1>6. CASE wordAddressMap[p.w] # None
  <2>1. /\ bcArray' = Filled(bcArray, p.at, wordAddressMap[p.w])
        /\ UNCHANGED <<wordAddressMap, patch, writing, rest, phase>>
    BY <1>1, <1>6
  <2>2. p \in Holes /\ Holes' = Holes \ {p} BY <1>2, <1>3, <2>1 DEF Holes
  <2>3. Good(dict, bcArray', wordAddressMap, Holes', NoWord)
    <3>1. Good(dict, Filled(bcArray, p.at, wordAddressMap[p.w]), wordAddressMap, Holes \ {p}, NoWord)
      BY <1>2, <1>6, <2>2, FillGood
    <3> QED BY <2>1, <2>2, <3>1
  <2>4. Phases' BY <1>1, <1>2, <2>1 DEF Phases, Written, MainFirst
  <2>5. TypeOK'
    <3>1. bcArray' \in Seq(Codes(Len(bcArray'))) BY <2>3 DEF Good, Array
    <3> QED BY <1>1, <1>3, <2>1, <3>1 DEF IInv, TypeOK, Codes, Hole
  <2> QED BY <1>1, <1>2, <1>3, <2>1, <2>3, <2>4, <2>5 DEF IInv
<1> QED BY <1>5, <1>6

LEMMA FinishKeeps == ASSUME IInv, Finish PROVE IInv'
<1>1. /\ phase = "loop" /\ addressPatches = << >> /\ phase' = "done"
      /\ UNCHANGED <<dict, bcArray, wordAddressMap, addressPatches, patch, writing, rest>>
  BY DEF Finish
<1>2. Holes' = Holes BY <1>1 DEF Holes
<1>3. Phases' BY <1>1 DEF IInv, Phases, Written, MainFirst
<1>4. TypeOK' BY <1>1 DEF IInv, TypeOK
<1> QED BY <1>1, <1>2, <1>3, <1>4 DEF IInv

LEMMA StutterKeeps == ASSUME IInv, UNCHANGED vars PROVE IInv'
<1>1. Holes' = Holes BY DEF Holes, vars
<1>2. Phases' BY <1>1 DEF IInv, Phases, Written, MainFirst, vars
<1>3. TypeOK' BY DEF IInv, TypeOK, vars
<1> QED BY <1>1, <1>2, <1>3 DEF IInv, vars
-----------------------------------------------------------------------------
LEMMA CompileKeeps == ASSUME BytecodeAssumption, IInv, [Compile]_vars PROVE IInv'
<1>1. CASE WriteMain BY <1>1, WriteMainKeeps
<1>2. CASE AppendCode BY <1>2, AppendCodeKeeps
<1>3. CASE AppendCall BY <1>3, AppendCallKeeps
<1>4. CASE EndWord BY <1>4, EndWordKeeps
<1>5. CASE PopPatch BY <1>5, PopPatchKeeps
<1>6. CASE Finish BY <1>6, FinishKeeps
<1>7. CASE UNCHANGED vars BY <1>7, StutterKeeps
<1> QED BY <1>1, <1>2, <1>3, <1>4, <1>5, <1>6, <1>7 DEF Compile

LEMMA RunKeepsArray == ASSUME VM!Run PROVE UNCHANGED bcArray
<1> QED BY DEF VM!Run, VM!OutOfArray, VM!Stop, VM!RunReturn, VM!RunData, VM!RunD2R, VM!RunR2D,
              VM!RunApply, VM!Fails

LEMMA CompileInvariant == ASSUME BytecodeAssumption PROVE Spec => []IInv
<1>1. ProgramInit => IInv BY StartHolds DEF ProgramInit
<1>2. IInv /\ [Next]_<<vars, machine>> => IInv'
  <2>1. SUFFICES ASSUME IInv, [Next]_<<vars, machine>> PROVE IInv' OBVIOUS
  <2>2. CASE Compile BY <2>1, <2>2, CompileKeeps
  <2>3. CASE UNCHANGED vars BY <2>1, <2>3, CompileKeeps
  <2>4. CASE Start BY <2>3, <2>4 DEF Start
  <2>5. CASE Running
    <3>1. UNCHANGED bcArray BY <2>5, RunKeepsArray DEF Running
    <3>2. UNCHANGED vars BY <2>5, <3>1 DEF Running, vars
    <3> QED BY <2>3, <3>2
  <2>6. CASE Ended BY <2>3, <2>6 DEF Ended
  <2> QED BY <2>1, <2>2, <2>3, <2>4, <2>5, <2>6 DEF Next
<1> QED BY <1>1, <1>2, PTL DEF Spec

LEMMA HoldsHoles == ASSUME IInv PROVE HolesKept
<1>1. Exact(bcArray, Holes) /\ bcArray \in Seq(Codes(Len(bcArray))) BY DEF IInv, Good, Array
<1>2. DOMAIN bcArray = 1 .. Len(bcArray) BY <1>1
<1>3. Distinct(addressPatches, patch) BY DEF IInv
<1> QED BY <1>1, <1>2, <1>3 DEF HolesKept, Exact, Distinct

(* In the finished array there is no hole, and every word is whole. *)
LEMMA Finished == ASSUME BytecodeAssumption, IInv, phase = "done"
  PROVE  /\ MainFirst /\ Written(Main) /\ Holes = {} /\ Laid(dict, bcArray, wordAddressMap, {}, NoWord)
         /\ Array(bcArray, wordAddressMap) /\ Exact(bcArray, {})
         /\ \A w \in Words : Written(w) => Whole(dict, bcArray, wordAddressMap, {}, w)
<1>1. MainFirst /\ Holes = {} /\ writing = NoWord BY DEF IInv, Phases, Holes
<1>2. Good(dict, bcArray, wordAddressMap, {}, NoWord) BY <1>1 DEF IInv
<1> QED BY <1>1, <1>2 DEF Good, Laid, Written, MainFirst, None, BytecodeAssumption

LEMMA HoldsLinks == ASSUME BytecodeAssumption, IInv PROVE LinksAsWritten
<1>1. SUFFICES ASSUME phase = "done"
               PROVE  /\ Written(Main)
                      /\ \A w \in Words : Written(w) =>
                           /\ \A i \in DOMAIN dict[w] :
                                LET item == dict[w][i] IN
                                  IF item.do = "append" THEN bcArray[Place(w, i)] = item.code
                                  ELSE /\ Written(item.w)
                                       /\ bcArray[Place(w, i)] = Push(wordAddressMap[item.w])
                                       /\ bcArray[Place(w, i) + 1] = Apply
                           /\ bcArray[Place(w, Len(dict[w]) + 1)] = Return
  BY DEF LinksAsWritten
<1>2. Written(Main) BY <1>1, Finished
<1>3. ASSUME NEW w \in Words, Written(w)
      PROVE  /\ \A i \in DOMAIN dict[w] :
                  LET item == dict[w][i] IN
                    IF item.do = "append" THEN bcArray[Place(w, i)] = item.code
                    ELSE /\ Written(item.w)
                         /\ bcArray[Place(w, i)] = Push(wordAddressMap[item.w])
                         /\ bcArray[Place(w, i) + 1] = Apply
             /\ bcArray[Place(w, Len(dict[w]) + 1)] = Return
  <2>1. Whole(dict, bcArray, wordAddressMap, {}, w) BY <1>1, <1>3, Finished
  <2>2. dict[w] \in Seq(Items) /\ DOMAIN dict[w] = 1 .. Len(dict[w]) /\ Len(dict[w]) \in Nat
    BY <2>1 DEF Whole, Begun
  <2>3. ASSUME NEW i \in 1 .. Len(dict[w])
        PROVE  LET item == dict[w][i] IN
                 IF item.do = "append" THEN bcArray[Place(w, i)] = item.code
                 ELSE /\ Written(item.w)
                      /\ bcArray[Place(w, i)] = Push(wordAddressMap[item.w])
                      /\ bcArray[Place(w, i) + 1] = Apply
    <3>1. ItemAt(bcArray, wordAddressMap, {}, dict[w][i], Place(w, i))
      BY <2>1, <2>2 DEF Whole, Begun, Place
    <3>2. dict[w][i] \in Items BY <2>2
    <3>3. dict[w][i].do \in {"append", "call"} BY <3>2, Item
    <3> QED BY <3>1, <3>3 DEF ItemAt, Called, Written
  <2>4. bcArray[Place(w, Len(dict[w]) + 1)] = Return
    <3>1. (Len(dict[w]) + 1) - 1 = Len(dict[w]) BY <2>2
    <3>2. Place(w, Len(dict[w]) + 1) = End(dict, wordAddressMap, w) BY <3>1 DEF Place, End
    <3> QED BY <2>1, <3>2 DEF Whole
  <2> QED BY <2>2, <2>3, <2>4
<1> QED BY <1>2, <1>3

LEMMA HoldsOnce == ASSUME BytecodeAssumption, IInv PROVE WrittenOnce
<1>1. SUFFICES ASSUME phase = "done", NEW k \in 1 .. Len(bcArray)
               PROVE  \E w \in Words :
                        /\ Written(w)
                        /\ wordAddressMap[w] < k /\ k <= Place(w, Len(dict[w]) + 1)
                        /\ \A v \in Words \ {w} :
                             Written(v) => ~(wordAddressMap[v] < k /\ k <= Place(v, Len(dict[v]) + 1))
  BY DEF WrittenOnce
<1>2. Laid(dict, bcArray, wordAddressMap, {}, NoWord) BY <1>1, Finished
<1>3. ASSUME NEW w \in Words, Written(w)
      PROVE  /\ Place(w, Len(dict[w]) + 1) = End(dict, wordAddressMap, w)
             /\ End(dict, wordAddressMap, w) \in Nat /\ wordAddressMap[w] \in Nat
  <2>1. Whole(dict, bcArray, wordAddressMap, {}, w) /\ Array(bcArray, wordAddressMap)
    BY <1>1, <1>3, Finished
  <2>2. Len(dict[w]) \in Nat /\ wordAddressMap[w] \in Nat BY <2>1 DEF Whole, Begun, Array
  <2>3. (Len(dict[w]) + 1) - 1 = Len(dict[w]) BY <2>2
  <2> QED BY <2>2, <2>3, OffsetIsNat DEF Place, End
<1>4. PICK w \in Words : /\ wordAddressMap[w] # None /\ wordAddressMap[w] < k
                         /\ w # NoWord => k <= End(dict, wordAddressMap, w)
  BY <1>2 DEF Laid
<1>5. Written(w) /\ w # NoWord BY <1>4 DEF Written, BytecodeAssumption
<1>6. ASSUME NEW v \in Words \ {w}, Written(v)
      PROVE  ~(wordAddressMap[v] < k /\ k <= Place(v, Len(dict[v]) + 1))
  <2>1. \/ After(dict, wordAddressMap, NoWord, v, w) \/ After(dict, wordAddressMap, NoWord, w, v)
    BY <1>2, <1>4, <1>6 DEF Laid, Written
  <2>2. \/ End(dict, wordAddressMap, v) <= wordAddressMap[w]
        \/ End(dict, wordAddressMap, w) <= wordAddressMap[v]
    BY <2>1 DEF After
  <2> QED BY <1>3, <1>4, <1>5, <1>6, <2>2
<1> QED BY <1>3, <1>4, <1>5, <1>6
-----------------------------------------------------------------------------
(* The run. *)

LEMMA PlainCases == ASSUME NEW c \in VM!Plain
  PROVE  /\ c.op \in {"Drop", "Dup", "Swap", "Choose", "Add", "Mul", "Dump", "Push", "D2R", "R2D"}
         /\ c.op = "Push" => c.value \in VM!Value
         /\ c # Apply /\ c # Return /\ c.op # "Apply" /\ c.op # "Return"
<1>1. DOMAIN VM!Pops = {"Drop", "Dup", "Swap", "Choose", "Add", "Mul", "Dump", "Push"} BY DEF VM!Pops
<1>2. /\ c.op \in {"Drop", "Dup", "Swap", "Choose", "Add", "Mul", "Dump", "Push", "D2R", "R2D"}
      /\ c.op = "Push" => c.value \in VM!Value
  BY <1>1 DEF VM!Plain
<1> QED BY <1>2 DEF Apply, Return

(* What may be in the finished array. *)
LEMMA CodeCases == ASSUME ProgramAssumption, NEW n \in Nat, NEW c \in Codes(n)
  PROVE  \/ c \in VM!Plain \/ c = Apply \/ c = Return \/ c = Null
<1>1. CASE c \in Primitives BY <1>1 DEF ProgramAssumption
<1>2. CASE c \in [op : {"Push"}, value : [int : 0 .. n]]
  <2>1. [int : 0 .. n] \subseteq VM!Value BY DEF VM!Value
  <2>2. c \in [op : {"Push"}, value : VM!Value] BY <1>2, <2>1
  <2> QED BY <2>2 DEF VM!Plain
<1> QED BY <1>1, <1>2 DEF Codes

Leaves(r, i) ==
  \/ r[i] = -1 /\ i = Len(r)
  \/ r[i] \in 0 .. (Len(bcArray) - 1) /\ bcArray[r[i] + 1] # Return

MachineOK ==
  /\ ip \in Int /\ data \in Seq(VM!Value) /\ retain \in Seq(VM!Value) /\ return_ \in Seq(Int)
  /\ vm \in {"off", "running", "stopped", "data", "index", "return"}
  /\ vm = "off" => ip = 0 /\ data = << >> /\ retain = << >> /\ return_ = << >>
  /\ vm # "off" => phase = "done"
  /\ \A i \in 1 .. Len(return_) : Leaves(return_, i)

(* At a bytecode that is fetched.  It is none of the holes: there are none. *)
LEMMA FetchedCode ==
  ASSUME ProgramAssumption, IInv, MachineOK, VM!Fetched
  PROVE  /\ ip \in Nat /\ ip + 1 \in 1 .. Len(bcArray) /\ ip + 2 \in 1 .. Len(bcArray)
         /\ VM!Current = bcArray[ip + 1] /\ Len(bcArray) \in Nat
         /\ phase = "done" /\ vm = "running"
         /\ \/ VM!Current \in VM!Plain \/ VM!Current = Apply \/ VM!Current = Return
<1>1. phase = "done" /\ vm = "running" BY DEF VM!Fetched, MachineOK
<1>2. bcArray \in Seq(Codes(Len(bcArray))) /\ Len(bcArray) \in Nat BY TypeOfArray DEF IInv
<1>3. ip \in Nat /\ ip + 1 \in 1 .. Len(bcArray) /\ ip + 2 \in 1 .. Len(bcArray)
  BY <1>2 DEF VM!Fetched, VM!InArray, MachineOK
<1>4. VM!Current = bcArray[ip + 1] BY DEF VM!Current
<1>5. VM!Current # Null
  <2>1. Exact(bcArray, {}) BY <1>1, Finished DEF ProgramAssumption
  <2> QED BY <1>3, <1>4, <2>1 DEF Exact
<1>6. VM!Current \in Codes(Len(bcArray)) BY <1>2, <1>3, <1>4
<1> QED BY <1>1, <1>2, <1>3, <1>4, <1>5, <1>6, CodeCases

(* Where the run goes on, and the return stack there. *)
LEMMA AdvancedLeaves ==
  ASSUME ProgramAssumption, IInv, MachineOK, VM!Fetched
  PROVE  /\ VM!Advanced.ip \in Int /\ VM!Advanced.return_ \in Seq(Int)
         /\ \A i \in 1 .. Len(VM!Advanced.return_) : Leaves(VM!Advanced.return_, i)
         /\ \/ VM!Advanced.ip = -1 /\ VM!Advanced.return_ = << >>
            \/ VM!Advanced.ip \in 0 .. (Len(bcArray) - 1) /\ bcArray[VM!Advanced.ip + 1] # Return
<1>1. ip \in Nat /\ ip + 2 \in 1 .. Len(bcArray) /\ Len(bcArray) \in Nat BY FetchedCode
<1>2. return_ \in Seq(Int) /\ \A i \in 1 .. Len(return_) : Leaves(return_, i) BY DEF MachineOK
<1>3. CASE bcArray[(ip + 1) + 1] # Return
  <2>1. VM!Advanced = [ip |-> ip + 1, return_ |-> return_] BY <1>3 DEF VM!Advanced, Return
  <2>2. ip + 1 \in 0 .. (Len(bcArray) - 1) BY <1>1
  <2> QED BY <1>2, <1>3, <2>1, <2>2
<1>4. CASE bcArray[(ip + 1) + 1] = Return /\ return_ = << >>
  <2>1. VM!Advanced = [ip |-> -1, return_ |-> return_] BY <1>4 DEF VM!Advanced, Return
  <2> QED BY <1>4, <2>1
<1>5. CASE bcArray[(ip + 1) + 1] = Return /\ return_ # << >>
  <2>1. VM!Advanced = [ip |-> Head(return_), return_ |-> Tail(return_)] BY <1>5 DEF VM!Advanced, Return
  <2>2. /\ Len(return_) \in Nat /\ Len(return_) >= 1 /\ Head(return_) = return_[1] /\ return_[1] \in Int
        /\ Tail(return_) \in Seq(Int) /\ Len(Tail(return_)) = Len(return_) - 1
        /\ \A i \in 1 .. (Len(return_) - 1) : Tail(return_)[i] = return_[i + 1]
    BY <1>2, <1>5
  <2> DEFINE t == Tail(return_)
  <2>3. t \in Seq(Int) /\ Len(t) = Len(return_) - 1 /\ \A i \in 1 .. (Len(return_) - 1) : t[i] = return_[i + 1]
    BY <2>2
  <2>4. VM!Advanced.ip = return_[1] /\ VM!Advanced.return_ = t BY <2>1, <2>2
  <2> HIDE DEF t
  <2>5. ASSUME NEW i \in 1 .. Len(t) PROVE Leaves(t, i)
    <3>1. i + 1 \in 1 .. Len(return_) /\ t[i] = return_[i + 1] BY <2>2, <2>3
    <3>2. Leaves(return_, i + 1) BY <1>2, <3>1
    <3>3. CASE return_[i + 1] = -1 /\ i + 1 = Len(return_)
      <4>1. Len(t) = Len(return_) - 1 /\ Len(return_) \in Nat BY <2>2, <2>3
      <4>2. i = Len(t) BY <3>3, <4>1
      <4> QED BY <3>1, <3>3, <4>2 DEF Leaves
    <3>4. CASE return_[i + 1] \in 0 .. (Len(bcArray) - 1) /\ bcArray[return_[i + 1] + 1] # Return
      BY <3>1, <3>4 DEF Leaves
    <3> QED BY <3>2, <3>3, <3>4 DEF Leaves
  <2>6. Leaves(return_, 1) BY <1>2, <2>2
  <2>7. return_[1] = -1 /\ Len(return_) = 1 => t = << >> BY <2>2, <2>3
  <2> QED BY <2>2, <2>3, <2>4, <2>5, <2>6, <2>7 DEF Leaves
<1> QED BY <1>3, <1>4, <1>5

(* The values on a stack. *)
LEMMA Values ==
  ASSUME NEW d \in Seq(VM!Value), NEW k \in 0 .. Len(d)
  PROVE  /\ SubSeq(d, k + 1, Len(d)) \in Seq(VM!Value)
         /\ \A i \in 1 .. Len(d) : d[i] \in VM!Value
<1> QED OBVIOUS

LEMMA IntValue == ASSUME NEW v \in VM!Value, VM!IsInt(v) PROVE v.int \in Int /\ v = VM!Integer(v.int)
<1>1. CASE v \in [int : Int] BY <1>1 DEF VM!Integer
<1>2. CASE v \in [bool : BOOLEAN]
  <2>1. DOMAIN v = {"bool"} BY <1>2
  <2> QED BY <2>1 DEF VM!IsInt
<1> QED BY <1>1, <1>2 DEF VM!Value

LEMMA InInt == ASSUME NEW x \in Int, NEW q \in Nat \ {0}, NEW p \in Nat PROVE ((x + p) % q) - p \in Int
<1>1. (x + p) % q \in Int OBVIOUS
<1> QED BY <1>1

LEMMA WrappedIsInt == ASSUME ProgramAssumption, NEW x \in Int PROVE VM!Integer(VM!Wrapped(x)) \in VM!Value
<1> DEFINE q == 2 ^ Width
           p == 2 ^ (Width - 1)
<1>1. VM!Wrapped(x) = ((x + p) % q) - p BY DEF VM!Wrapped
<1>2. q \in Nat \ {0} /\ p \in Nat BY DEF ProgramAssumption
<1> HIDE DEF q, p
<1>3. VM!Wrapped(x) \in Int BY <1>1, <1>2, InInt
<1> QED BY <1>3 DEF VM!Value, VM!Integer

(* What each bytecode pushes. *)
LEMMA Results ==
  /\ VM!Result("Drop") = << >> /\ VM!Result("Dump") = << >>
  /\ VM!Result("Dup") = <<data[1], data[1]>> /\ VM!Result("Swap") = <<data[2], data[1]>>
  /\ VM!Result("Choose") = <<IF data[3].bool THEN data[2] ELSE data[1]>>
  /\ VM!Result("Add") = <<VM!Integer(VM!Wrapped(data[1].int + data[2].int))>>
  /\ VM!Result("Mul") = <<VM!Integer(VM!Wrapped(data[1].int * data[2].int))>>
  /\ VM!Result("Push") = <<VM!Current.value>>
<1> USE DEF VM!Result, VM!Top, VM!Second, VM!Chosen
<1>1. VM!Result("Drop") = << >> OBVIOUS
<1>2. VM!Result("Dump") = << >> OBVIOUS
<1>3. VM!Result("Dup") = <<data[1], data[1]>> OBVIOUS
<1>4. VM!Result("Swap") = <<data[2], data[1]>> OBVIOUS
<1>5. VM!Result("Choose") = <<IF data[3].bool THEN data[2] ELSE data[1]>> OBVIOUS
<1>6. VM!Result("Add") = <<VM!Integer(VM!Wrapped(data[1].int + data[2].int))>> OBVIOUS
<1>7. VM!Result("Mul") = <<VM!Integer(VM!Wrapped(data[1].int * data[2].int))>> OBVIOUS
<1>8. VM!Result("Push") = <<VM!Current.value>> OBVIOUS
<1> QED BY <1>1, <1>2, <1>3, <1>4, <1>5, <1>6, <1>7, <1>8

LEMMA Tuples == ASSUME NEW S, NEW a \in S, NEW b \in S
  PROVE  << >> \in Seq(S) /\ <<a>> \in Seq(S) /\ <<a, b>> \in Seq(S)
<1> QED OBVIOUS

(* What a bytecode pops is there, and what it pushes are values. *)
LEMMA ResultIsValues ==
  ASSUME ProgramAssumption, MachineOK, VM!Current \in VM!Plain,
         NEW op \in DOMAIN VM!Pops, op = VM!Current.op, VM!Applicable(op)
  PROVE  VM!Result(op) \in Seq(VM!Value) /\ VM!Pops[op] \in 0 .. Len(data)
<1>1. op \in {"Drop", "Dup", "Swap", "Choose", "Add", "Mul", "Dump", "Push"} BY DEF VM!Pops
<1>2. Len(data) \in Nat /\ \A i \in 1 .. Len(data) : data[i] \in VM!Value BY DEF MachineOK
<1>3. VM!Pops[op] \in 0 .. Len(data) BY <1>1, <1>2 DEF VM!Pops, VM!Applicable
<1>4. CASE op \in {"Drop", "Dump"}
  <2>1. << >> \in Seq(VM!Value) OBVIOUS
  <2> QED BY <1>3, <1>4, <2>1, Results
<1>5. CASE op \in {"Dup", "Swap", "Choose"}
  <2>1. data[1] \in VM!Value BY <1>2, <1>5 DEF VM!Pops, VM!Applicable
  <2>2. op # "Dup" => data[2] \in VM!Value BY <1>2, <1>5 DEF VM!Pops, VM!Applicable
  <2>3. CASE op = "Dup" BY <1>3, <2>1, <2>3, Results, Tuples
  <2>4. CASE op = "Swap" BY <1>3, <2>1, <2>2, <2>4, Results, Tuples
  <2>5. CASE op = "Choose"
    <3>1. (IF data[3].bool THEN data[2] ELSE data[1]) \in VM!Value BY <2>1, <2>2, <2>5
    <3> QED BY <1>3, <2>5, <3>1, Results, Tuples
  <2> QED BY <1>3, <1>5, <2>3, <2>4, <2>5
<1>6. CASE op \in {"Add", "Mul"}
  <2>1. data[1] \in VM!Value /\ data[2] \in VM!Value BY <1>2, <1>6 DEF VM!Pops, VM!Applicable
  <2>2. VM!IsInt(data[1]) /\ VM!IsInt(data[2])
    BY <1>6 DEF VM!Applicable, VM!Top, VM!Second
  <2>3. data[1].int \in Int /\ data[2].int \in Int BY <2>1, <2>2, IntValue
  <2>4. data[1].int + data[2].int \in Int /\ data[1].int * data[2].int \in Int BY <2>3
  <2>5. /\ VM!Integer(VM!Wrapped(data[1].int + data[2].int)) \in VM!Value
        /\ VM!Integer(VM!Wrapped(data[1].int * data[2].int)) \in VM!Value
    BY <2>4, WrappedIsInt
  <2> QED BY <1>3, <1>6, <2>5, Results, Tuples
<1>7. CASE op = "Push"
  <2>1. VM!Current.value \in VM!Value BY <1>7, PlainCases
  <2> QED BY <1>3, <1>7, <2>1, Results, Tuples
<1> QED BY <1>1, <1>3, <1>4, <1>5, <1>6, <1>7

LEMMA StartMachine == ASSUME ProgramInit PROVE MachineOK
<1>1. ip = 0 /\ data = << >> /\ retain = << >> /\ return_ = << >> /\ vm = "off"
  BY DEF ProgramInit, VM!VMInit
<1>2. \A S : << >> \in Seq(S) OBVIOUS
<1> QED BY <1>1, <1>2 DEF MachineOK

(* The parts of MachineOK that a step of the run changes. *)
LEMMA MachineSteps ==
  ASSUME MachineOK, phase' = "done", bcArray' = bcArray, ip' \in Int,
         data' \in Seq(VM!Value), retain' \in Seq(VM!Value), return_' \in Seq(Int),
         vm' \in {"running", "stopped", "data", "index", "return"},
         \A i \in 1 .. Len(return_') : Leaves(return_', i)
  PROVE  MachineOK'
<1> QED BY DEF MachineOK, Leaves

LEMMA Pushed1 == ASSUME NEW S, NEW v \in S, NEW s \in Seq(S)
  PROVE  /\ Pushed(v, s) \in Seq(S) /\ Len(Pushed(v, s)) = Len(s) + 1 /\ Pushed(v, s)[1] = v
         /\ \A i \in 1 .. (Len(s) + 1) : i # 1 => Pushed(v, s)[i] = s[i - 1] /\ i - 1 \in 1 .. Len(s)
<1> QED BY DEF Pushed

LEMMA PushedInt == ASSUME NEW v \in Int, NEW s \in Seq(Int)
  PROVE  /\ Pushed(v, s) \in Seq(Int) /\ Len(Pushed(v, s)) = Len(s) + 1 /\ Pushed(v, s)[1] = v
         /\ \A i \in 1 .. (Len(s) + 1) : i # 1 => Pushed(v, s)[i] = s[i - 1] /\ i - 1 \in 1 .. Len(s)
<1> QED BY Pushed1

LEMMA ReturnPushed ==
  ASSUME ProgramAssumption, IInv, MachineOK, VM!Fetched, NEW r, r = <<VM!Advanced.ip>> \o VM!Advanced.return_
  PROVE  r \in Seq(Int) /\ \A i \in 1 .. Len(r) : Leaves(r, i)
<1> DEFINE a == VM!Advanced.ip
           t == VM!Advanced.return_
<1>1. /\ a \in Int /\ t \in Seq(Int) /\ \A i \in 1 .. Len(t) : Leaves(t, i)
      /\ \/ a = -1 /\ t = << >>
         \/ a \in 0 .. (Len(bcArray) - 1) /\ bcArray[a + 1] # Return
  BY AdvancedLeaves
<1>2. r = Pushed(a, t) BY DEF Pushed
<1> HIDE DEF a, t
<1>3. /\ r \in Seq(Int) /\ Len(r) = Len(t) + 1 /\ r[1] = a /\ Len(t) \in Nat
      /\ \A i \in 1 .. (Len(t) + 1) : i # 1 => r[i] = t[i - 1] /\ i - 1 \in 1 .. Len(t)
  <2>1. Len(t) \in Nat BY <1>1
  <2>2. a \in Int /\ t \in Seq(Int) BY <1>1
  <2>3. r \in Seq(Int) BY <1>2, <2>2, PushedInt
  <2>4. Len(r) = Len(t) + 1 BY <1>2, <2>2, PushedInt
  <2>5. r[1] = a BY <1>2, <2>2, PushedInt
  <2>6. ASSUME NEW i \in 1 .. (Len(t) + 1), i # 1 
        PROVE  r[i] = t[i - 1] /\ i - 1 \in 1 .. Len(t)
    BY <1>2, <2>1, <2>2, <2>6 DEF Pushed
  <2> QED BY <2>1, <2>3, <2>4, <2>5, <2>6
<1>4. ASSUME NEW i \in 1 .. Len(r) PROVE Leaves(r, i)
  <2>1. CASE i = 1
    <3>1. t = << >> => Len(t) = 0 OBVIOUS
    <3> QED BY <1>1, <1>3, <2>1, <3>1 DEF Leaves
  <2>2. CASE i # 1
    <3>1. r[i] = t[i - 1] /\ i - 1 \in 1 .. Len(t) BY <1>3, <2>2
    <3>2. Leaves(t, i - 1) BY <1>1, <3>1
    <3>3. i - 1 = Len(t) => i = Len(r) BY <1>3
    <3> QED BY <3>1, <3>2, <3>3 DEF Leaves
  <2> QED BY <2>1, <2>2
<1> QED BY <1>3, <1>4

LEMMA RunMachine == ASSUME ProgramAssumption, IInv, MachineOK, VM!Run, phase' = phase PROVE MachineOK'
<1> USE DEF VM!registers
<1>1. bcArray' = bcArray BY RunKeepsArray
<1>2. vm = "running" /\ phase' = "done"
  BY DEF MachineOK, VM!Run, VM!OutOfArray, VM!Stop, VM!RunReturn, VM!RunData, VM!RunD2R, VM!RunR2D, VM!RunApply,
         VM!Fetched
<1>3. /\ ip \in Int /\ data \in Seq(VM!Value) /\ retain \in Seq(VM!Value) /\ return_ \in Seq(Int)
      /\ \A i \in 1 .. Len(return_) : Leaves(return_, i)
  BY DEF MachineOK
<1>4. ASSUME NEW why \in {"data", "index", "return"}, VM!Fails(why) PROVE MachineOK'
  BY <1>1, <1>2, <1>3, <1>4, MachineSteps DEF VM!Fails
<1>5. CASE VM!OutOfArray BY <1>4, <1>5 DEF VM!OutOfArray
<1>6. CASE VM!Stop BY <1>1, <1>2, <1>3, <1>6, MachineSteps DEF VM!Stop
<1>7. CASE VM!RunReturn BY <1>4, <1>7 DEF VM!RunReturn
<1>8. ASSUME VM!Fetched, VM!Continue, data' \in Seq(VM!Value), retain' \in Seq(VM!Value), vm' = vm PROVE MachineOK'
  <2>1. ip' = VM!Advanced.ip /\ return_' = VM!Advanced.return_ BY <1>8 DEF VM!Continue
  <2>2. ip' \in Int /\ return_' \in Seq(Int) /\ \A i \in 1 .. Len(return_') : Leaves(return_', i)
    BY <1>8, <2>1, AdvancedLeaves
  <2> QED BY <1>1, <1>2, <1>8, <2>2, MachineSteps
<1>9. CASE VM!RunData
  <2>1. VM!Fetched /\ VM!Current.op \in DOMAIN VM!Pops BY <1>9 DEF VM!RunData
  <2> DEFINE op == VM!Current.op
  <2>2. CASE VM!Applicable(op)
    <3>1. data' = VM!Result(op) \o VM!Below(VM!Pops[op]) /\ VM!Continue /\ retain' = retain /\ vm' = vm
      BY <1>9, <2>2 DEF VM!RunData
    <3>2. VM!Current \in VM!Plain
      <4>1. DOMAIN VM!Pops = {"Drop", "Dup", "Swap", "Choose", "Add", "Mul", "Dump", "Push"} BY DEF VM!Pops
      <4> QED BY <2>1, <4>1, FetchedCode DEF Apply, Return
    <3>3. VM!Result(op) \in Seq(VM!Value) /\ VM!Pops[op] \in 0 .. Len(data)
      BY <2>1, <2>2, <3>2, ResultIsValues
    <3>4. VM!Below(VM!Pops[op]) \in Seq(VM!Value) BY <1>3, <3>3, Values DEF VM!Below
    <3>5. data' \in Seq(VM!Value) BY <3>1, <3>3, <3>4
    <3> QED BY <1>3, <1>8, <2>1, <3>1, <3>5
  <2>3. CASE ~ VM!Applicable(op) BY <1>4, <1>9, <2>3 DEF VM!RunData
  <2> QED BY <2>2, <2>3
<1>10. CASE VM!RunD2R
  <2>1. VM!Fetched BY <1>10 DEF VM!RunD2R
  <2>2. CASE data = << >> BY <1>4, <1>10, <2>2 DEF VM!RunD2R
  <2>3. CASE data # << >>
    <3>1. retain' = <<data[1]>> \o retain /\ data' = SubSeq(data, 2, Len(data)) /\ VM!Continue /\ vm' = vm
      BY <1>10, <2>3 DEF VM!RunD2R, VM!Top, VM!Below
    <3>2. data[1] \in VM!Value /\ data' \in Seq(VM!Value) BY <1>3, <2>3, <3>1
    <3>3. retain' \in Seq(VM!Value) BY <1>3, <3>1, <3>2, Pushed1 DEF Pushed
    <3> QED BY <1>8, <2>1, <3>1, <3>2, <3>3
  <2> QED BY <2>2, <2>3
<1>11. CASE VM!RunR2D
  <2>1. VM!Fetched BY <1>11 DEF VM!RunR2D
  <2>2. CASE retain = << >> BY <1>4, <1>11, <2>2 DEF VM!RunR2D
  <2>3. CASE retain # << >>
    <3>1. data' = <<Head(retain)>> \o data /\ retain' = Tail(retain) /\ VM!Continue /\ vm' = vm
      BY <1>11, <2>3 DEF VM!RunR2D
    <3>2. Head(retain) \in VM!Value /\ retain' \in Seq(VM!Value) BY <1>3, <2>3, <3>1
    <3>3. data' \in Seq(VM!Value) BY <1>3, <3>1, <3>2, Pushed1 DEF Pushed
    <3> QED BY <1>8, <2>1, <3>1, <3>2, <3>3
  <2> QED BY <2>2, <2>3
<1>12. CASE VM!RunApply
  <2>1. VM!Fetched BY <1>12 DEF VM!RunApply
  <2>2. CASE ~(data # << >> /\ VM!IsInt(data[1])) BY <1>4, <1>12, <2>2 DEF VM!RunApply, VM!Top
  <2>3. CASE data # << >> /\ VM!IsInt(data[1])
    <3>1. /\ return_' = <<VM!Advanced.ip>> \o VM!Advanced.return_
          /\ ip' = data[1].int /\ data' = SubSeq(data, 2, Len(data)) /\ retain' = retain /\ vm' = vm
      BY <1>12, <2>3 DEF VM!RunApply, VM!Top, VM!Below
    <3>2. data[1] \in VM!Value /\ data' \in Seq(VM!Value) BY <1>3, <2>3, <3>1
    <3>3. ip' \in Int BY <2>3, <3>1, <3>2, IntValue
    <3>4. return_' \in Seq(Int) /\ \A i \in 1 .. Len(return_') : Leaves(return_', i)
      BY <2>1, <3>1, ReturnPushed
    <3> QED BY <1>1, <1>2, <1>3, <3>1, <3>2, <3>3, <3>4, MachineSteps
  <2> QED BY <2>2, <2>3
<1> QED BY <1>5, <1>6, <1>7, <1>9, <1>10, <1>11, <1>12 DEF VM!Run

LEMMA CompileFirst == ASSUME Compile PROVE phase # "done"
<1> QED BY DEF Compile, WriteMain, AppendCode, AppendCall, EndWord, PopPatch, Finish

LEMMA NextMachine == ASSUME ProgramAssumption, IInv, MachineOK, [Next]_<<vars, machine>> PROVE MachineOK'
<1> USE DEF vars, machine
<1>1. CASE Compile /\ UNCHANGED machine
  <2>1. vm = "off" BY <1>1, CompileFirst DEF MachineOK
  <2>2. return_' = << >> BY <1>1, <2>1 DEF MachineOK
  <2> QED BY <1>1, <2>1, <2>2 DEF MachineOK
<1>2. CASE Start
  <2>1. vm = "off" /\ phase = "done" /\ vm' = "running" /\ UNCHANGED <<vars, ip, data, retain, return_>>
    BY <1>2 DEF Start
  <2>2. ip' = 0 /\ data' = << >> /\ retain' = << >> /\ return_' = << >> BY <2>1 DEF MachineOK
  <2>3. \A S : << >> \in Seq(S) OBVIOUS
  <2> QED BY <2>1, <2>2, <2>3 DEF MachineOK
<1>3. CASE Running BY <1>3, RunMachine DEF Running
<1>4. CASE UNCHANGED <<vars, machine>> BY <1>4 DEF MachineOK, Leaves
<1>5. CASE Ended BY <1>4, <1>5 DEF Ended
<1> QED BY <1>1, <1>2, <1>3, <1>4, <1>5 DEF Next

LEMMA ProgramInvariant == ASSUME ProgramAssumption PROVE Spec => [](IInv /\ MachineOK)
<1>1. BytecodeAssumption BY DEF ProgramAssumption
<1>2. Spec => []IInv BY <1>1, CompileInvariant
<1>3. ProgramInit => MachineOK BY StartMachine
<1>4. IInv /\ MachineOK /\ [Next]_<<vars, machine>> => MachineOK' BY NextMachine
<1> QED BY <1>2, <1>3, <1>4, PTL DEF Spec

LEMMA HoldsTailCalls == ASSUME MachineOK PROVE TailCalls
<1>1. return_ \in Seq(Int) /\ \A i \in 1 .. Len(return_) : Leaves(return_, i) BY DEF MachineOK
<1>2. DOMAIN return_ = 1 .. Len(return_) BY <1>1
<1>3. ASSUME NEW i \in 1 .. Len(return_)
      PROVE  IF return_[i] = -1 THEN i = Len(return_) ELSE bcArray[return_[i] + 1] # Return
  <2>1. CASE return_[i] = -1 /\ i = Len(return_) BY <2>1
  <2>2. CASE return_[i] \in 0 .. (Len(bcArray) - 1) /\ bcArray[return_[i] + 1] # Return
    <3>1. return_[i] # -1 BY <2>2
    <3> QED BY <2>2, <3>1
  <2> QED BY <1>1, <2>1, <2>2 DEF Leaves
<1> QED BY <1>2, <1>3 DEF TailCalls
-----------------------------------------------------------------------------
(* Programs in which only calls jump.  The run is at an item, between the  *)
(* push and the Apply of a call, or at the end.                            *)

Spot(w, i) == w \in Words /\ Written(w) /\ i \in 1 .. Len(dict[w])

(* What is where in the finished array. *)
LEMMA SpotFacts ==
  ASSUME ProgramAssumption, IInv, phase = "done", NEW w, NEW i, Spot(w, i)
  PROVE  /\ dict[w] \in Seq(Items) /\ Len(dict[w]) \in Nat /\ i \in Nat /\ dict[w][i] \in Items
         /\ Len(bcArray) \in Nat /\ wordAddressMap[w] \in Nat
         /\ Place(w, i) \in 1 .. Len(bcArray) /\ Place(w, i) + Size(dict[w][i]) \in 1 .. Len(bcArray)
         /\ Place(w, i) > wordAddressMap[w]
         /\ Place(w, i + 1) = Place(w, i) + Size(dict[w][i])
         /\ Place(w, i + 1) <= End(dict, wordAddressMap, w)
         /\ dict[w][i].do = "append" => bcArray[Place(w, i)] = dict[w][i].code
         /\ dict[w][i].do = "call" => /\ Written(dict[w][i].w)
                                      /\ bcArray[Place(w, i)] = Push(wordAddressMap[dict[w][i].w])
                                      /\ bcArray[Place(w, i) + 1] = Apply
         /\ i = Len(dict[w]) => bcArray[Place(w, i + 1)] = Return
<1>1. w \in Words /\ Written(w) /\ i \in 1 .. Len(dict[w]) BY DEF Spot
<1>2. BytecodeAssumption BY DEF ProgramAssumption
<1>3. Whole(dict, bcArray, wordAddressMap, {}, w) /\ Array(bcArray, wordAddressMap)
  BY <1>1, <1>2, Finished
<1>4. /\ dict[w] \in Seq(Items) /\ Len(dict[w]) \in Nat /\ i \in Nat /\ dict[w][i] \in Items
      /\ Len(bcArray) \in Nat /\ wordAddressMap[w] \in Nat
  BY <1>1, <1>3 DEF Whole, Begun, Array
<1>5. ItemAt(bcArray, wordAddressMap, {}, dict[w][i], Place(w, i))
  BY <1>1, <1>3, <1>4 DEF Whole, Begun, Place
<1>6. /\ i - 1 \in Nat /\ (i + 1) - 1 = i /\ (i - 1) + 1 = i
      /\ Offset(dict[w], i - 1) \in Nat /\ Offset(dict[w], i) = Offset(dict[w], i - 1) + Size(dict[w][i])
      /\ Offset(dict[w], i) <= Offset(dict[w], Len(dict[w])) /\ Offset(dict[w], Len(dict[w])) \in Nat
  <2>1. i - 1 \in Nat /\ (i + 1) - 1 = i /\ (i - 1) + 1 = i BY <1>1, <1>4
  <2>2. Offset(dict[w], i - 1) \in Nat /\ Offset(dict[w], Len(dict[w])) \in Nat BY <1>4, <2>1, OffsetIsNat
  <2>3. Offset(dict[w], (i - 1) + 1) = Offset(dict[w], i - 1) + Size(dict[w][(i - 1) + 1])
    BY <2>1, OffsetNext
  <2>4. Offset(dict[w], i) <= Offset(dict[w], Len(dict[w])) BY <1>1, <1>4, OffsetGrows
  <2> QED BY <2>1, <2>2, <2>3, <2>4
<1>7. Size(dict[w][i]) \in {1, 2} BY DEF Size
<1>8. Place(w, i) = wordAddressMap[w] + Offset(dict[w], i - 1) + 1 BY DEF Place
<1>9. Place(w, i + 1) = wordAddressMap[w] + Offset(dict[w], i) + 1 BY <1>6 DEF Place
<1>10. /\ Place(w, i) \in Nat /\ Place(w, i + 1) = Place(w, i) + Size(dict[w][i])
       /\ Place(w, i) > wordAddressMap[w] /\ Place(w, i) >= 1
  <2> DEFINE m == wordAddressMap[w]
             o == Offset(dict[w], i - 1)
             n == Offset(dict[w], i)
             z == Size(dict[w][i])
  <2>1. m \in Nat /\ o \in Nat /\ n = o + z /\ z \in {1, 2} BY <1>4, <1>6, <1>7
  <2>2. Place(w, i) = m + o + 1 /\ Place(w, i + 1) = m + n + 1 BY <1>8, <1>9
  <2> HIDE DEF m, o, n, z
  <2>3. Place(w, i) \in Nat /\ Place(w, i + 1) = Place(w, i) + z /\ Place(w, i) > m /\ Place(w, i) >= 1
    BY <2>1, <2>2
  <2> QED BY <2>3 DEF m, z
<1>11. End(dict, wordAddressMap, w) <= Len(bcArray) /\ bcArray[End(dict, wordAddressMap, w)] = Return
  BY <1>3 DEF Whole
<1>12. Place(w, i + 1) <= End(dict, wordAddressMap, w) /\ End(dict, wordAddressMap, w) \in Nat
  <2> DEFINE m == wordAddressMap[w]
             n == Offset(dict[w], i)
             e == Offset(dict[w], Len(dict[w]))
  <2>1. m \in Nat /\ n \in Int /\ e \in Nat /\ n <= e BY <1>4, <1>6, OffsetIsNat
  <2>2. Place(w, i + 1) = m + n + 1 /\ End(dict, wordAddressMap, w) = m + e + 1 BY <1>9 DEF End
  <2> HIDE DEF m, n, e
  <2> QED BY <2>1, <2>2
<1>13. Place(w, i) \in 1 .. Len(bcArray) /\ Place(w, i) + Size(dict[w][i]) \in 1 .. Len(bcArray)
  BY <1>4, <1>7, <1>10, <1>11, <1>12
<1>14. dict[w][i].do = "append" => bcArray[Place(w, i)] = dict[w][i].code BY <1>5 DEF ItemAt
<1>15. dict[w][i].do = "call" => /\ Written(dict[w][i].w)
                                 /\ bcArray[Place(w, i)] = Push(wordAddressMap[dict[w][i].w])
                                 /\ bcArray[Place(w, i) + 1] = Apply
  BY <1>5 DEF ItemAt, Called, Written
<1>16. i = Len(dict[w]) => bcArray[Place(w, i + 1)] = Return
  BY <1>9, <1>11 DEF End
<1> QED BY <1>4, <1>10, <1>12, <1>13, <1>14, <1>15, <1>16

(* No two items are at one place. *)
LEMMA SpotsApart ==
  ASSUME ProgramAssumption, IInv, phase = "done", NEW w, NEW i, Spot(w, i), NEW v, NEW j, Spot(v, j),
         Place(w, i) = Place(v, j)
  PROVE  w = v /\ i = j
<1>1. w \in Words /\ Written(w) /\ v \in Words /\ Written(v) BY DEF Spot
<1>2. w = v
  <2>1. SUFFICES ASSUME w # v PROVE FALSE OBVIOUS
  <2>2. Laid(dict, bcArray, wordAddressMap, {}, NoWord) BY Finished DEF ProgramAssumption
  <2>3. \/ End(dict, wordAddressMap, v) <= wordAddressMap[w]
        \/ End(dict, wordAddressMap, w) <= wordAddressMap[v]
    BY <1>1, <2>1, <2>2 DEF Laid, Written, After
  <2>4. /\ Place(w, i) \in Nat /\ Place(v, j) \in Nat
        /\ Size(dict[w][i]) \in {1, 2} /\ Size(dict[v][j]) \in {1, 2}
    BY SpotFacts DEF Size
  <2>5. /\ wordAddressMap[w] < Place(w, i) /\ Place(w, i) + Size(dict[w][i]) <= End(dict, wordAddressMap, w)
        /\ wordAddressMap[w] \in Nat
    BY SpotFacts
  <2>6. /\ wordAddressMap[v] < Place(v, j) /\ Place(v, j) + Size(dict[v][j]) <= End(dict, wordAddressMap, v)
        /\ wordAddressMap[v] \in Nat
    BY SpotFacts
  <2>7. End(dict, wordAddressMap, v) \in Int /\ End(dict, wordAddressMap, w) \in Int
    <3>1. /\ dict[w] \in Seq(Items) /\ Len(dict[w]) \in Nat /\ wordAddressMap[w] \in Nat
          /\ dict[v] \in Seq(Items) /\ Len(dict[v]) \in Nat /\ wordAddressMap[v] \in Nat
      BY SpotFacts
    <3> QED BY <3>1, OffsetIsNat DEF End
  <2> QED BY <2>3, <2>4, <2>5, <2>6, <2>7
<1>3. i = j
  <2>1. Len(dict[w]) \in Nat /\ i \in Nat /\ j \in Nat /\ wordAddressMap[w] \in Nat BY <1>2, SpotFacts
  <2>2. i - 1 \in Nat /\ j - 1 \in Nat BY <2>1 DEF Spot
  <2>3. Offset(dict[w], i - 1) = Offset(dict[w], j - 1)
    <3>1. Offset(dict[w], i - 1) \in Nat /\ Offset(dict[w], j - 1) \in Nat BY <2>2, OffsetIsNat
    <3> QED BY <1>2, <2>1, <3>1 DEF Place
  <2>4. ASSUME NEW m \in Nat, NEW n \in Nat, m < n PROVE Offset(dict[w], m) # Offset(dict[w], n)
    <3>1. Offset(dict[w], m + 1) = Offset(dict[w], m) + Size(dict[w][m + 1]) BY OffsetNext
    <3>2. m + 1 \in Nat /\ m + 1 <= n BY <2>4
    <3>3. Offset(dict[w], m + 1) <= Offset(dict[w], n) BY <3>2, OffsetGrows
    <3>4. Offset(dict[w], m) \in Nat /\ Offset(dict[w], n) \in Nat /\ Offset(dict[w], m + 1) \in Nat
      BY <3>2, OffsetIsNat
    <3>5. Size(dict[w][m + 1]) \in {1, 2} BY DEF Size
    <3> QED BY <3>1, <3>3, <3>4, <3>5
  <2>5. ~(i - 1 < j - 1) /\ ~(j - 1 < i - 1) BY <2>2, <2>3, <2>4
  <2> QED BY <2>1, <2>5
<1> QED BY <1>2, <1>3

(* From an item to the end of its word. *)
Rest(w, i) == SubSeq(dict[w], i, Len(dict[w]))

LEMMA RestIs ==
  ASSUME ProgramAssumption, IInv, phase = "done", NEW w, NEW i, Spot(w, i)
  PROVE  /\ Rest(w, i) # << >> /\ Head(Rest(w, i)) = dict[w][i] /\ Tail(Rest(w, i)) = Rest(w, i + 1)
         /\ Rest(w, 1) = dict[w]
         /\ i = Len(dict[w]) => Rest(w, i + 1) = << >>
         /\ i # Len(dict[w]) => Spot(w, i + 1) /\ Rest(w, i + 1) # << >>
<1> DEFINE s == dict[w]
<1>1. s \in Seq(Items) /\ Len(s) \in Nat /\ i \in 1 .. Len(s) BY SpotFacts DEF Spot
<1> HIDE DEF s
<1>2. ASSUME NEW k \in 1 .. Len(s) PROVE SubSeq(s, k, Len(s)) # << >> /\ Head(SubSeq(s, k, Len(s))) = s[k]
  <2>1. \A j \in k .. Len(s) : s[j] \in Items BY <1>1
  <2>2. /\ SubSeq(s, k, Len(s)) \in Seq(Items) /\ Len(SubSeq(s, k, Len(s))) >= 1
        /\ SubSeq(s, k, Len(s))[1] = s[k]
    BY <1>1, <2>1, SubSeqProperties
  <2> DEFINE t == SubSeq(s, k, Len(s))
  <2>3. t \in Seq(Items) /\ Len(t) >= 1 /\ t[1] = s[k] BY <2>2
  <2> HIDE DEF t
  <2>4. t # << >> /\ Head(t) = t[1] BY <2>3
  <2> QED BY <2>3, <2>4 DEF t
<1>3. Tail(SubSeq(s, i, Len(s))) = SubSeq(s, i + 1, Len(s)) BY <1>1
<1>4. SubSeq(s, 1, Len(s)) = s BY <1>1
<1>5. i = Len(s) => SubSeq(s, i + 1, Len(s)) = << >> BY <1>1
<1>6. i # Len(s) => i + 1 \in 1 .. Len(s) /\ SubSeq(s, i + 1, Len(s)) # << >> BY <1>1, <1>2
<1> QED BY <1>1, <1>2, <1>3, <1>4, <1>5, <1>6 DEF Rest, Spot, s

LEMMA ItemsAtSpot ==
  ASSUME ProgramAssumption, IInv, phase = "done", NEW w, NEW i, Spot(w, i), NEW a \in Int, Place(w, i) = a + 1
  PROVE  ItemsAt(a) = Rest(w, i)
<1> DEFINE Is(p) == p \in Spots /\ Place(p[1], p[2]) = a + 1
<1>1. ASSUME NEW v \in Words, Written(v) PROVE DOMAIN dict[v] = 1 .. Len(dict[v])
  <2>1. dict[v] \in Seq(Items) BY <1>1, Finished DEF Whole, Begun, ProgramAssumption
  <2> QED BY <2>1
<1>2. w \in Reached /\ i \in DOMAIN dict[w] BY <1>1 DEF Spot, Reached
<1>3. Is(<<w, i>>) BY <1>2 DEF Spots
<1>4. ASSUME NEW p, Is(p) PROVE p[1] = w /\ p[2] = i
  <2>1. PICK v \in Reached : p \in {v} \X DOMAIN dict[v] BY <1>4 DEF Spots
  <2>2. p[1] = v /\ p[2] \in DOMAIN dict[v] BY <2>1
  <2>3. Spot(p[1], p[2]) BY <1>1, <2>2 DEF Spot, Reached
  <2> QED BY <1>4, <2>3, SpotsApart
<1> DEFINE q == CHOOSE p : Is(p)
<1>5. Is(q) BY <1>3
<1>6. q[1] = w /\ q[2] = i BY <1>4, <1>5
<1>7. ItemsAt(a) = SubSeq(dict[q[1]], q[2], Len(dict[q[1]])) BY DEF ItemsAt
<1> HIDE DEF q
<1> QED BY <1>6, <1>7 DEF Rest

LEMMA ListOf == ASSUME NEW S, NEW n \in Nat, NEW f \in [1 .. n -> S] PROVE f \in Seq(S) /\ Len(f) = n
OBVIOUS

(* The return stack, without the end of the program. *)
Kept(r) == IF r # << >> /\ r[Len(r)] = -1 THEN Len(r) - 1 ELSE Len(r)

LEMMA OuterIs ==
  ASSUME NEW r \in Seq(Int)
  PROVE  /\ Kept(r) \in Nat /\ Outer(r) \in Seq({ItemsAt(a) : a \in Int})
         /\ Len(Outer(r)) = Kept(r) /\ \A i \in 1 .. Kept(r) : Outer(r)[i] = ItemsAt(r[i])
         /\ Kept(r) <= Len(r)
<1>1. Len(r) \in Nat /\ \A i \in 1 .. Len(r) : r[i] \in Int OBVIOUS
<1>2. r # << >> => Len(r) >= 1 OBVIOUS
<1>3. Kept(r) \in Nat /\ Kept(r) <= Len(r) BY <1>1, <1>2 DEF Kept
<1>4. Outer(r) = [i \in 1 .. Kept(r) |-> ItemsAt(r[i])] BY DEF Outer, Kept
<1>5. \A i \in 1 .. Kept(r) : ItemsAt(r[i]) \in {ItemsAt(a) : a \in Int} BY <1>1, <1>3
<1> DEFINE S == {ItemsAt(a) : a \in Int}
           n == Kept(r)
           f == Outer(r)
<1>6. f \in [1 .. n -> S] BY <1>4, <1>5
<1>7. \A i \in 1 .. n : f[i] = ItemsAt(r[i]) BY <1>4
<1> HIDE DEF S, n, f
<1>8. n \in Nat BY <1>3 DEF n
<1>9. f \in Seq(S) /\ Len(f) = n BY ONLY <1>6, <1>8, ListOf
<1> QED BY <1>3, <1>7, <1>9 DEF S, n, f

LEMMA OuterEmpty == Outer(<< >>) = << >>
<1>1. << >> \in Seq(Int) /\ Len(<< >>) = 0 OBVIOUS
<1>2. Kept(<< >>) = 0 BY <1>1 DEF Kept
<1>3. Outer(<< >>) \in Seq({ItemsAt(a) : a \in Int}) /\ Len(Outer(<< >>)) = 0 BY <1>1, <1>2, OuterIs
<1> QED BY <1>3

(* What the return stack says is left when an address is pushed. *)
LEMMA OuterPushed ==
  ASSUME NEW a \in Int, NEW r \in Seq(Int), a = -1 => r = << >>
  PROVE  Outer(Pushed(a, r)) = Todo(a, r)
<1> DEFINE q == Pushed(a, r)
<1>1. /\ q \in Seq(Int) /\ Len(q) = Len(r) + 1 /\ q[1] = a /\ Len(r) \in Nat
      /\ \A i \in 1 .. (Len(r) + 1) : i # 1 => q[i] = r[i - 1] /\ i - 1 \in 1 .. Len(r)
  BY PushedInt
<1> HIDE DEF q
<1>2. q # << >> BY <1>1
<1>3. CASE a = -1
  <2>1. Len(q) = 1 /\ q[Len(q)] = -1 BY <1>1, <1>3
  <2>2. Kept(q) = 0 BY <1>2, <2>1 DEF Kept
  <2>3. Outer(q) \in Seq({ItemsAt(b) : b \in Int}) /\ Len(Outer(q)) = 0 BY <1>1, <2>2, OuterIs
  <2>4. Outer(q) = << >> BY <2>3
  <2> QED BY <1>3, <2>4 DEF Todo, q
<1>4. CASE a # -1
  <2> DEFINE S == {ItemsAt(b) : b \in Int}
             x == ItemsAt(a)
             t == Outer(r)
             u == Outer(q)
  <2>1. Kept(q) = Kept(r) + 1
    <3>1. CASE r = << >>
      <4>1. Len(r) = 0 BY <3>1
      <4>2. q[Len(q)] = a BY <1>1, <4>1
      <4> QED BY <1>1, <1>4, <3>1, <4>1, <4>2 DEF Kept
    <3>2. CASE r # << >>
      <4>1. Len(r) >= 1 /\ Len(q) \in 1 .. (Len(r) + 1) /\ Len(q) # 1 /\ Len(q) - 1 = Len(r) BY <1>1, <3>2
      <4>2. q[Len(q)] = r[Len(r)] BY <1>1, <4>1
      <4> QED BY <1>1, <1>2, <3>2, <4>1, <4>2 DEF Kept
    <3> QED BY <3>1, <3>2
  <2>2. Kept(r) \in Nat /\ Kept(r) <= Len(r) /\ x \in S BY OuterIs
  <2>3. t \in Seq(S) /\ Len(t) = Kept(r) /\ \A i \in 1 .. Kept(r) : t[i] = ItemsAt(r[i]) BY OuterIs
  <2>4. u \in Seq(S) /\ Len(u) = Kept(q) /\ \A i \in 1 .. Kept(q) : u[i] = ItemsAt(q[i]) BY <1>1, OuterIs
  <2>5. u[1] = x
    <3>1. 1 \in 1 .. Kept(q) BY <2>1, <2>2
    <3>2. u[1] = ItemsAt(q[1]) BY <2>4, <3>1
    <3> QED BY <1>1, <3>2
  <2>6. ASSUME NEW i \in 1 .. Len(u), i # 1 PROVE u[i] = t[i - 1]
    <3>1. i \in 1 .. (Len(r) + 1) /\ i - 1 \in 1 .. Kept(r) /\ i \in 1 .. Kept(q)
      BY <1>1, <2>1, <2>2, <2>4, <2>6
    <3>2. q[i] = r[i - 1] BY <1>1, <2>6, <3>1
    <3> QED BY <2>3, <2>4, <3>1, <3>2
  <2>7. Todo(a, r) = Pushed(x, t) BY <1>4 DEF Todo, Pushed
  <2> HIDE DEF S, x, t, u
  <2>8. /\ Pushed(x, t) \in Seq(S) /\ Len(Pushed(x, t)) = Len(t) + 1 /\ Pushed(x, t)[1] = x
        /\ \A i \in 1 .. (Len(t) + 1) : i # 1 => Pushed(x, t)[i] = t[i - 1]
    <3>1. x \in S /\ t \in Seq(S) BY <2>2, <2>3
    <3>2. ASSUME NEW i \in 1 .. (Len(t) + 1), i # 1 PROVE Pushed(x, t)[i] = t[i - 1]
      BY <2>2, <2>3, <3>1, <3>2 DEF Pushed
    <3>3. Pushed(x, t) \in Seq(S) BY <3>1, Pushed1
    <3>4. Len(Pushed(x, t)) = Len(t) + 1 BY <3>1, Pushed1
    <3>5. Pushed(x, t)[1] = x BY <3>1, Pushed1
    <3> QED BY <3>2, <3>3, <3>4, <3>5
  <2>9. Len(u) = Len(Pushed(x, t)) BY <2>1, <2>2, <2>3, <2>4, <2>8
  <2>10. ASSUME NEW i \in 1 .. Len(u) PROVE u[i] = Pushed(x, t)[i]
    BY <2>5, <2>6, <2>8, <2>9
  <2>11. u = Pushed(x, t) BY <2>4, <2>8, <2>9, <2>10, SeqEqual
  <2> QED BY <2>7, <2>11 DEF u, q
<1> QED BY <1>3, <1>4

AtItem(a) == \E w, i : Spot(w, i) /\ Place(w, i) = a + 1
AtCall(a, d) == \E w, i : /\ Spot(w, i) /\ dict[w][i].do = "call" /\ Place(w, i) = a
                          /\ d # << >> /\ d[1] = VM!Integer(wordAddressMap[dict[w][i].w])
Held(r) == \A j \in 1 .. Len(r) : (r[j] = -1 /\ j = Len(r)) \/ AtItem(r[j])

Goes ==
  /\ Held(return_) /\ vm \notin {"index", "return"}
  /\ \/ ip = -1 /\ return_ = << >>
     \/ AtItem(ip)
     \/ AtCall(ip, data)
(* An item does not begin with an Apply, nor with a Return. *)
LEMMA SpotCode ==
  ASSUME ProgramAssumption, OnlyCallsJump, IInv, phase = "done", NEW w, NEW i, Spot(w, i)
  PROVE  /\ bcArray[Place(w, i)] \in VM!Plain
         /\ bcArray[Place(w, i)] # Apply /\ bcArray[Place(w, i)] # Return
         /\ dict[w][i].do \in {"append", "call"} /\ (dict[w][i].do = "call" => dict[w][i].w \in Words)
<1>1. dict[w][i] \in Items BY SpotFacts
<1>2. CASE dict[w][i].do = "append" /\ dict[w][i].code \in Primitives
  <2>1. bcArray[Place(w, i)] \in VM!Plain BY <1>2, SpotFacts DEF OnlyCallsJump
  <2> QED BY <1>2, <2>1, PlainCases
<1>3. CASE dict[w][i].do = "call" /\ dict[w][i].w \in Words
  <2>1. Written(dict[w][i].w) /\ bcArray[Place(w, i)] = Push(wordAddressMap[dict[w][i].w])
    BY <1>3, SpotFacts
  <2>2. wordAddressMap[dict[w][i].w] \in Int
    <3>1. wordAddressMap \in [Words -> Nat \cup {None}] BY TypeOfArray DEF IInv
    <3> QED BY <1>3, <3>1 DEF None
  <2>3. bcArray[Place(w, i)] \in VM!Plain BY <2>1, <2>2 DEF Push, VM!Plain, VM!Value
  <2> QED BY <1>3, <2>3, PlainCases
<1> QED BY <1>1, <1>2, <1>3, Item

LEMMA AtItemCode ==
  ASSUME ProgramAssumption, OnlyCallsJump, IInv, phase = "done", NEW a \in Int, AtItem(a)
  PROVE  a >= 0 /\ bcArray[a + 1] # Apply /\ bcArray[a + 1] # Return
<1>1. PICK w, i : Spot(w, i) /\ Place(w, i) = a + 1 BY DEF AtItem
<1>2. Place(w, i) \in 1 .. Len(bcArray) BY <1>1, SpotFacts
<1>3. a >= 0 BY <1>1, <1>2
<1>4. bcArray[a + 1] # Apply /\ bcArray[a + 1] # Return BY <1>1, SpotCode
<1> QED BY <1>3, <1>4

(* A stack that is not empty is its top on the rest. *)
LEMMA StackSplit == ASSUME NEW r \in Seq(Int), r # << >>
  PROVE  /\ Head(r) \in Int /\ Head(r) = r[1] /\ Tail(r) \in Seq(Int) /\ Len(r) \in Nat /\ Len(r) >= 1
         /\ Len(Tail(r)) = Len(r) - 1 /\ \A j \in 1 .. (Len(r) - 1) : Tail(r)[j] = r[j + 1]
         /\ Pushed(Head(r), Tail(r)) = r
<1>1. /\ Head(r) \in Int /\ Head(r) = r[1] /\ Tail(r) \in Seq(Int) /\ Len(r) \in Nat /\ Len(r) >= 1
      /\ Len(Tail(r)) = Len(r) - 1 /\ \A j \in 1 .. (Len(r) - 1) : Tail(r)[j] = r[j + 1]
  OBVIOUS
<1>2. Pushed(Head(r), Tail(r)) = r
  <2> DEFINE h == Head(r)
             t == Tail(r)
             p == Pushed(h, t)
  <2>1. h \in Int /\ t \in Seq(Int) /\ h = r[1] /\ Len(t) = Len(r) - 1
    BY <1>1
  <2>2. \A j \in 1 .. (Len(r) - 1) : t[j] = r[j + 1] BY <1>1
  <2> HIDE DEF h, t
  <2>3. /\ p \in Seq(Int) /\ Len(p) = Len(t) + 1 /\ p[1] = h
        /\ \A j \in 1 .. (Len(t) + 1) : j # 1 => p[j] = t[j - 1] /\ j - 1 \in 1 .. Len(t)
    BY <2>1, PushedInt
  <2> HIDE DEF p
  <2>4. Len(p) = Len(r) BY <1>1, <2>1, <2>3
  <2>5. ASSUME NEW j \in 1 .. Len(p) PROVE p[j] = r[j]
    <3>1. CASE j = 1 BY <2>1, <2>3, <3>1
    <3>2. CASE j # 1
      <4>1. p[j] = t[j - 1] /\ j - 1 \in 1 .. (Len(r) - 1) /\ (j - 1) + 1 = j
        BY <1>1, <2>1, <2>3, <2>4, <3>2
      <4>2. t[j - 1] = r[(j - 1) + 1] BY <2>2, <4>1
      <4> QED BY <4>1, <4>2
    <3> QED BY <3>1, <3>2
  <2>6. p = r BY <2>3, <2>4, <2>5, SeqEqual
  <2> QED BY <2>6 DEF p, h, t
<1> QED BY <1>1, <1>2

LEMMA HeldTail == ASSUME NEW r \in Seq(Int), r # << >>, Held(r)
  PROVE  Held(Tail(r)) /\ ((Head(r) = -1 /\ Tail(r) = << >>) \/ AtItem(Head(r)))
<1> DEFINE t == Tail(r)
<1>1. /\ Head(r) = r[1] /\ t \in Seq(Int) /\ Len(r) \in Nat /\ Len(r) >= 1
      /\ Len(t) = Len(r) - 1 /\ \A j \in 1 .. (Len(r) - 1) : t[j] = r[j + 1]
  BY StackSplit
<1> HIDE DEF t
<1>2. ASSUME NEW j \in 1 .. Len(t) PROVE (t[j] = -1 /\ j = Len(t)) \/ AtItem(t[j])
  <2>1. j + 1 \in 1 .. Len(r) /\ t[j] = r[j + 1] BY <1>1
  <2>2. (r[j + 1] = -1 /\ j + 1 = Len(r)) \/ AtItem(r[j + 1]) BY <2>1 DEF Held
  <2>3. j + 1 = Len(r) => j = Len(t) BY <1>1, <2>1
  <2> QED BY <2>1, <2>2, <2>3
<1>3. 1 \in 1 .. Len(r) BY <1>1
<1>4. (r[1] = -1 /\ 1 = Len(r)) \/ AtItem(r[1]) BY <1>3 DEF Held
<1>5. 1 = Len(r) => t = << >> BY <1>1
<1> QED BY <1>1, <1>2, <1>4, <1>5 DEF Held, t

(* Where the run goes on after an item: what is left is all but the item.  *)
LEMMA Onward ==
  ASSUME ProgramAssumption, OnlyCallsJump, IInv, MachineOK, VM!Fetched, Held(return_),
         NEW w, NEW i, Spot(w, i), ip + 2 = Place(w, i) + Size(dict[w][i])
  PROVE  /\ VM!Advanced.ip \in Int /\ VM!Advanced.return_ \in Seq(Int)
         /\ Held(VM!Advanced.return_)
         /\ (VM!Advanced.ip = -1 /\ VM!Advanced.return_ = << >>) \/ AtItem(VM!Advanced.ip)
         /\ Todo(VM!Advanced.ip, VM!Advanced.return_) = Left(Rest(w, i + 1), Outer(return_))
<1>1. phase = "done" /\ ip \in Nat /\ return_ \in Seq(Int) BY FetchedCode DEF MachineOK
<1>2. Place(w, i + 1) = ip + 2 /\ Place(w, i) \in Nat BY <1>1, SpotFacts
<1>3. (ip + 1) + 1 = ip + 2 BY <1>1
<1>4. CASE i # Len(dict[w])
  <2>1. Spot(w, i + 1) /\ Rest(w, i + 1) # << >> BY <1>1, <1>4, RestIs
  <2>2. bcArray[(ip + 1) + 1] # Return BY <1>1, <1>2, <1>3, <2>1, SpotCode
  <2>3. VM!Advanced = [ip |-> ip + 1, return_ |-> return_] BY <2>2 DEF VM!Advanced, Return
  <2>4. AtItem(ip + 1) BY <1>2, <1>3, <2>1 DEF AtItem
  <2>5. ip + 1 \in Int /\ ip + 1 # -1 BY <1>1
  <2>6. ItemsAt(ip + 1) = Rest(w, i + 1) BY <1>1, <1>2, <1>3, <2>1, <2>5, ItemsAtSpot
  <2>7. Todo(ip + 1, return_) = Left(Rest(w, i + 1), Outer(return_))
    BY <2>1, <2>5, <2>6 DEF Todo, Left
  <2> QED BY <1>1, <2>3, <2>4, <2>5, <2>7
<1>5. CASE i = Len(dict[w])
  <2>1. bcArray[(ip + 1) + 1] = Return BY <1>1, <1>2, <1>3, <1>5, SpotFacts
  <2>2. Left(Rest(w, i + 1), Outer(return_)) = Outer(return_) BY <1>1, <1>5, RestIs DEF Left
  <2>3. CASE return_ = << >>
    <3>1. VM!Advanced = [ip |-> -1, return_ |-> return_] BY <2>1, <2>3 DEF VM!Advanced, Return
    <3>2. Todo(-1, return_) = Outer(return_) BY <2>3, OuterEmpty DEF Todo
    <3> QED BY <1>1, <2>2, <2>3, <3>1, <3>2
  <2>4. CASE return_ # << >>
    <3> DEFINE h == Head(return_)
               t == Tail(return_)
    <3>1. VM!Advanced = [ip |-> h, return_ |-> t] BY <2>1, <2>4 DEF VM!Advanced, Return
    <3>2. h \in Int /\ t \in Seq(Int) /\ Pushed(h, t) = return_ BY <1>1, <2>4, StackSplit
    <3>3. Held(t) /\ ((h = -1 /\ t = << >>) \/ AtItem(h)) BY <1>1, <2>4, HeldTail
    <3> HIDE DEF h, t
    <3>4. h = -1 => t = << >>
      <4>1. SUFFICES ASSUME h = -1, AtItem(h) PROVE FALSE BY <3>3
      <4>2. h >= 0 BY <1>1, <3>2, <4>1, AtItemCode
      <4> QED BY <4>1, <4>2
    <3>5. Todo(h, t) = Outer(return_) BY <3>2, <3>4, OuterPushed
    <3> QED BY <2>2, <3>1, <3>2, <3>3, <3>5
  <2> QED BY <2>3, <2>4
<1> QED BY <1>4, <1>5

(* What the words still do, as a function of the state, so that an         *)
(* operator of it is the same where the compiler has left its variables.   *)
ItemsOf(d, m, a) ==
  LET p == CHOOSE p \in UNION {{w} \X DOMAIN d[w] : w \in {w \in Words : m[w] # None}} :
             m[p[1]] + Offset(d[p[1]], p[2] - 1) + 1 = a + 1
  IN  SubSeq(d[p[1]], p[2], Len(d[p[1]]))
OuterOf(d, m, r) ==
  [i \in 1 .. (IF r # << >> /\ r[Len(r)] = -1 THEN Len(r) - 1 ELSE Len(r)) |-> ItemsOf(d, m, r[i])]
TodoOf(d, m, a, r) == IF a = -1 THEN << >> ELSE <<ItemsOf(d, m, a)>> \o OuterOf(d, m, r)
EmptyOf(d, m) == \E w \in {w \in Words : m[w] # None} : d[w] = << >>
State(t, x, e, o) == [todo |-> t, data |-> x, retain |-> e, status |-> o]
View(d, m, b, a, r, x, e, s) ==
  IF s = "off" \/ EmptyOf(d, m) THEN State(<<d[Main]>>, << >>, << >>, "fine")
  ELSE IF s \notin {"running", "stopped"} THEN State(<< >>, x, e, "failed")
  ELSE IF a # -1 /\ b[a + 1] = Apply THEN State(TodoOf(d, m, a - 1, r), Tail(x), e, "fine")
  ELSE State(TodoOf(d, m, a, r), x, e, "fine")

LEMMA SaidNow == Said = View(dict, wordAddressMap, bcArray, ip, return_, data, retain, vm)
BY DEF Said, View, State, EmptyWord, EmptyOf, Calling, Todo, TodoOf, Outer, OuterOf, ItemsAt, ItemsOf,
       Spots, Reached, Written, Place

LEMMA SaidThen ==
  ASSUME UNCHANGED vars
  PROVE  Said' = View(dict, wordAddressMap, bcArray, ip', return_', data', retain', vm')
<1>1. Said' = View(dict', wordAddressMap', bcArray', ip', return_', data', retain', vm')
  BY DEF Said, View, State, EmptyWord, EmptyOf, Calling, Todo, TodoOf, Outer, OuterOf, ItemsAt, ItemsOf,
         Spots, Reached, Written, Place
<1> QED BY <1>1 DEF vars

LEMMA ViewIs ==
  ASSUME NEW a, NEW r, NEW x, NEW e, NEW s
  PROVE  View(dict, wordAddressMap, bcArray, a, r, x, e, s) =
           IF s = "off" \/ EmptyWord THEN State(<<dict[Main]>>, << >>, << >>, "fine")
           ELSE IF s \notin {"running", "stopped"} THEN State(<< >>, x, e, "failed")
           ELSE IF a # -1 /\ bcArray[a + 1] = Apply THEN State(Todo(a - 1, r), Tail(x), e, "fine")
           ELSE State(Todo(a, r), x, e, "fine")
BY DEF View, EmptyWord, EmptyOf, Todo, TodoOf, Outer, OuterOf, ItemsAt, ItemsOf,
       Spots, Reached, Written, Place

LEMMA StateFields ==
  ASSUME NEW t, NEW x, NEW e
  PROVE  /\ State(t, x, e, "fine").todo = t /\ State(t, x, e, "fine").data = x /\ State(t, x, e, "fine").retain = e
         /\ Failed(State(t, x, e, "fine")) = State(<< >>, x, e, "failed")
         /\ \A y : [State(t, x, e, "fine") EXCEPT !.data = y] = State(t, y, e, "fine")
         /\ \A y : [State(t, x, e, "fine") EXCEPT !.retain = y] = State(t, x, y, "fine")
         /\ \A y : [State(t, x, e, "fine") EXCEPT !.todo = y] = State(y, x, e, "fine")
<1>1. ASSUME NEW y PROVE [State(t, x, e, "fine") EXCEPT !.data = y] = State(t, y, e, "fine") BY DEF State
<1>2. ASSUME NEW y PROVE [State(t, x, e, "fine") EXCEPT !.retain = y] = State(t, x, y, "fine") BY DEF State
<1>3. ASSUME NEW y PROVE [State(t, x, e, "fine") EXCEPT !.todo = y] = State(y, x, e, "fine") BY DEF State
<1>4. Failed(State(t, x, e, "fine")) = State(<< >>, x, e, "failed")
  <2> DEFINE f == Failed(State(t, x, e, "fine"))
  <2>1. /\ f = [y \in {"todo", "data", "retain", "status"} |-> f[y]]
        /\ f.todo = << >> /\ f.data = x /\ f.retain = e /\ f.status = "failed"
    BY DEF State, Failed
  <2> HIDE DEF f
  <2> QED BY <2>1 DEF State, f
<1>5. State(t, x, e, "fine").todo = t /\ State(t, x, e, "fine").data = x /\ State(t, x, e, "fine").retain = e
  BY DEF State
<1> QED BY <1>1, <1>2, <1>3, <1>4, <1>5

(* A bytecode that works on the data stack does what it does in place. *)
LEMMA DataDoes ==
  ASSUME MachineOK, NEW t, VM!Current \in VM!Plain, NEW op \in DOMAIN VM!Pops, op = VM!Current.op
  PROVE  Primitive(State(t, data, retain, "fine"), VM!Current) =
           IF VM!Applicable(op) THEN State(t, VM!Result(op) \o VM!Below(VM!Pops[op]), retain, "fine")
           ELSE State(<< >>, data, retain, "failed")
<1> DEFINE s == State(t, data, retain, "fine")
           n == Len(data)
           on(new, k) == State(t, new \o SubSeq(data, k + 1, n), retain, "fine")
           fails == State(<< >>, data, retain, "failed")
           ints == n > 1 /\ VM!IsInt(data[1]) /\ VM!IsInt(data[2])
<1>1. n \in Nat /\ data \in Seq(VM!Value) BY DEF MachineOK
<1>2. op \in {"Drop", "Dup", "Swap", "Choose", "Add", "Mul", "Dump", "Push"} BY DEF VM!Pops
<1>3. /\ s.data = data /\ s.retain = retain /\ Failed(s) = fails
      /\ \A x : [s EXCEPT !.data = x] = State(t, x, retain, "fine")
  BY StateFields
<1>4. op = "Push" => Primitive(s, VM!Current) = on(<<VM!Current.value>>, 0) BY <1>3 DEF Primitive
<1>5. op = "Drop" => Primitive(s, VM!Current) = IF n > 0 THEN on(<< >>, 1) ELSE fails
  BY <1>3 DEF Primitive
<1>6. op = "Dup" => Primitive(s, VM!Current) = IF n > 0 THEN on(<<data[1], data[1]>>, 1) ELSE fails
  BY <1>3 DEF Primitive
<1>7. op = "Swap" => Primitive(s, VM!Current) = IF n > 1 THEN on(<<data[2], data[1]>>, 2) ELSE fails
  BY <1>3 DEF Primitive
<1>8. op = "Add" => Primitive(s, VM!Current) =
        IF ints THEN on(<<VM!Integer(VM!Wrapped(data[1].int + data[2].int))>>, 2) ELSE fails
  BY <1>3 DEF Primitive
<1>9. op = "Mul" => Primitive(s, VM!Current) =
        IF ints THEN on(<<VM!Integer(VM!Wrapped(data[1].int * data[2].int))>>, 2) ELSE fails
  BY <1>3 DEF Primitive
<1>10. op = "Choose" => Primitive(s, VM!Current) =
         IF n > 2 /\ VM!IsBool(data[3]) THEN on(<<IF data[3].bool THEN data[2] ELSE data[1]>>, 3) ELSE fails
  BY <1>3 DEF Primitive
<1>11. op = "Dump" => Primitive(s, VM!Current) = s BY <1>3 DEF Primitive
<1>12. ASSUME NEW k \in Nat, VM!Pops[op] = k
       PROVE  State(t, VM!Result(op) \o VM!Below(VM!Pops[op]), retain, "fine") = on(VM!Result(op), k)
  BY <1>12 DEF VM!Below
<1> HIDE DEF s, on, fails
<1>13. CASE op \in {"Push", "Dump"}
  <2>1. VM!Applicable(op) /\ VM!Pops[op] = 0 BY <1>1, <1>13 DEF VM!Applicable, VM!Pops
  <2>2. CASE op = "Push"
    <3>1. State(t, VM!Result(op) \o VM!Below(VM!Pops[op]), retain, "fine") = on(VM!Result(op), 0)
      BY <1>12, <2>1
    <3>2. VM!Result(op) = <<VM!Current.value>> BY <2>2, Results
    <3> QED BY <1>4, <2>1, <2>2, <3>1, <3>2 DEF s
  <2>3. CASE op = "Dump"
    <3>1. on(<< >>, 0) = s
      <4>1. << >> \o SubSeq(data, 0 + 1, n) = data
        <5>1. SubSeq(data, 0 + 1, n) = data BY <1>1
        <5>2. << >> \o data = data BY <1>1, ConcatEmptySeq
        <5> QED BY <5>1, <5>2
      <4> QED BY <4>1 DEF on, s
    <3>2. State(t, VM!Result(op) \o VM!Below(VM!Pops[op]), retain, "fine") = on(VM!Result(op), 0)
      BY <1>12, <2>1
    <3>3. VM!Result(op) = << >> BY <2>3, Results
    <3> QED BY <1>11, <2>1, <2>3, <3>1, <3>2, <3>3 DEF s
  <2> QED BY <1>13, <2>2, <2>3
<1>14. CASE op \in {"Drop", "Dup"}
  <2>1. (VM!Applicable(op) <=> n > 0) /\ VM!Pops[op] = 1 BY <1>1, <1>14 DEF VM!Applicable, VM!Pops
  <2> QED BY <1>5, <1>6, <1>12, <1>14, <2>1, Results DEF s, fails
<1>15. CASE op = "Swap"
  <2>1. (VM!Applicable(op) <=> n > 1) /\ VM!Pops[op] = 2 BY <1>1, <1>15 DEF VM!Applicable, VM!Pops
  <2> QED BY <1>7, <1>12, <1>15, <2>1, Results DEF s, fails
<1>16. CASE op \in {"Add", "Mul"}
  <2>1. (VM!Applicable(op) <=> ints) /\ VM!Pops[op] = 2
    BY <1>1, <1>16 DEF VM!Applicable, VM!Pops, VM!Top, VM!Second
  <2> QED BY <1>8, <1>9, <1>12, <1>16, <2>1, Results DEF s, fails
<1>17. CASE op = "Choose"
  <2>1. (VM!Applicable(op) <=> n > 2 /\ VM!IsBool(data[3])) /\ VM!Pops[op] = 3
    BY <1>1, <1>17 DEF VM!Applicable, VM!Pops
  <2> QED BY <1>10, <1>12, <1>17, <2>1, Results DEF s, fails
<1> QED BY <1>2, <1>13, <1>14, <1>15, <1>16, <1>17

(* So do those that use the retain stack. *)
LEMMA RetainDoes ==
  ASSUME MachineOK, NEW t
  PROVE  /\ VM!Current.op = "D2R" => Primitive(State(t, data, retain, "fine"), VM!Current) =
              IF data # << >> THEN State(t, VM!Below(1), <<data[1]>> \o retain, "fine")
              ELSE State(<< >>, data, retain, "failed")
         /\ VM!Current.op = "R2D" => Primitive(State(t, data, retain, "fine"), VM!Current) =
              IF retain # << >> THEN State(t, <<Head(retain)>> \o data, Tail(retain), "fine")
              ELSE State(<< >>, data, retain, "failed")
<1> DEFINE s == State(t, data, retain, "fine")
           n == Len(data)
<1>1. n \in Nat /\ data \in Seq(VM!Value) /\ (n > 0 <=> data # << >>) BY DEF MachineOK
<1>2. /\ s.data = data /\ s.retain = retain /\ Failed(s) = State(<< >>, data, retain, "failed")
      /\ \A x : [s EXCEPT !.data = x] = State(t, x, retain, "fine")
      /\ \A x : State(t, x, retain, "fine").retain = retain
      /\ \A x, e : [State(t, x, retain, "fine") EXCEPT !.retain = e] = State(t, x, e, "fine")
  BY StateFields
<1> HIDE DEF s
<1>3. CASE VM!Current.op = "D2R"
  <2> DEFINE x == << >> \o SubSeq(data, 1 + 1, n)
             u == [s EXCEPT !.data = x]
  <2>0. u = State(t, x, retain, "fine") /\ u.retain = retain
    <3> HIDE DEF x
    <3> QED BY DEF s, State
  <2>1. Primitive(s, VM!Current) = IF n > 0 THEN State(t, x, <<data[1]>> \o retain, "fine") ELSE Failed(s)
    <3>1. Primitive(s, VM!Current) = IF n > 0 THEN [u EXCEPT !.retain = <<data[1]>> \o u.retain] ELSE Failed(s)
      BY <1>2, <1>3 DEF Primitive
    <3> HIDE DEF u, x
    <3>2. [u EXCEPT !.retain = <<data[1]>> \o u.retain] = State(t, x, <<data[1]>> \o retain, "fine")
      BY <2>0 DEF State
    <3> QED BY <3>1, <3>2
  <2>2. n > 0 => << >> \o SubSeq(data, 1 + 1, n) = VM!Below(1)
    <3>1. n > 0 => SubSeq(data, 1 + 1, n) \in Seq(VM!Value) BY <1>1, Values
    <3>2. n > 0 => << >> \o SubSeq(data, 1 + 1, n) = SubSeq(data, 1 + 1, n) BY <3>1, ConcatEmptySeq
    <3> QED BY <3>2 DEF VM!Below
  <2> QED BY <1>1, <1>2, <1>3, <2>1, <2>2 DEF s
<1>4. CASE VM!Current.op = "R2D"
  <2> DEFINE x == <<Head(retain)>> \o SubSeq(data, 0 + 1, n)
             u == [s EXCEPT !.data = x]
  <2>0. u = State(t, x, retain, "fine") /\ u.retain = retain
    <3> HIDE DEF x
    <3> QED BY DEF s, State
  <2>1. Primitive(s, VM!Current) = IF retain # << >> THEN State(t, x, Tail(retain), "fine") ELSE Failed(s)
    <3>1. Primitive(s, VM!Current) = IF retain # << >> THEN [u EXCEPT !.retain = Tail(u.retain)] ELSE Failed(s)
      BY <1>2, <1>4 DEF Primitive
    <3> HIDE DEF u, x
    <3>2. [u EXCEPT !.retain = Tail(u.retain)] = State(t, x, Tail(retain), "fine")
      <4> DEFINE r == Tail(retain)
      <4>1. Tail(u.retain) = r BY <2>0
      <4> HIDE DEF r
      <4>2. [u EXCEPT !.retain = r] = State(t, x, r, "fine") BY <2>0 DEF State
      <4> QED BY <4>1, <4>2 DEF r
    <3> QED BY <3>1, <3>2
  <2>2. SubSeq(data, 0 + 1, n) = data BY <1>1
  <2> QED BY <1>2, <1>4, <2>1, <2>2 DEF s
<1> QED BY <1>3, <1>4

LEMMA HeadOfPushed == ASSUME NEW S, NEW h \in S, NEW t \in Seq(S)
  PROVE  Head(Pushed(h, t)) = h /\ Tail(Pushed(h, t)) = t /\ Pushed(h, t) # << >>
<1> DEFINE p == Pushed(h, t)
<1>1. p \in Seq(S) /\ Len(p) = Len(t) + 1 /\ p[1] = h /\ Len(t) \in Nat BY Pushed1
<1>2. ASSUME NEW i \in 1 .. (Len(t) + 1), i # 1 PROVE p[i] = t[i - 1] BY <1>2 DEF Pushed
<1> HIDE DEF p
<1>3. p # << >> /\ Head(p) = h BY <1>1
<1>4. Tail(p) \in Seq(S) /\ Len(Tail(p)) = Len(t) BY <1>1, <1>3
<1>5. ASSUME NEW i \in 1 .. Len(t) PROVE Tail(p)[i] = t[i]
  <2>1. Tail(p)[i] = p[i + 1] BY <1>1, <1>3
  <2>2. i + 1 \in 1 .. (Len(t) + 1) /\ i + 1 # 1 /\ (i + 1) - 1 = i BY <1>1
  <2>3. p[i + 1] = t[(i + 1) - 1] BY <1>2, <2>2
  <2> QED BY <2>1, <2>2, <2>3
<1>6. Tail(p) = t BY <1>4, <1>5, SeqEqual
<1> QED BY <1>3, <1>6 DEF p

(* What it is to do the item at an address. *)
LEMMA ExecuteIs ==
  ASSUME ProgramAssumption, IInv, phase = "done", NEW w, NEW i, Spot(w, i),
         NEW a \in Int, Place(w, i) = a + 1, NEW r \in Seq(Int), NEW x, NEW e
  PROVE  LET s == State(Todo(a, r), x, e, "fine")
             left == Left(Rest(w, i + 1), Outer(r))
         IN  /\ s.todo # << >>
             /\ dict[w][i].do = "append" => Execute(s) = Primitive(State(left, x, e, "fine"), dict[w][i].code)
             /\ dict[w][i].do = "call" => Execute(s) = State(Pushed(dict[dict[w][i].w], left), x, e, "fine")
<1> DEFINE s == State(Todo(a, r), x, e, "fine")
           left == Left(Rest(w, i + 1), Outer(r))
<1>1. Todo(a, r) = Pushed(Rest(w, i), Outer(r))
  <2>1. a # -1
    <3>1. Place(w, i) \in Nat /\ Place(w, i) # 0 BY SpotFacts
    <3> QED BY <3>1
  <2>2. ItemsAt(a) = Rest(w, i) BY ItemsAtSpot
  <2> QED BY <2>1, <2>2 DEF Todo, Pushed
<1>2. /\ Head(Todo(a, r)) = Rest(w, i) /\ Tail(Todo(a, r)) = Outer(r) /\ Todo(a, r) # << >>
  <2> DEFINE S == {ItemsAt(b) : b \in Int}
  <2>1. Rest(w, i) \in S
    <3>1. ItemsAt(a) = Rest(w, i) BY ItemsAtSpot
    <3> QED BY <3>1
  <2>2. Outer(r) \in Seq(S) BY OuterIs
  <2> HIDE DEF S
  <2> QED BY <1>1, <2>1, <2>2, HeadOfPushed
<1>3. Head(Rest(w, i)) = dict[w][i] /\ Tail(Rest(w, i)) = Rest(w, i + 1) BY RestIs
<1>4. s.todo = Todo(a, r) BY StateFields
<1> DEFINE item == Head(Head(s.todo))
           l == Left(Tail(Head(s.todo)), Tail(s.todo))
           more == [s EXCEPT !.todo = l]
<1>5. item = dict[w][i] /\ l = left BY <1>2, <1>3, <1>4
<1>6. more = State(left, x, e, "fine")
  <2> HIDE DEF l, left
  <2>1. [s EXCEPT !.todo = left] = State(left, x, e, "fine") BY StateFields
  <2> QED BY <1>5, <2>1
<1>7. Execute(s) = IF item.do = "append" THEN Primitive(more, item.code)
                   ELSE [more EXCEPT !.todo = <<dict[item.w]>> \o more.todo]
  BY DEF Execute
<1>8. [more EXCEPT !.todo = <<dict[item.w]>> \o more.todo] = State(Pushed(dict[item.w], left), x, e, "fine")
  <2> HIDE DEF s, l, left, item, more
  <2>1. more.todo = left BY <1>6, StateFields
  <2> DEFINE y == Pushed(dict[item.w], left)
  <2>2. <<dict[item.w]>> \o more.todo = y BY <2>1 DEF Pushed
  <2> HIDE DEF y
  <2>3. [more EXCEPT !.todo = y] = State(y, x, e, "fine") BY <1>6 DEF State
  <2> QED BY <2>2, <2>3 DEF y
<1> HIDE DEF more, l, left, item
<1> QED BY <1>2, <1>4, <1>5, <1>6, <1>7, <1>8 DEF left

LEMMA GoesNext ==
  ASSUME UNCHANGED vars, NEW a, a = ip', NEW r, r = return_', NEW x, x = data',
         Held(r), vm' \notin {"index", "return"},
         (a = -1 /\ r = << >>) \/ AtItem(a) \/ AtCall(a, x)
  PROVE  Goes'
<1> USE DEF vars
<1>1. Held(return_)'
  <2>1. ASSUME NEW j \in 1 .. Len(r), AtItem(r[j]) PROVE AtItem(return_[j])'
    BY <2>1 DEF AtItem, Spot, Place, Written
  <2> QED BY <2>1 DEF Held
<1>2. AtItem(a) => AtItem(ip)' BY DEF AtItem, Spot, Place, Written
<1>3. AtCall(a, x) => AtCall(ip, data)' BY DEF AtCall, Spot, Place, Written, VM!Integer
<1> QED BY <1>1, <1>2, <1>3 DEF Goes

(* The run of a compiled program without empty words. *)
Live == IInv /\ MachineOK /\ phase = "done" /\ ~EmptyWord /\ Goes /\ vm = "running"

LEMMA SaidHere ==
  ASSUME ~EmptyWord, vm = "running"
  PROVE  /\ ip # -1 /\ bcArray[ip + 1] = Apply => Said = State(Todo(ip - 1, return_), Tail(data), retain, "fine")
         /\ ~(ip # -1 /\ bcArray[ip + 1] = Apply) => Said = State(Todo(ip, return_), data, retain, "fine")
BY DEF Said, State, Calling

LEMMA SaidAfter ==
  ASSUME UNCHANGED vars, ~EmptyWord, NEW a, a = ip', NEW r, r = return_', NEW x, x = data',
         NEW e, e = retain', NEW s, s = vm', s # "off"
  PROVE  /\ s \notin {"running", "stopped"} => Said' = State(<< >>, x, e, "failed")
         /\ s \in {"running", "stopped"} /\ a # -1 /\ bcArray[a + 1] = Apply =>
              Said' = State(Todo(a - 1, r), Tail(x), e, "fine")
         /\ s \in {"running", "stopped"} /\ ~(a # -1 /\ bcArray[a + 1] = Apply) =>
              Said' = State(Todo(a, r), x, e, "fine")
<1>1. Said' = View(dict, wordAddressMap, bcArray, a, r, x, e, s) BY SaidThen
<1> QED BY <1>1, ViewIs

(* A step at an item that is no call does it. *)
LEMMA AppendStep ==
  ASSUME ProgramAssumption, OnlyCallsJump, Live, UNCHANGED vars, VM!Run,
         NEW w, NEW i, Spot(w, i), Place(w, i) = ip + 1, dict[w][i].do = "append"
  PROVE  Goes' /\ DoesNextItem
<1> USE DEF Live
<1>1. /\ ip \in Int /\ return_ \in Seq(Int) /\ Held(return_)
      /\ data \in Seq(VM!Value) /\ retain \in Seq(VM!Value)
  BY DEF MachineOK, Goes
<1>2. Size(dict[w][i]) = 1 BY DEF Size
<1>3. VM!Fetched /\ ip >= 0
  <2>1. /\ Len(bcArray) \in Nat /\ Place(w, i) \in 1 .. Len(bcArray)
        /\ Place(w, i) + 1 \in 1 .. Len(bcArray)
    BY <1>2, SpotFacts
  <2> QED BY <1>1, <2>1 DEF VM!Fetched, VM!InArray
<1>4. VM!Current = bcArray[ip + 1] /\ VM!Current = dict[w][i].code /\ VM!Current \in VM!Plain
  BY SpotFacts, SpotCode DEF VM!Current
<1>5. VM!Current # Apply /\ VM!Current.op # "Apply" /\ VM!Current.op # "Return" BY <1>4, PlainCases
<1> DEFINE left == Left(Rest(w, i + 1), Outer(return_))
<1>6. Said.todo # << >> /\ Execute(Said) = Primitive(State(left, data, retain, "fine"), VM!Current)
  <2>1. Said = State(Todo(ip, return_), data, retain, "fine") BY <1>4, <1>5, SaidHere
  <2> QED BY <1>1, <1>4, <2>1, ExecuteIs
<1> HIDE DEF left
<1>7. ASSUME VM!Continue, vm' = vm PROVE Goes' /\ Said' = State(left, data', retain', "fine")
  <2> DEFINE a == VM!Advanced.ip
             r == VM!Advanced.return_
  <2>1. a = ip' /\ r = return_' BY <1>7 DEF VM!Continue
  <2>2. /\ a \in Int /\ r \in Seq(Int) /\ Held(r) /\ ((a = -1 /\ r = << >>) \/ AtItem(a))
        /\ Todo(a, r) = left
    <3>1. ip + 2 = Place(w, i) + Size(dict[w][i]) BY <1>1, <1>2
    <3> QED BY <1>1, <1>3, <3>1, Onward DEF left
  <2> HIDE DEF a, r
  <2>3. Goes' BY <1>7, <2>1, <2>2, GoesNext
  <2>4. ~(a # -1 /\ bcArray[a + 1] = Apply) BY <2>2, AtItemCode
  <2>5. Said' = State(Todo(a, r), data', retain', "fine") BY <1>7, <2>1, <2>4, SaidAfter
  <2> QED BY <2>2, <2>3, <2>5
<1>8. ASSUME VM!Fails("data") PROVE Goes' /\ Said' = State(<< >>, data, retain, "failed")
  <2>1. vm' = "data" /\ ip' = ip /\ return_' = return_ /\ data' = data /\ retain' = retain
    BY <1>8 DEF VM!Fails, VM!registers
  <2>2. AtItem(ip) BY DEF AtItem
  <2>3. Goes' BY <1>1, <2>1, <2>2, GoesNext
  <2>4. Said' = State(<< >>, data, retain, "failed") BY <2>1, SaidAfter
  <2> QED BY <2>3, <2>4
<1>9. CASE VM!RunData
  <2> DEFINE op == VM!Current.op
  <2>1. op \in DOMAIN VM!Pops BY <1>9 DEF VM!RunData
  <2>2. Execute(Said) = IF VM!Applicable(op) THEN State(left, VM!Result(op) \o VM!Below(VM!Pops[op]), retain, "fine")
                        ELSE State(<< >>, data, retain, "failed")
    BY <1>4, <1>6, <2>1, DataDoes
  <2>3. CASE VM!Applicable(op)
    <3>1. data' = VM!Result(op) \o VM!Below(VM!Pops[op]) /\ VM!Continue /\ retain' = retain /\ vm' = vm
      BY <1>9, <2>3 DEF VM!RunData
    <3>2. Goes' /\ Said' = State(left, data', retain', "fine") BY <1>7, <3>1
    <3>3. Said' = Execute(Said) BY <2>2, <2>3, <3>1, <3>2
    <3> QED BY <1>6, <3>2, <3>3 DEF DoesNextItem
  <2>4. CASE ~VM!Applicable(op)
    <3>1. VM!Fails("data") BY <1>9, <2>4 DEF VM!RunData
    <3>2. Goes' /\ Said' = State(<< >>, data, retain, "failed") BY <1>8, <3>1
    <3>3. Said' = Execute(Said) BY <2>2, <2>4, <3>2
    <3> QED BY <1>6, <3>2, <3>3 DEF DoesNextItem
  <2> QED BY <2>3, <2>4
<1>10. CASE VM!RunD2R
  <2>1. VM!Current.op = "D2R" BY <1>10 DEF VM!RunD2R
  <2>2. Execute(Said) = IF data # << >> THEN State(left, VM!Below(1), <<data[1]>> \o retain, "fine")
                        ELSE State(<< >>, data, retain, "failed")
    BY <1>6, <2>1, RetainDoes
  <2>3. CASE data # << >>
    <3>1. data' = VM!Below(1) /\ VM!Continue /\ retain' = <<data[1]>> \o retain /\ vm' = vm
      BY <1>10, <2>3 DEF VM!RunD2R, VM!Top
    <3>2. Goes' /\ Said' = State(left, data', retain', "fine") BY <1>7, <3>1
    <3>3. Said' = Execute(Said) BY <2>2, <2>3, <3>1, <3>2
    <3> QED BY <1>6, <3>2, <3>3 DEF DoesNextItem
  <2>4. CASE data = << >>
    <3>1. VM!Fails("data") BY <1>10, <2>4 DEF VM!RunD2R
    <3>2. Goes' /\ Said' = State(<< >>, data, retain, "failed") BY <1>8, <3>1
    <3>3. Said' = Execute(Said) BY <2>2, <2>4, <3>2
    <3> QED BY <1>6, <3>2, <3>3 DEF DoesNextItem
  <2> QED BY <2>3, <2>4
<1>11. CASE VM!RunR2D
  <2>1. VM!Current.op = "R2D" BY <1>11 DEF VM!RunR2D
  <2>2. Execute(Said) = IF retain # << >> THEN State(left, <<Head(retain)>> \o data, Tail(retain), "fine")
                        ELSE State(<< >>, data, retain, "failed")
    BY <1>6, <2>1, RetainDoes
  <2>3. CASE retain # << >>
    <3>1. data' = <<Head(retain)>> \o data /\ VM!Continue /\ retain' = Tail(retain) /\ vm' = vm
      BY <1>11, <2>3 DEF VM!RunR2D
    <3>2. Goes' /\ Said' = State(left, data', retain', "fine") BY <1>7, <3>1
    <3>3. Said' = Execute(Said) BY <2>2, <2>3, <3>1, <3>2
    <3> QED BY <1>6, <3>2, <3>3 DEF DoesNextItem
  <2>4. CASE retain = << >>
    <3>1. VM!Fails("data") BY <1>11, <2>4 DEF VM!RunR2D
    <3>2. Goes' /\ Said' = State(<< >>, data, retain, "failed") BY <1>8, <3>1
    <3>3. Said' = Execute(Said) BY <2>2, <2>4, <3>2
    <3> QED BY <1>6, <3>2, <3>3 DEF DoesNextItem
  <2> QED BY <2>3, <2>4
<1>12. ~VM!OutOfArray /\ ~VM!Stop /\ ~VM!RunReturn /\ ~VM!RunApply
  BY <1>1, <1>3, <1>5 DEF VM!OutOfArray, VM!Stop, VM!RunReturn, VM!RunApply, VM!Fetched
<1> QED BY <1>9, <1>10, <1>11, <1>12 DEF VM!Run

(* A step at a call takes the address of the callee: nothing is done yet.  *)
LEMMA PushStep ==
  ASSUME ProgramAssumption, OnlyCallsJump, Live, UNCHANGED vars, VM!Run,
         NEW w, NEW i, Spot(w, i), Place(w, i) = ip + 1, dict[w][i].do = "call"
  PROVE  Goes' /\ Said' = Said
<1> USE DEF Live
<1> DEFINE m == wordAddressMap[dict[w][i].w]
           v == VM!Integer(m)
<1>1. /\ ip \in Int /\ return_ \in Seq(Int) /\ Held(return_)
      /\ data \in Seq(VM!Value) /\ retain \in Seq(VM!Value)
  BY DEF MachineOK, Goes
<1>2. Size(dict[w][i]) = 2 BY DEF Size
<1>3. VM!Fetched /\ ip >= 0
  <2>1. /\ Len(bcArray) \in Nat /\ Place(w, i) \in 1 .. Len(bcArray)
        /\ Place(w, i) + 2 \in 1 .. Len(bcArray)
    BY <1>2, SpotFacts
  <2> QED BY <1>1, <2>1 DEF VM!Fetched, VM!InArray
<1>4. /\ Written(dict[w][i].w) /\ bcArray[ip + 1] = Push(m) /\ bcArray[(ip + 1) + 1] = Apply
      /\ dict[w][i].w \in Words
  BY SpotFacts, SpotCode
<1>5. VM!Current = Push(m) /\ VM!Current.op = "Push" /\ VM!Current.value = v
  BY <1>4 DEF VM!Current, Push, VM!Integer
<1>6. v \in VM!Value
  <2>1. wordAddressMap \in [Words -> Nat \cup {None}] BY TypeOfArray DEF IInv
  <2>2. m \in Int BY <1>4, <2>1 DEF None
  <2> QED BY <2>2 DEF VM!Value, VM!Integer
<1>7. VM!RunData
  <2>1. ~VM!OutOfArray /\ ~VM!Stop BY <1>1, <1>3 DEF VM!OutOfArray, VM!Stop, VM!Fetched
  <2>2. ~VM!RunReturn /\ ~VM!RunApply /\ ~VM!RunD2R /\ ~VM!RunR2D
    BY <1>5 DEF VM!RunReturn, VM!RunApply, VM!RunD2R, VM!RunR2D
  <2> QED BY <2>1, <2>2 DEF VM!Run
<1>8. VM!Applicable("Push") /\ VM!Pops["Push"] = 0 BY <1>1 DEF VM!Applicable, VM!Pops
<1>9. /\ data' = VM!Result("Push") \o VM!Below(VM!Pops["Push"])
      /\ VM!Continue /\ retain' = retain /\ vm' = vm
  BY <1>5, <1>7, <1>8 DEF VM!RunData
<1>10. VM!Advanced = [ip |-> ip + 1, return_ |-> return_]
  <2>1. bcArray[(ip + 1) + 1] # Return BY <1>4 DEF Apply, Return
  <2> QED BY <2>1 DEF VM!Advanced, Return
<1>11. ip' = ip + 1 /\ return_' = return_ BY <1>9, <1>10 DEF VM!Continue
<1>12. data' = Pushed(v, data)
  <2>1. VM!Result("Push") = <<v>> BY <1>5, Results
  <2>2. VM!Below(0) = data BY <1>1 DEF VM!Below
  <2> HIDE DEF v
  <2> QED BY <1>8, <1>9, <2>1, <2>2 DEF Pushed
<1>13. Head(data') = v /\ Tail(data') = data /\ data' # << >> /\ data'[1] = v
  <2> HIDE DEF v
  <2> QED BY <1>1, <1>6, <1>12, HeadOfPushed, Pushed1
<1> DEFINE a == ip'
           x == data'
<1>14. a = ip + 1 /\ a # -1 /\ a - 1 = ip BY <1>1, <1>3, <1>11
<1>15. AtCall(a, x) BY <1>13, <1>14 DEF AtCall
<1> HIDE DEF a, x, v
<1>16. Goes' BY <1>1, <1>9, <1>11, <1>15, GoesNext DEF a, x
<1>17. bcArray[a + 1] = Apply BY <1>4, <1>14
<1>18. Said' = State(Todo(a - 1, return_), Tail(x), retain, "fine")
  BY <1>9, <1>11, <1>14, <1>17, SaidAfter DEF a, x
<1>19. Said = State(Todo(ip, return_), data, retain, "fine")
  <2>1. bcArray[ip + 1] # Apply BY <1>4 DEF Push, Apply
  <2> QED BY <2>1, SaidHere
<1>20. Tail(x) = data BY <1>13 DEF x
<1> QED BY <1>14, <1>16, <1>18, <1>19, <1>20

(* A step at the Apply of a call does the call. *)
LEMMA CallStep ==
  ASSUME ProgramAssumption, OnlyCallsJump, Live, UNCHANGED vars, VM!Run, AtCall(ip, data)
  PROVE  Goes' /\ DoesNextItem
<1> USE DEF Live
<1>1. /\ ip \in Int /\ return_ \in Seq(Int) /\ Held(return_)
      /\ data \in Seq(VM!Value) /\ retain \in Seq(VM!Value)
  BY DEF MachineOK, Goes
<1>2. PICK w, i : /\ Spot(w, i) /\ dict[w][i].do = "call" /\ Place(w, i) = ip
                  /\ data # << >> /\ data[1] = VM!Integer(wordAddressMap[dict[w][i].w])
  BY DEF AtCall
<1> DEFINE u == dict[w][i].w
           m == wordAddressMap[u]
<1>3. Size(dict[w][i]) = 2 BY <1>2 DEF Size
<1>4. VM!Fetched /\ ip >= 1
  <2>1. /\ Len(bcArray) \in Nat /\ Place(w, i) \in 1 .. Len(bcArray)
        /\ Place(w, i) + 2 \in 1 .. Len(bcArray)
    BY <1>2, <1>3, SpotFacts
  <2> QED BY <1>1, <1>2, <2>1 DEF VM!Fetched, VM!InArray
<1>5. /\ Written(u) /\ bcArray[ip + 1] = Apply /\ u \in Words BY <1>2, SpotFacts, SpotCode
<1>6. VM!Current = Apply /\ VM!Current.op = "Apply" BY <1>5 DEF VM!Current, Apply
<1>7. VM!RunApply
  <2>1. ~VM!OutOfArray /\ ~VM!Stop BY <1>1, <1>4 DEF VM!OutOfArray, VM!Stop, VM!Fetched
  <2>2. ~VM!RunReturn /\ ~VM!RunData /\ ~VM!RunD2R /\ ~VM!RunR2D
    BY <1>6 DEF VM!RunReturn, VM!RunData, VM!RunD2R, VM!RunR2D, VM!Pops
  <2> QED BY <2>1, <2>2 DEF VM!Run
<1>8. VM!IsInt(data[1]) /\ data[1].int = m BY <1>2 DEF VM!IsInt, VM!Integer
<1>9. /\ return_' = <<VM!Advanced.ip>> \o VM!Advanced.return_
      /\ ip' = m /\ data' = SubSeq(data, 1 + 1, Len(data)) /\ retain' = retain /\ vm' = vm
  BY <1>2, <1>7, <1>8 DEF VM!RunApply, VM!Top, VM!Below
<1>10. data' = Tail(data) BY <1>1, <1>2, <1>9
<1> DEFINE b == VM!Advanced.ip
           q == VM!Advanced.return_
           left == Left(Rest(w, i + 1), Outer(return_))
           r == Pushed(b, q)
<1>11. /\ b \in Int /\ q \in Seq(Int) /\ Held(q) /\ ((b = -1 /\ q = << >>) \/ AtItem(b))
       /\ Todo(b, q) = left
  <2>1. ip + 2 = Place(w, i) + Size(dict[w][i]) BY <1>1, <1>2, <1>3
  <2> QED BY <1>1, <1>2, <1>4, <2>1, Onward
<1>12. return_' = r BY <1>9 DEF Pushed
<1> HIDE DEF b, q, left
<1>13. r \in Seq(Int) /\ Outer(r) = left
  <2>1. b = -1 => q = << >>
    <3>1. ASSUME AtItem(b) PROVE b >= 0 BY <1>11, <3>1, AtItemCode
    <3> QED BY <1>11, <3>1
  <2>2. Outer(Pushed(b, q)) = Todo(b, q) BY <1>11, <2>1, OuterPushed
  <2>3. Pushed(b, q) \in Seq(Int) BY <1>11, PushedInt
  <2> QED BY <1>11, <2>2, <2>3
<1>14. Held(r)
  <2>1. /\ Len(r) = Len(q) + 1 /\ r[1] = b /\ Len(q) \in Nat
        /\ \A j \in 1 .. (Len(q) + 1) : j # 1 => r[j] = q[j - 1] /\ j - 1 \in 1 .. Len(q)
    BY <1>11, PushedInt
  <2>2. q = << >> => Len(q) = 0 OBVIOUS
  <2> HIDE DEF r
  <2>3. ASSUME NEW j \in 1 .. Len(r) PROVE (r[j] = -1 /\ j = Len(r)) \/ AtItem(r[j])
    <3>1. CASE j = 1 BY <1>11, <2>1, <2>2, <3>1
    <3>2. CASE j # 1
      <4>1. r[j] = q[j - 1] /\ j - 1 \in 1 .. Len(q) BY <2>1, <3>2
      <4>2. (q[j - 1] = -1 /\ j - 1 = Len(q)) \/ AtItem(q[j - 1]) BY <1>11, <4>1 DEF Held
      <4>3. j - 1 = Len(q) => j = Len(r) BY <2>1
      <4> QED BY <4>1, <4>2, <4>3
    <3> QED BY <3>1, <3>2
  <2> QED BY <2>3 DEF Held
<1>15. Spot(u, 1) /\ Place(u, 1) = m + 1 /\ m \in Int
  <2>1. Whole(dict, bcArray, wordAddressMap, {}, u) /\ Array(bcArray, wordAddressMap)
    BY <1>5, Finished DEF ProgramAssumption
  <2>2. dict[u] \in Seq(Items) /\ m \in Int BY <1>5, <2>1 DEF Whole, Begun, Array, None
  <2>3. dict[u] # << >> BY <1>5 DEF EmptyWord, Reached
  <2>4. 1 \in 1 .. Len(dict[u]) BY <2>2, <2>3
  <2>5. 1 - 1 = 0 /\ m + 0 + 1 = m + 1 BY <2>2
  <2>6. Place(u, 1) = m + 1 BY <2>5, OffsetZero DEF Place
  <2> QED BY <1>5, <2>2, <2>4, <2>6 DEF Spot
<1> HIDE DEF u, m, r
<1>16. AtItem(m) BY <1>15 DEF AtItem
<1>17. Goes' BY <1>9, <1>12, <1>14, <1>16, GoesNext
<1>18. Said' = State(Todo(m, r), Tail(data), retain, "fine")
  <2>1. bcArray[m + 1] # Apply BY <1>15, <1>16, AtItemCode
  <2> QED BY <1>9, <1>10, <1>12, <2>1, SaidAfter
<1>19. Todo(m, r) = Pushed(dict[u], left)
  <2>1. m >= 0 BY <1>15, <1>16, AtItemCode
  <2>2. ItemsAt(m) = dict[u] BY <1>15, ItemsAtSpot, RestIs
  <2> QED BY <1>13, <1>15, <2>1, <2>2 DEF Todo, Pushed
<1>20. Said = State(Todo(ip - 1, return_), Tail(data), retain, "fine")
  <2>1. ip # -1 BY <1>1, <1>4
  <2> QED BY <1>5, <2>1, SaidHere
<1>21. Said.todo # << >> /\ Execute(Said) = State(Pushed(dict[u], left), Tail(data), retain, "fine")
  <2>1. ip - 1 \in Int /\ Place(w, i) = (ip - 1) + 1 BY <1>1, <1>2
  <2> QED BY <1>1, <1>2, <1>20, <2>1, ExecuteIs DEF u, left
<1> QED BY <1>17, <1>18, <1>19, <1>21 DEF DoesNextItem

(* At the end there is nothing to do. *)
LEMMA EndStep ==
  ASSUME Live, UNCHANGED vars, VM!Run, ip = -1, return_ = << >>
  PROVE  Goes' /\ Said' = Said
<1> USE DEF Live
<1>1. VM!Stop
  BY DEF VM!Run, VM!OutOfArray, VM!RunReturn, VM!RunData, VM!RunD2R, VM!RunR2D, VM!RunApply, VM!Fetched
<1>2. vm' = "stopped" /\ ip' = ip /\ return_' = return_ /\ data' = data /\ retain' = retain
  BY <1>1 DEF VM!Stop, VM!registers
<1>3. Held(return_) BY DEF Goes
<1>4. Goes' BY <1>2, <1>3, GoesNext
<1>5. Said' = State(Todo(ip, return_), data, retain, "fine") BY <1>2, SaidAfter
<1>6. Said = State(Todo(ip, return_), data, retain, "fine") BY SaidHere
<1> QED BY <1>4, <1>5, <1>6

LEMMA RunStep ==
  ASSUME ProgramAssumption, OnlyCallsJump, Live, UNCHANGED vars, VM!Run
  PROVE  Goes' /\ (DoesNextItem \/ Said' = Said)
<1>1. CASE ip = -1 /\ return_ = << >> BY <1>1, EndStep
<1>2. CASE AtItem(ip)
  <2>1. PICK w, i : Spot(w, i) /\ Place(w, i) = ip + 1 BY <1>2 DEF AtItem
  <2>2. dict[w][i].do \in {"append", "call"} BY <2>1, SpotCode DEF Live
  <2>3. CASE dict[w][i].do = "append" BY <2>1, <2>3, AppendStep
  <2>4. CASE dict[w][i].do = "call" BY <2>1, <2>4, PushStep
  <2> QED BY <2>2, <2>3, <2>4
<1>3. CASE AtCall(ip, data) BY <1>3, CallStep
<1> QED BY <1>1, <1>2, <1>3 DEF Live, Goes

JumpsOK == phase = "done" /\ ~EmptyWord /\ vm # "off" => Goes

LEMMA EmptyKept == ASSUME UNCHANGED vars PROVE EmptyWord' <=> EmptyWord
BY DEF EmptyWord, Reached, Written, vars

(* The run starts at the first item of the main word. *)
LEMMA MainSpot ==
  ASSUME ProgramAssumption, IInv, phase = "done", ~EmptyWord
  PROVE  AtItem(0) /\ ItemsAt(0) = dict[Main]
<1>1. MainFirst /\ Whole(dict, bcArray, wordAddressMap, {}, Main) /\ Main \in Words /\ Written(Main)
  BY Finished DEF ProgramAssumption, BytecodeAssumption
<1>2. dict[Main] \in Seq(Items) /\ dict[Main] # << >> BY <1>1 DEF Whole, Begun, EmptyWord, Reached
<1>3. Spot(Main, 1)
  <2>1. 1 \in 1 .. Len(dict[Main]) BY <1>2
  <2> QED BY <1>1, <2>1 DEF Spot
<1>4. Place(Main, 1) = 0 + 1
  <2>1. 1 - 1 = 0 OBVIOUS
  <2> QED BY <1>1, <2>1, OffsetZero DEF Place, MainFirst
<1>5. ItemsAt(0) = dict[Main] BY <1>3, <1>4, ItemsAtSpot, RestIs
<1> QED BY <1>3, <1>4, <1>5 DEF AtItem

LEMMA StartStep ==
  ASSUME ProgramAssumption, OnlyCallsJump, IInv, MachineOK, Start
  PROVE  JumpsOK' /\ Said' = Said
<1>1. /\ phase = "done" /\ vm = "off" /\ vm' = "running" /\ UNCHANGED vars
      /\ ip' = ip /\ data' = data /\ retain' = retain /\ return_' = return_
  BY DEF Start
<1>2. ip = 0 /\ data = << >> /\ retain = << >> /\ return_ = << >> BY <1>1 DEF MachineOK
<1>3. Said = State(<<dict[Main]>>, << >>, << >>, "fine") BY <1>1 DEF Said, State
<1>4. CASE EmptyWord
  <2>1. JumpsOK' BY <1>1, <1>4, EmptyKept DEF JumpsOK
  <2>2. Said' = View(dict, wordAddressMap, bcArray, ip', return_', data', retain', vm') BY <1>1, SaidThen
  <2>3. Said' = State(<<dict[Main]>>, << >>, << >>, "fine") BY <1>4, <2>2, ViewIs
  <2> QED BY <1>3, <2>1, <2>3
<1>5. CASE ~EmptyWord
  <2>1. AtItem(0) /\ ItemsAt(0) = dict[Main] BY <1>1, <1>5, MainSpot
  <2>2. Held(return_)
    <3>1. Len(return_) = 0 BY <1>2
    <3> QED BY <3>1 DEF Held
  <2>3. ip' = 0 /\ return_' = << >> /\ data' = << >> /\ retain' = << >> BY <1>1, <1>2
  <2>4. Goes' BY <1>1, <1>2, <2>1, <2>2, <2>3, GoesNext
  <2>5. bcArray[0 + 1] # Apply BY <1>1, <2>1, AtItemCode
  <2>6. Said' = State(Todo(0, << >>), << >>, << >>, "fine") BY <1>1, <1>5, <2>3, <2>5, SaidAfter
  <2>7. Todo(0, << >>) = <<dict[Main]>>
    <3>0. 0 # -1 OBVIOUS
    <3>1. Todo(0, << >>) = <<dict[Main]>> \o << >>
      <4>1. Todo(0, << >>) = <<ItemsAt(0)>> \o Outer(<< >>) BY <3>0, Zenon DEF Todo
      <4> QED BY <4>1, <2>1, OuterEmpty
    <3>2. <<dict[Main]>> \in Seq({dict[Main]}) OBVIOUS
    <3> QED BY <3>1, <3>2, ConcatEmptySeq
  <2> QED BY <1>3, <2>4, <2>6, <2>7 DEF JumpsOK
<1> QED BY <1>4, <1>5

LEMMA ProgramStep ==
  ASSUME ProgramAssumption, OnlyCallsJump, IInv, MachineOK, JumpsOK, [Next]_<<vars, machine>>
  PROVE  JumpsOK' /\ (DoesNextItem \/ Said' = Said)
<1>1. CASE Compile /\ UNCHANGED machine
  <2>1. vm = "off" /\ vm' = "off" BY <1>1, CompileFirst DEF MachineOK, machine
  <2>2. dict' = dict BY <1>1 DEF Compile, WriteMain, AppendCode, AppendCall, EndWord, PopPatch, Finish
  <2>3. Said' = Said BY <2>1, <2>2 DEF Said
  <2> QED BY <2>1, <2>3 DEF JumpsOK
<1>2. CASE Start BY <1>2, StartStep
<1>3. CASE Running
  <2>1. UNCHANGED vars /\ VM!Run BY <1>3, RunKeepsArray DEF Running, vars
  <2>2. vm = "running"
    BY <2>1 DEF VM!Run, VM!OutOfArray, VM!Stop, VM!RunReturn, VM!RunData, VM!RunD2R, VM!RunR2D, VM!RunApply,
                VM!Fetched
  <2>3. phase = "done" BY <2>2 DEF MachineOK
  <2>4. CASE EmptyWord
    <3>1. JumpsOK' BY <2>1, <2>4, EmptyKept DEF JumpsOK
    <3>2. Said' = View(dict, wordAddressMap, bcArray, ip', return_', data', retain', vm') BY <2>1, SaidThen
    <3>3. Said' = State(<<dict[Main]>>, << >>, << >>, "fine") BY <2>4, <3>2, ViewIs
    <3>4. Said = State(<<dict[Main]>>, << >>, << >>, "fine") BY <2>4 DEF Said, State
    <3> QED BY <3>1, <3>3, <3>4
  <2>5. CASE ~EmptyWord
    <3>1. Live BY <2>2, <2>3, <2>5 DEF Live, JumpsOK
    <3>2. Goes' /\ (DoesNextItem \/ Said' = Said) BY <2>1, <3>1, RunStep
    <3> QED BY <3>2 DEF JumpsOK
  <2> QED BY <2>4, <2>5
<1>4. CASE UNCHANGED <<vars, machine>>
  <2>1. UNCHANGED vars /\ ip' = ip /\ data' = data /\ retain' = retain /\ return_' = return_ /\ vm' = vm
    BY <1>4 DEF machine
  <2>2. Said' = Said BY <2>1, SaidThen, SaidNow
  <2>3. CASE phase = "done" /\ ~EmptyWord /\ vm # "off"
    <3>1. Goes BY <2>3 DEF JumpsOK
    <3>2. Goes' BY <2>1, <3>1, GoesNext DEF Goes
    <3> QED BY <2>2, <3>2 DEF JumpsOK
  <2>4. CASE ~(phase = "done" /\ ~EmptyWord /\ vm # "off")
    <3>1. phase' = phase BY <2>1 DEF vars
    <3> QED BY <2>1, <2>2, <2>4, <3>1, EmptyKept DEF JumpsOK
  <2> QED BY <2>3, <2>4
<1>5. CASE Ended BY <1>4, <1>5 DEF Ended
<1> QED BY <1>1, <1>2, <1>3, <1>4, <1>5 DEF Next

LEMMA JumpsInvariant ==
  ASSUME ProgramAssumption, OnlyCallsJump
  PROVE  Spec => [](IInv /\ MachineOK /\ JumpsOK)
<1>1. ProgramInit => JumpsOK BY DEF ProgramInit, VM!VMInit, JumpsOK
<1>2. IInv /\ MachineOK /\ JumpsOK /\ [Next]_<<vars, machine>> => JumpsOK' BY ProgramStep
<1>3. Spec => [](IInv /\ MachineOK) BY ProgramInvariant
<1> QED BY <1>1, <1>2, <1>3, PTL DEF Spec

-----------------------------------------------------------------------------
(* The state stays within its types while a dictionary is compiled         *)
(* (Compiler.compile).                                                     *)
THEOREM CompilerTypeCorrect == ASSUME BytecodeAssumption PROVE Spec => []TypeOK
<1>1. IInv => TypeOK BY DEF IInv
<1> QED BY <1>1, CompileInvariant, PTL

(* At every step of compile the null bytecodes are the holes that patches  *)
(* remain for, each in one patch, so that each is filled once.             *)
THEOREM CompilerKeepsHoles == ASSUME BytecodeAssumption PROVE Spec => []HolesKept
<1>1. IInv => HolesKept BY HoldsHoles
<1> QED BY <1>1, CompileInvariant, PTL

(* The array that compile returns is what a linker with all addresses at   *)
(* hand writes, whatever words call each other, in whatever order.         *)
THEOREM CompilerLinks == ASSUME BytecodeAssumption PROVE Spec => []LinksAsWritten
<1>1. IInv => LinksAsWritten BY HoldsLinks
<1> QED BY <1>1, CompileInvariant, PTL

(* Every place of that array belongs to one word, written once.            *)
THEOREM CompilerWritesOnce == ASSUME BytecodeAssumption PROVE Spec => []WrittenOnce
<1>1. IInv => WrittenOnce BY HoldsOnce
<1> QED BY <1>1, CompileInvariant, PTL

(* A call in tail position leaves no return address behind: whatever the   *)
(* words are, jumps included, what is on the return stack is never the     *)
(* address of a Return, and the end of the program is only at its bottom   *)
(* (run, "to allow tail recursion").                                       *)
THEOREM RunKeepsTailCalls == ASSUME ProgramAssumption PROVE Spec => []TailCalls
<1>1. IInv /\ MachineOK => TailCalls BY HoldsTailCalls
<1> QED BY <1>1, ProgramInvariant, PTL

(* When only calls jump, the compiled program does what its words say:     *)
(* each step of run does the next item of the words executed in place,     *)
(* takes an address, or is the end.  For every dictionary and width, with  *)
(* recursion, calls in tail position, and errors (run against the          *)
(* dictionary).                                                            *)
THEOREM ProgramRunsAsWritten ==
  ASSUME ProgramAssumption, OnlyCallsJump
  PROVE  Spec => RunsAsWritten
<1>1. IInv /\ MachineOK /\ JumpsOK /\ [Next]_<<vars, machine>> => [DoesNextItem]_Said BY ProgramStep
<1> QED BY <1>1, JumpsInvariant, PTL DEF Spec, RunsAsWritten

(* Nor does run ever leave the array, or meet a Return, unless a word is   *)
(* empty.                                                                  *)
THEOREM ProgramStaysInside == ASSUME ProgramAssumption, OnlyCallsJump PROVE Spec => []StaysInside
<1>1. IInv /\ MachineOK /\ JumpsOK => StaysInside BY DEF MachineOK, JumpsOK, Goes, StaysInside
<1> QED BY <1>1, JumpsInvariant, PTL
(* So the array is the one that the words call for, at every step: what a  *)
(* run checks of three words, for any.                                     *)
THEOREM ProgramLinks == ASSUME BytecodeAssumption PROVE Spec => []Links
<1>1. TypeOK /\ HolesKept /\ LinksAsWritten /\ WrittenOnce => Links BY DEF Links
<1> QED BY <1>1, CompilerTypeCorrect, CompilerKeepsHoles, CompilerLinks, CompilerWritesOnce, PTL

(* And it is run as the words say, in the same sense: tail calls leave     *)
(* nothing behind, the array is not left, and each step is one of theirs.  *)
THEOREM ProgramRuns == ASSUME ProgramAssumption, OnlyCallsJump PROVE Spec => Runs
<1> QED BY RunKeepsTailCalls, ProgramStaysInside, ProgramRunsAsWritten, PTL DEF Runs
=============================================================================
