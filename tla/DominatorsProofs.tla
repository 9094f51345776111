------------------------- MODULE DominatorsProofs -------------------------
(***************************************************************************)
(* The dominator tree, for every function: what dominance is, that it is a *)
(* tree, and that the updates and the numbers keep the answers exact.      *)
(***************************************************************************)
EXTENDS Dominators, FiniteSetTheorems, SequenceTheorems, WellFoundedInduction, TLAPS

(* Induction, from the fact that < is well-founded on the numbers. *)
LEMMA LeastNumber == ASSUME NEW S, S \subseteq Nat, S # {} PROVE \E n \in S : \A m \in S : n <= m
<1> DEFINE R == OpToRel(<, Nat)
<1>1. IsWellFoundedOn(R, Nat) BY NatLessThanWellFounded
<1>2. \A x \in Nat, y \in Nat : x < y => <<x, y>> \in R BY DEF OpToRel
<1> HIDE DEF R
<1>3. PICK n \in S : \A m \in S : ~(<<m, n>> \in R) BY <1>1, WFMin
<1>4. ASSUME NEW m \in S PROVE n <= m
  <2>1. m \in Nat /\ n \in Nat OBVIOUS
  <2>2. ~(m < n) BY <1>2, <1>3, <2>1
  <2> QED BY <2>1, <2>2
<1> QED BY <1>4

(* Of some sets, one has the fewest elements, and one has the most. *)
LEMMA Fewest ==
  ASSUME NEW S, S # {}, NEW f, \A x \in S : IsFiniteSet(f[x])
  PROVE  \E x \in S : \A y \in S : Cardinality(f[x]) <= Cardinality(f[y])
<1> DEFINE N == {Cardinality(f[x]) : x \in S}
<1>1. \A x \in S : Cardinality(f[x]) \in Nat BY FS_CardinalityType
<1>2. N \subseteq Nat /\ N # {} BY <1>1
<1> HIDE DEF N
<1>3. PICK n \in N : \A m \in N : n <= m BY <1>2, LeastNumber
<1> USE DEF N
<1>4. PICK x \in S : n = Cardinality(f[x]) OBVIOUS
<1> QED BY <1>3, <1>4

LEMMA Most ==
  ASSUME NEW S, S # {}, NEW f, NEW B, IsFiniteSet(B), \A x \in S : f[x] \subseteq B
  PROVE  \E x \in S : \A y \in S : Cardinality(f[y]) <= Cardinality(f[x])
<1> DEFINE c == Cardinality(B)
           N == {c - Cardinality(f[x]) : x \in S}
<1>1. \A x \in S : Cardinality(f[x]) \in Nat /\ c - Cardinality(f[x]) \in Nat
  <2>1. c \in Nat BY FS_CardinalityType
  <2>2. ASSUME NEW x \in S PROVE Cardinality(f[x]) \in Nat /\ Cardinality(f[x]) <= c
    <3>1. f[x] \in SUBSET B OBVIOUS
    <3>2. IsFiniteSet(f[x]) /\ Cardinality(f[x]) <= c BY <3>1, FS_Subset
    <3> QED BY <3>2, FS_CardinalityType
  <2> HIDE DEF c
  <2> QED BY <2>1, <2>2
<1>2. N \subseteq Nat /\ N # {} BY <1>1
<1> HIDE DEF N
<1>3. PICK n \in N : \A m \in N : n <= m BY <1>2, LeastNumber
<1> USE DEF N
<1>4. PICK x \in S : n = c - Cardinality(f[x]) OBVIOUS
<1>5. c \in Nat BY FS_CardinalityType
<1> HIDE DEF c
<1>6. ASSUME NEW y \in S PROVE Cardinality(f[y]) <= Cardinality(f[x])
  <2>1. c - Cardinality(f[x]) <= c - Cardinality(f[y]) BY <1>3, <1>4
  <2> QED BY <1>1, <1>5, <2>1
<1> QED BY <1>6
-----------------------------------------------------------------------------
(* What is reached: the least set with the entry that the edges stay in,   *)
(* when those to the blocks that are avoided are taken away.               *)
Flow(g) == IsFiniteSet(DOMAIN g) /\ g \in [DOMAIN g -> SUBSET DOMAIN g] /\ Entry \in DOMAIN g
Keeps(g, avoid, S) == \A x \in S : g[x] \ avoid \subseteq S
Least(g, avoid, found) ==
  {b \in DOMAIN g : \A S \in SUBSET DOMAIN g : found \subseteq S /\ Keeps(g, avoid, S) => b \in S}
More(g, avoid, found) == (UNION {g[b] : b \in found}) \ (found \cup avoid)
IsClosure(g, avoid, f) ==
  f = [found \in SUBSET DOMAIN g |->
         IF More(g, avoid, found) = {} THEN found ELSE f[found \cup More(g, avoid, found)]]

LEMMA MoreIs ==
  ASSUME NEW g, NEW avoid, NEW found, NEW y
  PROVE  y \in More(g, avoid, found) <=> y \notin found \cup avoid /\ \E b \in found : y \in g[b]
<1> DEFINE U == UNION {g[b] : b \in found}
<1>1. y \in U <=> \E b \in found : y \in g[b] OBVIOUS
<1>2. More(g, avoid, found) = U \ (found \cup avoid) BY DEF More
<1> HIDE DEF U
<1> QED BY <1>1, <1>2

LEMMA LeastStays ==
  ASSUME NEW g, Flow(g), NEW avoid, NEW found \in SUBSET DOMAIN g
  PROVE  /\ More(g, avoid, found) \subseteq DOMAIN g
         /\ More(g, avoid, found) = {} => Least(g, avoid, found) = found
         /\ Least(g, avoid, found \cup More(g, avoid, found)) = Least(g, avoid, found)
<1> DEFINE m == More(g, avoid, found)
<1>1. m \subseteq DOMAIN g BY DEF More, Flow
<1>2. ASSUME m = {} PROVE Least(g, avoid, found) = found
  <2>1. Keeps(g, avoid, found) BY <1>2, MoreIs DEF Keeps
  <2> QED BY <2>1 DEF Least
<1>3. ASSUME NEW S \in SUBSET DOMAIN g, found \subseteq S, Keeps(g, avoid, S) PROVE m \subseteq S
  BY <1>3, MoreIs DEF Keeps
<1>4. Least(g, avoid, found \cup m) = Least(g, avoid, found) BY <1>3 DEF Least
<1> QED BY <1>1, <1>2, <1>4

LEMMA ClosureIsLeast ==
  ASSUME NEW g, Flow(g), NEW avoid, NEW f, IsClosure(g, avoid, f), NEW start \in SUBSET DOMAIN g
  PROVE  f[start] = Least(g, avoid, start)
<1> DEFINE Bad == {found \in SUBSET DOMAIN g : f[found] # Least(g, avoid, found)}
           left == [found \in SUBSET DOMAIN g |-> DOMAIN g \ found]
<1>1. SUFFICES ASSUME Bad # {} PROVE FALSE OBVIOUS
<1>2. \A x \in Bad : IsFiniteSet(left[x])
  <2>1. ASSUME NEW x \in Bad PROVE IsFiniteSet(left[x])
    <3>1. left[x] \in SUBSET DOMAIN g OBVIOUS
    <3> HIDE DEF left
    <3> QED BY <3>1, FS_Subset DEF Flow
  <2> QED BY <2>1
<1> HIDE DEF left, Bad
<1>3. PICK x \in Bad : \A y \in Bad : Cardinality(left[x]) <= Cardinality(left[y]) BY <1>1, <1>2, Fewest
<1> DEFINE m == More(g, avoid, x)
<1> USE DEF Bad
<1>4. x \in SUBSET DOMAIN g /\ f[x] # Least(g, avoid, x) OBVIOUS
<1>5. f[x] = IF m = {} THEN x ELSE f[x \cup m] BY <1>4 DEF IsClosure
<1>6. m # {} /\ m \subseteq DOMAIN g /\ Least(g, avoid, x \cup m) = Least(g, avoid, x)
  BY <1>4, <1>5, LeastStays
<1>7. x \cup m \in Bad BY <1>4, <1>5, <1>6
<1>8. left[x \cup m] \in SUBSET left[x] /\ left[x \cup m] # left[x]
  <2>1. left[x \cup m] = DOMAIN g \ (x \cup m) /\ left[x] = DOMAIN g \ x BY <1>4, <1>6 DEF left
  <2>2. m \cap x = {} BY MoreIs
  <2> QED BY <1>6, <2>1, <2>2
<1>9. Cardinality(left[x \cup m]) < Cardinality(left[x])
  <2>1. IsFiniteSet(left[x]) BY <1>2
  <2> HIDE DEF m
  <2>2. IsFiniteSet(left[x \cup m]) /\ Cardinality(left[x \cup m]) <= Cardinality(left[x])
        /\ Cardinality(left[x \cup m]) # Cardinality(left[x]) BY <1>8, <2>1, FS_Subset
  <2>3. Cardinality(left[x]) \in Nat /\ Cardinality(left[x \cup m]) \in Nat BY <2>1, <2>2, FS_CardinalityType
  <2> QED BY <2>2, <2>3
<1>10. Cardinality(left[x]) <= Cardinality(left[x \cup m]) BY <1>3, <1>7
<1>11. Cardinality(left[x]) \in Nat /\ Cardinality(left[x \cup m]) \in Nat
  BY <1>2, <1>7, FS_CardinalityType
<1> QED BY <1>9, <1>10, <1>11

LEMMA ReachedIsLeast ==
  ASSUME NEW g, Flow(g), NEW avoid, Entry \notin avoid
  PROVE  ReachedAvoiding(g, avoid) = Least(g, avoid, {Entry})
<1> DEFINE f == CHOOSE f : IsClosure(g, avoid, f)
           h == [found \in SUBSET DOMAIN g |-> Least(g, avoid, found)]
<1>1. IsClosure(g, avoid, h)
  <2> DEFINE k == [found \in SUBSET DOMAIN g |->
                     IF More(g, avoid, found) = {} THEN found ELSE h[found \cup More(g, avoid, found)]]
  <2>1. ASSUME NEW found \in SUBSET DOMAIN g PROVE h[found] = k[found]
    <3>1. found \cup More(g, avoid, found) \in SUBSET DOMAIN g BY LeastStays
    <3>2. h[found] = Least(g, avoid, found)
          /\ h[found \cup More(g, avoid, found)] = Least(g, avoid, found \cup More(g, avoid, found)) BY <3>1
    <3>3. k[found] = IF More(g, avoid, found) = {} THEN found ELSE h[found \cup More(g, avoid, found)]
      OBVIOUS
    <3> HIDE DEF h, k
    <3> QED BY <3>2, <3>3, LeastStays
  <2>2. h = [found \in SUBSET DOMAIN g |-> h[found]] /\ k = [found \in SUBSET DOMAIN g |-> k[found]] OBVIOUS
  <2>3. h = k
    <3> HIDE DEF h, k
    <3> QED BY <2>1, <2>2
  <2> QED BY <2>3 DEF IsClosure
<1>2. IsClosure(g, avoid, f)
  <2> HIDE DEF h
  <2> QED BY <1>1
<1>3. ReachedAvoiding(g, avoid) = f[{Entry}] BY DEF ReachedAvoiding, IsClosure, More
<1>4. {Entry} \in SUBSET DOMAIN g BY DEF Flow
<1> HIDE DEF f
<1> QED BY <1>2, <1>3, <1>4, ClosureIsLeast
-----------------------------------------------------------------------------
(* A function: every block is reached and no edge leads to the entry.  The *)
(* dominators of a block: those without which it is not reached.           *)
CFG(g) == Flow(g) /\ (\A b \in DOMAIN g : Entry \notin g[b]) /\ Reached(g) = DOMAIN g
Without(g, a) == ReachedAvoiding(g, {a})
Dom(g, b) == {a \in DOMAIN g : b \notin Without(g, a)}

LEMMA WithoutEntry == ASSUME NEW g PROVE Without(g, Entry) = {} BY DEF Without, ReachedAvoiding

LEMMA LeastIsClosed ==
  ASSUME NEW g, Flow(g), NEW avoid, Entry \notin avoid, NEW l, l = Least(g, avoid, {Entry})
  PROVE  /\ l \subseteq DOMAIN g /\ Entry \in l
         /\ \A x \in l : \A y \in g[x] : y \notin avoid => y \in l
<1>1. l \subseteq DOMAIN g /\ Entry \in l BY DEF Least, Flow
<1>2. ASSUME NEW x \in l, NEW y \in g[x], y \notin avoid PROVE y \in l
  <2>1. x \in DOMAIN g /\ y \in DOMAIN g BY <1>1 DEF Flow
  <2>2. ASSUME NEW S \in SUBSET DOMAIN g, {Entry} \subseteq S, Keeps(g, avoid, S) PROVE y \in S
    <3>1. x \in S BY <2>2 DEF Least
    <3> QED BY <3>1, <2>2, <1>2 DEF Keeps
  <2> QED BY <2>1, <2>2 DEF Least
<1> QED BY <1>1, <1>2

LEMMA WithoutIs ==
  ASSUME NEW g, Flow(g), NEW a, a # Entry
  PROVE  /\ Without(g, a) \subseteq DOMAIN g /\ Entry \in Without(g, a) /\ a \notin Without(g, a)
         /\ \A x \in Without(g, a) : \A y \in g[x] : y # a => y \in Without(g, a)
<1>1. Entry \notin {a} OBVIOUS
<1> DEFINE w == Least(g, {a}, {Entry})
<1>2. Without(g, a) = w BY <1>1, ReachedIsLeast DEF Without
<1>3. /\ w \subseteq DOMAIN g /\ Entry \in w
      /\ \A x \in w : \A y \in g[x] : y \notin {a} => y \in w BY <1>1, LeastIsClosed
<1>4. a \notin w
  <2>1. DOMAIN g \ {a} \in SUBSET DOMAIN g /\ {Entry} \subseteq DOMAIN g \ {a} BY DEF Flow
  <2>2. Keeps(g, {a}, DOMAIN g \ {a}) BY DEF Flow, Keeps
  <2> QED BY <2>1, <2>2 DEF Least
<1> HIDE DEF w
<1> QED BY <1>2, <1>3, <1>4

LEMMA WithoutInside ==
  ASSUME NEW g, Flow(g), NEW a, NEW S, Entry \in S,
         \A x \in S \cap DOMAIN g : \A y \in g[x] : y # a => y \in S
  PROVE  Without(g, a) \subseteq S
<1>1. CASE a = Entry BY <1>1, WithoutEntry
<1>2. CASE a # Entry
  <2>1. Without(g, a) = Least(g, {a}, {Entry}) BY <1>2, ReachedIsLeast DEF Without
  <2> DEFINE T == S \cap DOMAIN g
  <2>2. T \in SUBSET DOMAIN g /\ {Entry} \subseteq T BY DEF Flow
  <2>3. Keeps(g, {a}, T) BY DEF Keeps, Flow
  <2>4. Least(g, {a}, {Entry}) \subseteq T BY <2>2, <2>3 DEF Least
  <2> QED BY <2>1, <2>4
<1> QED BY <1>1, <1>2

LEMMA AllReached ==
  ASSUME NEW g, CFG(g), NEW S, Entry \in S, \A x \in S \cap DOMAIN g : \A y \in g[x] : y \in S
  PROVE  DOMAIN g \subseteq S
<1>1. Flow(g) /\ Entry \notin {} BY DEF CFG
<1>2. DOMAIN g = Least(g, {}, {Entry}) BY <1>1, ReachedIsLeast DEF CFG, Reached
<1> DEFINE T == S \cap DOMAIN g
<1>3. T \in SUBSET DOMAIN g /\ {Entry} \subseteq T BY <1>1 DEF Flow
<1>4. Keeps(g, {}, T) BY <1>1 DEF Keeps, Flow
<1>5. Least(g, {}, {Entry}) \subseteq T BY <1>3, <1>4 DEF Least
<1> QED BY <1>2, <1>5

(* What shows that a graph is one: every set that the edges stay in is all. *)
LEMMA ReachedWhole ==
  ASSUME NEW g, Flow(g),
         \A S \in SUBSET DOMAIN g : Entry \in S /\ (\A x \in S : \A y \in g[x] : y \in S) => DOMAIN g \subseteq S
  PROVE  Reached(g) = DOMAIN g
<1> DEFINE none == {}
           l == Least(g, none, {Entry})
<1>1. Flow(g) /\ Entry \notin none /\ \A y : y \notin none OBVIOUS
<1>2. Reached(g) = ReachedAvoiding(g, none) BY DEF Reached
<1> HIDE DEF none
<1>3. Reached(g) = l BY <1>1, <1>2, ReachedIsLeast
<1>4. l = Least(g, none, {Entry}) OBVIOUS
<1> HIDE DEF l
<1>5. /\ l \subseteq DOMAIN g /\ Entry \in l
      /\ \A x \in l : \A y \in g[x] : y \notin none => y \in l BY ONLY <1>1, <1>4, LeastIsClosed
<1>6. l \in SUBSET DOMAIN g /\ \A x \in l : \A y \in g[x] : y \in l BY <1>1, <1>5
<1> QED BY <1>3, <1>5, <1>6

LEMMA DominatorsAre ==
  ASSUME NEW g, CFG(g) PROVE DominatorsOf(g) = [b \in DOMAIN g |-> Dom(g, b)]
BY DEF CFG, DominatorsOf, Dom, Without
-----------------------------------------------------------------------------
(* Dominance is an order, in which what is above a block is a chain. *)
LEMMA DomEnds ==
  ASSUME NEW g, CFG(g), NEW b \in DOMAIN g
  PROVE  b \in Dom(g, b) /\ Entry \in Dom(g, b) /\ Dom(g, b) \subseteq DOMAIN g /\ Dom(g, Entry) = {Entry}
<1>0. Flow(g) /\ Entry \in DOMAIN g BY DEF CFG, Flow
<1>1. b \in Dom(g, b)
  <2>1. CASE b = Entry BY <2>1, WithoutEntry DEF Dom
  <2>2. CASE b # Entry BY <1>0, <2>2, WithoutIs DEF Dom
  <2> QED BY <2>1, <2>2
<1>2. Entry \in Dom(g, b) BY <1>0, WithoutEntry DEF Dom
<1>3. ASSUME NEW a \in Dom(g, Entry) PROVE a = Entry BY <1>0, WithoutIs DEF Dom
<1>4. Entry \in Dom(g, Entry) BY <1>0, WithoutEntry DEF Dom
<1> QED BY <1>1, <1>2, <1>3, <1>4 DEF Dom

LEMMA WithoutLess ==
  ASSUME NEW g, CFG(g), NEW a \in DOMAIN g, NEW b \in DOMAIN g, a \in Dom(g, b)
  PROVE  Without(g, a) \subseteq Without(g, b)
<1>0. Flow(g) /\ b \notin Without(g, a) BY DEF CFG, Dom
<1>1. CASE a = Entry BY <1>1, WithoutEntry
<1>2. CASE a # Entry
  <2>1. b # Entry BY <1>0, <1>2, WithoutIs
  <2> DEFINE S == Without(g, a) \cap Without(g, b)
  <2>2. Entry \in S BY <1>0, <1>2, <2>1, WithoutIs
  <2>3. \A x \in S : \A y \in g[x] : y # a => y \in S BY <1>0, <1>2, <2>1, WithoutIs
  <2>4. S \subseteq Without(g, b) OBVIOUS
  <2> HIDE DEF S
  <2>5. Without(g, a) \subseteq S BY <1>0, <2>2, <2>3, WithoutInside
  <2> QED BY <2>4, <2>5
<1> QED BY <1>1, <1>2

LEMMA DomTransitive ==
  ASSUME NEW g, CFG(g), NEW b \in DOMAIN g, NEW c \in DOMAIN g, b \in Dom(g, c)
  PROVE  Dom(g, b) \subseteq Dom(g, c)
<1>1. ASSUME NEW a \in Dom(g, b) PROVE a \in Dom(g, c)
  <2>1. a \in DOMAIN g BY DEF Dom
  <2>2. Without(g, a) \subseteq Without(g, b) BY <2>1, WithoutLess
  <2> QED BY <2>1, <2>2 DEF Dom
<1> QED BY <1>1

LEMMA DomAntisymmetric ==
  ASSUME NEW g, CFG(g), NEW a, NEW b, a \in Dom(g, b), b \in Dom(g, a), b \in DOMAIN g, a \in DOMAIN g
  PROVE  a = b
<1>0. Flow(g) /\ a \notin Without(g, b) /\ b \notin Without(g, a) BY DEF CFG, Dom
<1>1. SUFFICES ASSUME a # b PROVE FALSE OBVIOUS
<1>2. Without(g, a) = Without(g, b)
  <2>1. Without(g, a) \subseteq Without(g, b) BY WithoutLess
  <2>2. Without(g, b) \subseteq Without(g, a) BY WithoutLess
  <2> QED BY <2>1, <2>2
<1>3. a # Entry /\ b # Entry BY <1>0, <1>1, WithoutIs
<1> DEFINE S == Without(g, a)
<1>4. Entry \in S BY <1>0, <1>3, WithoutIs
<1>5. \A x \in S : \A y \in g[x] : y \in S BY <1>0, <1>1, <1>2, <1>3, WithoutIs
<1>6. DOMAIN g \subseteq S BY <1>4, <1>5, AllReached
<1> QED BY <1>0, <1>2, <1>6

LEMMA DomChain ==
  ASSUME NEW g, CFG(g), NEW c \in DOMAIN g, NEW a \in Dom(g, c), NEW b \in Dom(g, c)
  PROVE  a \in Dom(g, b) \/ b \in Dom(g, a)
<1>0. /\ Flow(g) /\ a \in DOMAIN g /\ b \in DOMAIN g
      /\ c \notin Without(g, a) /\ c \notin Without(g, b) BY DEF CFG, Dom
<1>1. SUFFICES ASSUME b \in Without(g, a), a \in Without(g, b) PROVE FALSE BY <1>0 DEF Dom
<1>2. a # Entry /\ b # Entry BY <1>1, WithoutEntry
<1> DEFINE S == Without(g, a) \cup Without(g, b)
<1>3. Entry \in S BY <1>0, <1>2, WithoutIs
<1>4. \A x \in S : \A y \in g[x] : y \in S BY <1>0, <1>1, <1>2, WithoutIs
<1>5. DOMAIN g \subseteq S BY <1>3, <1>4, AllReached
<1> QED BY <1>0, <1>5

LEMMA DomFinite ==
  ASSUME NEW g, CFG(g), NEW b \in DOMAIN g
  PROVE  IsFiniteSet(Dom(g, b)) /\ Cardinality(Dom(g, b)) \in Nat
<1>1. Dom(g, b) \in SUBSET DOMAIN g BY DEF Dom
<1>2. IsFiniteSet(Dom(g, b)) BY <1>1, FS_Subset DEF CFG, Flow
<1> QED BY <1>2, FS_CardinalityType

(* Less is dominated by what is strictly above. *)
LEMMA DomFewer ==
  ASSUME NEW g, CFG(g), NEW a \in DOMAIN g, NEW b \in DOMAIN g, a \in Dom(g, b), a # b
  PROVE  b \notin Dom(g, a) /\ Cardinality(Dom(g, a)) < Cardinality(Dom(g, b))
<1>1. b \notin Dom(g, a) BY DomAntisymmetric
<1>2. Dom(g, a) \in SUBSET Dom(g, b) /\ Dom(g, a) # Dom(g, b) BY <1>1, DomTransitive, DomEnds
<1>3. IsFiniteSet(Dom(g, b)) /\ Cardinality(Dom(g, a)) \in Nat /\ Cardinality(Dom(g, b)) \in Nat BY DomFinite
<1>4. Cardinality(Dom(g, a)) <= Cardinality(Dom(g, b)) /\ Cardinality(Dom(g, a)) # Cardinality(Dom(g, b))
  BY <1>2, <1>3, FS_Subset
<1> QED BY <1>1, <1>3, <1>4

(* The lowest block of a set of dominators of c. *)
LEMMA Lowest ==
  ASSUME NEW g, CFG(g), NEW c \in DOMAIN g, NEW S, S # {}, S \subseteq Dom(g, c)
  PROVE  \E a \in S : S \subseteq Dom(g, a)
<1>1. S \subseteq DOMAIN g BY DEF Dom
<1> DEFINE f == [x \in DOMAIN g |-> Dom(g, x)]
<1>2. \A x \in S : f[x] = Dom(g, x) /\ f[x] \subseteq DOMAIN g BY <1>1 DEF Dom
<1> HIDE DEF f
<1>3. IsFiniteSet(DOMAIN g) BY DEF CFG, Flow
<1>4. PICK a \in S : \A y \in S : Cardinality(f[y]) <= Cardinality(f[a]) BY <1>2, <1>3, Most
<1>5. ASSUME NEW x \in S, x \notin Dom(g, a) PROVE FALSE
  <2>1. a \in Dom(g, x) BY <1>5, DomChain
  <2>2. a # x BY <1>1, <1>5, DomEnds
  <2>3. Cardinality(Dom(g, a)) < Cardinality(Dom(g, x)) BY <1>1, <2>1, <2>2, DomFewer
  <2>4. Cardinality(Dom(g, x)) <= Cardinality(Dom(g, a)) BY <1>2, <1>4
  <2>5. Cardinality(Dom(g, x)) \in Nat /\ Cardinality(Dom(g, a)) \in Nat BY <1>1, DomFinite
  <2> QED BY <2>3, <2>4, <2>5
<1> QED BY <1>5
-----------------------------------------------------------------------------
(* The immediate dominator, and the blocks right under one. *)
IsIdom(g, a, b) == a \in DOMAIN g /\ b \notin Dom(g, a) /\ Dom(g, b) = {b} \cup Dom(g, a)

LEMMA IdomIs ==
  ASSUME NEW g, CFG(g), NEW b \in DOMAIN g, NEW a \in Dom(g, b) \ {b}, Dom(g, b) \ {b} \subseteq Dom(g, a)
  PROVE  IsIdom(g, a, b)
<1>1. a \in DOMAIN g BY DEF Dom
<1>2. b \notin Dom(g, a) BY <1>1, DomAntisymmetric
<1>3. Dom(g, a) \subseteq Dom(g, b) BY <1>1, DomTransitive
<1>4. b \in Dom(g, b) BY DomEnds
<1> QED BY <1>1, <1>2, <1>3, <1>4 DEF IsIdom

LEMMA IdomExists ==
  ASSUME NEW g, CFG(g), NEW b \in DOMAIN g, b # Entry
  PROVE  \E a \in Dom(g, b) \ {b} : Dom(g, b) \ {b} \subseteq Dom(g, a)
<1> DEFINE S == Dom(g, b) \ {b}
<1>1. S # {} /\ S \subseteq Dom(g, b) BY DomEnds
<1> HIDE DEF S
<1>2. PICK a \in S : S \subseteq Dom(g, a) BY <1>1, Lowest
<1> QED BY <1>2 DEF S

LEMMA IdomUnique ==
  ASSUME NEW g, CFG(g), NEW a, NEW b \in DOMAIN g, NEW c, IsIdom(g, a, b), IsIdom(g, c, b)
  PROVE  a = c
<1>1. a \in DOMAIN g /\ c \in DOMAIN g BY DEF IsIdom
<1>2. a \in Dom(g, a) /\ c \in Dom(g, c) BY <1>1, DomEnds
<1>3. a \in Dom(g, c) /\ c \in Dom(g, a) BY <1>2 DEF IsIdom
<1> QED BY <1>1, <1>3, DomAntisymmetric

LEMMA IdomAbove ==
  ASSUME NEW g, CFG(g), NEW b \in DOMAIN g, NEW a, IsIdom(g, a, b)
  PROVE  a \in Dom(g, b) /\ a # b /\ b # Entry /\ a \in DOMAIN g
<1>1. a \in DOMAIN g /\ a \in Dom(g, a) /\ Entry \in Dom(g, a) BY DomEnds DEF IsIdom
<1> QED BY <1>1 DEF IsIdom

(* On the way from y up to x there is a block whose immediate dominator is x. *)
LEMMA Child ==
  ASSUME NEW g, CFG(g), NEW x \in DOMAIN g, NEW y \in DOMAIN g, x \in Dom(g, y), x # y,
         NEW idom, \A b \in DOMAIN g \ {Entry} : IsIdom(g, idom[b], b)
  PROVE  \E k \in DOMAIN g \ {Entry} : idom[k] = x /\ k \in Dom(g, y)
<1> DEFINE S == {z \in Dom(g, y) : x \in Dom(g, z) /\ z # x}
           f == [z \in DOMAIN g |-> Dom(g, z)]
<1>1. S # {} /\ S \subseteq DOMAIN g BY DomEnds DEF Dom
<1>2. \A z \in S : f[z] = Dom(g, z) /\ IsFiniteSet(f[z]) BY <1>1, DomFinite
<1> HIDE DEF f, S
<1>3. PICK k \in S : \A z \in S : Cardinality(f[k]) <= Cardinality(f[z]) BY <1>1, <1>2, Fewest
<1>4. k \in DOMAIN g /\ k \in Dom(g, y) /\ x \in Dom(g, k) /\ k # x BY <1>1 DEF S
<1>5. k # Entry BY <1>4, DomEnds
<1> DEFINE w == idom[k]
<1>6. IsIdom(g, w, k) BY <1>4, <1>5
<1> HIDE DEF w
<1>7. w \in DOMAIN g /\ w \in Dom(g, k) /\ w # k BY <1>4, <1>6, IdomAbove
<1>8. x \in Dom(g, w) BY <1>4, <1>6 DEF IsIdom
<1>9. w = x
  <2>1. SUFFICES ASSUME w # x PROVE FALSE OBVIOUS
  <2>2. w \in Dom(g, y) BY <1>4, <1>7, DomTransitive
  <2>3. w \in S BY <2>1, <2>2, <1>8 DEF S
  <2>4. Cardinality(Dom(g, k)) <= Cardinality(Dom(g, w)) BY <1>2, <1>3, <2>3
  <2>5. Cardinality(Dom(g, w)) < Cardinality(Dom(g, k)) BY <1>4, <1>7, DomFewer
  <2>6. Cardinality(Dom(g, w)) \in Nat /\ Cardinality(Dom(g, k)) \in Nat BY <1>4, <1>7, DomFinite
  <2> QED BY <2>4, <2>5, <2>6
<1> QED BY <1>4, <1>5, <1>9 DEF w
-----------------------------------------------------------------------------
(* A list without one of its elements. *)
Occurs(q, v) == \E i \in 1 .. Len(q) : q[i] = v
OneByOne(q) == \A i, j \in 1 .. Len(q) : q[i] = q[j] => i = j
Lacks(r, q, k, T) ==
  /\ r \in Seq(T) /\ Len(r) = Len(q) - 1
  /\ \A j \in 1 .. Len(q) - 1 : r[j] = IF j < k THEN q[j] ELSE q[j + 1]

LEMMA Piece ==
  ASSUME NEW T, NEW q \in Seq(T), NEW a \in 1 .. Len(q) + 1, NEW b \in a - 1 .. Len(q)
  PROVE  /\ SubSeq(q, a, b) \in Seq(T) /\ Len(SubSeq(q, a, b)) = b - a + 1
         /\ \A i \in 1 .. b - a + 1 : SubSeq(q, a, b)[i] = q[a + i - 1]
<1>1. a \in Int /\ b \in Int /\ Len(q) \in Nat OBVIOUS
<1>2. \A i \in a .. b : q[i] \in T BY <1>1
<1>3. /\ SubSeq(q, a, b) \in Seq(T) /\ Len(SubSeq(q, a, b)) = IF a <= b THEN b - a + 1 ELSE 0
      /\ \A i \in 1 .. b - a + 1 : SubSeq(q, a, b)[i] = q[a + i - 1]
  BY ONLY <1>1, <1>2, SubSeqProperties
<1> QED BY <1>1, <1>3

LEMMA Removed ==
  ASSUME NEW T, NEW q \in Seq(T), NEW k \in 1 .. Len(q)
  PROVE  Lacks(RemoveAt(q, k), q, k, T)
<1> DEFINE n == Len(q)
           a == SubSeq(q, 1, k - 1)
           b == SubSeq(q, k + 1, n)
           r == RemoveAt(q, k)
<1>0. n \in Nat /\ k \in 1 .. n OBVIOUS
<1>1. 1 \in 1 .. n + 1 /\ k - 1 \in 1 - 1 .. n /\ k + 1 \in 1 .. n + 1 /\ n \in k + 1 - 1 .. n
  BY <1>0
<1>2. a \in Seq(T) /\ Len(a) = k - 1 - 1 + 1 /\ \A j \in 1 .. k - 1 - 1 + 1 : a[j] = q[1 + j - 1]
  BY <1>1, Piece
<1>3. b \in Seq(T) /\ Len(b) = n - (k + 1) + 1
      /\ \A j \in 1 .. n - (k + 1) + 1 : b[j] = q[(k + 1) + j - 1]
  BY <1>1, Piece
<1>4. r = a \o b BY DEF RemoveAt
<1>5. Len(a) = k - 1 /\ Len(b) = n - k BY <1>0, <1>2, <1>3
<1>6. \A j \in 1 .. k - 1 : a[j] = q[j]
  <2>1. ASSUME NEW j \in 1 .. k - 1 PROVE a[j] = q[j]
    <3>1. j \in 1 .. k - 1 - 1 + 1 /\ 1 + j - 1 = j BY <1>0
    <3> HIDE DEF a
    <3> QED BY <1>2, <3>1
  <2> QED BY <2>1
<1>7. \A j \in 1 .. n - k : b[j] = q[k + j]
  <2>1. ASSUME NEW j \in 1 .. n - k PROVE b[j] = q[k + j]
    <3>1. j \in 1 .. n - (k + 1) + 1 /\ (k + 1) + j - 1 = k + j BY <1>0
    <3> HIDE DEF b
    <3> QED BY <1>3, <3>1
  <2> QED BY <2>1
<1>8. a \in Seq(T) /\ b \in Seq(T) BY <1>2, <1>3
<1> HIDE DEF a, b, r, n
<1>9. /\ r \in Seq(T) /\ Len(r) = Len(a) + Len(b)
      /\ \A j \in 1 .. Len(a) + Len(b) : r[j] = IF j <= Len(a) THEN a[j] ELSE b[j - Len(a)]
  BY <1>4, <1>8, ConcatProperties
<1>10. ASSUME NEW j \in 1 .. n - 1 PROVE r[j] = IF j < k THEN q[j] ELSE q[j + 1]
  <2>1. r[j] = IF j <= k - 1 THEN a[j] ELSE b[j - (k - 1)] BY <1>0, <1>5, <1>9
  <2>2. CASE j < k BY <1>0, <1>6, <2>1, <2>2
  <2>3. CASE ~(j < k)
    <3>1. r[j] = b[j - (k - 1)] /\ j - (k - 1) \in 1 .. n - k /\ k + (j - (k - 1)) = j + 1 BY <1>0, <2>1, <2>3
    <3> QED BY <1>7, <2>3, <3>1
  <2> QED BY <2>2, <2>3
<1> QED BY <1>0, <1>5, <1>9, <1>10 DEF Lacks, n, r

LEMMA LacksOnce ==
  ASSUME NEW T, NEW q \in Seq(T), OneByOne(q), NEW k \in 1 .. Len(q), NEW r, Lacks(r, q, k, T)
  PROVE  OneByOne(r) /\ \A v : Occurs(r, v) <=> Occurs(q, v) /\ v # q[k]
<1> DEFINE f(j) == IF j < k THEN j ELSE j + 1
           h(j) == IF j < k THEN j ELSE j - 1
<1>0. Len(q) \in Nat /\ k \in Nat /\ Len(r) = Len(q) - 1 BY DEF Lacks
<1>1. ASSUME NEW j \in 1 .. Len(r) PROVE f(j) \in 1 .. Len(q) /\ f(j) # k /\ r[j] = q[f(j)]
  BY <1>0 DEF Lacks
<1>2. ASSUME NEW i \in 1 .. Len(r), NEW j \in 1 .. Len(r), r[i] = r[j] PROVE i = j
  <2>1. f(i) = f(j) BY <1>1, <1>2 DEF OneByOne
  <2> QED BY <1>0, <2>1
<1>3. ASSUME NEW j \in 1 .. Len(r) PROVE r[j] # q[k] /\ Occurs(q, r[j])
  BY <1>1 DEF OneByOne, Occurs
<1>4. ASSUME NEW j \in 1 .. Len(q), j # k PROVE h(j) \in 1 .. Len(r) /\ r[h(j)] = q[j]
  <2>1. h(j) \in 1 .. Len(r) /\ f(h(j)) = j BY <1>0, <1>4
  <2> HIDE DEF h
  <2> QED BY <1>1, <2>1
<1> HIDE DEF f, h
<1>5. ASSUME NEW v, Occurs(r, v) PROVE Occurs(q, v) /\ v # q[k] BY <1>3, <1>5 DEF Occurs
<1>6. ASSUME NEW v, Occurs(q, v), v # q[k] PROVE Occurs(r, v)
  <2>1. PICK j \in 1 .. Len(q) : q[j] = v BY <1>6 DEF Occurs
  <2>2. j # k BY <1>6, <2>1
  <2> QED BY <1>4, <2>1, <2>2 DEF Occurs
<1> QED BY <1>2, <1>5, <1>6 DEF OneByOne

LEMMA FirstRemoved ==
  ASSUME NEW T, NEW q \in Seq(T), OneByOne(q), NEW v, Occurs(q, v)
  PROVE  /\ RemoveFirst(q, v) \in Seq(T) /\ OneByOne(RemoveFirst(q, v))
         /\ \A x : Occurs(RemoveFirst(q, v), x) <=> Occurs(q, x) /\ x # v
<1>1. PICK k \in 1 .. Len(q) : q[k] = v BY DEF Occurs
<1> DEFINE I == {i \in 1 .. Len(q) : q[i] = v}
<1>2. I = {k} BY <1>1 DEF OneByOne
<1>3. k \in Int /\ k # 0 OBVIOUS
<1>4. SelectInSeq(q, LAMBDA u : u = v) = k
  <2>1. SelectInSeq(q, LAMBDA u : u = v) = IF I # {} THEN CHOOSE x \in I : \A y \in I : x <= y ELSE 0
    BY DEF SelectInSeq, Min
  <2> HIDE DEF I
  <2> QED BY <1>2, <1>3, <2>1
<1>5. RemoveFirst(q, v) = RemoveAt(q, k) BY <1>1, <1>4 DEF RemoveFirst
<1>6. Lacks(RemoveAt(q, k), q, k, T) BY Removed
<1> DEFINE r == RemoveAt(q, k)
<1>7. Lacks(r, q, k, T) BY <1>6
<1> HIDE DEF r
<1>8. r \in Seq(T) /\ OneByOne(r) /\ \A x : Occurs(r, x) <=> Occurs(q, x) /\ x # v
  BY <1>1, <1>7, LacksOnce DEF Lacks
<1> QED BY <1>5, <1>8 DEF r

LEMMA Added ==
  ASSUME NEW T, NEW q \in Seq(T), OneByOne(q), NEW v \in T, ~Occurs(q, v)
  PROVE  /\ Append(q, v) \in Seq(T) /\ OneByOne(Append(q, v))
         /\ \A x : Occurs(Append(q, v), x) <=> Occurs(q, x) \/ x = v
<1> DEFINE r == Append(q, v)
<1>1. r \in Seq(T) /\ Len(r) = Len(q) + 1 /\ Len(q) \in Nat OBVIOUS
<1>2. \A i \in 1 .. Len(q) : r[i] = q[i] OBVIOUS
<1>3. r[Len(q) + 1] = v OBVIOUS
<1> HIDE DEF r
<1>4. \A i \in 1 .. Len(r) : i \in 1 .. Len(q) \/ i = Len(q) + 1 BY <1>1
<1>5. OneByOne(r) BY <1>1, <1>2, <1>3, <1>4 DEF OneByOne, Occurs
<1>6. \A x : Occurs(r, x) <=> Occurs(q, x) \/ x = v BY <1>1, <1>2, <1>3, <1>4 DEF Occurs
<1> QED BY <1>1, <1>5, <1>6 DEF r
-----------------------------------------------------------------------------
(* What is so of the nodes of a tree while they are added, moved and       *)
(* erased: the children of a node are those that have it as idom.          *)
Trees(N) ==
  [idom : [N -> N \cup {None}], kids : [N -> Seq(N)], num : [N -> [in : Int, out : Int]],
   slow : Nat, valid : BOOLEAN]
Shape(t, N) ==
  /\ t \in Trees(N) /\ None \notin N
  /\ \A x \in N : OneByOne(t.kids[x])
  /\ \A b, x \in N : Occurs(t.kids[b], x) <=> t.idom[x] = b

LEMMA ShapeIs ==
  ASSUME NEW t, NEW N, Shape(t, N)
  PROVE  /\ DOMAIN t.idom = N /\ DOMAIN t.kids = N /\ DOMAIN t.num = N
         /\ \A x \in N : t.idom[x] \in N \cup {None} /\ t.kids[x] \in Seq(N)
                         /\ t.num[x] \in [in : Int, out : Int]
         /\ t.slow \in Nat /\ t.valid \in BOOLEAN
BY DEF Shape, Trees

LEMMA TreeFields ==
  ASSUME NEW t, NEW N, t \in Trees(N)
  PROVE  t = [idom |-> t.idom, kids |-> t.kids, num |-> t.num, slow |-> t.slow, valid |-> t.valid]
BY DEF Trees

LEMMA WiderList == ASSUME NEW N, NEW M, N \subseteq M, NEW q \in Seq(N) PROVE q \in Seq(M)
OBVIOUS

LEMMA BlockAdded ==
  ASSUME NEW t, NEW N, Shape(t, N), NEW b, b \notin N, b # None, NEW d \in N, NEW r, r = AddNewBlock(t, b, d)
  PROVE  Shape(r, N \cup {b}) /\ ~r.valid /\ r.idom = [x \in N \cup {b} |-> IF x = b THEN d ELSE t.idom[x]]
<1> DEFINE M == N \cup {b}
           idom == [x \in M |-> IF x = b THEN d ELSE t.idom[x]]
           kids == [x \in M |-> IF x = b THEN << >> ELSE IF x = d THEN Append(t.kids[d], b) ELSE t.kids[x]]
           num == [x \in M |-> IF x = b THEN [in |-> -1, out |-> -1] ELSE t.num[x]]
<1>0. t \in Trees(N) BY DEF Shape
<1>1. idom = Put(t.idom, b, d) /\ num = Put(t.num, b, [in |-> -1, out |-> -1]) BY ShapeIs DEF Put
<1>2. kids = Put(Put(t.kids, d, Append(t.kids[d], b)), b, << >>)
  <2> DEFINE k == Put(t.kids, d, Append(t.kids[d], b))
  <2>1. DOMAIN k = N /\ \A x \in N : k[x] = IF x = d THEN Append(t.kids[d], b) ELSE t.kids[x] BY ShapeIs DEF Put
  <2> HIDE DEF k
  <2>2. kids = Put(k, b, << >>) BY <2>1 DEF Put
  <2> QED BY <2>2 DEF k
<1>3. r = [idom |-> idom, kids |-> kids, num |-> num, slow |-> t.slow, valid |-> FALSE]
  <2> HIDE DEF idom, kids, num
  <2> QED BY <1>1, <1>2 DEF AddNewBlock
<1>4. idom \in [M -> M \cup {None}] BY ShapeIs
<1>5. num \in [M -> [in : Int, out : Int]] BY ShapeIs
<1>6. kids \in [M -> Seq(M)]
  <2>1. ASSUME NEW x \in M PROVE kids[x] \in Seq(M)
    <3>1. CASE x = b BY <3>1
    <3>2. CASE x # b
      <4>1. t.kids[x] \in Seq(M) BY <3>2, ShapeIs, WiderList
      <4> QED BY <3>2, <4>1
    <3> QED BY <3>1, <3>2
  <2> QED BY <2>1
<1>7. t.slow \in Nat BY ShapeIs
<1>8. r \in Trees(M) /\ r.idom = idom /\ r.kids = kids /\ r.valid = FALSE
  <2> DEFINE slow == t.slow
  <2> HIDE DEF idom, kids, num, M, slow
  <2>1. slow \in Nat /\ r = [idom |-> idom, kids |-> kids, num |-> num, slow |-> slow, valid |-> FALSE]
    BY <1>3, <1>7 DEF slow
  <2> QED BY <1>4, <1>5, <1>6, <2>1 DEF Trees
<1>9. \A x \in N : ~Occurs(t.kids[x], b) BY ShapeIs DEF Occurs
<1>10. ASSUME NEW y \in M
       PROVE  OneByOne(r.kids[y]) /\ \A x \in M : Occurs(r.kids[y], x) <=> r.idom[x] = y
  <2>1. CASE y = b
    <3>1. r.kids[y] = << >> BY <1>8, <2>1
    <3>2. OneByOne(r.kids[y]) /\ \A x \in M : ~Occurs(r.kids[y], x) BY <3>1 DEF OneByOne, Occurs
    <3>3. \A x \in M : r.idom[x] # y BY <1>8, <2>1, ShapeIs
    <3> QED BY <3>2, <3>3
  <2>2. CASE y = d
    <3>1. r.kids[y] = Append(t.kids[d], b) BY <1>8, <2>2
    <3>2. t.kids[d] \in Seq(M) /\ OneByOne(t.kids[d]) /\ ~Occurs(t.kids[d], b) /\ b \in M
      BY <1>9, ShapeIs, WiderList DEF Shape
    <3> HIDE DEF M
    <3>3. OneByOne(r.kids[y]) /\ \A x : Occurs(r.kids[y], x) <=> Occurs(t.kids[d], x) \/ x = b
      BY <3>1, <3>2, Added
    <3> USE DEF M
    <3>4. \A x \in N : Occurs(t.kids[d], x) <=> t.idom[x] = d BY DEF Shape
    <3>5. ASSUME NEW x \in M PROVE Occurs(r.kids[y], x) <=> r.idom[x] = y
      BY <1>8, <2>2, <3>3, <3>4
    <3> QED BY <3>3, <3>5
  <2>3. CASE y # b /\ y # d
    <3>1. r.kids[y] = t.kids[y] BY <1>8, <2>3
    <3>2. OneByOne(r.kids[y]) BY <2>3, <3>1 DEF Shape
    <3>3. ASSUME NEW x \in M PROVE Occurs(r.kids[y], x) <=> r.idom[x] = y
      <4>1. CASE x = b BY <1>8, <1>9, <2>3, <3>1, <4>1
      <4>2. CASE x # b BY <1>8, <2>3, <3>1, <4>2 DEF Shape
      <4> QED BY <4>1, <4>2
    <3> QED BY <3>2, <3>3
  <2> QED BY <2>1, <2>2, <2>3
<1>11. None \notin M BY DEF Shape
<1>12. Shape(r, M) BY <1>8, <1>10, <1>11 DEF Shape
<1> QED BY <1>8, <1>12

LEMMA ChangeIs ==
  ASSUME NEW t, NEW N, t \in Trees(N), NEW b, NEW d, t.idom[b] # d
  PROVE  ChangeImmediateDominator(t, b, d) =
           [idom |-> [t.idom EXCEPT ![b] = d],
            kids |-> Put(Put(t.kids, t.idom[b], RemoveFirst(t.kids[t.idom[b]], b)), d, Append(t.kids[d], b)),
            num |-> t.num, slow |-> t.slow, valid |-> FALSE]
<1>1. t = [idom |-> t.idom, kids |-> t.kids, num |-> t.num, slow |-> t.slow, valid |-> t.valid]
  BY TreeFields
<1> DEFINE i == t.idom
           k == t.kids
           m == t.num
           s == t.slow
           v == t.valid
<1> HIDE DEF i, k, m, s, v
<1>2. t = [idom |-> i, kids |-> k, num |-> m, slow |-> s, valid |-> v] BY <1>1 DEF i, k, m, s, v
<1>3. i[b] # d BY DEF i
<1>4. ChangeImmediateDominator(t, b, d) =
           [idom |-> [i EXCEPT ![b] = d], kids |-> Put(Put(k, i[b], RemoveFirst(k[i[b]], b)), d, Append(k[d], b)),
            num |-> m, slow |-> s, valid |-> FALSE]
  BY <1>2, <1>3 DEF ChangeImmediateDominator
<1> QED BY <1>4 DEF i, k, m, s

LEMMA DominatorChanged ==
  ASSUME NEW t, NEW N, Shape(t, N), NEW b \in N, t.idom[b] # None, NEW d \in N,
         NEW r, r = ChangeImmediateDominator(t, b, d)
  PROVE  Shape(r, N) /\ ~r.valid /\ r.idom = [t.idom EXCEPT ![b] = d]
<1> DEFINE o == t.idom[b]
<1>0. t \in Trees(N) /\ o \in N BY ShapeIs DEF Shape
<1>1. CASE o = d
  <2>1. r = [t EXCEPT !.valid = FALSE] BY <1>1 DEF ChangeImmediateDominator
  <2>2. r \in Trees(N) /\ r.idom = t.idom /\ r.kids = t.kids /\ r.valid = FALSE BY <1>0, <2>1 DEF Trees
  <2>3. r.idom = [t.idom EXCEPT ![b] = d]
    <3> DEFINE i == t.idom
    <3>1. i \in [N -> N \cup {None}] /\ i[b] = d BY <1>0, <1>1 DEF Trees
    <3> HIDE DEF i
    <3>2. i = [i EXCEPT ![b] = d] BY <3>1
    <3> QED BY <2>2, <3>2 DEF i
  <2> QED BY <2>2, <2>3 DEF Shape
<1>2. CASE o # d
  <2> DEFINE idom == [t.idom EXCEPT ![b] = d]
             kids == [x \in N |-> IF x = d THEN Append(t.kids[d], b)
                                  ELSE IF x = o THEN RemoveFirst(t.kids[o], b) ELSE t.kids[x]]
  <2>1. kids = Put(Put(t.kids, t.idom[b], RemoveFirst(t.kids[t.idom[b]], b)), d, Append(t.kids[d], b))
    BY <1>0, <1>2, ShapeIs DEF Put
  <2>2. r = [idom |-> idom, kids |-> kids, num |-> t.num, slow |-> t.slow, valid |-> FALSE]
    BY <1>0, <1>2, <2>1, ChangeIs
  <2>3. idom \in [N -> N \cup {None}] /\ t.num \in [N -> [in : Int, out : Int]] /\ t.slow \in Nat
    BY <1>0 DEF Trees
  <2>4. /\ OneByOne(t.kids[o]) /\ Occurs(t.kids[o], b) /\ t.kids[o] \in Seq(N)
        /\ OneByOne(t.kids[d]) /\ ~Occurs(t.kids[d], b) /\ t.kids[d] \in Seq(N)
    BY <1>0, <1>2, ShapeIs DEF Shape
  <2> DEFINE less == RemoveFirst(t.kids[o], b)
             more == Append(t.kids[d], b)
  <2>5. less \in Seq(N) /\ OneByOne(less) /\ \A x : Occurs(less, x) <=> Occurs(t.kids[o], x) /\ x # b
    BY <2>4, FirstRemoved
  <2>6. more \in Seq(N) /\ OneByOne(more) /\ \A x : Occurs(more, x) <=> Occurs(t.kids[d], x) \/ x = b
    BY <2>4, Added
  <2>7. kids[o] = less /\ kids[d] = more /\ \A x \in N : x # o /\ x # d => kids[x] = t.kids[x] BY <1>0, <1>2
  <2>8. kids \in [N -> Seq(N)]
    <3>1. \A x \in N : kids[x] \in Seq(N) BY <2>5, <2>6, <2>7, ShapeIs
    <3> QED BY <3>1
  <2>9. r \in Trees(N) /\ r.idom = idom /\ r.kids = kids /\ r.valid = FALSE
    <3> DEFINE slow == t.slow
               num == t.num
    <3> HIDE DEF idom, kids, slow, num
    <3>1. /\ slow \in Nat /\ num \in [N -> [in : Int, out : Int]]
          /\ r = [idom |-> idom, kids |-> kids, num |-> num, slow |-> slow, valid |-> FALSE]
      BY <2>2, <2>3 DEF slow, num
    <3> QED BY <2>3, <2>8, <3>1 DEF Trees
  <2>10. \A x \in N : idom[x] = IF x = b THEN d ELSE t.idom[x] BY ShapeIs
  <2> HIDE DEF idom, kids, less, more
  <2>11. ASSUME NEW y \in N
         PROVE  OneByOne(r.kids[y]) /\ \A x \in N : Occurs(r.kids[y], x) <=> r.idom[x] = y
    <3>1. \A x \in N : Occurs(t.kids[y], x) <=> t.idom[x] = y BY DEF Shape
    <3>2. CASE y = o BY <1>2, <2>5, <2>7, <2>9, <2>10, <3>1, <3>2
    <3>3. CASE y = d BY <2>6, <2>7, <2>9, <2>10, <3>1, <3>3
    <3>4. CASE y # o /\ y # d
      <4>1. OneByOne(t.kids[y]) BY DEF Shape
      <4> QED BY <2>7, <2>9, <2>10, <3>1, <3>4, <4>1
    <3> QED BY <3>2, <3>3, <3>4
  <2>12. Shape(r, N) BY <2>9, <2>11 DEF Shape
  <2> QED BY <2>9, <2>12 DEF idom
<1> QED BY <1>1, <1>2
LEMMA NarrowList == ASSUME NEW N, NEW b, NEW q \in Seq(N), ~Occurs(q, b) PROVE q \in Seq(N \ {b})
<1>1. Len(q) \in Nat /\ DOMAIN q = 1 .. Len(q) /\ \A i \in 1 .. Len(q) : q[i] \in N \ {b} BY DEF Occurs
<1> QED BY <1>1

Erased(t, N, b, M, r) ==
  /\ Shape(t, N) /\ b \in N /\ t.kids[b] = << >> /\ t.idom[b] \in N
  /\ M = N \ {b} /\ r = EraseNode(t, b)

LEMMA NodeErased ==
  ASSUME NEW t, NEW N, NEW b, NEW M, NEW r, Erased(t, N, b, M, r)
  PROVE  Shape(r, M) /\ r.valid = t.valid /\ r.idom = [x \in M |-> t.idom[x]] /\ r.num = [x \in M |-> t.num[x]]
<1> USE DEF Erased
<1> DEFINE o == t.idom[b]
           less == RemoveFirst(t.kids[o], b)
           idom == [x \in M |-> t.idom[x]]
           kids == [x \in M |-> IF x = o THEN less ELSE t.kids[x]]
           num == [x \in M |-> t.num[x]]
           slow == t.slow
           valid == t.valid
<1>0. t \in Trees(N) /\ None \notin N BY DEF Shape
<1>1. idom = Drop(t.idom, b) /\ num = Drop(t.num, b) BY ShapeIs DEF Drop
<1>2. kids = Drop(Put(t.kids, t.idom[b], RemoveFirst(t.kids[t.idom[b]], b)), b)
  <2> DEFINE k == Put(t.kids, t.idom[b], RemoveFirst(t.kids[t.idom[b]], b))
  <2>1. DOMAIN k = N /\ \A x \in N : k[x] = IF x = o THEN less ELSE t.kids[x] BY ShapeIs DEF Put
  <2> HIDE DEF k
  <2>2. kids = Drop(k, b) BY <2>1 DEF Drop
  <2> QED BY <2>2 DEF k
<1>3. \A x \in N : t.idom[x] # b BY DEF Shape, Occurs
<1>4. idom \in [M -> M \cup {None}] BY <1>3, ShapeIs
<1>5. num \in [M -> [in : Int, out : Int]] BY ShapeIs
<1>6. /\ t.kids[o] \in Seq(N) /\ OneByOne(t.kids[o]) /\ Occurs(t.kids[o], b)
      /\ \A x \in M : x # o => t.kids[x] \in Seq(N) /\ ~Occurs(t.kids[x], b) /\ OneByOne(t.kids[x])
  BY <1>0, ShapeIs DEF Shape
<1>7. less \in Seq(N) /\ OneByOne(less) /\ \A x : Occurs(less, x) <=> Occurs(t.kids[o], x) /\ x # b
  BY <1>6, FirstRemoved
<1> HIDE DEF less
<1>8. less \in Seq(M) BY <1>7, NarrowList
<1>9. kids \in [M -> Seq(M)]
  <2>1. ASSUME NEW x \in M, x # o PROVE t.kids[x] \in Seq(M) BY <1>6, <2>1, NarrowList
  <2> QED BY <1>8, <2>1
<1>10. r = [idom |-> idom, kids |-> kids, num |-> num, slow |-> slow, valid |-> valid]
  <2> HIDE DEF idom, kids, num, slow, valid
  <2> QED BY <1>1, <1>2 DEF EraseNode, slow, valid
<1>11. slow \in Nat /\ valid \in BOOLEAN BY ShapeIs
<1>12. r \in Trees(M) /\ r.idom = idom /\ r.kids = kids /\ r.num = num /\ r.valid = valid
  <2> HIDE DEF idom, kids, num, slow, valid
  <2> QED BY <1>4, <1>5, <1>9, <1>10, <1>11 DEF Trees
<1>13. \A y \in M, x \in M : Occurs(t.kids[y], x) <=> t.idom[x] = y BY DEF Shape
<1>14. ASSUME NEW y \in M
       PROVE  OneByOne(r.kids[y]) /\ \A x \in M : Occurs(r.kids[y], x) <=> r.idom[x] = y
  BY <1>6, <1>7, <1>12, <1>13
<1>15. None \notin M BY <1>0
<1>16. Shape(r, M) BY <1>12, <1>14, <1>15 DEF Shape
<1> QED BY <1>12, <1>16
-----------------------------------------------------------------------------
(* The dominator tree of a function. *)
IsTree(g, t) ==
  /\ Shape(t, DOMAIN g) /\ t.idom[Entry] = None
  /\ \A b \in DOMAIN g \ {Entry} : IsIdom(g, t.idom[b], b)

LEMMA ParentIs ==
  ASSUME NEW g, CFG(g), NEW t, IsTree(g, t), NEW b \in DOMAIN g, b # Entry
  PROVE  /\ t.idom[b] \in DOMAIN g /\ t.idom[b] # None /\ t.idom[b] # b
         /\ Dom(g, b) = {b} \cup Dom(g, t.idom[b]) /\ b \notin Dom(g, t.idom[b])
         /\ t.idom[b] \in Dom(g, b)
<1>1. IsIdom(g, t.idom[b], b) BY DEF IsTree
<1>2. None \notin DOMAIN g BY DEF IsTree, Shape
<1> QED BY <1>1, <1>2, IdomAbove DEF IsIdom

(* Walking up meets the dominators. *)
IsAbove(t, f) == f = [x \in Nodes(t) |-> {x} \cup (IF t.idom[x] = None THEN {} ELSE f[t.idom[x]])]

LEMMA AboveIs ==
  ASSUME NEW g, CFG(g), NEW t, IsTree(g, t), NEW b \in DOMAIN g
  PROVE  Above(t, b) = Dom(g, b)
<1>0. Nodes(t) = DOMAIN g /\ t.idom[Entry] = None /\ Entry \in DOMAIN g BY ShapeIs DEF IsTree, Nodes, CFG, Flow
<1> DEFINE h == [x \in Nodes(t) |-> Dom(g, x)]
           f == CHOOSE f : IsAbove(t, f)
<1>1. IsAbove(t, h)
  <2> DEFINE k == [x \in Nodes(t) |-> {x} \cup (IF t.idom[x] = None THEN {} ELSE h[t.idom[x]])]
  <2>1. ASSUME NEW x \in Nodes(t) PROVE h[x] = k[x]
    <3>1. CASE x = Entry BY <1>0, <3>1, DomEnds
    <3>2. CASE x # Entry BY <1>0, <3>2, ParentIs
    <3> QED BY <3>1, <3>2
  <2>2. h = k
    <3>1. h = [x \in Nodes(t) |-> h[x]] /\ k = [x \in Nodes(t) |-> k[x]] OBVIOUS
    <3> HIDE DEF h, k
    <3> QED BY <2>1, <3>1
  <2> QED BY <2>2 DEF IsAbove
<1>2. IsAbove(t, f)
  <2> HIDE DEF h
  <2> QED BY <1>1
<1>3. Above(t, b) = f[b] BY DEF Above, IsAbove
<1> HIDE DEF f
<1>4. f[b] = Dom(g, b)
  <2> DEFINE Bad == {x \in DOMAIN g : f[x] # Dom(g, x)}
             size == [x \in DOMAIN g |-> Dom(g, x)]
  <2>1. SUFFICES ASSUME Bad # {} PROVE FALSE OBVIOUS
  <2>2. Bad \subseteq DOMAIN g /\ \A x \in Bad : size[x] = Dom(g, x) /\ IsFiniteSet(size[x]) BY DomFinite
  <2> HIDE DEF size, Bad
  <2>3. PICK x \in Bad : \A y \in Bad : Cardinality(size[x]) <= Cardinality(size[y]) BY <2>1, <2>2, Fewest
  <2>4. x \in DOMAIN g /\ f[x] # Dom(g, x) BY DEF Bad
  <2>5. f[x] = {x} \cup (IF t.idom[x] = None THEN {} ELSE f[t.idom[x]]) BY <1>0, <1>2, <2>4 DEF IsAbove
  <2>6. x # Entry BY <1>0, <2>4, <2>5, DomEnds
  <2> DEFINE p == t.idom[x]
  <2>7. p \in DOMAIN g /\ p # None /\ p # x /\ Dom(g, x) = {x} \cup Dom(g, p) /\ p \in Dom(g, x)
    BY <2>4, <2>6, ParentIs
  <2>8. p \in Bad BY <2>4, <2>5, <2>7 DEF Bad
  <2> HIDE DEF p
  <2>9. Cardinality(Dom(g, p)) < Cardinality(Dom(g, x)) BY <2>4, <2>7, DomFewer
  <2>10. Cardinality(Dom(g, p)) \in Nat /\ Cardinality(Dom(g, x)) \in Nat BY <2>4, <2>7, DomFinite
  <2>11. Cardinality(Dom(g, x)) <= Cardinality(Dom(g, p)) BY <2>2, <2>3, <2>8
  <2> QED BY <2>9, <2>10, <2>11
<1> QED BY <1>3, <1>4
-----------------------------------------------------------------------------
(* The answers, of a tree whose numbers say the same when they are valid. *)
Numbered(g, t) == \A a, b \in DOMAIN g : DominatedBy(t, b, a) <=> a \in Dom(g, b)
TreeInv(g, t) == IsTree(g, t) /\ (t.valid => Numbered(g, t))

LEMMA SlowWalkIs ==
  ASSUME NEW g, CFG(g), NEW t, IsTree(g, t), NEW a \in DOMAIN g, NEW b \in DOMAIN g
  PROVE  DominatedBySlowTreeWalk(t, a, b) <=> a \in Dom(g, b) /\ a # b
<1>1. CASE b = Entry
  <2>1. t.idom[b] = None BY <1>1 DEF IsTree
  <2> QED BY <1>1, <2>1, DomEnds DEF DominatedBySlowTreeWalk
<1>2. CASE b # Entry
  <2>1. t.idom[b] \in DOMAIN g /\ t.idom[b] # None /\ Dom(g, b) = {b} \cup Dom(g, t.idom[b])
        /\ b \notin Dom(g, t.idom[b]) BY <1>2, ParentIs
  <2>2. Above(t, t.idom[b]) = Dom(g, t.idom[b]) BY <2>1, AboveIs
  <2> QED BY <2>1, <2>2 DEF DominatedBySlowTreeWalk
<1> QED BY <1>1, <1>2

LEMMA DominatesIs ==
  ASSUME NEW g, CFG(g), NEW t, TreeInv(g, t), NEW a \in DOMAIN g, NEW b \in DOMAIN g
  PROVE  Dominates(t, a, b) <=> a \in Dom(g, b)
<1>0. IsTree(g, t) /\ Nodes(t) = DOMAIN g BY ShapeIs DEF TreeInv, IsTree, Nodes
<1>1. CASE a = b BY <1>1, DomEnds DEF Dominates
<1>2. CASE a # b /\ t.valid BY <1>0, <1>2 DEF Dominates, TreeInv, Numbered
<1>3. CASE a # b /\ ~t.valid BY <1>0, <1>3, SlowWalkIs DEF Dominates
<1> QED BY <1>1, <1>2, <1>3

(* The nearest common dominator: its dominators are the common ones. *)
LEMMA NearestIs ==
  ASSUME NEW g, CFG(g), NEW t, TreeInv(g, t), NEW a \in DOMAIN g, NEW b \in DOMAIN g,
         NEW d, d = FindNearestCommonDominator(t, a, b)
  PROVE  d \in DOMAIN g /\ Dom(g, d) = Dom(g, a) \cap Dom(g, b)
<1>0. IsTree(g, t) BY DEF TreeInv
<1>1. CASE Entry \in {a, b}
  <2>1. d = Entry BY <1>1 DEF FindNearestCommonDominator
  <2>2. Entry \in DOMAIN g /\ Dom(g, Entry) = {Entry} /\ Entry \in Dom(g, a) /\ Entry \in Dom(g, b)
    BY DomEnds DEF CFG, Flow
  <2> QED BY <1>1, <2>1, <2>2
<1>2. CASE Entry \notin {a, b} /\ Dominates(t, b, a)
  <2>1. d = b BY <1>2 DEF FindNearestCommonDominator
  <2>2. Dom(g, b) \subseteq Dom(g, a) BY <1>2, DominatesIs, DomTransitive
  <2> QED BY <2>1, <2>2
<1>3. CASE Entry \notin {a, b} /\ ~Dominates(t, b, a) /\ Dominates(t, a, b)
  <2>1. d = a BY <1>3 DEF FindNearestCommonDominator
  <2>2. Dom(g, a) \subseteq Dom(g, b) BY <1>3, DominatesIs, DomTransitive
  <2> QED BY <2>1, <2>2
<1>4. CASE Entry \notin {a, b} /\ ~Dominates(t, b, a) /\ ~Dominates(t, a, b)
  <2> DEFINE p == t.idom[b]
             common == Dom(g, a) \cap Dom(g, p)
  <2>1. p \in DOMAIN g /\ Dom(g, b) = {b} \cup Dom(g, p) BY <1>0, <1>4, ParentIs
  <2>2. b \notin Dom(g, a) BY <1>4, DominatesIs
  <2>3. common = Dom(g, a) \cap Dom(g, b) BY <2>1, <2>2
  <2>4. Above(t, a) = Dom(g, a) /\ Above(t, p) = Dom(g, p) BY <1>0, <2>1, AboveIs
  <2>5. d = CHOOSE c \in common : common \subseteq Above(t, c)
    <3>1. d = LET above == Above(t, a) \cap Above(t, t.idom[b])
              IN  CHOOSE c \in above : above \subseteq Above(t, c)
      BY <1>4 DEF FindNearestCommonDominator
    <3> QED BY <2>4, <3>1
  <2>6. Entry \in common /\ common \subseteq Dom(g, a) /\ common \subseteq DOMAIN g
    BY <2>1, DomEnds DEF Dom
  <2> HIDE DEF common
  <2>7. PICK e \in common : common \subseteq Dom(g, e) BY <2>6, Lowest
  <2>8. common \subseteq Above(t, e) BY <1>0, <2>6, <2>7, AboveIs
  <2>9. d \in common /\ common \subseteq Above(t, d) BY <2>5, <2>7, <2>8
  <2>10. d \in DOMAIN g /\ common \subseteq Dom(g, d) BY <1>0, <2>6, <2>9, AboveIs
  <2>11. Dom(g, d) \subseteq Dom(g, a) /\ Dom(g, d) \subseteq Dom(g, b) BY <2>3, <2>9, <2>10, DomTransitive
  <2> QED BY <2>3, <2>10, <2>11
<1> QED BY <1>1, <1>2, <1>3, <1>4
-----------------------------------------------------------------------------
(* The numbers.  Of the nodes, V have been seen and F are finished: V is   *)
(* closed upwards and F downwards, what is seen and not finished is on the *)
(* stack, above its top, and the interval of a finished node holds those   *)
(* of the nodes under it and none of another.                              *)
StackOK(g, t, stack, V, F) ==
  /\ stack \in Seq([b : DOMAIN g, todo : Seq(DOMAIN g)])
  /\ \A i \in 1 .. Len(stack) : stack[i].b \in V \ F
  /\ \A x \in V \ F : \E i \in 1 .. Len(stack) : stack[i].b = x
  /\ \A i, j \in 1 .. Len(stack) : stack[i].b = stack[j].b => i = j
  /\ \A i \in 1 .. Len(stack) : i > 1 => stack[i].b # Entry /\ t.idom[stack[i].b] = stack[i - 1].b
  /\ stack # << >> => \A x \in V \ F : x \in Dom(g, stack[Len(stack)].b)
  /\ \A i \in 1 .. Len(stack) :
       /\ OneByOne(stack[i].todo)
       /\ \A x \in DOMAIN g : Occurs(stack[i].todo, x) <=> t.idom[x] = stack[i].b /\ x \notin V
Seen(g, V, F, n) ==
  /\ V \subseteq DOMAIN g /\ F \subseteq V /\ Entry \in V
  /\ Cardinality(V) + Cardinality(F) = n + 1
  /\ \A x \in V : Dom(g, x) \subseteq V
  /\ \A x \in F : \A y \in DOMAIN g : x \in Dom(g, y) => y \in F
Apart(num, F, x, y) == x \in F /\ num[x].out < num[y].in
Intervals(g, num, V, F, n) ==
  /\ num \in [DOMAIN g -> [in : Int, out : Int]]
  /\ \A x \in V : num[x].in <= n
  /\ \A x \in F : num[x].in < num[x].out /\ num[x].out <= n
  /\ \A x, y \in V : x \in Dom(g, y) /\ x # y =>
       num[x].in < num[y].in /\ (x \in F => num[y].out < num[x].out)
  /\ \A x, y \in V : x \notin Dom(g, y) /\ y \notin Dom(g, x) => Apart(num, F, x, y) \/ Apart(num, F, y, x)
Visiting(g, t, s, n, V, F) ==
  StackOK(g, t, s.stack, V, F) /\ Seen(g, V, F, n) /\ Intervals(g, s.num, V, F, n)

LEMMA TailIs ==
  ASSUME NEW T, NEW q \in Seq(T), OneByOne(q), q # << >>
  PROVE  /\ Tail(q) \in Seq(T) /\ Head(q) \in T /\ OneByOne(Tail(q)) /\ Occurs(q, Head(q))
         /\ \A x : Occurs(Tail(q), x) <=> Occurs(q, x) /\ x # Head(q)
<1> DEFINE r == Tail(q)
<1>1. Len(q) \in Nat \ {0} /\ Len(r) = Len(q) - 1 /\ r \in Seq(T) /\ Head(q) = q[1] /\ q[1] \in T
      /\ \A i \in 1 .. Len(r) : r[i] = q[i + 1] OBVIOUS
<1> HIDE DEF r
<1>2. OneByOne(r) BY <1>1 DEF OneByOne
<1>3. \A i \in 1 .. Len(q) : i # 1 => i - 1 \in 1 .. Len(r) /\ q[i] = r[i - 1]
  <2>1. ASSUME NEW i \in 1 .. Len(q), i # 1 PROVE i - 1 \in 1 .. Len(r) /\ q[i] = r[i - 1]
    <3>1. i - 1 \in 1 .. Len(r) /\ (i - 1) + 1 = i BY <1>1, <2>1
    <3> QED BY <1>1, <3>1
  <2> QED BY <2>1
<1>4. ASSUME NEW x, Occurs(r, x) PROVE Occurs(q, x) /\ x # Head(q)
  <2>1. PICK i \in 1 .. Len(r) : r[i] = x BY <1>4 DEF Occurs
  <2>2. i + 1 \in 1 .. Len(q) /\ 1 \in 1 .. Len(q) /\ i + 1 # 1 /\ q[i + 1] = x BY <1>1, <2>1
  <2> QED BY <1>1, <2>2 DEF OneByOne, Occurs
<1>5. ASSUME NEW x, Occurs(q, x), x # Head(q) PROVE Occurs(r, x) BY <1>1, <1>3, <1>5 DEF Occurs
<1>6. Occurs(q, Head(q)) BY <1>1 DEF Occurs
<1> QED BY <1>1, <1>2, <1>4, <1>5, <1>6 DEF r

LEMMA FrontIs ==
  ASSUME NEW T, NEW q \in Seq(T), q # << >>
  PROVE  /\ Front(q) \in Seq(T) /\ Len(Front(q)) = Len(q) - 1 /\ Len(q) \in Nat \ {0}
         /\ \A i \in 1 .. Len(q) - 1 : Front(q)[i] = q[i]
         /\ Last(q) = q[Len(q)] /\ q[Len(q)] \in T
<1>1. Len(q) \in Nat \ {0} OBVIOUS
<1>2. 1 \in 1 .. Len(q) + 1 /\ Len(q) - 1 \in 1 - 1 .. Len(q) BY <1>1
<1>3. SubSeq(q, 1, Len(q) - 1) \in Seq(T) /\ Len(SubSeq(q, 1, Len(q) - 1)) = (Len(q) - 1) - 1 + 1
      /\ \A i \in 1 .. (Len(q) - 1) - 1 + 1 : SubSeq(q, 1, Len(q) - 1)[i] = q[1 + i - 1]
  BY <1>2, Piece
<1>4. Front(q) = SubSeq(q, 1, Len(q) - 1) BY DEF Front
<1>5. Front(q) \in Seq(T) /\ Len(Front(q)) = Len(q) - 1 BY <1>1, <1>3, <1>4
<1>6. ASSUME NEW i \in 1 .. Len(q) - 1 PROVE Front(q)[i] = q[i]
  <2>1. i \in 1 .. (Len(q) - 1) - 1 + 1 /\ 1 + i - 1 = i BY <1>1
  <2> QED BY <1>3, <1>4, <2>1
<1>7. Last(q) = q[Len(q)] /\ q[Len(q)] \in T BY <1>1 DEF Last
<1> QED BY <1>1, <1>5, <1>6, <1>7

LEMMA TwoMore ==
  ASSUME NEW T, NEW f \in Seq(T), NEW a \in T, NEW d \in T, NEW q, q = f \o <<a, d>>
  PROVE  /\ q \in Seq(T) /\ Len(q) = Len(f) + 2 /\ q[Len(f) + 1] = a /\ q[Len(f) + 2] = d
         /\ \A i \in 1 .. Len(f) : q[i] = f[i]
OBVIOUS

LEMMA NumberStarts ==
  ASSUME NEW g, CFG(g), NEW t, IsTree(g, t)
  PROVE  Visiting(g, t, [stack |-> <<Frame(t, Entry)>>, num |-> [t.num EXCEPT ![Entry].in = 0]], 0, {Entry}, {})
<1> DEFINE stack == <<Frame(t, Entry)>>
           num == [t.num EXCEPT ![Entry].in = 0]
<1>0. Entry \in DOMAIN g /\ Shape(t, DOMAIN g) /\ Dom(g, Entry) = {Entry} BY DomEnds DEF CFG, Flow, IsTree
<1>1. num \in [DOMAIN g -> [in : Int, out : Int]] /\ num[Entry].in = 0
  <2> DEFINE m == t.num
  <2>1. m \in [DOMAIN g -> [in : Int, out : Int]] BY <1>0 DEF Shape, Trees
  <2> HIDE DEF m
  <2>2. m[Entry] \in [in : Int, out : Int] BY <1>0, <2>1
  <2>3. [m[Entry] EXCEPT !.in = 0] \in [in : Int, out : Int] /\ [m[Entry] EXCEPT !.in = 0].in = 0 BY <2>2
  <2>4. [m EXCEPT ![Entry].in = 0] = [m EXCEPT ![Entry] = [m[Entry] EXCEPT !.in = 0]] OBVIOUS
  <2>5. num = [m EXCEPT ![Entry].in = 0] BY DEF m
  <2> HIDE DEF num
  <2> QED BY <1>0, <2>1, <2>3, <2>4, <2>5
<1>2. t.kids[Entry] \in Seq(DOMAIN g) /\ OneByOne(t.kids[Entry])
      /\ \A x \in DOMAIN g : Occurs(t.kids[Entry], x) <=> t.idom[x] = Entry BY <1>0, ShapeIs DEF Shape
<1>3. Len(stack) = 1 /\ stack[1] = [b |-> Entry, todo |-> t.kids[Entry]] /\ stack # << >>
      /\ stack \in Seq([b : DOMAIN g, todo : Seq(DOMAIN g)]) BY <1>0, <1>2 DEF Frame
<1>4. t.idom[Entry] # Entry BY <1>0 DEF IsTree, Shape
<1> HIDE DEF stack, num
<1>5. StackOK(g, t, stack, {Entry}, {})
  <2>1. \A i \in 1 .. Len(stack) : i = 1 /\ stack[i].b = Entry /\ stack[i].todo = t.kids[Entry] BY <1>3
  <2> QED BY <1>0, <1>2, <1>3, <1>4, <2>1 DEF StackOK
<1>6. Seen(g, {Entry}, {}, 0)
  <2>1. Cardinality({Entry}) = 1 /\ Cardinality({}) = 0 BY FS_Singleton, FS_EmptySet
  <2> QED BY <1>0, <2>1 DEF Seen
<1>7. Intervals(g, num, {Entry}, {}, 0) BY <1>0, <1>1 DEF Intervals
<1> DEFINE s == [stack |-> stack, num |-> num]
<1>8. s.stack = stack /\ s.num = num OBVIOUS
<1>9. Visiting(g, t, s, 0, {Entry}, {})
  <2> HIDE DEF s
  <2> QED BY <1>5, <1>6, <1>7, <1>8 DEF Visiting
<1> QED BY <1>9 DEF stack, num

(* A child of the top is seen. *)
LEMMA NumberSees ==
  ASSUME NEW g, CFG(g), NEW t, IsTree(g, t), NEW s, NEW n \in Nat, NEW V, NEW F, Visiting(g, t, s, n, V, F),
         s.stack # << >>, Last(s.stack).todo # << >>, NEW c, c = Head(Last(s.stack).todo)
  PROVE  Visiting(g, t, NumberNext(t, s, n + 1), n + 1, V \cup {c}, F)
<1> DEFINE B == DOMAIN g
           stack == s.stack
           l == Len(stack)
           T == [b : B, todo : Seq(B)]
           top == Last(stack)
           a == [top EXCEPT !.todo = Tail(@)]
           d == Frame(t, c)
           new == Front(stack) \o <<a, d>>
           num == [s.num EXCEPT ![c].in = n + 1]
           W == V \cup {c}
<1>0. stack \in Seq(T) /\ Shape(t, B) /\ V \subseteq B /\ F \subseteq V BY DEF Visiting, StackOK, Seen, IsTree
<1>1. /\ Front(stack) \in Seq(T) /\ Len(Front(stack)) = l - 1 /\ l \in Nat \ {0}
      /\ (\A i \in 1 .. l - 1 : Front(stack)[i] = stack[i]) /\ top = stack[l] /\ stack[l] \in T
  BY <1>0, FrontIs
<1>2. /\ top.b \in V \ F /\ OneByOne(top.todo) /\ top.b \in B /\ top.todo \in Seq(B)
      /\ \A x \in B : Occurs(top.todo, x) <=> t.idom[x] = top.b /\ x \notin V
  BY <1>1 DEF Visiting, StackOK
<1>3. /\ Tail(top.todo) \in Seq(B) /\ c \in B /\ OneByOne(Tail(top.todo)) /\ Occurs(top.todo, c)
      /\ \A x : Occurs(Tail(top.todo), x) <=> Occurs(top.todo, x) /\ x # c
  BY <1>2, TailIs
<1>4. c \in B /\ t.idom[c] = top.b /\ c \notin V /\ c # Entry
  <2>1. t.idom[c] = top.b /\ c \notin V BY <1>2, <1>3
  <2>2. t.idom[Entry] = None /\ None \notin B BY DEF IsTree, Shape
  <2> QED BY <1>2, <1>3, <2>1, <2>2
<1>5. Dom(g, c) = {c} \cup Dom(g, top.b) /\ c \notin Dom(g, top.b) BY <1>4, ParentIs
<1>6. a = [b |-> top.b, todo |-> Tail(top.todo)] /\ a \in T /\ d = [b |-> c, todo |-> t.kids[c]] /\ d \in T
  <2>1. top \in T BY <1>1
  <2>2. t.kids[c] \in Seq(B) BY <1>0, <1>4, ShapeIs
  <2>3. d = [b |-> c, todo |-> t.kids[c]] /\ d \in T BY <1>4, <2>2 DEF Frame
  <2> DEFINE z == Tail(top.todo)
  <2>4. z \in Seq(B) BY <1>3
  <2>5. a = [top EXCEPT !.todo = z] OBVIOUS
  <2> HIDE DEF z, top, a, d
  <2>6. a = [b |-> top.b, todo |-> z] BY <2>1, <2>5
  <2>7. a \in T BY <1>2, <2>4, <2>6
  <2> QED BY <2>3, <2>6, <2>7 DEF z
<1>7. /\ new \in Seq(T) /\ Len(new) = l + 1 /\ new[l] = a /\ new[l + 1] = d
      /\ \A i \in 1 .. l - 1 : new[i] = stack[i]
  <2>1. Front(stack) \in Seq(T) /\ a \in T /\ d \in T /\ Len(Front(stack)) = l - 1 BY <1>1, <1>6
  <2> HIDE DEF T, a, d, stack, l
  <2>2. /\ new \in Seq(T) /\ Len(new) = Len(Front(stack)) + 2
        /\ new[Len(Front(stack)) + 1] = a /\ new[Len(Front(stack)) + 2] = d
        /\ \A i \in 1 .. Len(Front(stack)) : new[i] = Front(stack)[i]
    BY <2>1, TwoMore
  <2>3. Len(Front(stack)) + 1 = l /\ Len(Front(stack)) + 2 = l + 1 BY <1>1, <2>1
  <2>4. \A i \in 1 .. l - 1 : Front(stack)[i] = stack[i] BY <1>1
  <2> HIDE DEF new
  <2> QED BY <2>1, <2>2, <2>3, <2>4
<1>8. NumberNext(t, s, n + 1) = [stack |-> new, num |-> num] BY DEF NumberNext
<1>9. /\ \A i \in 1 .. Len(new) : i \in 1 .. l - 1 \/ i = l \/ i = l + 1
      /\ \A i \in 1 .. l : new[i].b = stack[i].b /\ i \in 1 .. l + 1
      /\ new[l + 1].b = c /\ new[l].todo = Tail(top.todo) /\ new[l + 1].todo = t.kids[c]
  <2>1. a.b = top.b /\ a.todo = Tail(top.todo) /\ d.b = c /\ d.todo = t.kids[c]
    <3> HIDE DEF a, d, top
    <3> QED BY <1>6
  <2> HIDE DEF new, a, d, top, T, l
  <2>2. \A i \in 1 .. l : i \in 1 .. l + 1 /\ (i \in 1 .. l - 1 \/ i = l) BY <1>1
  <2>3. \A i \in 1 .. l : new[i].b = stack[i].b BY <1>1, <1>7, <2>1, <2>2
  <2>4. \A i \in 1 .. Len(new) : i \in 1 .. l - 1 \/ i = l \/ i = l + 1 BY <1>1, <1>7
  <2> QED BY <1>7, <2>1, <2>2, <2>3, <2>4
<1> HIDE DEF top, new, a, d, T
<1>10. \A i, j \in 1 .. l : stack[i].b = stack[j].b => i = j BY DEF Visiting, StackOK
<1>11. \A i \in 1 .. l : stack[i].b \in V \ F BY DEF Visiting, StackOK
<1>12. StackOK(g, t, new, W, F)
  <2>1. new \in Seq([b : B, todo : Seq(B)]) BY <1>7 DEF T
  <2>2. \A i \in 1 .. Len(new) : new[i].b \in W \ F BY <1>0, <1>1, <1>4, <1>9, <1>11
  <2>3. \A x \in W \ F : \E i \in 1 .. Len(new) : new[i].b = x
    <3>1. ASSUME NEW x \in W \ F PROVE \E i \in 1 .. Len(new) : new[i].b = x
      <4>1. CASE x = c BY <1>1, <1>7, <1>9, <4>1
      <4>2. CASE x # c
        <5>1. PICK i \in 1 .. l : stack[i].b = x BY <4>2 DEF Visiting, StackOK
        <5> QED BY <1>7, <1>9, <5>1
      <4> QED BY <4>1, <4>2
    <3> QED BY <3>1
  <2>4. \A i, j \in 1 .. Len(new) : new[i].b = new[j].b => i = j
    <3>1. \A i \in 1 .. l : new[i].b # c BY <1>4, <1>9, <1>11
    <3>2. \A i \in 1 .. Len(new) : i \in 1 .. l \/ i = l + 1 BY <1>1, <1>7
    <3> QED BY <1>9, <1>10, <3>1, <3>2
  <2>5. \A i \in 1 .. Len(new) : i > 1 => new[i].b # Entry /\ t.idom[new[i].b] = new[i - 1].b
    <3>1. ASSUME NEW i \in 1 .. Len(new), i > 1 PROVE new[i].b # Entry /\ t.idom[new[i].b] = new[i - 1].b
      <4>1. CASE i = l + 1
        <5>1. i - 1 = l /\ l \in 1 .. l BY <1>1, <4>1
        <5> QED BY <1>1, <1>4, <1>9, <4>1, <5>1
      <4>2. CASE i # l + 1
        <5>1. i \in 1 .. l /\ i - 1 \in 1 .. l BY <1>1, <1>7, <3>1, <4>2
        <5>2. stack[i].b # Entry /\ t.idom[stack[i].b] = stack[i - 1].b BY <3>1, <5>1 DEF Visiting, StackOK
        <5> QED BY <1>9, <5>1, <5>2
      <4> QED BY <4>1, <4>2
    <3> QED BY <3>1
  <2>6. \A x \in W \ F : x \in Dom(g, new[Len(new)].b)
    <3>1. \A x \in V \ F : x \in Dom(g, stack[l].b) BY DEF Visiting, StackOK
    <3> QED BY <1>1, <1>5, <1>7, <1>9, <3>1
  <2>7. ASSUME NEW i \in 1 .. Len(new)
        PROVE  /\ OneByOne(new[i].todo)
               /\ \A x \in B : Occurs(new[i].todo, x) <=> t.idom[x] = new[i].b /\ x \notin W
    <3>1. CASE i = l + 1
      <4>1. OneByOne(t.kids[c]) /\ \A x \in B : Occurs(t.kids[c], x) <=> t.idom[x] = c
        BY <1>0, <1>4 DEF Shape
      <4>2. \A x \in B : t.idom[x] = c => x \notin W
        <5>1. ASSUME NEW x \in B, t.idom[x] = c, x \in V PROVE FALSE
          <6>1. x # Entry BY <1>0, <1>4, <5>1 DEF IsTree, Shape
          <6>2. c \in Dom(g, x) BY <5>1, <6>1, ParentIs
          <6>3. Dom(g, x) \subseteq V BY <5>1 DEF Visiting, Seen
          <6> QED BY <1>4, <6>2, <6>3
        <5>2. t.idom[c] # c BY <1>4, ParentIs
        <5> QED BY <5>1, <5>2
      <4> QED BY <1>9, <3>1, <4>1, <4>2
    <3>2. CASE i = l
      <4>1. new[i].todo = Tail(top.todo) /\ new[i].b = top.b
        <5>1. l \in 1 .. l BY <1>1
        <5> QED BY <1>1, <1>9, <3>2, <5>1
      <4> QED BY <1>2, <1>3, <4>1
    <3>3. CASE i \in 1 .. l - 1
      <4>1. i \in 1 .. l /\ new[i] = stack[i] /\ i # l /\ l \in 1 .. l BY <1>1, <1>7, <3>3
      <4>2. OneByOne(stack[i].todo)
            /\ \A x \in B : Occurs(stack[i].todo, x) <=> t.idom[x] = stack[i].b /\ x \notin V
        BY <4>1 DEF Visiting, StackOK
      <4>3. stack[i].b # top.b BY <1>1, <1>10, <4>1
      <4> QED BY <1>4, <4>1, <4>2, <4>3
    <3> QED BY <1>9, <3>1, <3>2, <3>3
  <2> HIDE DEF W
  <2> QED BY <2>1, <2>2, <2>3, <2>4, <2>5, <2>6, <2>7 DEF StackOK
<1>13. Seen(g, W, F, n + 1)
  <2>0. Seen(g, V, F, n) BY DEF Visiting
  <2>1. IsFiniteSet(V) /\ IsFiniteSet(F)
    <3>1. V \in SUBSET B /\ F \in SUBSET B /\ IsFiniteSet(B) BY <1>0 DEF CFG, Flow
    <3> QED BY <3>1, FS_Subset
  <2>2. Cardinality(W) = Cardinality(V) + 1 /\ Cardinality(V) \in Nat /\ Cardinality(F) \in Nat
    BY <1>4, <2>1, FS_AddElement, FS_CardinalityType
  <2>3. Cardinality(W) + Cardinality(F) = n + 1 + 1 BY <2>0, <2>2 DEF Seen
  <2>4. \A x \in W : Dom(g, x) \subseteq W BY <1>2, <1>5, <2>0 DEF Seen
  <2> QED BY <1>4, <2>0, <2>3, <2>4 DEF Seen
<1>14. Intervals(g, num, W, F, n + 1)
  <2>0. Intervals(g, s.num, V, F, n) BY DEF Visiting
  <2>1. s.num \in [B -> [in : Int, out : Int]] BY <2>0 DEF Intervals
  <2>2. /\ num \in [B -> [in : Int, out : Int]] /\ num[c].in = n + 1
        /\ \A x \in B : x # c => num[x] = s.num[x] BY <1>4, <2>1
  <2> HIDE DEF num
  <2>3. \A x \in V : x # c /\ x \in B /\ num[x] = s.num[x] BY <1>0, <1>4, <2>2
  <2>4. \A x \in B : num[x].in \in Int /\ num[x].out \in Int BY <2>2
  <2>5. \A x \in V : num[x].in <= n /\ num[x].in < n + 1 BY <2>0, <2>3, <2>4 DEF Intervals
  <2>6. \A x \in W : num[x].in <= n + 1 BY <2>2, <2>3, <2>4, <2>5
  <2>7. \A x \in F : num[x].in < num[x].out /\ num[x].out <= n BY <1>0, <2>0, <2>3 DEF Intervals
  <2>8. \A x \in F : num[x].out <= n + 1 /\ num[x].out < n + 1 BY <1>0, <2>4, <2>7
  <2>9. ASSUME NEW x \in W, NEW y \in W, x \in Dom(g, y), x # y
        PROVE  num[x].in < num[y].in /\ (x \in F => num[y].out < num[x].out)
    <3>1. CASE x = c
      <4>1. y \in V /\ Dom(g, y) \subseteq V BY <2>9, <3>1 DEF Visiting, Seen
      <4> QED BY <1>4, <2>9, <3>1, <4>1
    <3>2. CASE y = c
      <4>1. x \in V BY <2>9, <3>2
      <4>2. x \notin F
        <5>1. x \in F => c \in F BY <1>4, <2>9, <3>2 DEF Visiting, Seen
        <5> QED BY <1>0, <1>4, <5>1
      <4> QED BY <2>2, <2>5, <3>2, <4>1, <4>2
    <3>3. CASE x # c /\ y # c
      <4>1. x \in V /\ y \in V BY <3>3
      <4>2. s.num[x].in < s.num[y].in /\ (x \in F => s.num[y].out < s.num[x].out)
        BY <2>0, <2>9, <4>1 DEF Intervals
      <4> QED BY <2>3, <4>1, <4>2
    <3> QED BY <3>1, <3>2, <3>3
  <2>10. ASSUME NEW x \in V, x \notin Dom(g, c) PROVE Apart(num, F, x, c)
    <3>1. \A z \in V \ F : z \in Dom(g, stack[l].b) BY DEF Visiting, StackOK
    <3>2. x \in F BY <1>1, <1>5, <2>10, <3>1
    <3> QED BY <2>2, <2>8, <3>2 DEF Apart
  <2>11. ASSUME NEW x \in W, NEW y \in W, x \notin Dom(g, y), y \notin Dom(g, x)
         PROVE  Apart(num, F, x, y) \/ Apart(num, F, y, x)
    <3>1. CASE x = c
      <4>1. c \in Dom(g, c) BY <1>4, DomEnds
      <4>2. y \in V BY <2>11, <3>1, <4>1
      <4> QED BY <2>10, <2>11, <3>1, <4>2
    <3>2. CASE y = c
      <4>1. c \in Dom(g, c) BY <1>4, DomEnds
      <4>2. x \in V BY <2>11, <3>2, <4>1
      <4> QED BY <2>10, <2>11, <3>2, <4>2
    <3>3. CASE x # c /\ y # c
      <4>1. x \in V /\ y \in V BY <3>3
      <4>2. Apart(s.num, F, x, y) \/ Apart(s.num, F, y, x) BY <2>0, <2>11, <4>1 DEF Intervals
      <4> QED BY <2>3, <4>1, <4>2 DEF Apart
    <3> QED BY <3>1, <3>2, <3>3
  <2> HIDE DEF W
  <2> QED BY <2>2, <2>6, <2>7, <2>8, <2>9, <2>11 DEF Intervals
<1> DEFINE r == NumberNext(t, s, n + 1)
<1>15. r.stack = new /\ r.num = num BY <1>8
<1> HIDE DEF r, num, W
<1>16. Visiting(g, t, r, n + 1, W, F) BY <1>12, <1>13, <1>14, <1>15 DEF Visiting
<1> QED BY <1>16 DEF r, W
(* The top, whose children have all been seen, is finished. *)
LEMMA NumberFinishes ==
  ASSUME NEW g, CFG(g), NEW t, IsTree(g, t), NEW s, NEW n \in Nat, NEW V, NEW F, Visiting(g, t, s, n, V, F),
         s.stack # << >>, Last(s.stack).todo = << >>, NEW c, c = Last(s.stack).b
  PROVE  Visiting(g, t, NumberNext(t, s, n + 1), n + 1, V, F \cup {c})
<1> DEFINE B == DOMAIN g
           stack == s.stack
           l == Len(stack)
           T == [b : B, todo : Seq(B)]
           new == Front(stack)
           num == [s.num EXCEPT ![c].out = n + 1]
           G == F \cup {c}
<1>0. stack \in Seq(T) /\ Shape(t, B) /\ V \subseteq B /\ F \subseteq V BY DEF Visiting, StackOK, Seen, IsTree
<1>1. /\ new \in Seq(T) /\ Len(new) = l - 1 /\ l \in Nat \ {0}
      /\ (\A i \in 1 .. l - 1 : new[i] = stack[i]) /\ c = stack[l].b /\ stack[l].todo = << >>
  BY <1>0, FrontIs
<1>2. c \in V \ F /\ c \in B /\ \A x \in B : t.idom[x] = c => x \in V
  <2>1. l \in 1 .. l BY <1>1
  <2>2. \A x \in B : Occurs(stack[l].todo, x) <=> t.idom[x] = c /\ x \notin V
    <3>1. \A i \in 1 .. l : \A x \in B : Occurs(stack[i].todo, x) <=> t.idom[x] = stack[i].b /\ x \notin V
      BY DEF Visiting, StackOK
    <3> HIDE DEF l, stack
    <3> QED BY <1>1, <2>1, <3>1
  <2>3. \A x : ~Occurs(stack[l].todo, x) BY <1>1 DEF Occurs
  <2>4. c \in V \ F BY <1>1, <2>1 DEF Visiting, StackOK
  <2> QED BY <1>0, <2>2, <2>3, <2>4
<1>3. \A x \in V \ F : x \in Dom(g, c) BY <1>1 DEF Visiting, StackOK
<1>4. NumberNext(t, s, n + 1) = [stack |-> new, num |-> num] BY DEF NumberNext
<1> HIDE DEF new, T
<1>5. \A i \in 1 .. Len(new) : i \in 1 .. l /\ i # l /\ new[i] = stack[i] /\ new[i].b # c
  <2>1. \A i, j \in 1 .. l : stack[i].b = stack[j].b => i = j BY DEF Visiting, StackOK
  <2>2. l \in 1 .. l /\ \A i \in 1 .. Len(new) : i \in 1 .. l - 1 /\ i \in 1 .. l /\ i # l BY <1>1
  <2>3. \A i \in 1 .. l : stack[i].b = c => i = l BY <1>1, <2>1, <2>2
  <2>4. \A i \in 1 .. Len(new) : new[i] = stack[i] BY <1>1, <2>2
  <2> QED BY <2>2, <2>3, <2>4
<1>6. StackOK(g, t, new, V, G)
  <2>1. new \in Seq([b : B, todo : Seq(B)]) BY <1>1 DEF T
  <2>2. \A i \in 1 .. Len(new) : new[i].b \in V \ G
    <3>1. \A i \in 1 .. l : stack[i].b \in V \ F BY DEF Visiting, StackOK
    <3> QED BY <1>5, <3>1
  <2>3. \A x \in V \ G : \E i \in 1 .. Len(new) : new[i].b = x
    <3>1. ASSUME NEW x \in V \ G PROVE \E i \in 1 .. Len(new) : new[i].b = x
      <4>1. PICK i \in 1 .. l : stack[i].b = x BY DEF Visiting, StackOK
      <4>2. i # l BY <1>1, <3>1, <4>1
      <4>3. i \in 1 .. l - 1 /\ i \in 1 .. Len(new) BY <1>1, <4>1, <4>2
      <4> QED BY <1>1, <4>1, <4>3
    <3> QED BY <3>1
  <2>4. \A i, j \in 1 .. Len(new) : new[i].b = new[j].b => i = j
    <3>1. \A i, j \in 1 .. l : stack[i].b = stack[j].b => i = j BY DEF Visiting, StackOK
    <3> QED BY <1>5, <3>1
  <2>5. \A i \in 1 .. Len(new) : i > 1 => new[i].b # Entry /\ t.idom[new[i].b] = new[i - 1].b
    <3>1. ASSUME NEW i \in 1 .. Len(new), i > 1 PROVE new[i].b # Entry /\ t.idom[new[i].b] = new[i - 1].b
      <4>1. i - 1 \in 1 .. Len(new) BY <1>1, <3>1
      <4>2. stack[i].b # Entry /\ t.idom[stack[i].b] = stack[i - 1].b BY <1>5, <3>1 DEF Visiting, StackOK
      <4> QED BY <1>5, <4>1, <4>2
    <3> QED BY <3>1
  <2>6. ASSUME new # << >> PROVE \A x \in V \ G : x \in Dom(g, new[Len(new)].b)
    <3>1. Len(new) # 0 BY <1>1, <2>6
    <3>2. l \in 1 .. l /\ l > 1 /\ l - 1 \in 1 .. l - 1 /\ Len(new) = l - 1
      <4> HIDE DEF l
      <4> QED BY <1>1, <3>1
    <3>3. c # Entry /\ t.idom[c] = stack[l - 1].b BY <1>1, <3>2 DEF Visiting, StackOK
    <3>4. Dom(g, c) = {c} \cup Dom(g, t.idom[c]) BY <1>2, <3>3, ParentIs
    <3>5. new[Len(new)].b = t.idom[c] BY <1>1, <3>2, <3>3
    <3> QED BY <1>3, <3>4, <3>5
  <2>7. \A i \in 1 .. Len(new) :
          /\ OneByOne(new[i].todo)
          /\ \A x \in B : Occurs(new[i].todo, x) <=> t.idom[x] = new[i].b /\ x \notin V
    BY <1>5 DEF Visiting, StackOK
  <2> HIDE DEF G
  <2> QED BY <2>1, <2>2, <2>3, <2>4, <2>5, <2>6, <2>7 DEF StackOK
<1>7. Seen(g, V, G, n + 1)
  <2>0. Seen(g, V, F, n) BY DEF Visiting
  <2>1. IsFiniteSet(V) /\ IsFiniteSet(F)
    <3>1. V \in SUBSET B /\ F \in SUBSET B /\ IsFiniteSet(B) BY <1>0 DEF CFG, Flow
    <3> QED BY <3>1, FS_Subset
  <2>2. Cardinality(G) = Cardinality(F) + 1 /\ Cardinality(V) \in Nat /\ Cardinality(F) \in Nat
    BY <1>2, <2>1, FS_AddElement, FS_CardinalityType
  <2>3. Cardinality(V) + Cardinality(G) = n + 1 + 1 BY <2>0, <2>2 DEF Seen
  <2>4. ASSUME NEW x \in G, NEW y \in B, x \in Dom(g, y) PROVE y \in G
    <3>1. CASE x \in F BY <2>0, <2>4, <3>1 DEF Seen
    <3>2. CASE x = c /\ y # c
      <4>1. \A b \in B \ {Entry} : IsIdom(g, t.idom[b], b) BY DEF IsTree
      <4> DEFINE idom == t.idom
      <4> HIDE DEF idom
      <4>2. \A b \in B \ {Entry} : IsIdom(g, idom[b], b) BY <4>1 DEF idom
      <4>3. PICK k \in B \ {Entry} : idom[k] = c /\ k \in Dom(g, y) BY <1>2, <2>4, <3>2, <4>2, Child
      <4>4. k \in V /\ c \in Dom(g, k) /\ k # c /\ k \notin Dom(g, c)
        <5>1. t.idom[k] = c BY <4>3 DEF idom
        <5> QED BY <1>2, <5>1, ParentIs
      <4>5. k \in F BY <1>3, <4>4
      <4> QED BY <2>0, <4>3, <4>5 DEF Seen
    <3> QED BY <3>1, <3>2
  <2> QED BY <1>2, <2>0, <2>3, <2>4 DEF Seen
<1>8. Intervals(g, num, V, G, n + 1)
  <2>0. Intervals(g, s.num, V, F, n) BY DEF Visiting
  <2>1. s.num \in [B -> [in : Int, out : Int]] BY <2>0 DEF Intervals
  <2>2. /\ num \in [B -> [in : Int, out : Int]] /\ num[c].out = n + 1 /\ num[c].in = s.num[c].in
        /\ \A x \in B : x # c => num[x] = s.num[x] BY <1>2, <2>1
  <2> HIDE DEF num
  <2>3. \A x \in B : num[x].in = s.num[x].in BY <2>2
  <2>4. \A x \in F : x # c /\ x \in B /\ x \in V /\ num[x].out = s.num[x].out BY <1>0, <1>2, <2>2
  <2>5. \A x \in B : num[x].in \in Int /\ num[x].out \in Int BY <2>2
  <2>6. \A x \in V : num[x].in <= n BY <1>0, <2>0, <2>3 DEF Intervals
  <2>7. \A x \in V : num[x].in <= n + 1 /\ num[x].in < n + 1 BY <1>0, <2>5, <2>6
  <2>8. \A x \in F : num[x].in < num[x].out /\ num[x].out <= n BY <2>0, <2>3, <2>4 DEF Intervals
  <2>9. \A x \in G : num[x].in < num[x].out /\ num[x].out <= n + 1
    BY <1>2, <2>2, <2>4, <2>5, <2>7, <2>8
  <2>10. ASSUME NEW x \in V, NEW y \in V, x \in Dom(g, y), x # y
         PROVE  num[x].in < num[y].in /\ (x \in G => num[y].out < num[x].out)
    <3>1. s.num[x].in < s.num[y].in /\ (x \in F => s.num[y].out < s.num[x].out)
      BY <2>0, <2>10 DEF Intervals
    <3>2. num[x].in < num[y].in BY <1>0, <2>3, <3>1
    <3>3. CASE x \in F
      <4>1. y \in F BY <1>0, <2>10, <3>3 DEF Visiting, Seen
      <4> QED BY <2>4, <3>1, <3>2, <3>3, <4>1
    <3>4. CASE x = c
      <4>1. y \in G BY <1>0, <1>7, <2>10, <3>4 DEF Seen
      <4>2. y \in F BY <2>10, <3>4, <4>1
      <4>3. num[y].out <= n /\ num[y].out \in Int BY <2>4, <2>5, <2>8, <4>2
      <4>4. num[y].out < n + 1 BY <4>3
      <4> QED BY <2>2, <3>2, <3>4, <4>4
    <3> QED BY <3>2, <3>3, <3>4
  <2>11. ASSUME NEW x \in V, NEW y \in V, x \notin Dom(g, y), y \notin Dom(g, x)
         PROVE  Apart(num, G, x, y) \/ Apart(num, G, y, x)
    <3>1. Apart(s.num, F, x, y) \/ Apart(s.num, F, y, x) BY <2>0, <2>11 DEF Intervals
    <3> QED BY <1>0, <2>3, <2>4, <3>1 DEF Apart
  <2> HIDE DEF G
  <2> QED BY <2>2, <2>7, <2>9, <2>10, <2>11 DEF Intervals
<1> DEFINE r == NumberNext(t, s, n + 1)
<1>9. r.stack = new /\ r.num = num BY <1>4
<1> HIDE DEF r, num, G
<1>10. Visiting(g, t, r, n + 1, V, G) BY <1>6, <1>7, <1>8, <1>9 DEF Visiting
<1> QED BY <1>10 DEF r, G

(* When as many steps are made as there are numbers, all is finished. *)
LEMMA NumberEnds ==
  ASSUME NEW g, CFG(g), NEW t, IsTree(g, t), NEW s, NEW n \in Nat, NEW V, NEW F, Visiting(g, t, s, n, V, F)
  PROVE  /\ s.stack = << >> \/ n = 2 * Cardinality(DOMAIN g) - 1 => F = DOMAIN g /\ V = DOMAIN g
         /\ s.stack = << >> => n = 2 * Cardinality(DOMAIN g) - 1
         /\ Cardinality(DOMAIN g) \in Nat \ {0}
<1> DEFINE B == DOMAIN g
<1>0. V \subseteq B /\ F \subseteq V /\ Entry \in V /\ Cardinality(V) + Cardinality(F) = n + 1
  BY DEF Visiting, Seen
<1>1. V \in SUBSET B /\ F \in SUBSET B /\ IsFiniteSet(B) BY <1>0 DEF CFG, Flow
<1>2. /\ Cardinality(V) \in Nat /\ Cardinality(F) \in Nat /\ Cardinality(B) \in Nat
      /\ Cardinality(V) <= Cardinality(B) /\ Cardinality(F) <= Cardinality(B)
      /\ (Cardinality(B) = Cardinality(F) => B = F) /\ (Cardinality(B) = Cardinality(V) => B = V)
  BY <1>1, FS_Subset, FS_CardinalityType
<1>3. Cardinality(B) # 0 BY <1>0, <1>1, FS_EmptySet
<1>4. ASSUME s.stack = << >> PROVE F = B /\ V = B
  <2>1. \A i \in 1 .. Len(s.stack) : FALSE BY <1>4
  <2>2. V \ F = {} BY <2>1 DEF Visiting, StackOK
  <2>3. Entry \in F BY <1>0, <2>2
  <2>4. \A y \in B : Entry \in Dom(g, y) BY DomEnds
  <2>5. B \subseteq F BY <2>3, <2>4 DEF Visiting, Seen
  <2> QED BY <1>0, <2>5
<1>5. ASSUME n = 2 * Cardinality(B) - 1 PROVE F = B /\ V = B
  <2>1. Cardinality(V) + Cardinality(F) = 2 * Cardinality(B) BY <1>0, <1>2, <1>5
  <2>2. Cardinality(V) = Cardinality(B) /\ Cardinality(F) = Cardinality(B) BY <1>2, <2>1
  <2> QED BY <1>2, <2>2
<1>6. ASSUME s.stack = << >> PROVE n = 2 * Cardinality(B) - 1
  <2>1. Cardinality(B) + Cardinality(B) = n + 1 BY <1>0, <1>4, <1>6
  <2> QED BY <1>2, <2>1
<1> QED BY <1>2, <1>3, <1>4, <1>5, <1>6

LEMMA UpTo ==
  ASSUME NEW n \in Nat, NEW S, 0 \in S, \A i \in 0 .. n - 1 : i \in S => i + 1 \in S
  PROVE  \A i \in 0 .. n : i \in S
<1> DEFINE T == {i \in 0 .. n : i \notin S}
<1>1. SUFFICES ASSUME T # {} PROVE FALSE OBVIOUS
<1>2. T \subseteq Nat OBVIOUS
<1> HIDE DEF T
<1>3. PICK k \in T : \A m \in T : k <= m BY <1>1, <1>2, LeastNumber
<1> USE DEF T
<1>4. k # 0 /\ k - 1 \in 0 .. n - 1 OBVIOUS
<1>5. k - 1 \in S BY <1>3, <1>4
<1>6. k - 1 + 1 = k BY <1>4
<1> QED BY <1>4, <1>5, <1>6

(* The states of the walk. *)
WalkStart(t) == [stack |-> <<Frame(t, Entry)>>, num |-> [t.num EXCEPT ![Entry].in = 0]]
IsWalk(t, n, f) ==
  f = [i \in 0 .. n |-> IF i = 0 THEN WalkStart(t) ELSE NumberNext(t, f[i - 1], i)]

LEMMA WalkUnfolds ==
  ASSUME NEW t, NEW n \in Nat
  PROVE  \E f : IsWalk(t, n, f)
<1> DEFINE start == WalkStart(t)
           S == {k \in 0 .. n : \E f : IsWalk(t, k, f)}
<1> HIDE DEF start
<1>1. 0 \in S
  <2> DEFINE f == [i \in 0 .. 0 |-> start]
  <2>1. IsWalk(t, 0, f) BY DEF IsWalk, start
  <2> HIDE DEF f
  <2> QED BY <2>1
<1>2. ASSUME NEW k \in 0 .. n - 1, k \in S PROVE k + 1 \in S
  <2>1. PICK f : IsWalk(t, k, f) BY <1>2
  <2> DEFINE h == [i \in 0 .. k + 1 |-> IF i <= k THEN f[i] ELSE NumberNext(t, f[k], k + 1)]
  <2>2. ASSUME NEW i \in 0 .. k + 1 PROVE h[i] = IF i = 0 THEN start ELSE NumberNext(t, h[i - 1], i)
    <3>1. CASE i = 0 BY <2>1, <3>1 DEF IsWalk, start
    <3>2. CASE i # 0 /\ i <= k
      <4>1. h[i] = f[i] /\ h[i - 1] = f[i - 1] BY <3>2
      <4>2. f[i] = NumberNext(t, f[i - 1], i) BY <2>1, <3>2 DEF IsWalk
      <4> QED BY <3>2, <4>1, <4>2
    <3>3. CASE i = k + 1
      <4>1. h[i] = NumberNext(t, f[k], k + 1) /\ h[i - 1] = f[k] /\ i # 0 BY <3>3
      <4> QED BY <3>3, <4>1
    <3> QED BY <3>1, <3>2, <3>3
  <2>3. IsWalk(t, k + 1, h)
    <3>1. h = [i \in 0 .. k + 1 |-> h[i]] OBVIOUS
    <3> HIDE DEF h
    <3> QED BY <2>2, <3>1 DEF IsWalk, start
  <2>4. k + 1 \in 0 .. n OBVIOUS
  <2> QED BY <2>3, <2>4
<1> HIDE DEF S
<1>3. \A k \in 0 .. n : k \in S BY <1>1, <1>2, UpTo
<1>4. n \in S BY <1>3
<1> QED BY <1>4 DEF S

LEMMA NumbersAreExact ==
  ASSUME NEW g, CFG(g), NEW t, IsTree(g, t), NEW num, num = Number(t)
  PROVE  /\ num \in [DOMAIN g -> [in : Int, out : Int]]
         /\ \A a, b \in DOMAIN g : num[b].in >= num[a].in /\ num[b].out <= num[a].out <=> a \in Dom(g, b)
<1> DEFINE B == DOMAIN g
           last == 2 * Cardinality(B) - 1
           f == CHOOSE f : IsWalk(t, last, f)
           S == {n \in 0 .. last : \E V, F : Visiting(g, t, f[n], n, V, F)}
<1>0. Visiting(g, t, WalkStart(t), 0, {Entry}, {})
  BY NumberStarts DEF WalkStart
<1>1. Cardinality(B) \in Nat \ {0} BY <1>0, NumberEnds
<1>2. last \in Nat BY <1>1
<1>3. Nodes(t) = B BY ShapeIs DEF Nodes, IsTree
<1>4. Number(t) = f[last].num BY <1>3 DEF Number, IsWalk, WalkStart
<1>5. IsWalk(t, last, f)
  <2> HIDE DEF last
  <2> QED BY <1>2, WalkUnfolds
<1> HIDE DEF f, last
<1>6. 0 \in S
  <2>1. f[0] = WalkStart(t)
    BY <1>2, <1>5 DEF IsWalk
  <2> QED BY <1>0, <1>2, <2>1
<1>7. ASSUME NEW n \in 0 .. last - 1, n \in S PROVE n + 1 \in S
  <2> DEFINE s == f[n]
  <2>1. PICK V, F : Visiting(g, t, s, n, V, F) BY <1>7
  <2>2. n + 1 \in 0 .. last /\ n \in Nat /\ n + 1 # 0 /\ n + 1 - 1 = n /\ n # last BY <1>2
  <2>3. f[n + 1] = NumberNext(t, s, n + 1)
    <3>1. \A i \in 0 .. last : i # 0 => f[i] = NumberNext(t, f[i - 1], i) BY <1>5 DEF IsWalk
    <3>2. f[n + 1] = NumberNext(t, f[n + 1 - 1], n + 1) BY <2>2, <3>1
    <3> QED BY <2>2, <3>2
  <2> HIDE DEF s
  <2>4. s.stack # << >> BY <2>1, <2>2, NumberEnds DEF last
  <2>5. \E W, G : Visiting(g, t, NumberNext(t, s, n + 1), n + 1, W, G)
    <3>1. CASE Last(s.stack).todo = << >> BY <2>1, <2>2, <2>4, <3>1, NumberFinishes
    <3>2. CASE Last(s.stack).todo # << >> BY <2>1, <2>2, <2>4, <3>2, NumberSees
    <3> QED BY <3>1, <3>2
  <2> QED BY <2>2, <2>3, <2>5
<1>8. last \in S
  <2> HIDE DEF S
  <2>1. \A n \in 0 .. last : n \in S BY <1>2, <1>6, <1>7, UpTo
  <2> QED BY <1>2, <2>1
<1>9. PICK V, F : Visiting(g, t, f[last], last, V, F) BY <1>8
<1>10. V = B /\ F = B BY <1>2, <1>9, NumberEnds DEF last
<1>11. Intervals(g, num, B, B, last) BY <1>4, <1>9, <1>10 DEF Visiting
<1>12. num \in [B -> [in : Int, out : Int]] BY <1>11 DEF Intervals
<1>13. ASSUME NEW a \in B, NEW b \in B
       PROVE  num[b].in >= num[a].in /\ num[b].out <= num[a].out <=> a \in Dom(g, b)
  <2>0. num[a].in \in Int /\ num[a].out \in Int /\ num[b].in \in Int /\ num[b].out \in Int BY <1>12
  <2>1. CASE a = b BY <2>0, <2>1, DomEnds
  <2>2. CASE a # b /\ a \in Dom(g, b)
    <3>1. num[a].in < num[b].in /\ num[b].out < num[a].out BY <1>11, <2>2 DEF Intervals
    <3> QED BY <2>0, <2>2, <3>1
  <2>3. CASE a # b /\ a \notin Dom(g, b) /\ b \in Dom(g, a)
    <3>1. num[b].in < num[a].in BY <1>11, <2>3 DEF Intervals
    <3> QED BY <2>0, <2>3, <3>1
  <2>4. CASE a \notin Dom(g, b) /\ b \notin Dom(g, a)
    <3>1. num[a].in < num[a].out /\ num[b].in < num[b].out BY <1>11 DEF Intervals
    <3>2. num[a].out < num[b].in \/ num[b].out < num[a].in BY <1>11, <2>4 DEF Intervals, Apart
    <3> QED BY <2>0, <2>4, <3>1, <3>2
  <2> QED BY <2>1, <2>2, <2>3, <2>4
<1> QED BY <1>12, <1>13

LEMMA NumberingIs ==
  ASSUME NEW g, CFG(g), NEW t, IsTree(g, t)
  PROVE  TreeInv(g, UpdateDFSNumbers(t))
<1> DEFINE r == UpdateDFSNumbers(t)
           num == Number(t)
<1>0. t \in Trees(DOMAIN g) BY DEF IsTree, Shape
<1>1. num \in [DOMAIN g -> [in : Int, out : Int]] BY NumbersAreExact
<1>2. r = [t EXCEPT !.num = num, !.slow = 0, !.valid = TRUE] BY DEF UpdateDFSNumbers
<1> HIDE DEF num, r
<1>3. r \in Trees(DOMAIN g) /\ r.idom = t.idom /\ r.kids = t.kids /\ r.num = num BY <1>0, <1>1, <1>2 DEF Trees
<1>4. Shape(r, DOMAIN g) BY <1>3 DEF Shape, IsTree
<1>5. IsTree(g, r) BY <1>3, <1>4 DEF IsTree
<1>6. Numbered(g, r)
  <2>1. num = Number(t) BY DEF num
  <2> QED BY <1>3, <2>1, NumbersAreExact DEF Numbered, DominatedBy
<1>7. TreeInv(g, r) BY <1>5, <1>6 DEF TreeInv
<1> QED BY <1>7 DEF r
-----------------------------------------------------------------------------
(* What a new computation gives: nodes are added under nodes that are there. *)
BuildNext(t, idoms) ==
  LET b == CHOOSE x \in DOMAIN idoms \ Nodes(t) : idoms[x] \in Nodes(t)
  IN  AddNewBlock(t, b, idoms[b])
IsBuilt(root, idoms, n, f) == f = [k \in 0 .. n |-> IF k = 0 THEN root ELSE BuildNext(f[k - 1], idoms)]

LEMMA BuildUnfolds ==
  ASSUME NEW root, NEW idoms, NEW n \in Nat
  PROVE  \E f : IsBuilt(root, idoms, n, f)
<1> DEFINE S == {k \in 0 .. n : \E f : IsBuilt(root, idoms, k, f)}
<1>1. 0 \in S
  <2> DEFINE f == [i \in 0 .. 0 |-> root]
  <2>1. IsBuilt(root, idoms, 0, f) BY DEF IsBuilt
  <2> HIDE DEF f
  <2> QED BY <2>1
<1>2. ASSUME NEW k \in 0 .. n - 1, k \in S PROVE k + 1 \in S
  <2>1. PICK f : IsBuilt(root, idoms, k, f) BY <1>2
  <2> DEFINE h == [i \in 0 .. k + 1 |-> IF i <= k THEN f[i] ELSE BuildNext(f[k], idoms)]
  <2>2. ASSUME NEW i \in 0 .. k + 1 PROVE h[i] = IF i = 0 THEN root ELSE BuildNext(h[i - 1], idoms)
    <3>1. CASE i = 0 BY <2>1, <3>1 DEF IsBuilt
    <3>2. CASE i # 0 /\ i <= k
      <4>1. h[i] = f[i] /\ h[i - 1] = f[i - 1] BY <3>2
      <4>2. f[i] = BuildNext(f[i - 1], idoms) BY <2>1, <3>2 DEF IsBuilt
      <4> QED BY <3>2, <4>1, <4>2
    <3>3. CASE i = k + 1
      <4>1. h[i] = BuildNext(f[k], idoms) /\ h[i - 1] = f[k] /\ i # 0 BY <3>3
      <4> QED BY <3>3, <4>1
    <3> QED BY <3>1, <3>2, <3>3
  <2>3. IsBuilt(root, idoms, k + 1, h)
    <3>1. h = [i \in 0 .. k + 1 |-> h[i]] OBVIOUS
    <3> HIDE DEF h
    <3> QED BY <2>2, <3>1 DEF IsBuilt
  <2>4. k + 1 \in 0 .. n OBVIOUS
  <2> QED BY <2>3, <2>4
<1> HIDE DEF S
<1>3. \A k \in 0 .. n : k \in S BY <1>1, <1>2, UpTo
<1>4. n \in S BY <1>3
<1> QED BY <1>4 DEF S

Building(g, idoms, t, N, k) ==
  /\ Shape(t, N) /\ Entry \in N /\ N \subseteq DOMAIN g /\ Cardinality(N) = k + 1
  /\ t.idom[Entry] = None /\ \A b \in N \ {Entry} : t.idom[b] = idoms[b]

LEMMA BuildStarts == ASSUME NEW g, CFG(g), None \notin DOMAIN g, NEW idoms PROVE Building(g, idoms, Root, {Entry}, 0)
<1>1. /\ Root.idom = [x \in {Entry} |-> None] /\ Root.kids = [x \in {Entry} |-> << >>]
      /\ Root.num = [x \in {Entry} |-> [in |-> -1, out |-> -1]] /\ Root.slow = 0 /\ Root.valid = FALSE
  BY DEF Root
<1>2. Entry \in DOMAIN g /\ None # Entry BY DEF CFG, Flow
<1>3. Root \in Trees({Entry})
  <2>1. /\ Root.idom \in [{Entry} -> {Entry} \cup {None}] /\ Root.kids \in [{Entry} -> Seq({Entry})]
        /\ Root.num \in [{Entry} -> [in : Int, out : Int]] /\ Root.slow \in Nat /\ Root.valid \in BOOLEAN
    <3>1. Root.idom \in [{Entry} -> {Entry} \cup {None}] BY <1>1
    <3>2. Root.kids \in [{Entry} -> Seq({Entry})] BY <1>1
    <3>3. [in |-> -1, out |-> -1] \in [in : Int, out : Int] OBVIOUS
    <3>4. Root.num \in [{Entry} -> [in : Int, out : Int]] BY <1>1, <3>3
    <3>5. Root.slow \in Nat /\ Root.valid \in BOOLEAN BY DEF Root
    <3> QED BY <3>1, <3>2, <3>4, <3>5
  <2>2. Root = [idom |-> Root.idom, kids |-> Root.kids, num |-> Root.num, slow |-> Root.slow, valid |-> Root.valid]
    BY DEF Root
  <2> QED BY <2>1, <2>2 DEF Trees
<1>4. Shape(Root, {Entry}) BY <1>1, <1>2, <1>3 DEF Shape, OneByOne, Occurs
<1>5. Cardinality({Entry}) = 0 + 1 BY FS_Singleton
<1> QED BY <1>1, <1>2, <1>4, <1>5 DEF Building

LEMMA BuildStep ==
  ASSUME NEW g, CFG(g), None \notin DOMAIN g, NEW idoms, DOMAIN idoms = DOMAIN g \ {Entry},
         \A b \in DOMAIN g \ {Entry} : IsIdom(g, idoms[b], b),
         NEW t, NEW N, NEW k \in Nat, Building(g, idoms, t, N, k), N # DOMAIN g
  PROVE  \E M : Building(g, idoms, BuildNext(t, idoms), M, k + 1)
<1> DEFINE B == DOMAIN g
           S == B \ N
           size == [x \in B |-> Dom(g, x)]
           Ready(x) == x \in DOMAIN idoms \ Nodes(t) /\ idoms[x] \in Nodes(t)
<1>0. Shape(t, N) /\ Entry \in N /\ N \subseteq B /\ Nodes(t) = N BY ShapeIs DEF Building, Nodes
<1>1. S # {} /\ S \subseteq B BY <1>0 DEF Building
<1>2. \A x \in S : size[x] = Dom(g, x) /\ IsFiniteSet(size[x]) BY DomFinite
<1> HIDE DEF size, S
<1>3. PICK x \in S : \A y \in S : Cardinality(size[x]) <= Cardinality(size[y]) BY <1>1, <1>2, Fewest
<1>4. x \in B /\ x \notin N /\ x # Entry BY <1>0, <1>1 DEF S
<1> DEFINE p == idoms[x]
<1>5. IsIdom(g, p, x) BY <1>4
<1> HIDE DEF p
<1>6. p \in Dom(g, x) /\ p # x /\ p \in B BY <1>4, <1>5, IdomAbove
<1>7. p \in N
  <2>1. SUFFICES ASSUME p \notin N PROVE FALSE OBVIOUS
  <2>2. p \in S BY <1>6, <2>1 DEF S
  <2>3. Cardinality(Dom(g, p)) < Cardinality(Dom(g, x)) BY <1>4, <1>6, DomFewer
  <2>4. Cardinality(Dom(g, x)) <= Cardinality(Dom(g, p)) BY <1>2, <1>3, <2>2
  <2>5. Cardinality(Dom(g, x)) \in Nat /\ Cardinality(Dom(g, p)) \in Nat BY <1>4, <1>6, DomFinite
  <2> QED BY <2>3, <2>4, <2>5
<1>8. Ready(x) BY <1>0, <1>4, <1>7 DEF p
<1> DEFINE b == CHOOSE y \in DOMAIN idoms \ Nodes(t) : idoms[y] \in Nodes(t)
<1>9. Ready(b) BY <1>8
<1>10. BuildNext(t, idoms) = AddNewBlock(t, b, idoms[b]) BY DEF BuildNext
<1> HIDE DEF b
<1>11. b \in B \ {Entry} /\ b \notin N /\ b # None /\ idoms[b] \in N BY <1>0, <1>9
<1> DEFINE r == AddNewBlock(t, b, idoms[b])
           M == N \cup {b}
<1>12. Shape(r, M) /\ r.idom[b] = idoms[b] /\ \A y \in N : r.idom[y] = t.idom[y]
  <2> DEFINE d == idoms[b]
  <2>1. d \in N /\ r = AddNewBlock(t, b, d) BY <1>11
  <2> HIDE DEF d, r
  <2>0. Shape(t, N) /\ b \notin N /\ b # None BY <1>0, <1>11
  <2>3. Shape(r, N \cup {b}) BY ONLY <2>0, <2>1, BlockAdded
  <2>4. r.idom = [y \in N \cup {b} |-> IF y = b THEN d ELSE t.idom[y]] BY ONLY <2>0, <2>1, BlockAdded
  <2>5. r.idom[b] = d /\ \A y \in N : r.idom[y] = t.idom[y] BY <2>0, <2>4
  <2> QED BY <2>3, <2>5 DEF d
<1>13. Cardinality(M) = k + 1 + 1
  <2>1. N \in SUBSET B /\ IsFiniteSet(B) BY <1>0 DEF CFG, Flow
  <2>2. IsFiniteSet(N) BY <2>1, FS_Subset
  <2> QED BY <1>11, <2>2, FS_AddElement DEF Building
<1> HIDE DEF r
<1>14. Building(g, idoms, r, M, k + 1)
  <2>1. Entry \in M /\ M \subseteq B /\ r.idom[Entry] = None BY <1>0, <1>11, <1>12 DEF Building
  <2>2. \A y \in M \ {Entry} : r.idom[y] = idoms[y] BY <1>11, <1>12 DEF Building
  <2> HIDE DEF M
  <2> QED BY <1>12, <1>13, <2>1, <2>2 DEF Building
<1> QED BY <1>10, <1>14 DEF r

LEMMA RecalculateIs ==
  ASSUME NEW g, CFG(g), None \notin DOMAIN g
  PROVE  TreeInv(g, Recalculate(g))
<1> DEFINE B == DOMAIN g
           dom == DominatorsOf(g)
           idoms == [b \in DOMAIN dom \ {Entry} |-> CHOOSE a \in dom[b] \ {b} : dom[b] \ {b} \subseteq dom[a]]
           n == Cardinality(DOMAIN idoms)
           f == CHOOSE f : IsBuilt(Root, idoms, n, f)
<1>1. dom = [b \in B |-> Dom(g, b)] BY DominatorsAre
<1>2. DOMAIN dom = B /\ (\A b \in B : dom[b] = Dom(g, b)) /\ \A b \in B : Dom(g, b) \subseteq B BY <1>1 DEF Dom
<1> HIDE DEF dom
<1>3. DOMAIN idoms = B \ {Entry} BY <1>2
<1>4. ASSUME NEW b \in B \ {Entry} PROVE IsIdom(g, idoms[b], b)
  <2> DEFINE a == CHOOSE a \in dom[b] \ {b} : dom[b] \ {b} \subseteq dom[a]
  <2>1. idoms[b] = a BY <1>2
  <2>2. \E c \in Dom(g, b) \ {b} : Dom(g, b) \ {b} \subseteq Dom(g, c) BY IdomExists
  <2>3. \E c \in dom[b] \ {b} : dom[b] \ {b} \subseteq dom[c] BY <1>2, <2>2
  <2>4. a \in dom[b] \ {b} /\ dom[b] \ {b} \subseteq dom[a] BY <2>3
  <2> HIDE DEF a
  <2>5. a \in Dom(g, b) \ {b} /\ Dom(g, b) \ {b} \subseteq Dom(g, a) BY <1>2, <2>4
  <2> QED BY <2>1, <2>5, IdomIs
<1>5. Recalculate(g) = UpdateDFSNumbers(Build(Root, idoms)) BY DEF Recalculate, dom
<1> HIDE DEF idoms
<1>6. Build(Root, idoms) = f[n] BY DEF Build, IsBuilt, BuildNext
<1>7. IsFiniteSet(B) /\ Entry \in B BY DEF CFG, Flow
<1>8. IsFiniteSet(B \ {Entry}) /\ Cardinality(B \ {Entry}) = Cardinality(B) - 1 /\ Cardinality(B) \in Nat
  BY <1>7, FS_RemoveElement, FS_CardinalityType
<1>9. n = Cardinality(B) - 1 /\ n \in Nat BY <1>3, <1>8, FS_CardinalityType
<1>10. IsBuilt(Root, idoms, n, f)
  <2> HIDE DEF n
  <2> QED BY <1>9, BuildUnfolds
<1> HIDE DEF f, n
<1> DEFINE S == {k \in 0 .. n : \E N : Building(g, idoms, f[k], N, k)}
<1>11. 0 \in S
  <2>1. f[0] = Root BY <1>9, <1>10 DEF IsBuilt
  <2> QED BY <1>9, <2>1, BuildStarts
<1>12. ASSUME NEW k \in 0 .. n - 1, k \in S PROVE k + 1 \in S
  <2> DEFINE t == f[k]
  <2>1. PICK N : Building(g, idoms, t, N, k) BY <1>12
  <2>2. k \in Nat /\ k + 1 \in 0 .. n /\ k + 1 # 0 /\ k + 1 - 1 = k BY <1>9
  <2>3. N # B BY <1>8, <1>9, <2>1 DEF Building
  <2>4. f[k + 1] = BuildNext(t, idoms)
    <3>1. \A i \in 0 .. n : i # 0 => f[i] = BuildNext(f[i - 1], idoms) BY <1>10 DEF IsBuilt
    <3>2. f[k + 1] = BuildNext(f[k + 1 - 1], idoms) BY <2>2, <3>1
    <3> QED BY <2>2, <3>2
  <2> HIDE DEF t
  <2>5. \E M : Building(g, idoms, BuildNext(t, idoms), M, k + 1) BY <1>3, <1>4, <2>1, <2>2, <2>3, BuildStep
  <2> QED BY <2>2, <2>4, <2>5
<1>13. n \in S
  <2> HIDE DEF S
  <2>1. \A k \in 0 .. n : k \in S BY <1>9, <1>11, <1>12, UpTo
  <2> QED BY <1>9, <2>1
<1>14. PICK N : Building(g, idoms, f[n], N, n) BY <1>13
<1>15. N = B
  <2>1. N \in SUBSET B /\ Cardinality(N) = Cardinality(B) BY <1>8, <1>9, <1>14 DEF Building
  <2> QED BY <1>7, <2>1, FS_Subset
<1>16. IsTree(g, f[n]) BY <1>4, <1>14, <1>15 DEF IsTree, Building
<1> QED BY <1>5, <1>6, <1>16, NumberingIs
-----------------------------------------------------------------------------
(* The nearest common dominator of many blocks. *)
LEMMA ListOfSet ==
  ASSUME NEW T, IsFiniteSet(T), NEW q, q = SetToSeq(T)
  PROVE  /\ q \in Seq(T) /\ Len(q) = Cardinality(T) /\ Len(q) \in Nat
         /\ OneByOne(q) /\ \A x \in T : Occurs(q, x)
<1> DEFINE n == Cardinality(T)
<1>1. n \in Nat /\ ExistsBijection(1 .. n, T) BY FS_CardinalityType
<1>2. \E f \in [1 .. n -> T] : IsInjective(f) BY <1>1 DEF ExistsBijection, Bijection, Injection
<1>3. q \in [1 .. n -> T] /\ IsInjective(q) BY <1>2 DEF SetToSeq
<1> HIDE DEF n
<1>4. q \in Injection(1 .. n, T) BY <1>3 DEF Injection
<1>5. Cardinality(1 .. n) = n BY <1>1, FS_Interval
<1>6. q \in Surjection(1 .. n, T) BY <1>4, <1>5, FS_Injection DEF n
<1>7. \A x \in T : \E i \in 1 .. n : q[i] = x BY <1>6 DEF Surjection
<1>8. q \in Seq(T) /\ Len(q) = n BY <1>1, <1>3
<1> QED BY <1>1, <1>3, <1>7, <1>8 DEF n, OneByOne, Occurs, IsInjective

IsNearest(t, q, n, f) ==
  f = [k \in 1 .. n |-> IF k = 1 THEN q[1] ELSE FindNearestCommonDominator(t, f[k - 1], q[k])]

LEMMA NearestUnfolds ==
  ASSUME NEW t, NEW q, NEW n \in Nat
  PROVE  \E f : IsNearest(t, q, n, f)
<1> DEFINE S == {k \in 0 .. n : \E f : IsNearest(t, q, k, f)}
           Next1(k, x) == IF k = 1 THEN q[1] ELSE FindNearestCommonDominator(t, x, q[k])
<1>1. 0 \in S
  <2> DEFINE f == [i \in 1 .. 0 |-> q]
  <2>1. \A i \in 1 .. 0 : FALSE OBVIOUS
  <2>2. IsNearest(t, q, 0, f) BY <2>1 DEF IsNearest
  <2> HIDE DEF f
  <2> QED BY <2>2
<1>2. ASSUME NEW k \in 0 .. n - 1, k \in S PROVE k + 1 \in S
  <2>1. PICK f : IsNearest(t, q, k, f) BY <1>2
  <2> DEFINE h == [i \in 1 .. k + 1 |-> IF i <= k THEN f[i] ELSE Next1(i, f[k])]
  <2>2. ASSUME NEW i \in 1 .. k + 1
        PROVE  h[i] = IF i = 1 THEN q[1] ELSE FindNearestCommonDominator(t, h[i - 1], q[i])
    <3>1. CASE i <= k
      <4>1. h[i] = f[i] /\ (i # 1 => h[i - 1] = f[i - 1]) BY <3>1
      <4>2. f[i] = IF i = 1 THEN q[1] ELSE FindNearestCommonDominator(t, f[i - 1], q[i])
        BY <2>1, <3>1 DEF IsNearest
      <4> QED BY <4>1, <4>2
    <3>2. CASE i = k + 1
      <4>1. h[i] = Next1(i, f[k]) /\ (i # 1 => h[i - 1] = f[k]) BY <3>2
      <4> QED BY <4>1
    <3> QED BY <3>1, <3>2
  <2>3. IsNearest(t, q, k + 1, h)
    <3>1. h = [i \in 1 .. k + 1 |-> h[i]] OBVIOUS
    <3> HIDE DEF h
    <3> QED BY <2>2, <3>1 DEF IsNearest
  <2>4. k + 1 \in 0 .. n OBVIOUS
  <2> QED BY <2>3, <2>4
<1> HIDE DEF S
<1>3. \A k \in 0 .. n : k \in S BY <1>1, <1>2, UpTo
<1>4. n \in S BY <1>3
<1> QED BY <1>4 DEF S

LEMMA NearestToAllIs ==
  ASSUME NEW g, CFG(g), NEW t, TreeInv(g, t), NEW bs, bs \subseteq DOMAIN g, bs # {},
         NEW d, d = NearestToAll(t, bs)
  PROVE  d \in DOMAIN g /\ \A x : x \in Dom(g, d) <=> \A p \in bs : x \in Dom(g, p)
<1> DEFINE q == SetToSeq(bs)
           n == Len(q)
           f == CHOOSE f : IsNearest(t, q, n, f)
<1>1. IsFiniteSet(bs)
  <2>1. IsFiniteSet(DOMAIN g) /\ bs \in SUBSET DOMAIN g BY DEF CFG, Flow
  <2> QED BY <2>1, FS_Subset
<1>2. q \in Seq(bs) /\ n \in Nat /\ \A x \in bs : Occurs(q, x) BY <1>1, ListOfSet
<1>3. d = f[n] BY DEF NearestToAll, IsNearest
<1> HIDE DEF q
<1>4. IsNearest(t, q, n, f)
  <2> HIDE DEF n
  <2> QED BY <1>2, NearestUnfolds
<1>5. n # 0 BY <1>2 DEF Occurs
<1>6. \A i \in 1 .. n : q[i] \in bs BY <1>2
<1> HIDE DEF n, f
<1> DEFINE Good(k) == f[k] \in DOMAIN g /\ \A x : x \in Dom(g, f[k]) <=> \A i \in 1 .. k : x \in Dom(g, q[i])
           S == {k \in 0 .. n - 1 : Good(k + 1)}
<1>7. 0 \in S
  <2>1. f[1] = q[1] BY <1>2, <1>4, <1>5 DEF IsNearest
  <2>2. 1 \in 1 .. n /\ 0 \in 0 .. n - 1 /\ 0 + 1 = 1 /\ \A i \in 1 .. 1 : i = 1 BY <1>2, <1>5
  <2>3. Good(1) BY <1>6, <2>1, <2>2
  <2> HIDE DEF Good
  <2> QED BY <2>2, <2>3
<1>8. ASSUME NEW k \in 0 .. (n - 1) - 1, k \in S PROVE k + 1 \in S
  <2>1. Good(k + 1) BY <1>8
  <2>2. /\ k + 1 + 1 \in 1 .. n /\ k + 1 + 1 # 1 /\ k + 1 + 1 - 1 = k + 1 /\ k + 1 \in 0 .. n - 1
        /\ \A i \in 1 .. k + 1 + 1 : i \in 1 .. k + 1 \/ i = k + 1 + 1
        /\ \A i \in 1 .. k + 1 : i \in 1 .. k + 1 + 1
        /\ k + 1 + 1 \in 1 .. k + 1 + 1
    BY <1>2, <1>8
  <2> DEFINE a == f[k + 1]
             b == q[k + 1 + 1]
             e == f[k + 1 + 1]
  <2>3. e = FindNearestCommonDominator(t, a, b)
    <3>1. \A i \in 1 .. n : i # 1 => f[i] = FindNearestCommonDominator(t, f[i - 1], q[i]) BY <1>4 DEF IsNearest
    <3>2. e = FindNearestCommonDominator(t, f[k + 1 + 1 - 1], b) BY <2>2, <3>1
    <3> QED BY <2>2, <3>2
  <2>4. a \in DOMAIN g /\ b \in DOMAIN g BY <1>6, <2>1, <2>2
  <2> HIDE DEF a, b, e
  <2>5. e \in DOMAIN g /\ Dom(g, e) = Dom(g, a) \cap Dom(g, b) BY <2>3, <2>4, NearestIs
  <2>6. \A x : x \in Dom(g, a) <=> \A i \in 1 .. k + 1 : x \in Dom(g, q[i]) BY <2>1 DEF a
  <2>7. \A x : x \in Dom(g, e) <=> \A i \in 1 .. k + 1 + 1 : x \in Dom(g, q[i]) BY <2>2, <2>5, <2>6 DEF b
  <2>8. Good(k + 1 + 1) BY <2>5, <2>7 DEF e
  <2> HIDE DEF Good
  <2> QED BY <2>2, <2>8
<1>9. Good(n)
  <2> HIDE DEF S
  <2>1. n - 1 \in Nat /\ n - 1 \in 0 .. n - 1 /\ n - 1 + 1 = n BY <1>2, <1>5
  <2>2. \A k \in 0 .. n - 1 : k \in S BY <1>7, <1>8, <2>1, UpTo
  <2>3. n - 1 \in S BY <2>1, <2>2
  <2> HIDE DEF Good
  <2> QED BY <2>1, <2>3 DEF S
<1>10. \A p \in bs : \E i \in 1 .. n : q[i] = p BY <1>2 DEF Occurs, n
<1>11. \A x : (\A i \in 1 .. n : x \in Dom(g, q[i])) <=> \A p \in bs : x \in Dom(g, p) BY <1>6, <1>10
<1> QED BY <1>3, <1>9, <1>11
-----------------------------------------------------------------------------
(* A block n comes under d: some that were right under d are under n now.  *)
Under(g, h, n, d, M) ==
  /\ DOMAIN h = DOMAIN g \cup {n} /\ n \notin DOMAIN g /\ d \in DOMAIN g
  /\ M \subseteq DOMAIN g \ {Entry} /\ \A m \in M : IsIdom(g, d, m)
  /\ Dom(h, n) = {n} \cup Dom(g, d)
  /\ \A c \in DOMAIN g : \A x : x \in Dom(h, c) <=> \/ x \in Dom(g, c)
                                                    \/ x = n /\ \E m \in M : m \in Dom(g, c)

LEMMA TreeGrows ==
  ASSUME NEW g, CFG(g), NEW t, IsTree(g, t), NEW h, NEW n, NEW d, NEW M, Under(g, h, n, d, M),
         NEW r, Shape(r, DOMAIN h), r.idom[n] = d, \A m \in M : r.idom[m] = n,
         \A x \in DOMAIN g \ M : r.idom[x] = t.idom[x]
  PROVE  IsTree(h, r)
<1> DEFINE B == DOMAIN g
<1>1. DOMAIN h = B \cup {n} /\ n \notin B /\ d \in B /\ M \subseteq B \ {Entry} BY DEF Under
<1>2. Entry \in B BY DEF CFG, Flow
<1>3. r.idom[Entry] = None BY <1>1, <1>2 DEF IsTree
<1>4. ASSUME NEW c \in B, \A m \in M : m \notin Dom(g, c) PROVE Dom(h, c) = Dom(g, c) BY <1>4 DEF Under
<1>5. \A c \in B : Dom(g, c) \subseteq B /\ n \notin Dom(g, c) BY <1>1 DEF Dom
<1>6. Dom(h, n) = {n} \cup Dom(h, d) /\ n \notin Dom(h, d)
  <2>1. \A m \in M : m \notin Dom(g, d) BY DEF Under, IsIdom
  <2>2. Dom(h, d) = Dom(g, d) BY <1>1, <1>4, <2>1
  <2> QED BY <1>1, <1>5, <2>2 DEF Under
<1>7. ASSUME NEW b \in DOMAIN h \ {Entry} PROVE IsIdom(h, r.idom[b], b)
  <2>1. CASE b = n BY <1>1, <1>6, <2>1 DEF IsIdom
  <2>2. CASE b \in M
    <3>1. b \in B /\ b # n /\ r.idom[b] = n /\ n \in DOMAIN h BY <1>1, <2>2
    <3>2. b \notin Dom(g, d) /\ Dom(g, b) = {b} \cup Dom(g, d) BY <2>2 DEF Under, IsIdom
    <3>3. \A x : x \in Dom(h, b) <=> x \in Dom(g, b) \/ x = n BY <2>2, <3>1, <3>2 DEF Under
    <3>4. Dom(h, n) = {n} \cup Dom(g, d) BY DEF Under
    <3>5. Dom(h, b) = {b} \cup Dom(h, n) BY <3>2, <3>3, <3>4
    <3> QED BY <3>1, <3>2, <3>4, <3>5 DEF IsIdom
  <2>3. CASE b # n /\ b \notin M
    <3> DEFINE p == t.idom[b]
    <3>1. b \in B \ {Entry} /\ r.idom[b] = p BY <1>1, <2>3
    <3>2. p \in B /\ b \notin Dom(g, p) /\ Dom(g, b) = {b} \cup Dom(g, p) BY <3>1 DEF IsTree, IsIdom
    <3> HIDE DEF p
    <3>3. p \in DOMAIN h BY <1>1, <3>2
    <3>4. (\E m \in M : m \in Dom(g, b)) <=> \E m \in M : m \in Dom(g, p) BY <2>3, <3>2
    <3>5. \A x : x \in Dom(h, b) <=> x = b \/ x \in Dom(h, p) BY <3>1, <3>2, <3>4 DEF Under
    <3>6. b \notin Dom(h, p) BY <2>3, <3>2 DEF Under
    <3>7. Dom(h, b) = {b} \cup Dom(h, p) BY <3>5
    <3> QED BY <3>1, <3>3, <3>6, <3>7 DEF IsIdom
  <2> QED BY <2>1, <2>2, <2>3
<1> QED BY <1>3, <1>7 DEF IsTree

(* What dominates the predecessors of a block dominates it. *)
LEMMA DomOfPreds ==
  ASSUME NEW g, CFG(g), NEW b \in DOMAIN g, b # Entry, NEW x \in DOMAIN g
  PROVE  x \in Dom(g, b) <=> x = b \/ \A p \in Preds(g, b) : x \in Dom(g, p)
<1>0. Flow(g) /\ Entry \in DOMAIN g /\ \A p \in Preds(g, b) : p \in DOMAIN g /\ b \in g[p]
  BY DEF CFG, Flow, Preds
<1>1. CASE x = b BY <1>1, DomEnds
<1>2. CASE x # b /\ x = Entry BY <1>0, <1>2, DomEnds
<1>3. CASE x # b /\ x # Entry
  <2> DEFINE W == Without(g, x)
  <2>1. /\ W \subseteq DOMAIN g /\ Entry \in W
        /\ \A z \in W : \A y \in g[z] : y # x => y \in W BY <1>0, <1>3, WithoutIs
  <2>2. \A z \in DOMAIN g : x \in Dom(g, z) <=> z \notin W BY DEF Dom
  <2> HIDE DEF W
  <2>3. ASSUME NEW p \in Preds(g, b), p \in W PROVE b \in W BY <1>0, <1>3, <2>1, <2>3
  <2>4. ASSUME \A p \in Preds(g, b) : p \notin W PROVE b \notin W
    <3> DEFINE S == W \ {b}
    <3>1. Entry \in S BY <2>1
    <3>2. \A z \in S \cap DOMAIN g : \A y \in g[z] : y # x => y \in S BY <2>1, <2>4 DEF Preds
    <3> HIDE DEF S
    <3>3. W \subseteq S BY <1>0, <3>1, <3>2, WithoutInside DEF W
    <3> QED BY <3>3 DEF S
  <2> QED BY <1>0, <1>3, <2>2, <2>3, <2>4
<1> QED BY <1>1, <1>2, <1>3
-----------------------------------------------------------------------------
(* The paths when the edges of ps to s go through n. *)
Through(g, h, ps, s, n) ==
  /\ CFG(g) /\ n \notin DOMAIN g /\ ps # {} /\ ps \subseteq Preds(g, s) /\ s \in DOMAIN g
  /\ h = Put([p \in DOMAIN g |-> IF p \in ps THEN (g[p] \ {s}) \cup {n} ELSE g[p]], n, {s})

LEMMA ThroughIs ==
  ASSUME NEW g, NEW h, NEW ps, NEW s, NEW n, Through(g, h, ps, s, n)
  PROVE  /\ DOMAIN h = DOMAIN g \cup {n} /\ h[n] = {s} /\ s # Entry /\ n # Entry
         /\ \A p \in DOMAIN g : h[p] = IF p \in ps THEN (g[p] \ {s}) \cup {n} ELSE g[p]
         /\ \A p \in ps : p \in DOMAIN g /\ s \in g[p]
         /\ \A p \in DOMAIN g : g[p] \subseteq DOMAIN g
         /\ Flow(g) /\ Entry \in DOMAIN g /\ IsFiniteSet(DOMAIN g)
<1> DEFINE f == [p \in DOMAIN g |-> IF p \in ps THEN (g[p] \ {s}) \cup {n} ELSE g[p]]
<1>1. h = Put(f, n, {s}) /\ n \notin DOMAIN g BY DEF Through
<1>2. DOMAIN f = DOMAIN g /\ \A p \in DOMAIN g : f[p] = IF p \in ps THEN (g[p] \ {s}) \cup {n} ELSE g[p] OBVIOUS
<1> HIDE DEF f
<1>3. DOMAIN h = DOMAIN g \cup {n} /\ h[n] = {s} /\ \A p \in DOMAIN g : h[p] = f[p] BY <1>1, <1>2 DEF Put
<1>4. \A p \in ps : p \in DOMAIN g /\ s \in g[p] BY DEF Through, Preds
<1>5. Flow(g) /\ Entry \in DOMAIN g /\ IsFiniteSet(DOMAIN g) BY DEF Through, CFG, Flow
<1>6. \A p \in DOMAIN g : g[p] \subseteq DOMAIN g /\ Entry \notin g[p] BY DEF Through, CFG, Flow
<1>7. s # Entry /\ n # Entry BY <1>1, <1>4, <1>5, <1>6 DEF Through
<1> QED BY <1>2, <1>3, <1>4, <1>5, <1>6, <1>7

LEMMA ThroughReaches ==
  ASSUME NEW g, NEW h, NEW ps, NEW s, NEW n, Through(g, h, ps, s, n)
  PROVE  CFG(h) /\ Flow(h) /\ CFG(g) /\ n \notin DOMAIN g /\ s \in DOMAIN g
<1>0. /\ DOMAIN h = DOMAIN g \cup {n} /\ h[n] = {s} /\ s # Entry /\ n # Entry
      /\ \A p \in DOMAIN g : h[p] = IF p \in ps THEN (g[p] \ {s}) \cup {n} ELSE g[p]
      /\ \A p \in ps : p \in DOMAIN g /\ s \in g[p]
      /\ \A p \in DOMAIN g : g[p] \subseteq DOMAIN g
      /\ Flow(g) /\ Entry \in DOMAIN g /\ IsFiniteSet(DOMAIN g)
  BY ThroughIs
<1>1. CFG(g) /\ s \in DOMAIN g /\ ps # {} /\ n \notin DOMAIN g BY DEF Through
<1>2. h = [p \in DOMAIN h |-> h[p]] BY DEF Through, Put
<1>3. \A p \in DOMAIN h : h[p] \subseteq DOMAIN h /\ Entry \notin h[p] BY <1>0, <1>1 DEF CFG
<1>4. Flow(h) BY <1>0, <1>2, <1>3, FS_AddElement DEF Flow
<1>5. ASSUME NEW S \in SUBSET DOMAIN h, Entry \in S, \A x \in S : \A y \in h[x] : y \in S
      PROVE  DOMAIN h \subseteq S
  <2>1. n \in S => s \in S BY <1>0, <1>5
  <2>2. \A x \in S \cap DOMAIN g : \A y \in g[x] : y \in S BY <1>0, <1>5, <2>1
  <2>3. DOMAIN g \subseteq S BY <1>1, <1>5, <2>2, AllReached
  <2>4. PICK p \in ps : TRUE BY <1>1
  <2>5. n \in h[p] /\ p \in S BY <1>0, <2>3, <2>4
  <2> QED BY <1>0, <1>5, <2>3, <2>5
<1>6. Reached(h) = DOMAIN h BY <1>4, <1>5, ReachedWhole
<1>7. CFG(h) BY <1>3, <1>4, <1>6 DEF CFG
<1> QED BY <1>1, <1>4, <1>7

LEMMA ThroughWithout ==
  ASSUME NEW g, NEW h, NEW ps, NEW s, NEW n, Through(g, h, ps, s, n), NEW a \in DOMAIN g
  PROVE  \A x \in DOMAIN h : x \in Without(h, a) <=> \/ x \in Without(g, a)
                                                     \/ x = n /\ ps \cap Without(g, a) # {}
<1>0. /\ DOMAIN h = DOMAIN g \cup {n} /\ h[n] = {s} /\ s # Entry /\ n # Entry
      /\ \A p \in DOMAIN g : h[p] = IF p \in ps THEN (g[p] \ {s}) \cup {n} ELSE g[p]
      /\ \A p \in ps : p \in DOMAIN g /\ s \in g[p]
      /\ \A p \in DOMAIN g : g[p] \subseteq DOMAIN g
      /\ Flow(g) /\ Entry \in DOMAIN g /\ IsFiniteSet(DOMAIN g)
  BY ThroughIs
<1>1. n \notin DOMAIN g /\ n # a BY DEF Through
<1>2. CASE a = Entry BY <1>2, WithoutEntry
<1>3. CASE a # Entry
  <2> DEFINE V == Without(g, a)
             W == Without(h, a)
             S == {x \in DOMAIN h : x \in V \/ (x = n /\ ps \cap V # {})}
  <2>1. Flow(h) BY ThroughReaches
  <2>2. V \subseteq DOMAIN g /\ Entry \in V /\ \A x \in V : \A y \in g[x] : y # a => y \in V
    BY <1>0, <1>3, WithoutIs
  <2>3. W \subseteq DOMAIN h /\ Entry \in W /\ \A x \in W : \A y \in h[x] : y # a => y \in W
    BY <2>1, <1>3, WithoutIs
  <2> HIDE DEF V, W
  <2>4. Entry \in S
    <3>1. Entry \in DOMAIN h /\ Entry \in V BY <1>0, <2>2
    <3> QED BY <3>1
  <2>5. ASSUME NEW x \in S \cap DOMAIN h, NEW y \in h[x], y # a PROVE y \in S
    <3>1. CASE x \in ps /\ y = n BY <1>0, <1>1, <2>5, <3>1
    <3>2. CASE x \in DOMAIN g /\ y # n
      <4>1. y \in g[x] /\ x \in V BY <1>0, <1>1, <2>5, <3>2
      <4> QED BY <1>0, <2>2, <2>5, <4>1
    <3>3. CASE x = n
      <4>1. PICK p \in ps : p \in V BY <1>1, <2>2, <2>5, <3>3
      <4> QED BY <1>0, <2>2, <2>5, <3>3, <4>1
    <3>4. x \in DOMAIN g /\ y = n => x \in ps BY <1>0, <1>1, <2>5
    <3> QED BY <1>0, <2>5, <3>1, <3>2, <3>3, <3>4
  <2>6. W \subseteq S
    <3> HIDE DEF S
    <3> QED BY <2>1, <2>4, <2>5, WithoutInside DEF W
  <2>7. n \in W => s = a \/ s \in W BY <1>0, <2>3
  <2>8. ASSUME NEW x \in W \cap DOMAIN g, NEW y \in g[x], y # a PROVE y \in W
    <3>1. CASE y \in h[x] BY <2>3, <2>8, <3>1
    <3>2. CASE y \notin h[x]
      <4>1. x \in ps /\ y = s /\ n \in h[x] BY <1>0, <2>8, <3>2
      <4> QED BY <1>1, <2>3, <2>7, <2>8, <4>1
    <3> QED BY <3>1, <3>2
  <2>9. V \subseteq W BY <1>0, <2>3, <2>8, WithoutInside DEF V
  <2>10. ps \cap V # {} => n \in W
    <3>1. SUFFICES ASSUME NEW p \in ps, p \in V PROVE n \in W OBVIOUS
    <3>2. p \in W /\ n \in h[p] BY <1>0, <2>9, <3>1
    <3> QED BY <1>1, <2>3, <3>2
  <2> QED BY <2>6, <2>9, <2>10 DEF V, W
<1> QED BY <1>2, <1>3

LEMMA ThroughKeeps ==
  ASSUME NEW g, NEW h, NEW ps, NEW s, NEW n, Through(g, h, ps, s, n), NEW d \in DOMAIN g,
         \A x : x \in Dom(g, d) <=> \A p \in ps : x \in Dom(g, p)
  PROVE  /\ Dom(h, n) = {n} \cup Dom(g, d)
         /\ \A c \in DOMAIN g, a \in DOMAIN g : a \in Dom(h, c) <=> a \in Dom(g, c)
<1>0. /\ DOMAIN h = DOMAIN g \cup {n} /\ h[n] = {s} /\ s # Entry /\ n # Entry
      /\ \A p \in DOMAIN g : h[p] = IF p \in ps THEN (g[p] \ {s}) \cup {n} ELSE g[p]
      /\ \A p \in ps : p \in DOMAIN g /\ s \in g[p]
      /\ \A p \in DOMAIN g : g[p] \subseteq DOMAIN g
      /\ Flow(g) /\ Entry \in DOMAIN g /\ IsFiniteSet(DOMAIN g)
  BY ThroughIs
<1>1. n \notin DOMAIN g BY DEF Through
<1>2. CFG(g) /\ CFG(h) BY ThroughReaches
<1>3. n \in Dom(h, n) BY <1>0, <1>2, DomEnds
<1>4. ASSUME NEW a \in DOMAIN g PROVE a \in Dom(h, n) <=> a \in Dom(g, d)
  <2>1. n \notin Without(g, a)
    <3>1. CASE a = Entry BY <3>1, WithoutEntry
    <3>2. CASE a # Entry BY <1>0, <1>1, <3>2, WithoutIs
    <3> QED BY <3>1, <3>2
  <2>2. n \in Without(h, a) <=> ps \cap Without(g, a) # {} BY <1>0, <2>1, ThroughWithout
  <2>3. a \in Dom(h, n) <=> ps \cap Without(g, a) = {} BY <1>0, <2>2 DEF Dom
  <2>4. \A p \in ps : a \in Dom(g, p) <=> p \notin Without(g, a) BY DEF Dom
  <2> QED BY <2>3, <2>4
<1>5. Dom(h, n) \subseteq DOMAIN h /\ Dom(g, d) \subseteq DOMAIN g BY DEF Dom
<1>6. Dom(h, n) = {n} \cup Dom(g, d) BY <1>0, <1>3, <1>4, <1>5
<1>7. ASSUME NEW c \in DOMAIN g, NEW a \in DOMAIN g PROVE a \in Dom(h, c) <=> a \in Dom(g, c)
  <2>1. c \in Without(h, a) <=> c \in Without(g, a) BY <1>0, <1>1, ThroughWithout
  <2> QED BY <1>0, <2>1 DEF Dom
<1> QED BY <1>6, <1>7

(* Blocks that are reached without s are reached without n too. *)
LEMMA ThroughLess ==
  ASSUME NEW g, NEW h, NEW ps, NEW s, NEW n, Through(g, h, ps, s, n)
  PROVE  Without(g, s) \subseteq Without(h, n)
<1>0. /\ DOMAIN h = DOMAIN g \cup {n} /\ h[n] = {s} /\ s # Entry /\ n # Entry
      /\ \A p \in DOMAIN g : h[p] = IF p \in ps THEN (g[p] \ {s}) \cup {n} ELSE g[p]
      /\ \A p \in ps : p \in DOMAIN g /\ s \in g[p]
      /\ \A p \in DOMAIN g : g[p] \subseteq DOMAIN g
      /\ Flow(g) /\ Entry \in DOMAIN g /\ IsFiniteSet(DOMAIN g)
  BY ThroughIs
<1>1. n \notin DOMAIN g /\ Flow(h) BY ThroughReaches
<1> DEFINE W == Without(h, n)
<1>2. W \subseteq DOMAIN h /\ Entry \in W /\ \A x \in W : \A y \in h[x] : y # n => y \in W
  BY <1>0, <1>1, WithoutIs
<1> HIDE DEF W
<1>3. \A x \in W \cap DOMAIN g : \A y \in g[x] : y # s => y \in W BY <1>0, <1>1, <1>2
<1>4. Without(g, s) \subseteq W BY <1>0, <1>2, <1>3, WithoutInside
<1> QED BY <1>4 DEF W

(* Nothing but n and what s is above leads to s: n is above s. *)
LEMMA ThroughAbove ==
  ASSUME NEW g, NEW h, NEW ps, NEW s, NEW n, Through(g, h, ps, s, n), NEW d \in DOMAIN g,
         \A x : x \in Dom(g, d) <=> \A p \in ps : x \in Dom(g, p),
         \A p \in Preds(g, s) \ ps : s \in Dom(g, p)
  PROVE  Under(g, h, n, d, {s})
<1>0. /\ DOMAIN h = DOMAIN g \cup {n} /\ h[n] = {s} /\ s # Entry /\ n # Entry
      /\ \A p \in DOMAIN g : h[p] = IF p \in ps THEN (g[p] \ {s}) \cup {n} ELSE g[p]
      /\ \A p \in ps : p \in DOMAIN g /\ s \in g[p]
      /\ \A p \in DOMAIN g : g[p] \subseteq DOMAIN g
      /\ Flow(g) /\ Entry \in DOMAIN g /\ IsFiniteSet(DOMAIN g)
  BY ThroughIs
<1>1. n \notin DOMAIN g /\ Flow(h) /\ CFG(h) /\ CFG(g) /\ s \in DOMAIN g BY ThroughReaches
<1>2. /\ Dom(h, n) = {n} \cup Dom(g, d)
      /\ \A c \in DOMAIN g, a \in DOMAIN g : a \in Dom(h, c) <=> a \in Dom(g, c)
  BY ThroughKeeps
<1> DEFINE V == Without(g, s)
           W == Without(h, n)
<1>3. V \subseteq DOMAIN g /\ Entry \in V /\ s \notin V /\ \A x \in V : \A y \in g[x] : y # s => y \in V
  BY <1>0, WithoutIs
<1>4. \A x \in DOMAIN g : s \in Dom(g, x) <=> x \notin V BY <1>1 DEF Dom
<1>5. V \subseteq W BY ThroughLess
<1> HIDE DEF V, W
<1>6. \A x \in V : \A y \in h[x] : y # n => y \in V
  <2>1. SUFFICES ASSUME NEW x \in V, NEW y \in h[x], y # n, y \notin V PROVE FALSE OBVIOUS
  <2>2. x \in DOMAIN g /\ y \in g[x] /\ y = s /\ x \notin ps BY <1>0, <1>1, <1>3, <2>1
  <2>3. x \in Preds(g, s) \ ps BY <2>2 DEF Preds
  <2> QED BY <1>4, <2>1, <2>2, <2>3
<1>7. W \subseteq V
  <2>1. \A x \in V \cap DOMAIN h : \A y \in h[x] : y # n => y \in V BY <1>6
  <2> QED BY <1>1, <1>3, <2>1, WithoutInside DEF W
<1>8. ASSUME NEW c \in DOMAIN g
      PROVE  \A x : x \in Dom(h, c) <=> x \in Dom(g, c) \/ (x = n /\ \E m \in {s} : m \in Dom(g, c))
  <2>1. n \in Dom(h, c) <=> s \in Dom(g, c) BY <1>0, <1>4, <1>5, <1>7 DEF Dom, W
  <2>2. Dom(h, c) \subseteq DOMAIN g \cup {n} /\ Dom(g, c) \subseteq DOMAIN g BY <1>0 DEF Dom
  <2> QED BY <1>1, <1>2, <2>1, <2>2
<1>9. s \notin Dom(g, d)
  <2>1. SUFFICES ASSUME s \in Dom(g, d) PROVE FALSE OBVIOUS
  <2>2. \A p \in Preds(g, s) : s \in Dom(g, p) BY <2>1
  <2>3. \A x \in V \cap DOMAIN g : \A y \in g[x] : y \in V
    <3>1. SUFFICES ASSUME NEW x \in V, NEW y \in g[x], y \notin V PROVE FALSE OBVIOUS
    <3>2. x \in Preds(g, s) BY <1>3, <3>1 DEF Preds
    <3> QED BY <1>3, <1>4, <2>2, <3>2
  <2>4. DOMAIN g \subseteq V BY <1>1, <1>3, <2>3, AllReached
  <2> QED BY <1>1, <1>3, <2>4
<1>10. ASSUME NEW x \in Dom(g, s), x # s PROVE x \in Dom(g, d)
  <2>1. x \in DOMAIN g BY DEF Dom
  <2>2. \A p \in Preds(g, s) : x \in Dom(g, p) BY <1>0, <1>1, <1>10, <2>1, DomOfPreds
  <2>3. ps \subseteq Preds(g, s) BY DEF Through
  <2> QED BY <2>2, <2>3
<1>11. ASSUME NEW x \in Dom(g, d) PROVE x \in Dom(g, s)
  <2>0. x \in DOMAIN g /\ x # s BY <1>9 DEF Dom
  <2>1. CASE x = Entry BY <1>1, <2>1, DomEnds
  <2>2. CASE x # Entry
    <3> DEFINE X == Without(g, x)
               S == X \cap V
    <3>1. X \subseteq DOMAIN g /\ Entry \in X /\ \A z \in X : \A y \in g[z] : y # x => y \in X
      BY <1>0, <2>2, WithoutIs
    <3>2. \A z \in DOMAIN g : x \in Dom(g, z) <=> z \notin X BY <2>0 DEF Dom
    <3> HIDE DEF X
    <3>3. ASSUME NEW z \in S, NEW y \in g[z], y # x PROVE y \in S
      <4>1. y \in X /\ z \in DOMAIN g BY <3>1, <3>3
      <4>2. CASE y # s BY <1>3, <3>3, <4>1, <4>2
      <4>3. CASE y = s
        <5>1. z \in Preds(g, s) BY <3>3, <4>1, <4>3 DEF Preds
        <5>2. z \in ps BY <1>4, <3>3, <4>1, <5>1
        <5>3. x \in Dom(g, z) BY <5>2
        <5> QED BY <3>2, <3>3, <4>1, <5>3
      <4> QED BY <4>2, <4>3
    <3>4. Entry \in S BY <1>3, <3>1
    <3> HIDE DEF S
    <3>5. X \subseteq S BY <1>0, <3>3, <3>4, WithoutInside DEF X
    <3>6. s \notin X BY <1>3, <3>5 DEF S
    <3> QED BY <1>1, <3>2, <3>6
  <2> QED BY <2>1, <2>2
<1>12. Dom(g, s) = {s} \cup Dom(g, d)
  <2>1. s \in Dom(g, s) BY <1>1, DomEnds
  <2> QED BY <1>10, <1>11, <2>1
<1>13. IsIdom(g, d, s) BY <1>9, <1>12 DEF IsIdom
<1> QED BY <1>0, <1>1, <1>2, <1>8, <1>13 DEF Under

(* Another way leads to s: n is above nothing. *)
LEMMA ThroughBeside ==
  ASSUME NEW g, NEW h, NEW ps, NEW s, NEW n, Through(g, h, ps, s, n), NEW d \in DOMAIN g,
         \A x : x \in Dom(g, d) <=> \A p \in ps : x \in Dom(g, p),
         NEW p \in Preds(g, s) \ ps, s \notin Dom(g, p)
  PROVE  Under(g, h, n, d, {})
<1>0. /\ DOMAIN h = DOMAIN g \cup {n} /\ h[n] = {s} /\ s # Entry /\ n # Entry
      /\ \A q \in DOMAIN g : h[q] = IF q \in ps THEN (g[q] \ {s}) \cup {n} ELSE g[q]
      /\ \A q \in ps : q \in DOMAIN g /\ s \in g[q]
      /\ \A q \in DOMAIN g : g[q] \subseteq DOMAIN g
      /\ Flow(g) /\ Entry \in DOMAIN g /\ IsFiniteSet(DOMAIN g)
  BY ThroughIs
<1>1. n \notin DOMAIN g /\ Flow(h) /\ CFG(h) /\ CFG(g) /\ s \in DOMAIN g BY ThroughReaches
<1>2. /\ Dom(h, n) = {n} \cup Dom(g, d)
      /\ \A c \in DOMAIN g, a \in DOMAIN g : a \in Dom(h, c) <=> a \in Dom(g, c)
  BY ThroughKeeps
<1> DEFINE W == Without(h, n)
<1>3. W \subseteq DOMAIN h /\ Entry \in W /\ \A x \in W : \A y \in h[x] : y # n => y \in W
  BY <1>0, <1>1, WithoutIs
<1>4. p \in DOMAIN g /\ s \in g[p] /\ p \notin ps BY DEF Preds
<1>5. p \in W
  <2>1. p \in Without(g, s) BY <1>1, <1>4 DEF Dom
  <2> QED BY <2>1, ThroughLess
<1> HIDE DEF W
<1>6. s \in W BY <1>0, <1>1, <1>3, <1>4, <1>5
<1>7. \A x \in W \cap DOMAIN g : \A y \in g[x] : y \in W BY <1>0, <1>1, <1>3, <1>6
<1>8. DOMAIN g \subseteq W BY <1>1, <1>3, <1>7, AllReached
<1>9. ASSUME NEW c \in DOMAIN g
      PROVE  \A x : x \in Dom(h, c) <=> x \in Dom(g, c) \/ (x = n /\ \E m \in {} : m \in Dom(g, c))
  <2>1. n \notin Dom(h, c) BY <1>8 DEF Dom, W
  <2>2. Dom(h, c) \subseteq DOMAIN g \cup {n} /\ Dom(g, c) \subseteq DOMAIN g BY <1>0 DEF Dom
  <2> QED BY <1>1, <1>2, <2>1, <2>2
<1> QED BY <1>0, <1>1, <1>2, <1>9 DEF Under

(* Split: the tree of the new function, whatever the block is above. *)
LEMMA SplitTreeIs ==
  ASSUME NEW g, NEW h, NEW ps, NEW s, NEW n, Through(g, h, ps, s, n), NEW t, TreeInv(g, t), n # None
  PROVE  IsTree(h, SplitTree(h, t, n)) /\ ~SplitTree(h, t, n).valid
<1>0. /\ DOMAIN h = DOMAIN g \cup {n} /\ h[n] = {s} /\ s # Entry /\ n # Entry
      /\ \A p \in DOMAIN g : h[p] = IF p \in ps THEN (g[p] \ {s}) \cup {n} ELSE g[p]
      /\ \A p \in ps : p \in DOMAIN g /\ s \in g[p]
      /\ \A p \in DOMAIN g : g[p] \subseteq DOMAIN g
      /\ Flow(g) /\ Entry \in DOMAIN g /\ IsFiniteSet(DOMAIN g)
  BY ThroughIs
<1>1. n \notin DOMAIN g /\ CFG(h) /\ CFG(g) /\ s \in DOMAIN g BY ThroughReaches
<1>2. IsTree(g, t) /\ Shape(t, DOMAIN g) BY DEF TreeInv, IsTree
<1> DEFINE reached == {p \in Preds(h, n) : IsReachableFromEntry(t, p)}
           d == NearestToAll(t, reached)
           succs == CHOOSE x \in h[n] : TRUE
           above == \A p \in Preds(h, succs) \ {n} : Dominates(t, succs, p)
           grown == AddNewBlock(t, n, d)
           r == IF above THEN ChangeImmediateDominator(grown, succs, n) ELSE grown
<1>3. SplitTree(h, t, n) = r BY DEF SplitTree
<1>4. reached = ps
  <2>1. Preds(h, n) = ps BY <1>0, <1>1 DEF Preds
  <2>2. \A p \in ps : IsReachableFromEntry(t, p)
    <3>1. SUFFICES ASSUME NEW p \in ps PROVE IsReachableFromEntry(t, p) OBVIOUS
    <3>2. p \in DOMAIN g BY <1>0
    <3>3. Entry \in Dom(g, p) BY <1>1, <3>2, DomEnds
    <3> QED BY <1>0, <1>1, <3>2, <3>3, DominatesIs DEF IsReachableFromEntry
  <2> QED BY <2>1, <2>2
<1>5. d \in DOMAIN g /\ \A x : x \in Dom(g, d) <=> \A p \in ps : x \in Dom(g, p)
  <2>1. ps \subseteq DOMAIN g /\ ps # {} BY <1>0 DEF Through
  <2> HIDE DEF reached
  <2> QED BY <1>1, <1>4, <2>1, NearestToAllIs
<1>6. succs = s BY <1>0
<1>7. above <=> \A p \in Preds(g, s) \ ps : s \in Dom(g, p)
  <2>1. Preds(h, s) \ {n} = Preds(g, s) \ ps BY <1>0, <1>1 DEF Preds
  <2>2. \A p \in Preds(g, s) : Dominates(t, s, p) <=> s \in Dom(g, p)
    <3>1. Preds(g, s) \subseteq DOMAIN g BY DEF Preds
    <3> QED BY <1>1, <3>1, DominatesIs
  <2> HIDE DEF succs
  <2> QED BY <1>6, <2>1, <2>2
<1> HIDE DEF reached, d, succs, above
<1>8. Shape(grown, DOMAIN g \cup {n}) /\ ~grown.valid /\ grown.idom[n] = d /\ \A x \in DOMAIN g : grown.idom[x] = t.idom[x]
  <2> DEFINE B == DOMAIN g
  <2>1. Shape(t, B) /\ n \notin B /\ n # None /\ d \in B /\ grown = AddNewBlock(t, n, d) BY <1>1, <1>2, <1>5
  <2> HIDE DEF grown, B
  <2>2. Shape(grown, B \cup {n}) /\ ~grown.valid /\ grown.idom = [x \in B \cup {n} |-> IF x = n THEN d ELSE t.idom[x]]
    BY ONLY <2>1, BlockAdded
  <2>3. grown.idom[n] = d /\ \A x \in B : grown.idom[x] = t.idom[x] BY <2>1, <2>2
  <2> QED BY <2>2, <2>3 DEF B
<1> HIDE DEF grown
<1>9. CASE above
  <2>1. grown.idom[s] # None
    <3>1. t.idom[s] \in DOMAIN g BY <1>0, <1>1, <1>2 DEF IsTree, IsIdom
    <3>2. None \notin DOMAIN g BY <1>2 DEF Shape
    <3> QED BY <1>1, <1>8, <3>1, <3>2
  <2>2. r = ChangeImmediateDominator(grown, s, n) BY <1>6, <1>9
  <2> HIDE DEF r
  <2>3. Shape(r, DOMAIN h) /\ ~r.valid /\ r.idom = [grown.idom EXCEPT ![s] = n]
    BY <1>0, <1>1, <1>8, <2>1, <2>2, DominatorChanged
  <2>4. DOMAIN grown.idom = DOMAIN g \cup {n} BY <1>8, ShapeIs
  <2>5. r.idom[n] = d /\ (\A m \in {s} : r.idom[m] = n) /\ \A x \in DOMAIN g \ {s} : r.idom[x] = t.idom[x]
    BY <1>1, <1>8, <2>3, <2>4
  <2>6. Under(g, h, n, d, {s}) BY <1>5, <1>7, <1>9, ThroughAbove
  <2>7. IsTree(h, r)
    <3> DEFINE M == {s}
    <3>1. Under(g, h, n, d, M) BY <2>6
    <3>2. r.idom[n] = d /\ (\A m \in M : r.idom[m] = n) /\ \A x \in DOMAIN g \ M : r.idom[x] = t.idom[x] BY <2>5
    <3>3. Shape(r, DOMAIN h) BY <2>3
    <3>4. CFG(g) /\ IsTree(g, t) BY <1>1, <1>2
    <3> HIDE DEF M
    <3> QED BY ONLY <3>1, <3>2, <3>3, <3>4, TreeGrows
  <2> QED BY <1>3, <2>3, <2>7
<1>10. CASE ~above
  <2>1. PICK p \in Preds(g, s) \ ps : s \notin Dom(g, p) BY <1>7, <1>10
  <2>2. Under(g, h, n, d, {}) BY <1>5, <2>1, ThroughBeside
  <2>3. r = grown BY <1>10
  <2> HIDE DEF r
  <2>4. Shape(r, DOMAIN h) /\ ~r.valid BY <1>0, <1>8, <2>3
  <2>5. r.idom[n] = d /\ (\A m \in {} : r.idom[m] = n) /\ \A x \in DOMAIN g \ {} : r.idom[x] = t.idom[x]
    BY <1>8, <2>3
  <2>6. IsTree(h, r) BY <1>1, <1>2, <2>2, <2>4, <2>5, TreeGrows
  <2> QED BY <1>3, <2>4, <2>6
<1> QED BY <1>9, <1>10
-----------------------------------------------------------------------------
(* The paths when b is cut in two: n has its successors, and it has n. *)
Cut(g, h, b, n) ==
  CFG(g) /\ n \notin DOMAIN g /\ b \in DOMAIN g /\ h = Put(Put(g, n, g[b]), b, {n})

LEMMA CutIs ==
  ASSUME NEW g, NEW h, NEW b, NEW n, Cut(g, h, b, n)
  PROVE  /\ DOMAIN h = DOMAIN g \cup {n} /\ h[n] = g[b] /\ h[b] = {n} /\ n # Entry /\ n # b
         /\ \A p \in DOMAIN g \ {b} : h[p] = g[p]
         /\ \A p \in DOMAIN g : g[p] \subseteq DOMAIN g
         /\ Flow(g) /\ Entry \in DOMAIN g /\ IsFiniteSet(DOMAIN g)
<1> DEFINE f == Put(g, n, g[b])
<1>1. CFG(g) /\ n \notin DOMAIN g /\ b \in DOMAIN g /\ h = Put(f, b, {n}) BY DEF Cut
<1>2. DOMAIN f = DOMAIN g \cup {n} /\ f[n] = g[b] /\ \A p \in DOMAIN g : f[p] = g[p] BY <1>1 DEF Put
<1> HIDE DEF f
<1>3. DOMAIN h = DOMAIN g \cup {n} /\ h[b] = {n} /\ \A p \in DOMAIN f \ {b} : h[p] = f[p] BY <1>1, <1>2 DEF Put
<1>4. Flow(g) /\ Entry \in DOMAIN g /\ IsFiniteSet(DOMAIN g) /\ \A p \in DOMAIN g : g[p] \subseteq DOMAIN g
  BY <1>1 DEF CFG, Flow
<1> QED BY <1>1, <1>2, <1>3, <1>4

LEMMA CutReaches ==
  ASSUME NEW g, NEW h, NEW b, NEW n, Cut(g, h, b, n)
  PROVE  CFG(h) /\ Flow(h) /\ CFG(g) /\ n \notin DOMAIN g /\ b \in DOMAIN g
<1>0. /\ DOMAIN h = DOMAIN g \cup {n} /\ h[n] = g[b] /\ h[b] = {n} /\ n # Entry /\ n # b
      /\ \A p \in DOMAIN g \ {b} : h[p] = g[p]
      /\ \A p \in DOMAIN g : g[p] \subseteq DOMAIN g
      /\ Flow(g) /\ Entry \in DOMAIN g /\ IsFiniteSet(DOMAIN g)
  BY CutIs
<1>1. CFG(g) /\ n \notin DOMAIN g /\ b \in DOMAIN g BY DEF Cut
<1>2. h = [p \in DOMAIN h |-> h[p]] BY DEF Cut, Put
<1>3. \A p \in DOMAIN h : h[p] \subseteq DOMAIN h /\ Entry \notin h[p] BY <1>0, <1>1 DEF CFG
<1>4. Flow(h) BY <1>0, <1>2, <1>3, FS_AddElement DEF Flow
<1>5. ASSUME NEW S \in SUBSET DOMAIN h, Entry \in S, \A x \in S : \A y \in h[x] : y \in S
      PROVE  DOMAIN h \subseteq S
  <2>1. b \in S => n \in S BY <1>0, <1>5
  <2>2. \A x \in S \cap DOMAIN g : \A y \in g[x] : y \in S BY <1>0, <1>5, <2>1
  <2>3. DOMAIN g \subseteq S BY <1>1, <1>5, <2>2, AllReached
  <2> QED BY <1>0, <1>1, <2>1, <2>3
<1>6. Reached(h) = DOMAIN h BY <1>4, <1>5, ReachedWhole
<1>7. CFG(h) BY <1>3, <1>4, <1>6 DEF CFG
<1> QED BY <1>1, <1>4, <1>7

LEMMA CutWithout ==
  ASSUME NEW g, NEW h, NEW b, NEW n, Cut(g, h, b, n), NEW a \in DOMAIN g
  PROVE  \A x \in DOMAIN h : x \in Without(h, a) <=> x \in Without(g, a) \/ (x = n /\ b \in Without(g, a))
<1>0. /\ DOMAIN h = DOMAIN g \cup {n} /\ h[n] = g[b] /\ h[b] = {n} /\ n # Entry /\ n # b
      /\ \A p \in DOMAIN g \ {b} : h[p] = g[p]
      /\ \A p \in DOMAIN g : g[p] \subseteq DOMAIN g
      /\ Flow(g) /\ Entry \in DOMAIN g /\ IsFiniteSet(DOMAIN g)
  BY CutIs
<1>1. Flow(h) /\ n \notin DOMAIN g /\ b \in DOMAIN g /\ n # a BY CutReaches
<1>2. CASE a = Entry BY <1>2, WithoutEntry
<1>3. CASE a # Entry
  <2> DEFINE V == Without(g, a)
             W == Without(h, a)
             S == {x \in DOMAIN h : x \in V \/ (x = n /\ b \in V)}
  <2>2. V \subseteq DOMAIN g /\ Entry \in V /\ \A x \in V : \A y \in g[x] : y # a => y \in V
    BY <1>0, <1>3, WithoutIs
  <2>3. W \subseteq DOMAIN h /\ Entry \in W /\ \A x \in W : \A y \in h[x] : y # a => y \in W
    BY <1>1, <1>3, WithoutIs
  <2> HIDE DEF V, W
  <2>4. Entry \in S
    <3>1. Entry \in DOMAIN h /\ Entry \in V BY <1>0, <2>2
    <3> QED BY <3>1
  <2>5. ASSUME NEW x \in S \cap DOMAIN h, NEW y \in h[x], y # a PROVE y \in S
    <3>1. CASE x = b BY <1>0, <1>1, <2>5, <3>1
    <3>2. CASE x = n
      <4>1. b \in V /\ y \in g[b] BY <1>0, <1>1, <2>2, <2>5, <3>2
      <4> QED BY <1>0, <1>1, <2>2, <2>5, <4>1
    <3>3. CASE x # b /\ x # n
      <4>1. x \in V /\ y \in g[x] BY <1>0, <2>5, <3>3
      <4> QED BY <1>0, <1>1, <2>2, <2>5, <4>1
    <3> QED BY <3>1, <3>2, <3>3
  <2>6. W \subseteq S
    <3> HIDE DEF S
    <3> QED BY <1>1, <2>4, <2>5, WithoutInside DEF W
  <2>7. b \in W => n \in W BY <1>0, <1>1, <2>3
  <2>8. ASSUME NEW x \in W \cap DOMAIN g, NEW y \in g[x], y # a PROVE y \in W
    <3>1. CASE x = b BY <1>0, <2>3, <2>7, <2>8, <3>1
    <3>2. CASE x # b BY <1>0, <2>3, <2>8, <3>2
    <3> QED BY <3>1, <3>2
  <2>9. V \subseteq W BY <1>0, <2>3, <2>8, WithoutInside DEF V
  <2> QED BY <2>6, <2>7, <2>9 DEF V, W
<1> QED BY <1>2, <1>3

(* Without n no more than b, and what is reached without b, is reached. *)
LEMMA CutBelow ==
  ASSUME NEW g, NEW h, NEW b, NEW n, Cut(g, h, b, n)
  PROVE  Without(h, n) = Without(g, b) \cup {b}
<1>0. /\ DOMAIN h = DOMAIN g \cup {n} /\ h[n] = g[b] /\ h[b] = {n} /\ n # Entry /\ n # b
      /\ \A p \in DOMAIN g \ {b} : h[p] = g[p]
      /\ \A p \in DOMAIN g : g[p] \subseteq DOMAIN g
      /\ Flow(g) /\ Entry \in DOMAIN g /\ IsFiniteSet(DOMAIN g)
  BY CutIs
<1>1. Flow(h) /\ CFG(g) /\ n \notin DOMAIN g /\ b \in DOMAIN g BY CutReaches
<1> DEFINE V == Without(g, b)
           W == Without(h, n)
<1>2. W \subseteq DOMAIN h /\ Entry \in W /\ n \notin W /\ \A x \in W : \A y \in h[x] : y # n => y \in W
  BY <1>0, <1>1, WithoutIs
<1>3. b = Entry => V = {} BY WithoutEntry
<1>4. b # Entry => /\ V \subseteq DOMAIN g /\ Entry \in V /\ b \notin V
                   /\ \A x \in V : \A y \in g[x] : y # b => y \in V
  BY <1>0, <1>1, WithoutIs
<1> HIDE DEF V, W
<1>5. W \subseteq V \cup {b}
  <2> DEFINE S == V \cup {b}
  <2>1. Entry \in S BY <1>4
  <2>2. \A x \in S \cap DOMAIN h : \A y \in h[x] : y # n => y \in S
    <3>1. SUFFICES ASSUME NEW x \in S, NEW y \in h[x], y # n PROVE y \in S OBVIOUS
    <3>2. x \in V /\ x # b BY <1>0, <3>1
    <3>3. b # Entry /\ x \in DOMAIN g /\ y \in g[x] BY <1>0, <1>1, <1>3, <1>4, <3>1, <3>2
    <3> QED BY <1>4, <3>2, <3>3
  <2> HIDE DEF S
  <2>3. W \subseteq S BY <1>1, <2>1, <2>2, WithoutInside DEF W
  <2> QED BY <2>3 DEF S
<1>6. W \ {b} \subseteq DOMAIN g /\ \A x \in W \ {b} : \A y \in g[x] : y \in W BY <1>0, <1>1, <1>2
<1>7. b \in W
  <2>1. SUFFICES ASSUME b \notin W PROVE FALSE OBVIOUS
  <2>2. \A x \in W \cap DOMAIN g : \A y \in g[x] : y \in W BY <1>6, <2>1
  <2>3. DOMAIN g \subseteq W BY <1>1, <1>2, <2>2, AllReached
  <2> QED BY <1>1, <2>1, <2>3
<1>8. V \subseteq W
  <2>1. CASE b = Entry BY <1>3, <2>1
  <2>2. CASE b # Entry
    <3> DEFINE S == W \ {b}
    <3>1. Entry \in S BY <1>2, <2>2
    <3>2. \A x \in S \cap DOMAIN g : \A y \in g[x] : y # b => y \in S BY <1>6
    <3> HIDE DEF S
    <3>3. V \subseteq S BY <1>0, <3>1, <3>2, WithoutInside DEF V
    <3> QED BY <3>3 DEF S
  <2> QED BY <2>1, <2>2
<1> QED BY <1>5, <1>7, <1>8 DEF V, W

LEMMA CutUnder ==
  ASSUME NEW g, NEW h, NEW b, NEW n, Cut(g, h, b, n), NEW idom,
         \A x \in DOMAIN g \ {Entry} : IsIdom(g, idom[x], x)
  PROVE  Under(g, h, n, b, {m \in DOMAIN g \ {Entry} : idom[m] = b})
<1>0. /\ DOMAIN h = DOMAIN g \cup {n} /\ h[n] = g[b] /\ h[b] = {n} /\ n # Entry /\ n # b
      /\ \A p \in DOMAIN g \ {b} : h[p] = g[p]
      /\ \A p \in DOMAIN g : g[p] \subseteq DOMAIN g
      /\ Flow(g) /\ Entry \in DOMAIN g /\ IsFiniteSet(DOMAIN g)
  BY CutIs
<1>1. CFG(h) /\ CFG(g) /\ n \notin DOMAIN g /\ b \in DOMAIN g BY CutReaches
<1> DEFINE M == {m \in DOMAIN g \ {Entry} : idom[m] = b}
<1>2. M \subseteq DOMAIN g \ {Entry} /\ \A m \in M : IsIdom(g, b, m) OBVIOUS
<1>3. ASSUME NEW c \in DOMAIN g PROVE (\E m \in M : m \in Dom(g, c)) <=> b \in Dom(g, c) /\ b # c
  <2>1. ASSUME b \in Dom(g, c), b # c PROVE \E m \in M : m \in Dom(g, c)
    <3>1. \E m \in DOMAIN g \ {Entry} : idom[m] = b /\ m \in Dom(g, c) BY <1>1, <2>1, Child
    <3> QED BY <3>1
  <2>2. ASSUME NEW m \in M, m \in Dom(g, c) PROVE b \in Dom(g, c) /\ b # c
    <3>1. m \in DOMAIN g /\ b \in Dom(g, m) /\ m \notin Dom(g, b)
      <4>1. IsIdom(g, b, m) /\ m \in DOMAIN g BY <1>2, <2>2
      <4>2. b \in Dom(g, b) BY <1>1, DomEnds
      <4> QED BY <4>1, <4>2 DEF IsIdom
    <3>2. Dom(g, m) \subseteq Dom(g, c) BY <1>1, <2>2, <3>1, DomTransitive
    <3> QED BY <2>2, <3>1, <3>2
  <2> QED BY <2>1, <2>2
<1> HIDE DEF M
<1>4. ASSUME NEW c \in DOMAIN g, NEW a \in DOMAIN g PROVE a \in Dom(h, c) <=> a \in Dom(g, c)
  <2>1. c \in Without(h, a) <=> c \in Without(g, a) BY <1>0, <1>1, CutWithout
  <2> QED BY <1>0, <2>1 DEF Dom
<1>5. ASSUME NEW c \in DOMAIN g PROVE n \in Dom(h, c) <=> b \in Dom(g, c) /\ b # c
  <2>1. c \in Without(h, n) <=> c \in Without(g, b) \/ c = b BY CutBelow
  <2> QED BY <1>0, <1>1, <2>1 DEF Dom
<1>6. ASSUME NEW c \in DOMAIN g
      PROVE  \A x : x \in Dom(h, c) <=> x \in Dom(g, c) \/ (x = n /\ \E m \in M : m \in Dom(g, c))
  <2>1. Dom(h, c) \subseteq DOMAIN g \cup {n} /\ Dom(g, c) \subseteq DOMAIN g BY <1>0 DEF Dom
  <2> QED BY <1>1, <1>3, <1>4, <1>5, <2>1
<1>7. ASSUME NEW a \in DOMAIN g PROVE a \in Dom(h, n) <=> a \in Dom(g, b)
  <2>1. n \notin Without(g, a)
    <3>1. CASE a = Entry BY <3>1, WithoutEntry
    <3>2. CASE a # Entry BY <1>0, <1>1, <3>2, WithoutIs
    <3> QED BY <3>1, <3>2
  <2>2. n \in Without(h, a) <=> b \in Without(g, a) BY <1>0, <2>1, CutWithout
  <2> QED BY <1>0, <1>1, <2>2 DEF Dom
<1>8. Dom(h, n) = {n} \cup Dom(g, b)
  <2>1. Dom(h, n) \subseteq DOMAIN g \cup {n} /\ Dom(g, b) \subseteq DOMAIN g /\ n \in Dom(h, n)
    BY <1>0, <1>1, DomEnds DEF Dom
  <2> QED BY <1>7, <2>1
<1>9. Under(g, h, n, b, M) BY <1>0, <1>1, <1>2, <1>6, <1>8 DEF Under
<1> QED BY <1>9 DEF M

IsMoved(t, b, n, m, f) ==
  f = [k \in 0 .. m |-> IF k = 0 THEN AddNewBlock(t, n, b) ELSE ChangeImmediateDominator(f[k - 1], t.kids[b][k], n)]

LEMMA MoveUnfolds ==
  ASSUME NEW t, NEW b, NEW n, NEW m \in Nat
  PROVE  \E f : IsMoved(t, b, n, m, f)
<1> DEFINE root == AddNewBlock(t, n, b)
           Step(x, k) == ChangeImmediateDominator(x, t.kids[b][k], n)
           S == {k \in 0 .. m : \E f : IsMoved(t, b, n, k, f)}
<1>1. 0 \in S
  <2> DEFINE f == [i \in 0 .. 0 |-> root]
  <2>1. IsMoved(t, b, n, 0, f) BY DEF IsMoved
  <2> HIDE DEF f
  <2> QED BY <2>1
<1>2. ASSUME NEW k \in 0 .. m - 1, k \in S PROVE k + 1 \in S
  <2>1. PICK f : IsMoved(t, b, n, k, f) BY <1>2
  <2> DEFINE h == [i \in 0 .. k + 1 |-> IF i <= k THEN f[i] ELSE Step(f[k], k + 1)]
  <2>2. ASSUME NEW i \in 0 .. k + 1 PROVE h[i] = IF i = 0 THEN root ELSE Step(h[i - 1], i)
    <3> HIDE DEF root, Step
    <3>1. CASE i = 0
      <4>1. f[0] = root BY <2>1 DEF IsMoved, root
      <4> QED BY <3>1, <4>1
    <3>2. CASE i # 0 /\ i <= k
      <4>1. h[i] = f[i] /\ h[i - 1] = f[i - 1] BY <3>2
      <4>2. f[i] = Step(f[i - 1], i) BY <2>1, <3>2 DEF IsMoved, Step
      <4> QED BY <3>2, <4>1, <4>2
    <3>3. CASE i = k + 1
      <4>1. h[i] = Step(f[k], i) /\ h[i - 1] = f[k] /\ i # 0 BY <3>3
      <4> QED BY <3>3, <4>1
    <3> QED BY <3>1, <3>2, <3>3
  <2>3. IsMoved(t, b, n, k + 1, h)
    <3>1. h = [i \in 0 .. k + 1 |-> h[i]] OBVIOUS
    <3> HIDE DEF h
    <3> QED BY <2>2, <3>1 DEF IsMoved
  <2>4. k + 1 \in 0 .. m OBVIOUS
  <2> QED BY <2>3, <2>4
<1> HIDE DEF S
<1>3. \A k \in 0 .. m : k \in S BY <1>1, <1>2, UpTo
<1>4. m \in S BY <1>3
<1> QED BY <1>4 DEF S

(* The split of a block in two: the tree of the new function. *)
LEMMA MoveUnderIs ==
  ASSUME NEW g, NEW h, NEW b, NEW n, Cut(g, h, b, n), NEW t, IsTree(g, t), n # None
  PROVE  IsTree(h, MoveUnder(t, b, n)) /\ ~MoveUnder(t, b, n).valid
<1> DEFINE B == DOMAIN g
           N == B \cup {n}
           kids == t.kids[b]
           m == Len(kids)
           f == CHOOSE f : IsMoved(t, b, n, m, f)
<1>0. DOMAIN h = N /\ n # b /\ CFG(h) /\ CFG(g) /\ n \notin B /\ b \in B /\ Entry \in B
  <2>1. DOMAIN h = N /\ n # b /\ Entry \in B BY CutIs
  <2>2. CFG(h) /\ CFG(g) /\ n \notin B /\ b \in B BY CutReaches
  <2> QED BY <2>1, <2>2
<1>1. Shape(t, B) BY DEF IsTree
<1>2. kids \in Seq(B) /\ m \in Nat BY <1>0, <1>1, ShapeIs
<1>3. OneByOne(kids) /\ \A x \in B : Occurs(kids, x) <=> t.idom[x] = b BY <1>0, <1>1 DEF Shape
<1>4. MoveUnder(t, b, n) = f[m] BY DEF MoveUnder, IsMoved
<1>5. IsMoved(t, b, n, m, f)
  <2> HIDE DEF m
  <2> QED BY <1>2, MoveUnfolds
<1>6. f[0] = AddNewBlock(t, n, b) /\ \A k \in 1 .. m : f[k] = ChangeImmediateDominator(f[k - 1], kids[k], n)
  <2>1. f[0] = AddNewBlock(t, n, b)
    <3> HIDE DEF m, f
    <3>1. 0 \in 0 .. m BY <1>2
    <3> QED BY <1>5, <3>1 DEF IsMoved
  <2>2. ASSUME NEW k \in 1 .. m PROVE f[k] = ChangeImmediateDominator(f[k - 1], kids[k], n)
    <3>1. k \in 0 .. m /\ k # 0 BY <1>2
    <3> QED BY <1>5, <3>1 DEF IsMoved
  <2> QED BY <2>1, <2>2
<1> HIDE DEF f, m, N, kids
<1>7. \A x \in B : t.idom[x] \in B \cup {None} /\ None \notin B BY <1>1, ShapeIs DEF Shape
<1> DEFINE Moved(k, x) == \E i \in 1 .. k : kids[i] = x
           Good(k) == /\ Shape(f[k], N) /\ ~f[k].valid /\ f[k].idom[n] = b
                      /\ \A x \in B : f[k].idom[x] = IF Moved(k, x) THEN n ELSE t.idom[x]
           S == {k \in 0 .. m : Good(k)}
<1>8. 0 \in S
  <2> DEFINE r == f[0]
  <2>1. r = AddNewBlock(t, n, b) BY <1>6
  <2>2. Shape(t, B) /\ n \notin B /\ n # None /\ b \in B BY <1>0, <1>1
  <2> HIDE DEF r, B
  <2>3. Shape(r, B \cup {n}) /\ ~r.valid /\ r.idom = [x \in B \cup {n} |-> IF x = n THEN b ELSE t.idom[x]]
    BY ONLY <2>1, <2>2, BlockAdded
  <2>4. \A x : ~Moved(0, x) OBVIOUS
  <2>5. r.idom[n] = b /\ \A x \in B : r.idom[x] = t.idom[x] BY <2>2, <2>3
  <2> HIDE DEF Moved
  <2>6. Good(0) BY <2>3, <2>4, <2>5 DEF N, r
  <2> QED BY <1>2, <2>6
<1>9. ASSUME NEW k \in 0 .. m - 1, k \in S PROVE k + 1 \in S
  <2> DEFINE u == f[k]
             r == f[k + 1]
             c == kids[k + 1]
  <2>1. k + 1 \in 1 .. m /\ k + 1 \in 0 .. m /\ k + 1 - 1 = k /\ k \in 0 .. m BY <1>2
  <2>2. r = ChangeImmediateDominator(u, c, n)
    <3>1. r = ChangeImmediateDominator(f[k + 1 - 1], kids[k + 1], n) BY <1>6, <2>1
    <3> QED BY <2>1, <3>1
  <2>3. c \in B /\ t.idom[c] = b
    <3>1. c \in B BY <1>2, <2>1 DEF m
    <3>2. Occurs(kids, c) BY <2>1 DEF Occurs, m
    <3> QED BY <1>3, <3>1, <3>2
  <2>4. /\ Shape(u, N) /\ ~u.valid /\ u.idom[n] = b
        /\ \A x \in B : u.idom[x] = IF Moved(k, x) THEN n ELSE t.idom[x] BY <1>9
  <2>5. c \in N /\ n \in N /\ u.idom[c] # None
    <3>1. u.idom[c] \in {n, b} BY <2>3, <2>4
    <3> QED BY <1>0, <1>7, <2>3, <3>1 DEF N
  <2> HIDE DEF u, r, c
  <2>6. Shape(r, N) /\ ~r.valid /\ r.idom = [u.idom EXCEPT ![c] = n] BY ONLY <2>2, <2>4, <2>5, DominatorChanged
  <2>7. DOMAIN u.idom = N BY <2>4, ShapeIs
  <2>8. \A x : Moved(k + 1, x) <=> Moved(k, x) \/ x = c
    <3>1. \A i : i \in 1 .. k + 1 <=> i \in 1 .. k \/ i = k + 1 BY <1>2
    <3> QED BY <3>1 DEF c
  <2> HIDE DEF Moved
  <2>9. r.idom[n] = b BY <1>0, <2>3, <2>4, <2>6, <2>7
  <2>10. ASSUME NEW x \in B PROVE r.idom[x] = IF Moved(k + 1, x) THEN n ELSE t.idom[x]
    <3>1. x \in N BY DEF N
    <3>2. CASE x = c BY <2>6, <2>7, <2>8, <3>1, <3>2
    <3>3. CASE x # c
      <4>1. r.idom[x] = u.idom[x] BY <2>6, <2>7, <3>1, <3>3
      <4>2. u.idom[x] = IF Moved(k, x) THEN n ELSE t.idom[x] BY <2>4
      <4> QED BY <2>8, <3>3, <4>1, <4>2
    <3> QED BY <3>2, <3>3
  <2>11. Good(k + 1) BY <2>6, <2>9, <2>10 DEF r
  <2> HIDE DEF Good
  <2> QED BY <2>1, <2>11
<1>10. Good(m)
  <2> HIDE DEF S
  <2>1. \A k \in 0 .. m : k \in S BY <1>2, <1>8, <1>9, UpTo
  <2>2. m \in S BY <1>2, <2>1
  <2> HIDE DEF Good
  <2> QED BY <2>2 DEF S
<1> DEFINE M == {x \in B \ {Entry} : t.idom[x] = b}
           r == f[m]
<1>11. t.idom[Entry] = None /\ \A x \in B \ {Entry} : IsIdom(g, t.idom[x], x) BY DEF IsTree
<1>12. Under(g, h, n, b, M) BY <1>11, CutUnder
<1>13. \A x \in B : Moved(m, x) <=> x \in M
  <2>1. b # None BY <1>0, <1>7
  <2>2. \A x \in B : Moved(m, x) <=> t.idom[x] = b BY <1>3 DEF Occurs, m
  <2> QED BY <1>11, <2>1, <2>2
<1>14. Shape(r, DOMAIN h) /\ ~r.valid /\ r.idom[n] = b BY <1>0, <1>10
<1>15. \A x \in B : r.idom[x] = IF Moved(m, x) THEN n ELSE t.idom[x] BY <1>10
<1>16. (\A x \in M : r.idom[x] = n) /\ \A x \in B \ M : r.idom[x] = t.idom[x]
  <2> HIDE DEF Moved, r
  <2> QED BY <1>13, <1>15
<1> HIDE DEF M, r, Moved
<1>17. IsTree(h, r) BY ONLY <1>0, <1>12, <1>14, <1>16, IsTree(g, t), TreeGrows
<1> QED BY <1>4, <1>14, <1>17 DEF r
-----------------------------------------------------------------------------
(* The paths when a block that only leads on to s is passed by. *)
PassedBy(g, h, p, b, s) ==
  /\ CFG(g) /\ b \in DOMAIN g /\ Preds(g, b) = {p} /\ g[b] = {s} /\ s # b
  /\ h = [Drop(g, b) EXCEPT ![p] = (@ \ {b}) \cup g[b]]

LEMMA PassedByIs ==
  ASSUME NEW g, NEW h, NEW p, NEW b, NEW s, PassedBy(g, h, p, b, s)
  PROVE  /\ DOMAIN h = DOMAIN g \ {b} /\ g[b] = {s} /\ s \in DOMAIN h /\ p \in DOMAIN h /\ b # Entry
         /\ b \in DOMAIN g /\ b \in g[p] /\ h[p] = (g[p] \ {b}) \cup {s}
         /\ \A x \in DOMAIN h \ {p} : h[x] = g[x] /\ b \notin g[x]
         /\ \A x \in DOMAIN g : g[x] \subseteq DOMAIN g
         /\ Flow(g) /\ CFG(g) /\ Entry \in DOMAIN h /\ IsFiniteSet(DOMAIN g)
<1> DEFINE f == Drop(g, b)
<1>1. /\ CFG(g) /\ b \in DOMAIN g /\ Preds(g, b) = {p} /\ g[b] = {s} /\ s # b
      /\ h = [f EXCEPT ![p] = (f[p] \ {b}) \cup {s}]
  BY DEF PassedBy
<1>2. DOMAIN f = DOMAIN g \ {b} /\ \A x \in DOMAIN g \ {b} : f[x] = g[x] BY DEF Drop
<1> HIDE DEF f
<1>3. Flow(g) /\ Entry \in DOMAIN g /\ IsFiniteSet(DOMAIN g) /\ \A x \in DOMAIN g : g[x] \subseteq DOMAIN g
  BY <1>1 DEF CFG, Flow
<1>4. p \in DOMAIN g /\ b \in g[p] /\ \A x \in DOMAIN g \ {p} : b \notin g[x] BY <1>1 DEF Preds
<1>5. p # b /\ s \in DOMAIN g BY <1>1, <1>3, <1>4
<1>6. b # Entry BY <1>1, <1>4 DEF CFG
<1>7. DOMAIN h = DOMAIN f /\ h[p] = (f[p] \ {b}) \cup {s} /\ \A x \in DOMAIN f \ {p} : h[x] = f[x]
  BY <1>1, <1>2, <1>4, <1>5
<1> QED BY <1>1, <1>2, <1>3, <1>4, <1>5, <1>6, <1>7

LEMMA PassedByReaches ==
  ASSUME NEW g, NEW h, NEW p, NEW b, NEW s, PassedBy(g, h, p, b, s)
  PROVE  CFG(h) /\ Flow(h)
<1>0. /\ DOMAIN h = DOMAIN g \ {b} /\ g[b] = {s} /\ s \in DOMAIN h /\ p \in DOMAIN h /\ b # Entry
      /\ b \in DOMAIN g /\ b \in g[p] /\ h[p] = (g[p] \ {b}) \cup {s}
      /\ \A x \in DOMAIN h \ {p} : h[x] = g[x] /\ b \notin g[x]
      /\ \A x \in DOMAIN g : g[x] \subseteq DOMAIN g
      /\ Flow(g) /\ CFG(g) /\ Entry \in DOMAIN h /\ IsFiniteSet(DOMAIN g)
  BY PassedByIs
<1>2. h = [x \in DOMAIN h |-> h[x]] BY DEF PassedBy, Drop
<1>3. \A x \in DOMAIN h : h[x] \subseteq DOMAIN h /\ Entry \notin h[x]
  <2>1. ASSUME NEW x \in DOMAIN h PROVE h[x] \subseteq DOMAIN h /\ Entry \notin h[x]
    <3>1. Entry \notin g[x] /\ Entry # s BY <1>0 DEF CFG
    <3>2. CASE x = p BY <1>0, <3>1, <3>2
    <3>3. CASE x # p BY <1>0, <3>1, <3>3
    <3> QED BY <3>2, <3>3
  <2> QED BY <2>1
<1>4. Flow(h) BY <1>0, <1>2, <1>3, FS_RemoveElement DEF Flow
<1>5. ASSUME NEW S \in SUBSET DOMAIN h, Entry \in S, \A x \in S : \A y \in h[x] : y \in S
      PROVE  DOMAIN h \subseteq S
  <2> DEFINE T == S \cup {x \in {b} : p \in S}
  <2>1. Entry \in T BY <1>5
  <2>2. ASSUME NEW x \in T \cap DOMAIN g, NEW y \in g[x] PROVE y \in T
    <3>1. CASE x = b BY <1>0, <1>5, <2>2, <3>1
    <3>2. CASE x = p BY <1>0, <1>5, <2>2, <3>2
    <3>3. CASE x # b /\ x # p BY <1>0, <1>5, <2>2, <3>3
    <3> QED BY <3>1, <3>2, <3>3
  <2> HIDE DEF T
  <2>3. DOMAIN g \subseteq T BY <1>0, <2>1, <2>2, AllReached
  <2> QED BY <1>0, <2>3 DEF T
<1>6. Reached(h) = DOMAIN h BY <1>4, <1>5, ReachedWhole
<1> QED BY <1>3, <1>4, <1>6 DEF CFG

LEMMA PassedByWithout ==
  ASSUME NEW g, NEW h, NEW p, NEW b, NEW s, PassedBy(g, h, p, b, s), NEW a \in DOMAIN h
  PROVE  \A x \in DOMAIN h : x \in Without(h, a) <=> x \in Without(g, a)
<1>0. /\ DOMAIN h = DOMAIN g \ {b} /\ g[b] = {s} /\ s \in DOMAIN h /\ p \in DOMAIN h /\ b # Entry
      /\ b \in DOMAIN g /\ b \in g[p] /\ h[p] = (g[p] \ {b}) \cup {s}
      /\ \A x \in DOMAIN h \ {p} : h[x] = g[x] /\ b \notin g[x]
      /\ \A x \in DOMAIN g : g[x] \subseteq DOMAIN g
      /\ Flow(g) /\ CFG(g) /\ Entry \in DOMAIN h /\ IsFiniteSet(DOMAIN g)
  BY PassedByIs
<1>1. Flow(h) /\ a # b BY <1>0, PassedByReaches
<1>2. CASE a = Entry BY <1>2, WithoutEntry
<1>3. CASE a # Entry
  <2> DEFINE V == Without(g, a)
             W == Without(h, a)
             S == V \ {b}
             T == W \cup {x \in {b} : p \in W}
  <2>1. V \subseteq DOMAIN g /\ Entry \in V /\ \A x \in V : \A y \in g[x] : y # a => y \in V
    BY <1>0, <1>3, WithoutIs
  <2>2. W \subseteq DOMAIN h /\ Entry \in W /\ \A x \in W : \A y \in h[x] : y # a => y \in W
    BY <1>1, <1>3, WithoutIs
  <2> HIDE DEF V, W
  <2>3. Entry \in S BY <1>0, <2>1
  <2>4. ASSUME NEW x \in S \cap DOMAIN h, NEW y \in h[x], y # a PROVE y \in S
    <3>1. CASE x = p BY <1>0, <1>1, <2>1, <2>4, <3>1
    <3>2. CASE x # p BY <1>0, <2>1, <2>4, <3>2
    <3> QED BY <3>1, <3>2
  <2>5. W \subseteq S
    <3> HIDE DEF S
    <3> QED BY <1>1, <2>3, <2>4, WithoutInside DEF W
  <2>6. Entry \in T BY <2>2
  <2>7. ASSUME NEW x \in T \cap DOMAIN g, NEW y \in g[x], y # a PROVE y \in T
    <3>1. CASE x = b BY <1>0, <2>2, <2>7, <3>1
    <3>2. CASE x = p BY <1>0, <2>2, <2>7, <3>2
    <3>3. CASE x # b /\ x # p BY <1>0, <2>2, <2>7, <3>3
    <3> QED BY <3>1, <3>2, <3>3
  <2>8. V \subseteq T
    <3> HIDE DEF T
    <3> QED BY <1>0, <2>6, <2>7, WithoutInside DEF V
  <2> QED BY <1>0, <2>5, <2>8 DEF V, W
<1> QED BY <1>2, <1>3

LEMMA PassedByBlocks ==
  ASSUME NEW g, NEW h, NEW p, NEW b, NEW s, PassedBy(g, h, p, b, s)
  PROVE  DOMAIN h = DOMAIN g \ {b} /\ b # Entry /\ b \in DOMAIN g /\ Flow(g) /\ CFG(g) /\ Entry \in DOMAIN h
<1>1. /\ DOMAIN h = DOMAIN g \ {b} /\ g[b] = {s} /\ s \in DOMAIN h /\ p \in DOMAIN h /\ b # Entry
      /\ b \in DOMAIN g /\ b \in g[p] /\ h[p] = (g[p] \ {b}) \cup {s}
      /\ \A x \in DOMAIN h \ {p} : h[x] = g[x] /\ b \notin g[x]
      /\ \A x \in DOMAIN g : g[x] \subseteq DOMAIN g
      /\ Flow(g) /\ CFG(g) /\ Entry \in DOMAIN h /\ IsFiniteSet(DOMAIN g)
  BY PassedByIs
<1> QED BY <1>1

(* The fold: the tree and its numbers without the block. *)
LEMMA EraseNodeIs ==
  ASSUME NEW g, NEW h, NEW p, NEW b, NEW s, PassedBy(g, h, p, b, s), NEW t, TreeInv(g, t), t.kids[b] = << >>
  PROVE  TreeInv(h, EraseNode(t, b))
<1>0. /\ DOMAIN h = DOMAIN g \ {b} /\ b # Entry /\ b \in DOMAIN g
      /\ Flow(g) /\ CFG(g) /\ Entry \in DOMAIN h
  BY PassedByBlocks
<1>1. CFG(h) BY PassedByReaches
<1> DEFINE B == DOMAIN g
           r == EraseNode(t, b)
<1>2. IsTree(g, t) /\ Shape(t, B) BY DEF TreeInv, IsTree
<1>3. \A x \in B : t.idom[x] # b
  <2>1. \A x \in B : ~Occurs(t.kids[b], x) BY DEF Occurs
  <2> QED BY <1>0, <1>2, <2>1 DEF Shape
<1>4. t.idom[b] \in B BY <1>0, <1>2 DEF IsTree, IsIdom
<1>5. Shape(r, B \ {b}) /\ r.valid = t.valid /\ r.idom = [x \in B \ {b} |-> t.idom[x]] /\ r.num = [x \in B \ {b} |-> t.num[x]]
  <2> DEFINE M == B \ {b}
  <2>1. Erased(t, B, b, M, r) BY <1>0, <1>2, <1>4 DEF Erased
  <2> HIDE DEF r, B, M
  <2>2. Shape(r, M) /\ r.valid = t.valid /\ r.idom = [x \in M |-> t.idom[x]] /\ r.num = [x \in M |-> t.num[x]]
    BY ONLY <2>1, NodeErased
  <2> QED BY <2>2 DEF M
<1>6. ASSUME NEW c \in DOMAIN h PROVE Dom(h, c) = Dom(g, c)
  <2>1. b \notin Dom(g, c)
    <3>1. SUFFICES ASSUME b \in Dom(g, c) PROVE FALSE OBVIOUS
    <3>2. \A x \in B \ {Entry} : IsIdom(g, t.idom[x], x) BY <1>2 DEF IsTree
    <3>3. \E k \in B \ {Entry} : t.idom[k] = b /\ k \in Dom(g, c)
      <4> DEFINE idom == t.idom
      <4>1. \A x \in B \ {Entry} : IsIdom(g, idom[x], x) BY <3>2
      <4> HIDE DEF idom
      <4>2. \E k \in B \ {Entry} : idom[k] = b /\ k \in Dom(g, c) BY <1>0, <1>6, <3>1, <4>1, Child
      <4> QED BY <4>2 DEF idom
    <3> QED BY <1>3, <3>3
  <2>2. \A a \in DOMAIN h : a \in Dom(h, c) <=> a \in Dom(g, c)
    <3>1. \A a \in DOMAIN h : c \in Without(h, a) <=> c \in Without(g, a) BY <1>6, PassedByWithout
    <3> QED BY <1>0, <3>1 DEF Dom
  <2>3. Dom(h, c) \subseteq DOMAIN h /\ Dom(g, c) \subseteq DOMAIN g BY DEF Dom
  <2> QED BY <1>0, <2>1, <2>2, <2>3
<1> HIDE DEF r
<1>7. r.idom[Entry] = None BY <1>0, <1>2, <1>5 DEF IsTree
<1>8. ASSUME NEW c \in DOMAIN h \ {Entry} PROVE IsIdom(h, r.idom[c], c)
  <2>1. r.idom[c] = t.idom[c] BY <1>0, <1>5
  <2>2. IsIdom(g, t.idom[c], c) BY <1>0, <1>2 DEF IsTree
  <2>3. t.idom[c] \in DOMAIN h BY <1>0, <1>3, <2>2 DEF IsIdom
  <2> QED BY <1>6, <2>1, <2>2, <2>3 DEF IsIdom
<1>9. IsTree(h, r) BY <1>0, <1>5, <1>7, <1>8 DEF IsTree
<1>10. ASSUME r.valid PROVE Numbered(h, r)
  <2>1. Numbered(g, t) BY <1>5, <1>10 DEF TreeInv
  <2>2. \A x \in DOMAIN h : r.num[x] = t.num[x] BY <1>0, <1>5
  <2>3. \A a, c \in DOMAIN h : DominatedBy(r, c, a) <=> DominatedBy(t, c, a) BY <2>2 DEF DominatedBy
  <2> QED BY <1>0, <1>6, <2>1, <2>3 DEF Numbered
<1> QED BY <1>9, <1>10 DEF TreeInv, r
-----------------------------------------------------------------------------
(* Queries only count, or number the tree. *)
LEMMA SlowIs ==
  ASSUME NEW t, NEW N, Shape(t, N), NEW k \in Nat, NEW r, r = [t EXCEPT !.slow = k]
  PROVE  Shape(r, N) /\ r.idom = t.idom /\ r.num = t.num /\ r.valid = t.valid
<1>1. t \in Trees(N) BY DEF Shape
<1>2. r \in Trees(N) /\ r.idom = t.idom /\ r.kids = t.kids /\ r.num = t.num /\ r.valid = t.valid
  BY <1>1 DEF Trees
<1>3. Shape(r, N) BY <1>2 DEF Shape
<1> QED BY <1>2, <1>3

LEMMA CountingIs ==
  ASSUME NEW g, NEW t, IsTree(g, t), NEW k \in Nat, NEW r, r = [t EXCEPT !.slow = k]
  PROVE  /\ IsTree(g, r) /\ r.valid = t.valid
         /\ Numbered(g, t) => Numbered(g, r)
<1>1. Shape(t, DOMAIN g) BY DEF IsTree
<1>2. Shape(r, DOMAIN g) /\ r.idom = t.idom /\ r.num = t.num /\ r.valid = t.valid BY <1>1, SlowIs
<1>3. IsTree(g, r) BY ONLY <1>2, IsTree(g, t) DEF IsTree
<1>4. Numbered(g, t) => Numbered(g, r) BY ONLY <1>2 DEF Numbered, DominatedBy
<1> QED BY <1>2, <1>3, <1>4

LEMMA QueriedIs ==
  ASSUME NEW g, CFG(g), NEW t, IsTree(g, t), ~t.valid, NEW r \in Queried(t)
  PROVE  TreeInv(g, r)
<1>1. CASE r = UpdateDFSNumbers(t) BY <1>1, NumberingIs
<1>2. CASE r = [t EXCEPT !.slow = 0]
  <2>1. IsTree(g, r) /\ r.valid = t.valid BY <1>2, CountingIs
  <2> QED BY <2>1 DEF TreeInv
<1> QED BY <1>1, <1>2 DEF Queried

LEMMA AfterQueryIs ==
  ASSUME NEW g, CFG(g), NEW t, TreeInv(g, t), NEW a, NEW b
  PROVE  TreeInv(g, AfterQuery(t, a, b))
<1> DEFINE r == AfterQuery(t, a, b)
<1>1. IsTree(g, t) /\ t.slow \in Nat BY ShapeIs DEF TreeInv, IsTree
<1>2. r = t \/ r = UpdateDFSNumbers(t) \/ r = [t EXCEPT !.slow = t.slow + 1] BY DEF AfterQuery
<1> HIDE DEF r
<1>3. CASE r = UpdateDFSNumbers(t) BY <1>1, <1>3, NumberingIs DEF r
<1>4. CASE r = [t EXCEPT !.slow = t.slow + 1]
  <2> DEFINE k == t.slow + 1
  <2>1. k \in Nat /\ r = [t EXCEPT !.slow = k] BY <1>1, <1>4
  <2> HIDE DEF k
  <2>2. IsTree(g, r) /\ r.valid = t.valid /\ (Numbered(g, t) => Numbered(g, r)) BY <1>1, <2>1, CountingIs
  <2> QED BY <2>2 DEF TreeInv, r
<1> QED BY <1>2, <1>3, <1>4 DEF r
-----------------------------------------------------------------------------
(* At every time the tree is that of the function as it is then, and its   *)
(* numbers, when they are taken to be valid, say the same.                 *)
TreeInvariant == CFG(succ) /\ DOMAIN succ \subseteq Old \cup New /\ TreeInv(succ, tree)

LEMMA TreeStarts == ASSUME DominatorsAssumption, Init PROVE TreeInvariant
<1>1. /\ IsFiniteSet(Old) /\ Entry \in Old /\ None \notin Old /\ Reached(succ) = Old
      /\ succ \in [Old -> {ss \in SUBSET (Old \ {Entry}) : Cardinality(ss) <= 2}]
  BY DEF DominatorsAssumption, Init
<1>2. DOMAIN succ = Old BY <1>1
<1>3. \A b \in Old : succ[b] \subseteq Old /\ Entry \notin succ[b] BY <1>1
<1>4. succ \in [Old -> SUBSET Old] BY <1>1, <1>3
<1>5. CFG(succ) BY <1>1, <1>2, <1>3, <1>4 DEF CFG, Flow
<1>6. tree = Recalculate(succ) BY DEF Init
<1>7. TreeInv(succ, tree) BY <1>1, <1>2, <1>5, <1>6, RecalculateIs
<1> QED BY <1>2, <1>5, <1>7 DEF TreeInvariant

LEMMA SplitPredecessorsKeeps ==
  ASSUME DominatorsAssumption, TreeInvariant, NEW n \in New, NEW s \in Blocks, NEW ps \in SUBSET Preds(succ, s),
         NEW first, SplitPredecessors(ps, s, n, first)
  PROVE  TreeInvariant'
<1>1. CFG(succ) /\ DOMAIN succ \subseteq Old \cup New /\ TreeInv(succ, tree) BY DEF TreeInvariant
<1>2. n # None BY DEF DominatorsAssumption
<1> DEFINE g == Put([p \in Blocks |-> IF p \in ps THEN (succ[p] \ {s}) \cup {n} ELSE succ[p]], n, {s})
<1>3. succ' = g /\ n \notin Blocks /\ ps # {} /\ tree' \in Queried(SplitTree(g, tree, n)) BY DEF SplitPredecessors
<1>4. Through(succ, g, ps, s, n) BY <1>1, <1>3 DEF Through, Blocks
<1> HIDE DEF g
<1>5. CFG(g) BY <1>4, ThroughReaches
<1>6. IsTree(g, SplitTree(g, tree, n)) /\ ~SplitTree(g, tree, n).valid BY <1>1, <1>2, <1>4, SplitTreeIs
<1>7. TreeInv(g, tree') BY <1>3, <1>5, <1>6, QueriedIs
<1>8. DOMAIN g \subseteq Old \cup New
  <2>1. DOMAIN g = DOMAIN succ \cup {n} BY <1>4, ThroughIs
  <2> QED BY <1>1, <2>1
<1> QED BY <1>3, <1>5, <1>7, <1>8 DEF TreeInvariant

LEMMA SplitBasicBlockKeeps ==
  ASSUME DominatorsAssumption, TreeInvariant, NEW n \in New, NEW b \in Blocks, NEW first, SplitBasicBlock(b, n, first)
  PROVE  TreeInvariant'
<1>1. CFG(succ) /\ DOMAIN succ \subseteq Old \cup New /\ TreeInv(succ, tree) /\ IsTree(succ, tree)
  BY DEF TreeInvariant, TreeInv
<1>2. n # None BY DEF DominatorsAssumption
<1> DEFINE g == Put(Put(succ, n, succ[b]), b, {n})
<1>3. succ' = g /\ n \notin Blocks /\ tree' \in Queried(MoveUnder(tree, b, n)) BY DEF SplitBasicBlock
<1>4. Cut(succ, g, b, n) BY <1>1, <1>3 DEF Cut, Blocks
<1> HIDE DEF g
<1>5. CFG(g) BY <1>4, CutReaches
<1>6. IsTree(g, MoveUnder(tree, b, n)) /\ ~MoveUnder(tree, b, n).valid BY <1>1, <1>2, <1>4, MoveUnderIs
<1>7. TreeInv(g, tree') BY <1>3, <1>5, <1>6, QueriedIs
<1>8. DOMAIN g \subseteq Old \cup New
  <2>1. DOMAIN g = DOMAIN succ \cup {n} BY <1>4, CutIs
  <2> QED BY <1>1, <2>1
<1> QED BY <1>3, <1>5, <1>7, <1>8 DEF TreeInvariant

LEMMA FoldBlockKeeps ==
  ASSUME TreeInvariant, NEW p \in Blocks, NEW b \in Blocks, FoldBlock(p, b)
  PROVE  TreeInvariant'
<1>1. CFG(succ) /\ DOMAIN succ \subseteq Old \cup New /\ TreeInv(succ, tree) /\ b \in DOMAIN succ
  BY DEF TreeInvariant, Blocks
<1> DEFINE g == [Drop(succ, b) EXCEPT ![p] = (@ \ {b}) \cup succ[b]]
<1>2. /\ Preds(succ, b) = {p} /\ tree.kids[b] = << >> /\ Cardinality(succ[b]) = 1 /\ succ[b] # {b}
      /\ succ' = g /\ tree' = EraseNode(tree, b)
  BY DEF FoldBlock
<1>3. PICK s : succ[b] = {s}
  <2>1. IsFiniteSet(DOMAIN succ) /\ succ[b] \in SUBSET DOMAIN succ BY <1>1 DEF CFG, Flow
  <2>2. IsFiniteSet(succ[b]) BY <2>1, FS_Subset
  <2> QED BY <1>2, <2>2, FS_Singleton
<1>4. PassedBy(succ, g, p, b, s) BY <1>1, <1>2, <1>3 DEF PassedBy
<1> HIDE DEF g
<1>5. CFG(g) BY <1>4, PassedByReaches
<1>6. TreeInv(g, tree') BY <1>1, <1>2, <1>4, EraseNodeIs
<1>7. DOMAIN g \subseteq Old \cup New
  <2>1. DOMAIN g = DOMAIN succ \ {b} BY <1>4, PassedByBlocks
  <2> QED BY <1>1, <2>1
<1> QED BY <1>2, <1>5, <1>6, <1>7 DEF TreeInvariant

LEMMA TreeKept == ASSUME DominatorsAssumption, TreeInvariant, [Next]_vars PROVE TreeInvariant'
<1>1. ASSUME NEW n \in New, NEW s \in Blocks, NEW ps \in SUBSET Preds(succ, s), NEW p \in ps,
             SplitPredecessors(ps, s, n, p)
      PROVE  TreeInvariant'
  BY <1>1, SplitPredecessorsKeeps
<1>2. ASSUME NEW b \in Blocks, NEW n \in New, NEW p, SplitBasicBlock(b, n, p) PROVE TreeInvariant'
  BY <1>2, SplitBasicBlockKeeps
<1>3. ASSUME NEW p \in Blocks, NEW b \in Blocks, FoldBlock(p, b) PROVE TreeInvariant' BY <1>3, FoldBlockKeeps
<1>4. ASSUME NEW a, NEW b, Query(a, b) PROVE TreeInvariant'
  <2>1. CFG(succ) /\ TreeInv(succ, tree) /\ tree' = AfterQuery(tree, a, b) /\ succ' = succ BY <1>4 DEF Query, TreeInvariant
  <2>2. TreeInv(succ, tree') BY <2>1, AfterQueryIs
  <2> QED BY <2>1, <2>2 DEF TreeInvariant
<1>5. CASE UNCHANGED vars BY <1>5 DEF vars, TreeInvariant
<1> QED BY <1>1, <1>2, <1>3, <1>4, <1>5 DEF Next

LEMMA TreeInvariantHolds == ASSUME DominatorsAssumption PROVE Spec => []TreeInvariant
<1>1. Init => TreeInvariant BY TreeStarts
<1>2. TreeInvariant /\ [Next]_vars => TreeInvariant' BY TreeKept
<1> QED BY <1>1, <1>2, PTL DEF Spec

(* Two lists of the same elements, once each, have the same length. *)
LEMMA CountOf ==
  ASSUME NEW T, NEW q \in Seq(T), OneByOne(q)
  PROVE  IsFiniteSet(ToSet(q)) /\ Cardinality(ToSet(q)) = Len(q) /\ \A x : x \in ToSet(q) <=> Occurs(q, x)
<1> DEFINE n == Len(q)
           S == ToSet(q)
<1>1. n \in Nat /\ q \in [1 .. n -> T] /\ DOMAIN q = 1 .. n OBVIOUS
<1>2. S = {q[i] : i \in 1 .. n} BY <1>1 DEF ToSet
<1>3. \A x : x \in S <=> Occurs(q, x) BY <1>2 DEF Occurs
<1>4. q \in [1 .. n -> S] BY <1>1, <1>2
<1>5. IsInjective(q) BY <1>1 DEF OneByOne, IsInjective
<1>6. \A x \in S : \E i \in 1 .. n : q[i] = x BY <1>2
<1>7. q \in Injection(1 .. n, S) BY <1>4, <1>5 DEF Injection
<1>8. q \in Surjection(1 .. n, S) BY <1>4, <1>6 DEF Surjection
<1>9. ExistsBijection(1 .. n, S) BY <1>7, <1>8 DEF ExistsBijection, Bijection
<1> HIDE DEF n, S
<1>10. Cardinality(S) = n BY <1>1, <1>9, FS_CountingElements
<1>11. IsFiniteSet(S) BY <1>1, <1>9, FS_NatBijection
<1> QED BY <1>3, <1>10, <1>11 DEF n, S

LEMMA SameKids ==
  ASSUME NEW g, CFG(g), NEW t, IsTree(g, t), NEW u, IsTree(g, u), NEW b \in DOMAIN g
  PROVE  Len(t.kids[b]) = Len(u.kids[b]) /\ ToSet(t.kids[b]) = ToSet(u.kids[b])
<1> DEFINE B == DOMAIN g
<1>1. ASSUME NEW x \in B PROVE t.idom[x] = u.idom[x]
  <2>1. CASE x = Entry BY <2>1 DEF IsTree
  <2>2. CASE x # Entry
    <3>1. IsIdom(g, t.idom[x], x) /\ IsIdom(g, u.idom[x], x) BY <2>2 DEF IsTree
    <3> QED BY <3>1, IdomUnique
  <2> QED BY <2>1, <2>2
<1>2. t.kids[b] \in Seq(B) /\ OneByOne(t.kids[b]) /\ \A x \in B : Occurs(t.kids[b], x) <=> t.idom[x] = b
  BY ShapeIs DEF IsTree, Shape
<1>3. u.kids[b] \in Seq(B) /\ OneByOne(u.kids[b]) /\ \A x \in B : Occurs(u.kids[b], x) <=> u.idom[x] = b
  BY ShapeIs DEF IsTree, Shape
<1>4. Cardinality(ToSet(t.kids[b])) = Len(t.kids[b]) /\ \A x : x \in ToSet(t.kids[b]) <=> Occurs(t.kids[b], x)
  BY <1>2, CountOf
<1>5. Cardinality(ToSet(u.kids[b])) = Len(u.kids[b]) /\ \A x : x \in ToSet(u.kids[b]) <=> Occurs(u.kids[b], x)
  BY <1>3, CountOf
<1>6. \A x : Occurs(t.kids[b], x) => x \in B BY <1>2 DEF Occurs
<1>7. \A x : Occurs(u.kids[b], x) => x \in B BY <1>3 DEF Occurs
<1>8. \A x : x \in ToSet(t.kids[b]) <=> x \in ToSet(u.kids[b]) BY <1>1, <1>2, <1>3, <1>4, <1>5, <1>6, <1>7
<1>9. ToSet(t.kids[b]) = ToSet(u.kids[b]) BY <1>8
<1> QED BY <1>4, <1>5, <1>9

LEMMA InvariantIsExact == ASSUME DominatorsAssumption, TreeInvariant PROVE TreeExact /\ AnswersExact
<1>1. /\ CFG(succ) /\ TreeInv(succ, tree) /\ IsTree(succ, tree) /\ None \notin DOMAIN succ
      /\ DOMAIN tree.idom = DOMAIN succ
  BY ShapeIs DEF TreeInvariant, TreeInv, IsTree, Shape
<1> DEFINE u == Recalculate(succ)
<1>2. IsTree(succ, u) /\ DOMAIN u.idom = DOMAIN succ
  <2>1. TreeInv(succ, u) BY <1>1, RecalculateIs
  <2> HIDE DEF u
  <2> QED BY <2>1, ShapeIs DEF TreeInv, IsTree
<1> HIDE DEF u
<1>3. ~TreeCompare(tree, u) BY <1>1, <1>2, SameKids DEF TreeCompare, Nodes
<1>4. TreeExact BY <1>3 DEF TreeExact, u
<1>5. AnswersExact
  <2>1. DominatorsOf(succ) = [b \in DOMAIN succ |-> Dom(succ, b)] BY <1>1, DominatorsAre
  <2>2. \A a, b \in DOMAIN succ : Dominates(tree, a, b) <=> a \in Dom(succ, b) BY <1>1, DominatesIs
  <2> QED BY <2>1, <2>2 DEF AnswersExact
<1> QED BY <1>4, <1>5

(* After any sequence of splits, folds and queries the tree is the one a   *)
(* new computation gives: Split and the callers of addNewBlock, changeIm-  *)
(* mediateDominator and eraseNode change all that a change of the paths    *)
(* calls for, for every function.                                          *)
THEOREM TreeStaysExact == ASSUME DominatorsAssumption PROVE Spec => []TreeExact
<1>1. TreeInvariant => TreeExact BY InvariantIsExact
<1> QED BY <1>1, TreeInvariantHolds, PTL

(* dominates never lies: walking up, and from the numbers of any earlier   *)
(* query that are still said to be valid, it answers what the paths say.   *)
THEOREM AnswersStayExact == ASSUME DominatorsAssumption PROVE Spec => []AnswersExact
<1>1. TreeInvariant => AnswersExact BY InvariantIsExact
<1> QED BY <1>1, TreeInvariantHolds, PTL
-----------------------------------------------------------------------------
(* The frontier of a block: of its own edges, and of its children's        *)
(* frontiers what it is not above.                                         *)
DF(g, x) == {z \in DOMAIN g : x \notin Dom(g, z) \ {z} /\ \E y \in Preds(g, z) : x \in Dom(g, y)}
Local(g, t, x) == {z \in g[x] : t.idom[z] # x}

LEMMA FrontierIs == ASSUME NEW g, CFG(g) PROVE FrontierOf(g) = [x \in DOMAIN g |-> DF(g, x)]
<1> DEFINE dom == DominatorsOf(g)
<1>1. dom = [b \in DOMAIN g |-> Dom(g, b)] BY DominatorsAre
<1>2. DOMAIN dom = DOMAIN g /\ \A b \in DOMAIN g : dom[b] = Dom(g, b) BY <1>1
<1>3. \A z : Preds(g, z) \cap DOMAIN g = Preds(g, z) BY DEF Preds
<1>4. FrontierOf(g) = [x \in DOMAIN dom |->
                         {z \in DOMAIN dom : /\ x \notin dom[z] \ {z}
                                             /\ \E y \in Preds(g, z) \cap DOMAIN dom : x \in dom[y]}]
  BY DEF FrontierOf
<1> HIDE DEF dom
<1>5. ASSUME NEW x \in DOMAIN g
      PROVE  DF(g, x) = {z \in DOMAIN dom : /\ x \notin dom[z] \ {z}
                                            /\ \E y \in Preds(g, z) \cap DOMAIN dom : x \in dom[y]}
  <2>1. \A z \in DOMAIN g, y \in DOMAIN g : (x \in dom[y] <=> x \in Dom(g, y)) /\ (x \in dom[z] <=> x \in Dom(g, z))
    BY <1>2
  <2> QED BY <1>2, <1>3, <2>1 DEF DF
<1> QED BY <1>2, <1>4, <1>5

LEMMA ProperlyIs ==
  ASSUME NEW g, CFG(g), NEW t, IsTree(g, t), NEW a \in DOMAIN g, NEW b \in DOMAIN g
  PROVE  ProperlyDominates(t, a, b) <=> a \in Dom(g, b) \ {b}
<1>1. Nodes(t) = DOMAIN g BY ShapeIs DEF IsTree, Nodes
<1> QED BY <1>1, SlowWalkIs DEF ProperlyDominates

LEMMA FrontierParts ==
  ASSUME NEW g, CFG(g), NEW t, IsTree(g, t), NEW x \in DOMAIN g, NEW z
  PROVE  z \in DF(g, x) <=> \/ z \in Local(g, t, x)
                            \/ \E k \in DOMAIN g : t.idom[k] = x /\ z \in FrontierUp(t, x, DF(g, k))
<1>0. /\ Entry \in DOMAIN g /\ \A b \in DOMAIN g : g[b] \subseteq DOMAIN g /\ Entry \notin g[b]
      /\ t.idom[Entry] = None /\ None \notin DOMAIN g
  BY DEF CFG, Flow, IsTree, Shape
<1>1. ASSUME NEW k \in DOMAIN g, t.idom[k] = x PROVE k # Entry /\ x \in Dom(g, k) /\ k \notin Dom(g, x) /\ x # k
  <2>1. k # Entry BY <1>0, <1>1
  <2>2. x \in Dom(g, k) /\ k \notin Dom(g, x) /\ x # k BY <1>1, <2>1, ParentIs
  <2> QED BY <2>1, <2>2
<1>2. ASSUME z \in Local(g, t, x) PROVE z \in DF(g, x)
  <2>1. z \in DOMAIN g /\ z # Entry /\ x \in Preds(g, z) /\ t.idom[z] # x BY <1>0, <1>2 DEF Local, Preds
  <2>2. x \in Dom(g, x) BY DomEnds
  <2>3. ASSUME x \in Dom(g, z), x # z PROVE FALSE
    <3> DEFINE p == t.idom[z]
    <3>1. p \in DOMAIN g /\ p # z /\ p \in Dom(g, z) /\ Dom(g, z) = {z} \cup Dom(g, p) BY <2>1, ParentIs
    <3>2. p # x BY <2>1
    <3> HIDE DEF p
    <3>3. x \in Dom(g, p) BY <2>3, <3>1
    <3>4. p \in Dom(g, x) BY <2>1, <3>1, DomOfPreds
    <3> QED BY <3>1, <3>2, <3>3, <3>4, DomAntisymmetric
  <2> QED BY <2>1, <2>2, <2>3 DEF DF
<1>3. ASSUME NEW k \in DOMAIN g, t.idom[k] = x, z \in FrontierUp(t, x, DF(g, k)) PROVE z \in DF(g, x)
  <2>1. z \in DF(g, k) /\ ~ProperlyDominates(t, x, z) BY <1>3 DEF FrontierUp
  <2>2. z \in DOMAIN g BY <2>1 DEF DF
  <2>3. PICK y \in Preds(g, z) : k \in Dom(g, y) BY <2>1 DEF DF
  <2>4. y \in DOMAIN g BY DEF Preds
  <2>5. x \in Dom(g, k) BY <1>1, <1>3
  <2>6. x \in Dom(g, y) BY <2>3, <2>4, <2>5, DomTransitive
  <2>7. x \notin Dom(g, z) \ {z} BY <2>1, <2>2, ProperlyIs
  <2> QED BY <2>2, <2>6, <2>7 DEF DF
<1>4. ASSUME z \in DF(g, x), z \notin Local(g, t, x)
      PROVE  \E k \in DOMAIN g : t.idom[k] = x /\ z \in FrontierUp(t, x, DF(g, k))
  <2>1. z \in DOMAIN g /\ x \notin Dom(g, z) \ {z} BY <1>4 DEF DF
  <2>2. PICK y \in Preds(g, z) : x \in Dom(g, y) BY <1>4 DEF DF
  <2>3. y \in DOMAIN g /\ z \in g[y] BY DEF Preds
  <2>4. y # x
    <3>1. SUFFICES ASSUME y = x PROVE FALSE OBVIOUS
    <3>2. t.idom[z] = x BY <1>4, <2>3, <3>1 DEF Local
    <3>3. x \in Dom(g, z) /\ x # z BY <1>1, <2>1, <3>2
    <3> QED BY <2>1, <3>3
  <2>5. PICK k \in DOMAIN g \ {Entry} : t.idom[k] = x /\ k \in Dom(g, y)
    <3> DEFINE idom == t.idom
    <3>1. \A b \in DOMAIN g \ {Entry} : IsIdom(g, idom[b], b) BY DEF IsTree
    <3> HIDE DEF idom
    <3>2. \E k \in DOMAIN g \ {Entry} : idom[k] = x /\ k \in Dom(g, y) BY <2>2, <2>3, <2>4, <3>1, Child
    <3> QED BY <3>2 DEF idom
  <2>6. x \in Dom(g, k) /\ k \notin Dom(g, x) /\ k \in DOMAIN g BY <1>1, <2>5
  <2>7. k \notin Dom(g, z) \ {z}
    <3>1. SUFFICES ASSUME k \in Dom(g, z) PROVE k = z OBVIOUS
    <3>2. x \in Dom(g, z) BY <2>1, <2>6, <3>1, DomTransitive
    <3>3. x = z BY <2>1, <3>2
    <3> QED BY <2>6, <3>1, <3>3
  <2>8. z \in DF(g, k) BY <2>1, <2>5, <2>7 DEF DF
  <2>9. ~ProperlyDominates(t, x, z) BY <2>1, ProperlyIs
  <2> QED BY <2>5, <2>8, <2>9 DEF FrontierUp
<1> QED BY <1>2, <1>3, <1>4

(* The work of calculate: a block is over those that have it to go up to. *)
On(work, x) == \E i \in 1 .. Len(work) : work[i].b = x
Batch(todo, x) == [i \in DOMAIN todo |-> [b |-> todo[i], up |-> x]]
Items(g) == [b : DOMAIN g, up : DOMAIN g \cup {None}]
Stacked(g, t, work) ==
  /\ work \in Seq(Items(g))
  /\ \A i \in 1 .. Len(work) : work[i].up = t.idom[work[i].b]
  /\ \A i, j \in 1 .. Len(work) : work[i].b = work[j].b => i = j
  /\ \A i, j \in 1 .. Len(work) : work[j].up = work[i].b => i < j

LEMMA WorkGrows ==
  ASSUME NEW g, NEW t, NEW work, Stacked(g, t, work), NEW x \in DOMAIN g,
         NEW todo \in Seq(DOMAIN g), OneByOne(todo),
         \A y : Occurs(todo, y) => t.idom[y] = x /\ y # x /\ ~On(work, y),
         \A i \in 1 .. Len(work) : ~Occurs(todo, work[i].up),
         NEW new, new = work \o Batch(todo, x)
  PROVE  Stacked(g, t, new) /\ \A y : On(new, y) <=> On(work, y) \/ Occurs(todo, y)
<1> DEFINE n == Len(work)
           m == Len(todo)
           add == Batch(todo, x)
           T == Items(g)
<1>1. work \in Seq(T) /\ n \in Nat /\ m \in Nat /\ DOMAIN todo = 1 .. m BY DEF Stacked
<1>2. \A i \in 1 .. m : todo[i] \in DOMAIN g OBVIOUS
<1>3. add \in Seq(T) /\ Len(add) = m /\ \A i \in 1 .. m : add[i].b = todo[i] /\ add[i].up = x
  <2>1. \A i \in 1 .. m : add[i] = [b |-> todo[i], up |-> x] BY <1>1 DEF Batch
  <2> HIDE DEF add
  <2>2. ASSUME NEW i \in 1 .. m PROVE add[i] \in T
    <3>1. add[i] = [b |-> todo[i], up |-> x] /\ todo[i] \in DOMAIN g BY <1>2, <2>1
    <3>2. x \in DOMAIN g OBVIOUS
    <3> QED BY ONLY <3>1, <3>2 DEF Items
  <2>3. add = [i \in 1 .. m |-> add[i]] BY <1>1 DEF Batch, add
  <2> HIDE DEF T, m
  <2>4. add \in [1 .. m -> T] BY ONLY <2>2, <2>3
  <2>5. m \in Nat BY <1>1
  <2>6. add \in Seq(T) /\ Len(add) = m BY ONLY <2>4, <2>5
  <2> QED BY <2>1, <2>6
<1>4. new = work \o add OBVIOUS
<1> HIDE DEF add, T
<1>5. new \in Seq(T) /\ Len(new) = n + m
  <2>1. work \in Seq(T) /\ Len(work) = n BY <1>1
  <2>2. add \in Seq(T) /\ Len(add) = m BY <1>3
  <2> HIDE DEF n, m
  <2>3. work \o add \in Seq(T) /\ Len(work \o add) = Len(work) + Len(add) BY ONLY <2>1, <2>2, ConcatProperties
  <2> QED BY ONLY <1>4, <2>1, <2>2, <2>3
<1>6. \A i \in 1 .. n : i \in 1 .. n + m /\ new[i] = work[i] BY <1>1, <1>3, <1>4
<1>7. ASSUME NEW i \in 1 .. m PROVE n + i \in 1 .. n + m /\ new[n + i].b = todo[i] /\ new[n + i].up = x
  <2>1. n + i \in 1 .. n + m /\ new[n + i] = add[i] BY <1>1, <1>3, <1>4
  <2> QED BY <1>3, <2>1
<1> HIDE DEF n, m
<1>8. \A i \in 1 .. n + m : i \in 1 .. n \/ \E k \in 1 .. m : i = n + k
  <2>1. SUFFICES ASSUME NEW i \in 1 .. n + m, i \notin 1 .. n PROVE \E k \in 1 .. m : i = n + k OBVIOUS
  <2>2. i - n \in 1 .. m /\ i = n + (i - n) BY <1>1, <2>1
  <2> QED BY <2>2
<1>9. /\ \A i \in 1 .. n : work[i].up = t.idom[work[i].b] /\ On(work, work[i].b)
      /\ \A i, j \in 1 .. n : work[i].b = work[j].b => i = j
      /\ \A i, j \in 1 .. n : work[j].up = work[i].b => i < j
  BY DEF Stacked, On, n
<1>10. /\ \A i \in 1 .. m : Occurs(todo, todo[i])
       /\ \A i, j \in 1 .. m : todo[i] = todo[j] => i = j
  BY DEF OneByOne, Occurs, m
<1> DEFINE IsNew(i) == Occurs(todo, new[i].b) /\ new[i].up = x
           IsOld(i) == i \in 1 .. n
<1>11. ASSUME NEW i \in 1 .. n + m PROVE IsOld(i) \/ IsNew(i)
  <2>1. ASSUME NEW k \in 1 .. m, i = n + k PROVE IsNew(i) BY <1>7, <1>10, <2>1
  <2> QED BY <1>8, <2>1
<1>12. ASSUME NEW i \in 1 .. n + m PROVE new[i].up = t.idom[new[i].b]
  <2>1. CASE IsOld(i) BY <1>6, <1>9, <2>1
  <2>2. CASE IsNew(i) BY <2>2
  <2> QED BY <1>11, <2>1, <2>2
<1>13. ASSUME NEW i \in 1 .. n + m, NEW j \in 1 .. n + m, new[i].b = new[j].b PROVE i = j
  <2>1. CASE IsOld(i) /\ IsOld(j) BY <1>6, <1>9, <1>13, <2>1
  <2>2. CASE IsOld(i) /\ IsNew(j) BY <1>6, <1>9, <1>13, <2>2
  <2>3. CASE IsNew(i) /\ IsOld(j) BY <1>6, <1>9, <1>13, <2>3
  <2>4. CASE ~IsOld(i) /\ ~IsOld(j)
    <3>1. PICK k \in 1 .. m : i = n + k BY <1>8, <2>4
    <3>2. PICK l \in 1 .. m : j = n + l BY <1>8, <2>4
    <3>3. todo[k] = todo[l] BY <1>7, <1>13, <3>1, <3>2
    <3> QED BY <1>10, <3>1, <3>2, <3>3
  <2> QED BY <1>11, <2>1, <2>2, <2>3, <2>4
<1>14. ASSUME NEW i \in 1 .. n + m, NEW j \in 1 .. n + m, new[j].up = new[i].b PROVE i < j
  <2>1. CASE IsOld(i) /\ IsOld(j) BY <1>6, <1>9, <1>14, <2>1
  <2>2. CASE IsNew(i) /\ IsOld(j)
    <3>1. new[j].up = work[j].up /\ ~Occurs(todo, work[j].up) BY <1>6, <2>2 DEF n
    <3> QED BY <1>14, <2>2, <3>1
  <2>3. CASE IsNew(i) /\ IsNew(j) BY <1>14, <2>3
  <2>4. CASE IsOld(i) /\ ~IsOld(j) BY <1>1, <2>4
  <2> QED BY <1>11, <2>1, <2>2, <2>3, <2>4
<1>15. Stacked(g, t, new) BY <1>5, <1>12, <1>13, <1>14 DEF Stacked, T
<1>16. ASSUME NEW y PROVE On(new, y) <=> On(work, y) \/ Occurs(todo, y)
  <2>1. On(new, y) <=> \E i \in 1 .. n + m : new[i].b = y BY <1>5 DEF On
  <2>2. On(work, y) <=> \E i \in 1 .. n : work[i].b = y BY DEF On, n
  <2>3. Occurs(todo, y) <=> \E i \in 1 .. m : todo[i] = y BY DEF Occurs, m
  <2>4. ASSUME NEW i \in 1 .. n + m, new[i].b = y PROVE On(work, y) \/ Occurs(todo, y)
    <3>1. CASE i \in 1 .. n BY <1>6, <2>2, <2>4, <3>1
    <3>2. ASSUME NEW k \in 1 .. m, i = n + k PROVE Occurs(todo, y) BY <1>7, <2>3, <2>4, <3>2
    <3> QED BY <1>8, <3>1, <3>2
  <2>5. ASSUME NEW i \in 1 .. n, work[i].b = y PROVE On(new, y) BY <1>6, <2>1, <2>5
  <2>6. ASSUME NEW i \in 1 .. m, todo[i] = y PROVE On(new, y) BY <1>7, <2>1, <2>6
  <2> QED BY <2>1, <2>2, <2>3, <2>4, <2>5, <2>6
<1> QED BY <1>15, <1>16

LEMMA WorkShrinks ==
  ASSUME NEW g, NEW t, NEW work, Stacked(g, t, work), work # << >>, NEW w, w = Last(work)
  PROVE  /\ Stacked(g, t, Front(work)) /\ On(work, w.b) /\ w \in Items(g) /\ w.up = t.idom[w.b]
         /\ \A y : On(Front(work), y) <=> On(work, y) /\ y # w.b
         /\ \A i \in 1 .. Len(work) : work[i].up # w.b
<1> DEFINE n == Len(work)
           f == Front(work)
           T == Items(g)
<1>1. work \in Seq(T) BY DEF Stacked
<1> HIDE DEF T
<1>2. /\ f \in Seq(T) /\ Len(f) = n - 1 /\ n \in Nat \ {0} /\ \A i \in 1 .. n - 1 : f[i] = work[i]
      /\ w = work[n] /\ work[n] \in T
  BY <1>1, FrontIs
<1> HIDE DEF f
<1>3. \A i \in 1 .. n : i \in 1 .. n - 1 \/ i = n BY <1>2
<1>4. n \in 1 .. n /\ \A i \in 1 .. n - 1 : i \in 1 .. n /\ i # n BY <1>2
<1>5. /\ \A i \in 1 .. n : work[i].up = t.idom[work[i].b]
      /\ \A i, j \in 1 .. n : work[i].b = work[j].b => i = j
      /\ \A i, j \in 1 .. n : work[j].up = work[i].b => i < j
  BY DEF Stacked
<1> DEFINE m == n - 1
<1>6. \A i \in 1 .. m : i \in 1 .. n /\ f[i] = work[i] BY <1>2, <1>4
<1>7. Len(f) = m BY <1>2
<1>8. Stacked(g, t, f)
  <2>1. \A i \in 1 .. m : f[i].up = t.idom[f[i].b] BY <1>5, <1>6
  <2>2. \A i, j \in 1 .. m : f[i].b = f[j].b => i = j
    <3>1. SUFFICES ASSUME NEW i \in 1 .. m, NEW j \in 1 .. m, f[i].b = f[j].b PROVE i = j OBVIOUS
    <3>2. i \in 1 .. n /\ j \in 1 .. n /\ work[i].b = work[j].b BY <1>6, <3>1
    <3> HIDE DEF n, m
    <3> QED BY <1>5, <3>2
  <2>3. \A i, j \in 1 .. m : f[j].up = f[i].b => i < j
    <3>1. SUFFICES ASSUME NEW i \in 1 .. m, NEW j \in 1 .. m, f[j].up = f[i].b PROVE i < j OBVIOUS
    <3>2. i \in 1 .. n /\ j \in 1 .. n /\ work[j].up = work[i].b BY <1>6, <3>1
    <3> HIDE DEF n, m
    <3> QED BY <1>5, <3>2
  <2> HIDE DEF n, m
  <2> QED BY <1>2, <1>7, <2>1, <2>2, <2>3 DEF Stacked, T
<1>9. On(work, w.b) /\ w \in T /\ w.up = t.idom[w.b] BY <1>2, <1>4, <1>5 DEF On
<1>10. ASSUME NEW y PROVE On(f, y) <=> On(work, y) /\ y # w.b
  <2> HIDE DEF n, m
  <2>1. On(f, y) <=> \E i \in 1 .. m : work[i].b = y BY <1>6, <1>7 DEF On
  <2>2. On(work, y) <=> \E i \in 1 .. n : work[i].b = y BY DEF On, n
  <2>3. \A i \in 1 .. m : i \in 1 .. n /\ i # n BY <1>4 DEF m
  <2>4. \A i \in 1 .. n : i \in 1 .. m \/ i = n BY <1>3 DEF m
  <2>5. \A i \in 1 .. m : work[i].b # work[n].b BY <1>4, <1>5, <2>3
  <2> QED BY <1>2, <2>1, <2>2, <2>3, <2>4, <2>5
<1>11. ASSUME NEW i \in 1 .. n, work[i].up = w.b PROVE FALSE
  <2>1. n < i BY <1>2, <1>4, <1>5, <1>11
  <2> QED BY <1>2, <1>11, <2>1
<1> QED BY <1>8, <1>9, <1>10, <1>11 DEF f, T

(* V are the blocks that were seen, and F those that are done with.  A     *)
(* block is known from when its parent is seen; what was found is its own, *)
(* and what those of its children gave it that are done with.              *)
Placed(g, t, work, V, F) ==
  /\ Stacked(g, t, work) /\ F \subseteq V /\ V \subseteq DOMAIN g
  /\ \A x \in V : x \in F <=> ~On(work, x)
  /\ Entry \in F \/ On(work, Entry)
  /\ \A x \in DOMAIN g \ {Entry} : (x \in F \/ On(work, x)) <=> t.idom[x] \in V
Part(g, t, V, F, x, z) ==
  \/ x \in V /\ z \in Local(g, t, x)
  \/ \E k \in F : t.idom[k] = x /\ z \in FrontierUp(t, x, DF(g, k))
Found(g, t, f, V, F) ==
  V \subseteq DOMAIN f /\ \A x \in DOMAIN g : \A z : z \in Get(f, x, {}) <=> Part(g, t, V, F, x, z)

LEMMA KidsAre ==
  ASSUME NEW g, NEW t, IsTree(g, t), NEW x \in DOMAIN g
  PROVE  IsFiniteSet(ToSet(t.kids[x])) /\ \A y : y \in ToSet(t.kids[x]) <=> y \in DOMAIN g /\ t.idom[y] = x
<1>1. t.kids[x] \in Seq(DOMAIN g) /\ OneByOne(t.kids[x]) /\ \A y \in DOMAIN g : Occurs(t.kids[x], y) <=> t.idom[y] = x
  BY ShapeIs DEF IsTree, Shape
<1>2. \A y : Occurs(t.kids[x], y) => y \in DOMAIN g BY <1>1 DEF Occurs
<1>3. IsFiniteSet(ToSet(t.kids[x])) /\ \A y : y \in ToSet(t.kids[x]) <=> Occurs(t.kids[x], y) BY <1>1, CountOf
<1> QED BY <1>1, <1>2, <1>3

(* The block on top is x, with D to come before it, or with nothing more.  *)
Opens(g, t, work, V, F, x, W, D, new) ==
  /\ CFG(g) /\ IsTree(g, t) /\ Placed(g, t, work, V, F) /\ work # << >> /\ x = Last(work).b
  /\ W = V \cup {x} /\ D = ToSet(t.kids[x]) \ W /\ D # {} /\ new = work \o Batch(SetToSeq(D), x)
Closes(g, t, work, V, F, x, W, G, new) ==
  /\ CFG(g) /\ IsTree(g, t) /\ Placed(g, t, work, V, F) /\ work # << >> /\ x = Last(work).b
  /\ W = V \cup {x} /\ G = F \cup {x} /\ ToSet(t.kids[x]) \subseteq W /\ new = Front(work)
KidsIn(g, t, x, F) == \A y \in DOMAIN g : t.idom[y] = x => y \in F

LEMMA PlacedOpens ==
  ASSUME NEW g, NEW t, NEW work, NEW V, NEW F, NEW x, NEW W, NEW D, NEW new, Opens(g, t, work, V, F, x, W, D, new)
  PROVE  Placed(g, t, new, W, F) /\ x \notin V
<1> USE DEF Opens
<1> DEFINE B == DOMAIN g
           todo == SetToSeq(D)
<1>0. /\ Stacked(g, t, work) /\ F \subseteq V /\ V \subseteq B
      /\ \A y \in V : y \in F <=> ~On(work, y)
      /\ Entry \in F \/ On(work, Entry)
      /\ \A y \in B \ {Entry} : (y \in F \/ On(work, y)) <=> t.idom[y] \in V
  BY DEF Placed
<1>1. On(work, x) /\ x \in B /\ \A i \in 1 .. Len(work) : work[i].up # x
  <2>1. /\ On(work, Last(work).b) /\ Last(work) \in Items(g)
        /\ \A i \in 1 .. Len(work) : work[i].up # Last(work).b
    BY <1>0, WorkShrinks
  <2> QED BY <2>1 DEF Items
<1>2. t.idom[Entry] = None /\ None \notin B /\ Entry \in B BY DEF IsTree, Shape, CFG, Flow
<1>3. IsFiniteSet(D) /\ \A y : y \in D <=> y \in B /\ t.idom[y] = x /\ y \notin V /\ y # x
  <2>1. IsFiniteSet(ToSet(t.kids[x])) /\ \A y : y \in ToSet(t.kids[x]) <=> y \in B /\ t.idom[y] = x
    BY <1>1, KidsAre
  <2>2. D \in SUBSET ToSet(t.kids[x]) OBVIOUS
  <2>3. IsFiniteSet(D) BY <2>1, <2>2, FS_Subset
  <2> QED BY <2>1, <2>3
<1>4. x \notin V
  <2>1. SUFFICES ASSUME x \in V PROVE FALSE OBVIOUS
  <2>2. PICK y \in D : TRUE OBVIOUS
  <2>3. y \in B \ {Entry} /\ t.idom[y] = x /\ y \notin F BY <1>0, <1>1, <1>2, <1>3, <2>2
  <2>4. On(work, y) BY <1>0, <2>1, <2>3
  <2>5. PICK i \in 1 .. Len(work) : work[i].b = y BY <2>4 DEF On
  <2>6. work[i].up = x BY <1>0, <2>3, <2>5 DEF Stacked
  <2> QED BY <1>1, <2>6
<1>5. ASSUME NEW y \in B, t.idom[y] = x PROVE y \in D /\ y \notin F /\ ~On(work, y) /\ y # Entry
  <2>1. y # Entry BY <1>1, <1>2, <1>5
  <2>2. y \notin F /\ ~On(work, y) BY <1>0, <1>4, <1>5, <2>1
  <2>3. y # x BY <1>5, <2>1, ParentIs
  <2>4. y \notin V BY <1>0, <2>2
  <2> QED BY <1>3, <1>5, <2>1, <2>2, <2>3, <2>4
<1>6. todo \in Seq(B) /\ OneByOne(todo) /\ \A y : Occurs(todo, y) <=> y \in B /\ t.idom[y] = x
  <2>1. todo \in Seq(D) /\ OneByOne(todo) /\ \A y \in D : Occurs(todo, y) BY <1>3, ListOfSet
  <2> HIDE DEF todo
  <2>2. \A y : Occurs(todo, y) => y \in D BY <2>1 DEF Occurs
  <2>3. D \subseteq B BY <1>3
  <2>4. todo \in Seq(B) BY <2>1, <2>3, WiderList
  <2> QED BY <1>3, <1>5, <2>1, <2>2, <2>4
<1>7. ASSUME NEW i \in 1 .. Len(work) PROVE ~Occurs(todo, work[i].up)
  <2> DEFINE y == work[i].up
             c == work[i].b
  <2>1. On(work, c) /\ c \in B /\ y = t.idom[c]
    <3>1. work \in Seq(Items(g)) /\ work[i].up = t.idom[work[i].b] BY <1>0 DEF Stacked
    <3>2. work[i] \in Items(g) BY <3>1
    <3> QED BY <3>1, <3>2 DEF Items, On
  <2> HIDE DEF y, c
  <2>2. SUFFICES ASSUME Occurs(todo, y) PROVE FALSE BY DEF y
  <2>3. y \in B /\ t.idom[y] = x BY <1>6, <2>2
  <2>4. c # Entry BY <1>2, <2>1, <2>3
  <2>5. y \in V BY <1>0, <2>1, <2>4
  <2> QED BY <1>0, <1>5, <2>3, <2>5
<1>8. new = work \o Batch(todo, x) OBVIOUS
<1> HIDE DEF todo
<1>9. Stacked(g, t, new) /\ \A y : On(new, y) <=> On(work, y) \/ Occurs(todo, y)
  <2>1. \A y : Occurs(todo, y) => t.idom[y] = x /\ y # x /\ ~On(work, y) BY <1>3, <1>5, <1>6
  <2>2. todo \in Seq(B) /\ OneByOne(todo) /\ x \in B /\ Stacked(g, t, work) BY <1>0, <1>1, <1>6
  <2>3. \A i \in 1 .. Len(work) : ~Occurs(todo, work[i].up) BY <1>7
  <2> QED BY ONLY <1>8, <2>1, <2>2, <2>3, WorkGrows
<1>10. \A y \in W : y \in F <=> ~On(new, y) BY <1>0, <1>1, <1>4, <1>5, <1>6, <1>9
<1>11. \A y \in B \ {Entry} : (y \in F \/ On(new, y)) <=> t.idom[y] \in W BY <1>0, <1>6, <1>9
<1> QED BY <1>0, <1>1, <1>4, <1>9, <1>10, <1>11 DEF Placed

LEMMA PlacedCloses ==
  ASSUME NEW g, NEW t, NEW work, NEW V, NEW F, NEW x, NEW W, NEW G, NEW new, Closes(g, t, work, V, F, x, W, G, new)
  PROVE  Placed(g, t, new, W, G) /\ x \notin F /\ KidsIn(g, t, x, F)
<1> USE DEF Closes
<1> DEFINE B == DOMAIN g
<1>0. /\ Stacked(g, t, work) /\ F \subseteq V /\ V \subseteq B
      /\ \A y \in V : y \in F <=> ~On(work, y)
      /\ Entry \in F \/ On(work, Entry)
      /\ \A y \in B \ {Entry} : (y \in F \/ On(work, y)) <=> t.idom[y] \in V
  BY DEF Placed
<1>1. /\ On(work, x) /\ x \in B /\ Last(work).up = t.idom[x] /\ Stacked(g, t, new)
      /\ \A y : On(new, y) <=> On(work, y) /\ y # x
      /\ \A i \in 1 .. Len(work) : work[i].up # x
  <2> DEFINE w == Last(work)
  <2>1. /\ Stacked(g, t, new) /\ On(work, w.b) /\ w \in Items(g) /\ w.up = t.idom[w.b]
        /\ \A y : On(new, y) <=> On(work, y) /\ y # w.b
        /\ \A i \in 1 .. Len(work) : work[i].up # w.b
    BY <1>0, WorkShrinks
  <2> HIDE DEF w
  <2>2. x = w.b BY DEF w
  <2>3. x \in B BY <2>1, <2>2 DEF Items
  <2> QED BY <2>1, <2>2, <2>3 DEF w
<1>2. t.idom[Entry] = None /\ None \notin B BY DEF IsTree, Shape
<1>3. \A y \in F : ~On(work, y) BY <1>0
<1>4. x \notin F BY <1>1, <1>3
<1>5. ASSUME NEW y \in B, t.idom[y] = x PROVE y \in F /\ x \in V
  <2>1. y # Entry BY <1>1, <1>2, <1>5
  <2>2. y # x BY <1>5, <2>1, ParentIs
  <2>3. y \in ToSet(t.kids[x]) BY <1>1, <1>5, KidsAre
  <2>4. y \in V BY <2>2, <2>3
  <2>5. ~On(work, y)
    <3>1. SUFFICES ASSUME On(work, y) PROVE FALSE OBVIOUS
    <3>2. PICK i \in 1 .. Len(work) : work[i].b = y BY <3>1 DEF On
    <3>3. work[i].up = x BY <1>0, <1>5, <3>2 DEF Stacked
    <3> QED BY <1>1, <3>3
  <2>6. y \in F BY <1>0, <2>4, <2>5
  <2> QED BY <1>0, <1>5, <2>1, <2>6
<1>6. \A y \in W : y \in G <=> ~On(new, y) BY <1>0, <1>1
<1>7. Entry \in G \/ On(new, Entry) BY <1>0, <1>1
<1>8. \A y \in B \ {Entry} : (y \in G \/ On(new, y)) <=> t.idom[y] \in W BY <1>0, <1>1, <1>5
<1>9. Placed(g, t, new, W, G) BY <1>0, <1>1, <1>6, <1>7, <1>8 DEF Placed
<1> QED BY <1>4, <1>5, <1>9 DEF KidsIn

(* x is seen: what it has of its own is found; its part goes up to p.      *)
Sees(g, t, f, V, x, W, here) ==
  /\ x \in DOMAIN g /\ W = V \cup {x}
  /\ here = Put(f, x, Get(f, x, {}) \cup (IF x \in V THEN {} ELSE Local(g, t, x)))
FoundAt(g, t, here, W, F, x) == Found(g, t, here, W, F) /\ here[x] = Get(here, x, {})
Gives(g, t, f, F, x, p, G, given) ==
  t.idom[x] = p /\ G = F \cup {x} /\ given = Put(f, p, Get(f, p, {}) \cup FrontierUp(t, p, DF(g, x)))
Given(t, here, x, p, f) ==
  p = t.idom[x] /\ f = IF p = None THEN here ELSE Put(here, p, Get(here, p, {}) \cup FrontierUp(t, p, here[x]))

LEMMA FoundSees ==
  ASSUME NEW g, NEW t, NEW f, NEW V, NEW F, NEW x, NEW W, NEW here, Found(g, t, f, V, F), Sees(g, t, f, V, x, W, here)
  PROVE  FoundAt(g, t, here, W, F, x)
<1> DEFINE local == IF x \in V THEN {} ELSE Local(g, t, x)
           v == Get(f, x, {}) \cup local
<1>0. x \in DOMAIN g /\ W = V \cup {x} /\ here = Put(f, x, v) BY DEF Sees
<1>1. DOMAIN here = DOMAIN f \cup {x} /\ \A y : Get(here, y, {}) = IF y = x THEN v ELSE Get(f, y, {})
  <2> HIDE DEF v
  <2> QED BY ONLY <1>0 DEF Get, Put
<1>2. here[x] = Get(here, x, {}) BY <1>1 DEF Get
<1>3. ASSUME NEW y \in DOMAIN g, NEW z PROVE z \in Get(here, y, {}) <=> Part(g, t, W, F, y, z)
  <2>1. z \in Get(f, y, {}) <=> Part(g, t, V, F, y, z) BY DEF Found
  <2>2. CASE y = x BY <1>0, <1>1, <2>1, <2>2 DEF Part
  <2>3. CASE y # x BY <1>0, <1>1, <2>1, <2>3 DEF Part
  <2> QED BY <2>2, <2>3
<1>4. V \subseteq DOMAIN f BY DEF Found
<1> QED BY <1>0, <1>1, <1>2, <1>3, <1>4 DEF Found, FoundAt

LEMMA FoundWhole ==
  ASSUME NEW g, CFG(g), NEW t, IsTree(g, t), NEW f, NEW V, NEW F, F \subseteq DOMAIN g, Found(g, t, f, V, F),
         NEW x, x \in V, x \in DOMAIN g, KidsIn(g, t, x, F)
  PROVE  Get(f, x, {}) = DF(g, x)
<1>1. \A z : z \in Get(f, x, {}) <=> Part(g, t, V, F, x, z) BY DEF Found
<1>2. \A z : z \in DF(g, x) <=> Part(g, t, V, F, x, z) BY FrontierParts DEF Part, KidsIn
<1> QED BY <1>1, <1>2

LEMMA FoundGives ==
  ASSUME NEW g, NEW t, NEW f, NEW V, NEW F, NEW x, NEW p, NEW G, NEW given,
         Found(g, t, f, V, F), Gives(g, t, f, F, x, p, G, given)
  PROVE  Found(g, t, given, V, G)
<1> DEFINE v == Get(f, p, {}) \cup FrontierUp(t, p, DF(g, x))
<1>0. t.idom[x] = p /\ G = F \cup {x} /\ given = Put(f, p, v) BY DEF Gives
<1>1. DOMAIN given = DOMAIN f \cup {p} /\ \A y : Get(given, y, {}) = IF y = p THEN v ELSE Get(f, y, {})
  <2> HIDE DEF v
  <2> QED BY ONLY <1>0 DEF Get, Put
<1>2. ASSUME NEW y \in DOMAIN g, NEW z PROVE z \in Get(given, y, {}) <=> Part(g, t, V, G, y, z)
  <2>1. z \in Get(f, y, {}) <=> Part(g, t, V, F, y, z) BY DEF Found
  <2>2. CASE y = p BY <1>0, <1>1, <2>1, <2>2 DEF Part
  <2>3. CASE y # p BY <1>0, <1>1, <2>1, <2>3 DEF Part
  <2> QED BY <2>2, <2>3
<1> QED BY <1>1, <1>2 DEF Found

Walking(g, t, s, V, F) == s.visited = V /\ Placed(g, t, s.work, V, F) /\ Found(g, t, s.f, V, F)

LEMMA VisitOpens ==
  ASSUME NEW g, NEW t, NEW V, NEW F, NEW work, NEW x, NEW W, NEW D, NEW new, NEW here,
         Opens(g, t, work, V, F, x, W, D, new), FoundAt(g, t, here, W, F, x), IsFiniteSet(V),
         NEW r, r = [work |-> new, visited |-> W, f |-> here]
  PROVE  Walking(g, t, r, W, F) /\ Cardinality(W) = Cardinality(V) + 1
<1>1. Placed(g, t, new, W, F) /\ x \notin V BY ONLY Opens(g, t, work, V, F, x, W, D, new), PlacedOpens
<1>2. Walking(g, t, r, W, F) BY <1>1 DEF Walking, FoundAt
<1>3. W = V \cup {x} BY DEF Opens
<1>4. Cardinality(W) = Cardinality(V) + 1 BY <1>1, <1>3, FS_AddElement
<1> QED BY <1>2, <1>4

LEMMA VisitCloses ==
  ASSUME NEW g, NEW t, NEW V, NEW F, NEW work, NEW x, NEW W, NEW G, NEW new, NEW here, NEW p, NEW f,
         Closes(g, t, work, V, F, x, W, G, new), FoundAt(g, t, here, W, F, x), Given(t, here, x, p, f),
         F \subseteq V, V \subseteq DOMAIN g, x \in DOMAIN g,
         NEW r, r = [work |-> new, visited |-> W, f |-> f]
  PROVE  Walking(g, t, r, W, G) /\ x \notin F
<1>1. Placed(g, t, new, W, G) /\ x \notin F /\ KidsIn(g, t, x, F)
  BY ONLY Closes(g, t, work, V, F, x, W, G, new), PlacedCloses
<1>2. x \in W /\ F \subseteq DOMAIN g /\ G = F \cup {x} /\ CFG(g) /\ IsTree(g, t) BY DEF Closes
<1>3. Found(g, t, here, W, F) /\ here[x] = Get(here, x, {}) BY DEF FoundAt
<1>4. here[x] = DF(g, x)
  <2>1. x \in DOMAIN g OBVIOUS
  <2>2. Get(here, x, {}) = DF(g, x) BY ONLY <1>1, <1>2, <1>3, <2>1, FoundWhole
  <2> QED BY <1>3, <2>2
<1>5. p = t.idom[x] /\ f = IF p = None THEN here ELSE Put(here, p, Get(here, p, {}) \cup FrontierUp(t, p, here[x]))
  BY DEF Given
<1>6. Found(g, t, f, W, G)
  <2>1. CASE p # None
    <3>1. f = Put(here, p, Get(here, p, {}) \cup FrontierUp(t, p, DF(g, x))) BY <1>4, <1>5, <2>1
    <3>2. Gives(g, t, here, F, x, p, G, f) BY <1>2, <1>5, <3>1 DEF Gives
    <3> QED BY ONLY <1>3, <3>2, FoundGives
  <2>2. CASE p = None
    <3>1. f = here BY <1>5, <2>2
    <3>2. None \notin DOMAIN g BY <1>2 DEF IsTree, Shape
    <3>3. \A y \in DOMAIN g : \A z : Part(g, t, W, G, y, z) <=> Part(g, t, W, F, y, z)
      BY <1>2, <1>5, <2>2, <3>2 DEF Part
    <3> QED BY <1>3, <3>1, <3>3 DEF Found
  <2> QED BY <2>1, <2>2
<1> QED BY <1>1, <1>6 DEF Walking

LEMMA TopIs ==
  ASSUME NEW g, NEW t, NEW work, Stacked(g, t, work), work # << >>, NEW w, w = Last(work)
  PROVE  w.b \in DOMAIN g /\ w.up = t.idom[w.b]
<1> DEFINE T == Items(g)
           n == Len(work)
<1>1. work \in Seq(T) BY DEF Stacked
<1> HIDE DEF T
<1>2. w = work[n] /\ work[n] \in T /\ n \in Nat \ {0} BY <1>1, FrontIs
<1>3. n \in 1 .. n BY <1>2
<1>4. work[n].up = t.idom[work[n].b] BY <1>3 DEF Stacked
<1> QED BY <1>2, <1>4 DEF T, Items

LEMMA VisitSteps ==
  ASSUME NEW g, CFG(g), NEW t, IsTree(g, t), NEW s, NEW V, NEW F, Walking(g, t, s, V, F), s.work # << >>
  PROVE  \E W, G : /\ Walking(g, t, VisitNext(g, t, s), W, G)
                   /\ Cardinality(W) + Cardinality(G) = Cardinality(V) + Cardinality(F) + 1
                      \/ Cardinality(W) + Cardinality(G) = Cardinality(V) + Cardinality(F) + 2
<1> DEFINE work == s.work
           w == Last(work)
           x == w.b
           p == w.up
           here == Put(s.f, x, Get(s.f, x, {}) \cup (IF x \in V THEN {} ELSE Local(g, t, x)))
           W == V \cup {x}
           G == F \cup {x}
           D == ToSet(t.kids[x]) \ W
           f == IF p = None THEN here ELSE Put(here, p, Get(here, p, {}) \cup FrontierUp(t, p, here[x]))
           longer == work \o Batch(SetToSeq(D), x)
           shorter == Front(work)
           opened == [work |-> longer, visited |-> W, f |-> here]
           closed == [work |-> shorter, visited |-> W, f |-> f]
           r == VisitNext(g, t, s)
<1>1. s.visited = V /\ Placed(g, t, work, V, F) /\ Found(g, t, s.f, V, F) /\ work # << >> BY DEF Walking
<1>2. r = IF SetToSeq(D) # << >> THEN opened ELSE closed BY <1>1 DEF VisitNext, Local, Batch
<1>3. F \subseteq V /\ V \subseteq DOMAIN g /\ Stacked(g, t, work)
  <2> HIDE DEF work
  <2> QED BY <1>1 DEF Placed
<1>4. IsFiniteSet(V) /\ IsFiniteSet(F) /\ Cardinality(V) \in Nat /\ Cardinality(F) \in Nat
  <2>1. IsFiniteSet(DOMAIN g) /\ V \in SUBSET DOMAIN g /\ F \in SUBSET V BY <1>3 DEF CFG, Flow
  <2>2. IsFiniteSet(V) BY <2>1, FS_Subset
  <2>3. IsFiniteSet(F) BY <2>1, <2>2, FS_Subset
  <2> QED BY <2>2, <2>3, FS_CardinalityType
<1>5. x \in DOMAIN g /\ p = t.idom[x]
  <2> HIDE DEF work
  <2> QED BY <1>1, <1>3, TopIs
<1>6. IsFiniteSet(D)
  <2>1. IsFiniteSet(ToSet(t.kids[x])) BY <1>5, KidsAre
  <2>2. D \in SUBSET ToSet(t.kids[x]) OBVIOUS
  <2> QED BY <2>1, <2>2, FS_Subset
<1>7. SetToSeq(D) # << >> <=> D # {}
  <2> HIDE DEF D
  <2> DEFINE todo == SetToSeq(D)
  <2>1. todo \in Seq(D) /\ Len(todo) \in Nat /\ \A y \in D : Occurs(todo, y) BY <1>6, ListOfSet
  <2> HIDE DEF todo
  <2>2. ASSUME todo # << >> PROVE D # {} BY <2>1, <2>2
  <2>3. ASSUME NEW y \in D PROVE todo # << >> BY <2>1 DEF Occurs
  <2>4. todo # << >> <=> D # {} BY <2>2, <2>3
  <2> QED BY <2>4 DEF todo
<1>8. FoundAt(g, t, here, W, F, x)
  <2> DEFINE sf == s.f
  <2>1. Sees(g, t, sf, V, x, W, here) BY <1>5 DEF Sees
  <2>2. Found(g, t, sf, V, F) BY <1>1
  <2> HIDE DEF here, x, sf, W
  <2> QED BY ONLY <2>1, <2>2, FoundSees
<1>9. Given(t, here, x, p, f)
  <2> HIDE DEF x, p, here
  <2> QED BY <1>5 DEF Given
<1>10. /\ x = Last(work).b /\ W = V \cup {x} /\ G = F \cup {x} /\ D = ToSet(t.kids[x]) \ W
       /\ longer = work \o Batch(SetToSeq(D), x) /\ shorter = Front(work)
       /\ CFG(g) /\ IsTree(g, t) /\ Placed(g, t, work, V, F) /\ work # << >>
  BY <1>1
<1> HIDE DEF work, x, p, W, G, D, here, r, f, longer, shorter
<1>11. CASE D # {}
  <2>1. r = [work |-> longer, visited |-> W, f |-> here] BY <1>2, <1>7, <1>11
  <2>2. Opens(g, t, work, V, F, x, W, D, longer) BY <1>10, <1>11 DEF Opens
  <2>3. Walking(g, t, r, W, F) /\ Cardinality(W) = Cardinality(V) + 1 BY ONLY <1>4, <1>8, <2>1, <2>2, VisitOpens
  <2>4. Cardinality(W) + Cardinality(F) = Cardinality(V) + Cardinality(F) + 1 BY <1>4, <2>3
  <2> QED BY <2>3, <2>4 DEF r
<1>12. CASE D = {}
  <2>1. r = [work |-> shorter, visited |-> W, f |-> f] BY <1>2, <1>7, <1>12
  <2>2. Closes(g, t, work, V, F, x, W, G, shorter) BY <1>10, <1>12 DEF Closes
  <2>3. x \in DOMAIN g BY <1>5
  <2>4. Walking(g, t, r, W, G) /\ x \notin F BY ONLY <1>3, <1>8, <1>9, <2>1, <2>2, <2>3, VisitCloses
  <2>5. Cardinality(G) = Cardinality(F) + 1 BY <1>4, <1>10, <2>4, FS_AddElement
  <2>6. Cardinality(W) = Cardinality(V) + 1 \/ Cardinality(W) = Cardinality(V) BY <1>4, <1>10, FS_AddElement
  <2>7. \/ Cardinality(W) + Cardinality(G) = Cardinality(V) + Cardinality(F) + 1
        \/ Cardinality(W) + Cardinality(G) = Cardinality(V) + Cardinality(F) + 2
    BY <1>4, <2>5, <2>6
  <2> QED BY <2>4, <2>7 DEF r
<1> QED BY <1>11, <1>12

(* The states of calculate. *)
VisitStart == [work |-> <<[b |-> Entry, up |-> None]>>, visited |-> {}, f |-> << >>]
IsVisit(g, t, n, f) == f = [k \in 0 .. n |-> IF k = 0 THEN VisitStart ELSE VisitNext(g, t, f[k - 1])]

LEMMA VisitUnfolds ==
  ASSUME NEW g, NEW t, NEW n \in Nat
  PROVE  \E f : IsVisit(g, t, n, f)
<1> DEFINE S == {k \in 0 .. n : \E f : IsVisit(g, t, k, f)}
<1>1. 0 \in S
  <2> DEFINE f == [i \in 0 .. 0 |-> VisitStart]
  <2>1. IsVisit(g, t, 0, f) BY DEF IsVisit
  <2> HIDE DEF f
  <2> QED BY <2>1
<1>2. ASSUME NEW k \in 0 .. n - 1, k \in S PROVE k + 1 \in S
  <2>1. PICK f : IsVisit(g, t, k, f) BY <1>2
  <2> DEFINE h == [i \in 0 .. k + 1 |-> IF i <= k THEN f[i] ELSE VisitNext(g, t, f[k])]
  <2>2. ASSUME NEW i \in 0 .. k + 1 PROVE h[i] = IF i = 0 THEN VisitStart ELSE VisitNext(g, t, h[i - 1])
    <3>1. CASE i = 0 BY <2>1, <3>1 DEF IsVisit
    <3>2. CASE i # 0 /\ i <= k
      <4>1. h[i] = f[i] /\ h[i - 1] = f[i - 1] BY <3>2
      <4>2. f[i] = VisitNext(g, t, f[i - 1]) BY <2>1, <3>2 DEF IsVisit
      <4> QED BY <3>2, <4>1, <4>2
    <3>3. CASE i = k + 1
      <4>1. h[i] = VisitNext(g, t, f[k]) /\ h[i - 1] = f[k] /\ i # 0 BY <3>3
      <4> QED BY <3>3, <4>1
    <3> QED BY <3>1, <3>2, <3>3
  <2>3. IsVisit(g, t, k + 1, h)
    <3>1. h = [i \in 0 .. k + 1 |-> h[i]] OBVIOUS
    <3> HIDE DEF h
    <3> QED BY <2>2, <3>1 DEF IsVisit
  <2>4. k + 1 \in 0 .. n OBVIOUS
  <2> QED BY <2>3, <2>4
<1> HIDE DEF S
<1>3. \A k \in 0 .. n : k \in S BY <1>1, <1>2, UpTo
<1>4. n \in S BY <1>3
<1> QED BY <1>4 DEF S

LEMMA VisitStarts == ASSUME NEW g, CFG(g), NEW t, IsTree(g, t) PROVE Walking(g, t, VisitStart, {}, {})
<1> DEFINE w == [b |-> Entry, up |-> None]
           work == <<w>>
<1>0. t.idom[Entry] = None /\ None \notin DOMAIN g /\ Entry \in DOMAIN g BY DEF IsTree, Shape, CFG, Flow
<1>1. w \in Items(g) BY <1>0 DEF Items
<1>2. w.b = Entry /\ w.up = None OBVIOUS
<1> HIDE DEF w
<1>3. work \in Seq(Items(g)) /\ Len(work) = 1 /\ work[1] = w BY <1>1
<1> HIDE DEF work
<1>4. \A i \in 1 .. Len(work) : i = 1 BY <1>3
<1>5. Stacked(g, t, work)
  <2>1. \A i \in 1 .. Len(work) : work[i].b = Entry /\ work[i].up = None BY <1>2, <1>3, <1>4
  <2>2. None # Entry BY <1>0
  <2> QED BY <1>0, <1>3, <1>4, <2>1, <2>2 DEF Stacked
<1>6. \A x : On(work, x) <=> x = Entry
  <2>1. 1 \in 1 .. Len(work) BY <1>3
  <2> QED BY <1>2, <1>3, <1>4, <2>1 DEF On
<1>7. Placed(g, t, work, {}, {})
  <2>1. {} \subseteq DOMAIN g OBVIOUS
  <2> QED BY <1>5, <1>6, <2>1 DEF Placed
<1>8. Found(g, t, << >>, {}, {})
  <2>1. \A x : Get(<< >>, x, {}) = {} BY DEF Get
  <2> QED BY <2>1 DEF Found, Part
<1>9. VisitStart.work = work /\ VisitStart.visited = {} /\ VisitStart.f = << >> BY DEF VisitStart, work, w
<1> QED BY <1>7, <1>8, <1>9 DEF Walking

LEMMA VisitEnds ==
  ASSUME NEW g, CFG(g), NEW t, IsTree(g, t), NEW s, NEW V, NEW F, Walking(g, t, s, V, F), s.work = << >>,
         NEW x \in DOMAIN g
  PROVE  x \in DOMAIN s.f /\ s.f[x] = DF(g, x)
<1> DEFINE B == DOMAIN g
           S == B \ F
           dom == [y \in B |-> Dom(g, y)]
           f == s.f
<1>1. Placed(g, t, << >>, V, F) /\ Found(g, t, f, V, F) BY DEF Walking
<1>2. \A y : ~On(<< >>, y) BY DEF On
<1>3. /\ F \subseteq V /\ V \subseteq B /\ Entry \in F
      /\ \A y \in B \ {Entry} : y \in F <=> t.idom[y] \in V
  BY <1>1, <1>2 DEF Placed
<1>4. F = B
  <2>1. SUFFICES ASSUME S # {} PROVE FALSE BY <1>3
  <2>2. \A y \in S : IsFiniteSet(dom[y]) BY DomFinite
  <2> HIDE DEF S, dom
  <2>3. PICK y \in S : \A z \in S : Cardinality(dom[y]) <= Cardinality(dom[z]) BY <2>1, <2>2, Fewest
  <2>4. y \in B \ {Entry} /\ y \notin F BY <1>3 DEF S
  <2> DEFINE p == t.idom[y]
  <2>5. p \in B /\ p # y /\ p \in Dom(g, y) BY <2>4, ParentIs
  <2>6. p \notin F BY <1>3, <2>4
  <2> HIDE DEF p
  <2>7. Cardinality(dom[y]) <= Cardinality(dom[p]) BY <2>3, <2>5, <2>6 DEF S
  <2>8. dom[y] = Dom(g, y) /\ dom[p] = Dom(g, p) BY <2>4, <2>5 DEF dom
  <2>9. Cardinality(Dom(g, p)) < Cardinality(Dom(g, y)) BY <2>4, <2>5, DomFewer
  <2>10. Cardinality(Dom(g, p)) \in Nat /\ Cardinality(Dom(g, y)) \in Nat BY <2>4, <2>5, DomFinite
  <2> QED BY <2>7, <2>8, <2>9, <2>10
<1>5. x \in V /\ x \in DOMAIN f BY <1>1, <1>3, <1>4 DEF Found
<1>6. KidsIn(g, t, x, F) /\ F \subseteq DOMAIN g /\ x \in DOMAIN g BY <1>4 DEF KidsIn
<1>7. CFG(g) /\ IsTree(g, t) OBVIOUS
<1> HIDE DEF f
<1>8. Get(f, x, {}) = DF(g, x) BY ONLY <1>1, <1>5, <1>6, <1>7, FoundWhole
<1> QED BY <1>5, <1>8 DEF Get, f

LEMMA VisitCounts ==
  ASSUME NEW g, CFG(g), NEW t, NEW s, NEW V, NEW F, Walking(g, t, s, V, F)
  PROVE  /\ Cardinality(V) \in Nat /\ Cardinality(F) \in Nat
         /\ s.work # << >> => Cardinality(V) + Cardinality(F) < 2 * Cardinality(DOMAIN g)
<1> DEFINE B == DOMAIN g
           work == s.work
<1>1. Placed(g, t, work, V, F) BY DEF Walking
<1> HIDE DEF work
<1>2. F \subseteq V /\ V \subseteq B /\ Stacked(g, t, work) /\ \A y \in V : y \in F <=> ~On(work, y) BY <1>1 DEF Placed
<1>3. IsFiniteSet(B) /\ V \in SUBSET B /\ F \in SUBSET B BY <1>2 DEF CFG, Flow
<1>4. IsFiniteSet(V) /\ IsFiniteSet(F) /\ Cardinality(V) <= Cardinality(B) /\ Cardinality(F) <= Cardinality(B)
  BY <1>3, FS_Subset
<1>5. Cardinality(V) \in Nat /\ Cardinality(F) \in Nat /\ Cardinality(B) \in Nat BY <1>3, <1>4, FS_CardinalityType
<1>6. ASSUME work # << >> PROVE Cardinality(V) + Cardinality(F) < 2 * Cardinality(B)
  <2> DEFINE x == Last(work).b
  <2>1. x \in B BY <1>2, <1>6, TopIs
  <2>2. On(work, x)
    <3> DEFINE n == Len(work)
               T == Items(g)
    <3>1. work \in Seq(T) BY <1>2 DEF Stacked
    <3> HIDE DEF T
    <3>2. Last(work) = work[n] /\ n \in Nat \ {0} BY <1>6, <3>1, FrontIs
    <3>3. n \in 1 .. n BY <3>2
    <3> QED BY <3>2, <3>3 DEF On
  <2> HIDE DEF x
  <2>3. x \notin F BY <1>2, <2>2
  <2>4. F # B BY <2>1, <2>3
  <2>5. Cardinality(F) # Cardinality(B) BY <1>3, <2>4, FS_Subset
  <2> QED BY <1>4, <1>5, <2>5
<1> QED BY <1>5, <1>6 DEF work

(* calculate finds the frontier of every block, whatever the order.        *)
LEMMA CalculateIs ==
  ASSUME NEW g, CFG(g), NEW t, IsTree(g, t), NEW x \in DOMAIN g
  PROVE  x \in DOMAIN CalculateFrontier(g, t) /\ CalculateFrontier(g, t)[x] = DF(g, x)
<1> DEFINE n == 2 * Cardinality(DOMAIN g)
           f == CHOOSE f : IsVisit(g, t, n, f)
<1>1. Nodes(t) = DOMAIN g BY ShapeIs DEF IsTree, Nodes
<1>2. n \in Nat
  <2>1. IsFiniteSet(DOMAIN g) BY DEF CFG, Flow
  <2>2. Cardinality(DOMAIN g) \in Nat BY <2>1, FS_CardinalityType
  <2> QED BY <2>2
<1>3. CalculateFrontier(g, t) = f[n].f BY <1>1 DEF CalculateFrontier, IsVisit, VisitStart
<1>4. IsVisit(g, t, n, f)
  <2> HIDE DEF n
  <2> QED BY <1>2, VisitUnfolds
<1> HIDE DEF f
<1> DEFINE Far(k, V, F) ==
             Walking(g, t, f[k], V, F) /\ (f[k].work = << >> \/ Cardinality(V) + Cardinality(F) >= k)
           S == {k \in 0 .. n : \E V, F : Far(k, V, F)}
<1>5. 0 \in S
  <2> HIDE DEF n
  <2>1. f[0] = VisitStart BY <1>2, <1>4 DEF IsVisit
  <2>2. Walking(g, t, f[0], {}, {}) BY <2>1, VisitStarts
  <2>3. Cardinality({}) = 0 BY FS_EmptySet
  <2>4. Far(0, {}, {}) BY <2>2, <2>3
  <2> QED BY <1>2, <2>4
<1>6. ASSUME NEW k \in 0 .. n - 1, k \in S PROVE k + 1 \in S
  <2> HIDE DEF n
  <2>1. PICK V, F : Far(k, V, F) BY <1>6
  <2>2. k \in Nat /\ k + 1 \in 0 .. n /\ k + 1 # 0 /\ k + 1 - 1 = k BY <1>2
  <2> DEFINE s == f[k]
  <2>3. f[k + 1] = VisitNext(g, t, s)
    <3>1. \A i \in 0 .. n : i # 0 => f[i] = VisitNext(g, t, f[i - 1]) BY <1>4 DEF IsVisit
    <3>2. f[k + 1] = VisitNext(g, t, f[k + 1 - 1]) BY <2>2, <3>1
    <3> QED BY <2>2, <3>2
  <2>4. Walking(g, t, s, V, F) BY <2>1
  <2>5. CASE s.work = << >>
    <3>1. f[k + 1] = s
      <4> HIDE DEF s
      <4> QED BY <2>3, <2>5 DEF VisitNext
    <3>2. Far(k + 1, V, F) BY <2>4, <2>5, <3>1
    <3> QED BY <2>2, <3>2
  <2>6. CASE s.work # << >>
    <3>1. Cardinality(V) + Cardinality(F) >= k BY <2>1, <2>6
    <3> HIDE DEF s
    <3>2. PICK W, G : /\ Walking(g, t, VisitNext(g, t, s), W, G)
                      /\ Cardinality(W) + Cardinality(G) = Cardinality(V) + Cardinality(F) + 1
                         \/ Cardinality(W) + Cardinality(G) = Cardinality(V) + Cardinality(F) + 2
      BY <2>4, <2>6, VisitSteps
    <3>3. Cardinality(V) \in Nat /\ Cardinality(F) \in Nat BY <2>4, VisitCounts
    <3>4. Cardinality(W) + Cardinality(G) >= k + 1 BY <2>2, <3>1, <3>2, <3>3
    <3>5. Far(k + 1, W, G) BY <2>3, <3>2, <3>4
    <3> QED BY <2>2, <3>5
  <2> QED BY <2>5, <2>6
<1>7. n \in S
  <2> HIDE DEF S, n
  <2>1. \A k \in 0 .. n : k \in S BY <1>2, <1>5, <1>6, UpTo
  <2> QED BY <1>2, <2>1
<1>8. PICK V, F : Far(n, V, F) BY <1>7
<1> DEFINE s == f[n]
<1>9. Walking(g, t, s, V, F) BY <1>8
<1>10. s.work = << >>
  <2>1. SUFFICES ASSUME s.work # << >> PROVE FALSE OBVIOUS
  <2>2. Cardinality(V) + Cardinality(F) >= n BY <1>8, <2>1
  <2> HIDE DEF s
  <2>3. Cardinality(V) \in Nat /\ Cardinality(F) \in Nat /\ Cardinality(V) + Cardinality(F) < n BY <1>9, <2>1, VisitCounts
  <2> HIDE DEF n
  <2> QED BY <1>2, <2>2, <2>3
<1> HIDE DEF s
<1>11. x \in DOMAIN s.f /\ s.f[x] = DF(g, x) BY <1>9, <1>10, VisitEnds
<1> QED BY <1>3, <1>11 DEF s

LEMMA InvariantIsFresh == ASSUME DominatorsAssumption, TreeInvariant PROVE FreshExact
<1>1. CFG(succ) /\ None \notin DOMAIN succ BY ShapeIs DEF TreeInvariant, TreeInv, IsTree, Shape
<1> DEFINE u == Recalculate(succ)
           f == CalculateFrontier(succ, u)
           other == FrontierOf(succ)
<1>2. IsTree(succ, u)
  <2>1. TreeInv(succ, u) BY <1>1, RecalculateIs
  <2> HIDE DEF u
  <2> QED BY <2>1 DEF TreeInv
<1>3. ASSUME NEW x \in DOMAIN succ PROVE x \in DOMAIN f /\ f[x] = DF(succ, x)
  <2> HIDE DEF u
  <2> QED BY <1>1, <1>2, CalculateIs
<1>4. other = [x \in DOMAIN succ |-> DF(succ, x)] BY <1>1, FrontierIs
<1> HIDE DEF f, other
<1>5. ~FrontierCompare(f, other) BY <1>3, <1>4 DEF FrontierCompare, CompareDomSet
<1> QED BY <1>5 DEF FreshExact, f, u, other

(* A computation from nothing finds the tree of every function that the    *)
(* passes can leave, and from it the frontier of each of its blocks.       *)
THEOREM FrontiersStayExact == ASSUME DominatorsAssumption PROVE Spec => []FreshExact
<1>1. TreeInvariant => FreshExact BY InvariantIsFresh
<1> QED BY <1>1, TreeInvariantHolds, PTL

(* The tree, what dominates answers from it, and the frontiers are exact.  *)
THEOREM DominatorsStayExact == ASSUME DominatorsAssumption PROVE Spec => []DominatorsExact
<1>1. TreeInvariant => DominatorsExact BY InvariantIsExact, InvariantIsFresh DEF DominatorsExact
<1> QED BY <1>1, TreeInvariantHolds, PTL
=============================================================================
