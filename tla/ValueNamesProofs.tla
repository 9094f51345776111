-------------------------- MODULE ValueNamesProofs --------------------------
(***************************************************************************)
(* Names, symbol tables, lists and the leak detector stay exact whatever   *)
(* sets of values there are.  An operation of ValueNames goes from state   *)
(* to state through several helpers, and in between a value may have a     *)
(* name that is in no table.  So the table that a value's name is in is a  *)
(* function of its own here, sc: each helper changes it, and at the end of *)
(* every operation it is ScopeOf again.                                    *)
(***************************************************************************)
EXTENDS ValueNames, FiniteSetTheorems, SequenceTheorems, WellFoundedInduction, TLAPS

Homes == Scopes \cup {None}

Shape(s) ==
  /\ DOMAIN s = {"live", "name", "parent", "list", "table", "last", "ts", "cache", "failed"}
  /\ s.live \subseteq Named
  /\ s.name \in [Named -> Seq(Int)]
  /\ s.parent \in [Named -> Containers \cup {None}]
  /\ \A v \in Named : s.parent[v] \in Owners(v) \cup {None}
  /\ s.list \in [Containers -> Seq(Named)]
  /\ DOMAIN s.table = Scopes
  /\ s.last \in [Scopes -> Nat]
  /\ s.ts \subseteq Named /\ s.cache \in Named \cup {None}

(* The tables hold the names of the values whose names are in them. *)
Exact(s, sc) ==
  \A t \in Scopes :
    /\ IsFiniteSet(DOMAIN s.table[t])
    /\ \A n \in DOMAIN s.table[t] :
         /\ n # NoName /\ s.table[t][n] \in s.live
         /\ s.name[s.table[t][n]] = n /\ sc[s.table[t][n]] = t
    /\ \A v \in s.live : sc[v] = t /\ s.name[v] # NoName =>
         s.name[v] \in DOMAIN s.table[t] /\ s.table[t][s.name[v]] = v

SameOwners(s, r) == r.live = s.live /\ r.parent = s.parent /\ r.list = s.list
SameLeaks(s, r) == r.ts = s.ts /\ r.cache = s.cache /\ r.failed = s.failed
OthersNamed(s, r, v) == \A u \in Named : u # v => r.name[u] = s.name[u]
SameNames(s, r) == r.name = s.name /\ r.table = s.table /\ r.last = s.last
-----------------------------------------------------------------------------
(* Induction, from the fact that < is well-founded on the numbers. *)
LEMMA LeastNumber == ASSUME NEW S, S \subseteq Nat, S # {} PROVE \E n \in S : \A m \in S : n <= m
<1> DEFINE R == OpToRel(<, Nat)
<1>1. IsWellFoundedOn(R, Nat) BY NatLessThanWellFounded
<1>2. \A x \in Nat, y \in Nat : x < y => <<x, y>> \in R BY DEF OpToRel
<1> HIDE DEF R
<1>3. PICK n \in S : \A m \in S : ~(<<m, n>> \in R) BY <1>1, WFMin
<1>4. ASSUME NEW m \in S PROVE n <= m
  <2>1. m \in Nat /\ n \in Nat OBVIOUS
  <2>2. ~(m < n) BY <1>2, <1>3, <2>1
  <2> QED BY <2>1, <2>2
<1> QED BY <1>4

LEMMA UpTo ==
  ASSUME NEW n \in Nat, NEW S, 0 \in S, \A i \in 0 .. n - 1 : i \in S => i + 1 \in S
  PROVE  \A i \in 0 .. n : i \in S
<1> DEFINE T == {i \in 0 .. n : i \notin S}
<1>1. SUFFICES ASSUME T # {} PROVE FALSE OBVIOUS
<1>2. T \subseteq Nat OBVIOUS
<1> HIDE DEF T
<1>3. PICK k \in T : \A m \in T : k <= m BY <1>1, <1>2, LeastNumber
<1> USE DEF T
<1>4. k # 0 /\ k - 1 \in 0 .. n - 1 OBVIOUS
<1>5. k - 1 \in S BY <1>3, <1>4
<1>6. k - 1 + 1 = k BY <1>4
<1> QED BY <1>4, <1>5, <1>6
-----------------------------------------------------------------------------
LEMMA HomeKinds ==
  ASSUME NamesAssumption
  PROVE  /\ None \notin Scopes /\ None \notin Named
         /\ \A v \in Insts : v \notin Blocks /\ v \notin Args /\ v \notin Funcs /\ Owners(v) = Blocks
         /\ \A v \in Blocks : v \notin Scopes /\ Owners(v) = Funcs
         /\ \A v \in Args : Owners(v) = Funcs
         /\ \A v \in Funcs : Owners(v) = Mods
BY DEF NamesAssumption, Named, Scopes, Owners

(* A number that is free is found among the next ones, one more than the   *)
(* table has names.                                                        *)
LEMMA FreeNumber ==
  ASSUME NEW D, IsFiniteSet(D), NEW last \in Nat, NEW base \in Seq(Int)
  PROVE  \E k \in last + 1 .. last + 1 + Cardinality(D) :
           Append(base, k) \notin D /\ \A j \in last + 1 .. k - 1 : Append(base, j) \in D
<1> DEFINE c == Cardinality(D)
           I == last + 1 .. last + 1 + c
           F == {k \in I : Append(base, k) \notin D}
<1>0. c \in Nat BY FS_CardinalityType
<1>1. F # {}
  <2> SUFFICES ASSUME F = {} PROVE FALSE OBVIOUS
  <2> DEFINE f == [k \in I |-> Append(base, k)]
  <2>1. f \in [I -> D] OBVIOUS
  <2>2. IsFiniteSet(I) /\ Cardinality(I) = c + 1
    <3> HIDE DEF c
    <3>1. PICK a \in Int, b \in Int : a = last + 1 /\ b = last + 1 + c BY <1>0
    <3>2. IsFiniteSet(a .. b) /\ Cardinality(a .. b) = b - a + 1 BY <1>0, <3>1, FS_Interval
    <3> QED BY <1>0, <3>1, <3>2
  <2>3. Cardinality(I) > Cardinality(D) BY <1>0, <2>2
  <2> HIDE DEF I
  <2>4. PICK i \in I, j \in I : i # j /\ f[i] = f[j]
    <3> HIDE DEF f
    <3> QED BY <2>1, <2>2, <2>3, FS_PigeonHole
  <2>5. Append(base, i) = Append(base, j) BY <2>4
  <2>6. i \in Int /\ j \in Int BY <1>0 DEF I
  <2>7. Append(base, i)[Len(base) + 1] = i /\ Append(base, j)[Len(base) + 1] = j BY <2>6
  <2> QED BY <2>4, <2>5, <2>7
<1>2. F \subseteq Nat BY <1>0
<1> HIDE DEF F
<1>3. PICK k \in F : \A m \in F : k <= m BY <1>1, <1>2, LeastNumber
<1> USE DEF F
<1>4. k \in I /\ Append(base, k) \notin D OBVIOUS
<1>5. ASSUME NEW j \in last + 1 .. k - 1 PROVE Append(base, j) \in D
  <2>1. j \in I /\ ~(k <= j) BY <1>0, <1>4
  <2> QED BY <1>3, <2>1
<1> QED BY <1>4, <1>5

LEMMA UniqueIsNew ==
  ASSUME NEW tab, IsFiniteSet(DOMAIN tab), NEW last \in Nat, NEW base \in Seq(Int), base # NoName,
         NEW u, u = UniqueName(tab, last, base)
  PROVE  /\ u.n \in Seq(Int) /\ u.n \notin DOMAIN tab /\ u.n # NoName /\ u.last \in Nat
         /\ base \notin DOMAIN tab => u.n = base
<1>1. CASE base \notin DOMAIN tab BY <1>1 DEF UniqueName
<1>2. CASE base \in DOMAIN tab
  <2> DEFINE P(i) == Append(base, i) \notin DOMAIN tab
                     /\ \A j \in last + 1 .. i - 1 : Append(base, j) \in DOMAIN tab
             I == last + 1 .. last + 1 + Cardinality(DOMAIN tab)
             k == CHOOSE i \in I : P(i)
  <2>1. \E i \in I : P(i) BY FreeNumber
  <2>2. k \in I /\ P(k) BY <2>1
  <2>3. Cardinality(DOMAIN tab) \in Nat BY FS_CardinalityType
  <2>4. k \in Nat BY <2>2, <2>3
  <2>5. u = [n |-> Append(base, k), last |-> k] BY <1>2 DEF UniqueName
  <2> HIDE DEF k
  <2>6. Append(base, k) \in Seq(Int) /\ Append(base, k) # << >> BY <2>4
  <2> QED BY <1>2, <2>2, <2>4, <2>5, <2>6 DEF NoName
<1> QED BY <1>1, <1>2
-----------------------------------------------------------------------------
LEMMA RemoveShape ==
  ASSUME NamesAssumption, NEW s, Shape(s), NEW v \in Named, NEW t \in Homes, NEW r, r = RemoveName(s, t, v)
  PROVE  /\ Shape(r) /\ SameOwners(s, r) /\ SameLeaks(s, r) /\ r.name = s.name
         /\ r.table = IF t = None \/ s.name[v] = NoName THEN s.table
                      ELSE [s.table EXCEPT ![t] = Without(s.table[t], s.name[v])]
<1>1. CASE t = None \/ s.name[v] = NoName BY <1>1 DEF RemoveName, SameOwners, SameLeaks
<1>2. CASE t # None /\ s.name[v] # NoName
  <2>0. t \in Scopes BY <1>2 DEF Homes
  <2>1. r.live = s.live /\ r.parent = s.parent /\ r.list = s.list /\ r.ts = s.ts
        /\ r.cache = s.cache /\ r.failed = s.failed /\ r.name = s.name /\ r.last = s.last
    BY <1>2, <2>0 DEF RemoveName, Shape
  <2>2. r.table = [s.table EXCEPT ![t] = Without(s.table[t], s.name[v])]
    BY <1>2, <2>0 DEF RemoveName, Shape
  <2>3. DOMAIN r = DOMAIN s BY <1>2, <2>0 DEF RemoveName, Shape
  <2>4. DOMAIN r.table = Scopes BY <2>2 DEF Shape
  <2>5. Shape(r) BY <2>1, <2>3, <2>4 DEF Shape
  <2> QED BY <1>2, <2>1, <2>2, <2>5 DEF SameOwners, SameLeaks
<1> QED BY <1>1, <1>2

(* A name leaves the table it is in. *)
LEMMA RemoveExact ==
  ASSUME NamesAssumption, NEW s, Shape(s), NEW sc \in [Named -> Homes], Exact(s, sc), NEW v \in s.live,
         NEW r, r = RemoveName(s, sc[v], v)
  PROVE  /\ Shape(r) /\ SameOwners(s, r) /\ SameLeaks(s, r) /\ r.name = s.name
         /\ Exact(r, [sc EXCEPT ![v] = None])
<1> DEFINE t == sc[v]
           d == [sc EXCEPT ![v] = None]
<1>1. v \in Named /\ t \in Homes /\ None \notin Scopes BY HomeKinds DEF Shape
<1>2. /\ Shape(r) /\ SameOwners(s, r) /\ SameLeaks(s, r) /\ r.name = s.name
      /\ r.table = IF t = None \/ s.name[v] = NoName THEN s.table
                   ELSE [s.table EXCEPT ![t] = Without(s.table[t], s.name[v])]
  BY <1>1, RemoveShape, SMTT(30)
<1>3. r.live = s.live BY <1>2 DEF SameOwners
<1>4. d \in [Named -> Homes] /\ d[v] = None /\ \A u \in Named : u # v => d[u] = sc[u]
  BY <1>1 DEF Homes
<1>5. s.live \subseteq Named BY DEF Shape
<1> HIDE DEF d
<1>6. CASE t = None \/ s.name[v] = NoName
  <2>1. r.table = s.table BY <1>2, <1>6
  <2>2. ASSUME NEW q \in Scopes, NEW n \in DOMAIN s.table[q] PROVE d[s.table[q][n]] = q
    <3>1. s.table[q][n] \in s.live /\ s.name[s.table[q][n]] = n /\ n # NoName /\ sc[s.table[q][n]] = q
      BY DEF Exact
    <3>2. s.table[q][n] # v BY <1>1, <1>6, <3>1
    <3> QED BY <1>4, <1>5, <3>1, <3>2
  <2>3. \A q \in Scopes, u \in s.live : d[u] = q => sc[u] = q BY <1>1, <1>4, <1>5
  <2>4. r.name = s.name BY <1>2
  <2>5. Exact(s, sc) OBVIOUS
  <2>6. Exact(r, d) BY ONLY <1>3, <2>1, <2>2, <2>3, <2>4, <2>5 DEF Exact
  <2> QED BY ONLY <1>2, <2>6 DEF d
<1>7. CASE t # None /\ s.name[v] # NoName
  <2>0. t \in Scopes BY <1>1, <1>7 DEF Homes
  <2>1. r.table = [s.table EXCEPT ![t] = Without(s.table[t], s.name[v])] BY <1>2, <1>7
  <2>2. r.table[t] = Without(s.table[t], s.name[v]) /\ \A q \in Scopes : q # t => r.table[q] = s.table[q]
    BY <2>0, <2>1 DEF Shape
  <2>3. ASSUME NEW q \in Scopes PROVE IsFiniteSet(DOMAIN r.table[q])
    <3>1. DOMAIN r.table[q] \subseteq DOMAIN s.table[q] BY <2>2 DEF Without
    <3>2. IsFiniteSet(DOMAIN s.table[q]) BY DEF Exact
    <3> QED BY <3>1, <3>2, FS_Subset
  <2>4. ASSUME NEW q \in Scopes, NEW n \in DOMAIN r.table[q]
        PROVE  /\ n # NoName /\ r.table[q][n] \in s.live
               /\ s.name[r.table[q][n]] = n /\ d[r.table[q][n]] = q
    <3>1. n \in DOMAIN s.table[q] /\ r.table[q][n] = s.table[q][n] /\ (q = t => n # s.name[v])
      BY <2>2 DEF Without
    <3>2. /\ n # NoName /\ s.table[q][n] \in s.live
          /\ s.name[s.table[q][n]] = n /\ sc[s.table[q][n]] = q
      BY <3>1 DEF Exact
    <3>3. s.table[q][n] # v BY <3>1, <3>2
    <3> QED BY <1>4, <1>5, <3>1, <3>2, <3>3
  <2>5. ASSUME NEW q \in Scopes, NEW u \in s.live, d[u] = q, s.name[u] # NoName
        PROVE  s.name[u] \in DOMAIN r.table[q] /\ r.table[q][s.name[u]] = u
    <3>1. u # v /\ sc[u] = q BY <1>1, <1>4, <1>5, <2>5
    <3>2. s.name[u] \in DOMAIN s.table[q] /\ s.table[q][s.name[u]] = u BY <2>5, <3>1 DEF Exact
    <3>3. q = t => s.name[u] # s.name[v]
      <4>1. s.table[t][s.name[v]] = v BY <1>7, <2>0 DEF Exact
      <4> QED BY <3>1, <3>2, <4>1
    <3> QED BY <2>2, <3>2, <3>3 DEF Without
  <2>6. Exact(r, d)
    <3>0. r.name = s.name BY <1>2
    <3>1. \A q \in Scopes : \A n \in DOMAIN r.table[q] :
            /\ n # NoName /\ r.table[q][n] \in r.live
            /\ r.name[r.table[q][n]] = n /\ d[r.table[q][n]] = q
      BY ONLY <1>3, <2>4, <3>0
    <3>2. \A q \in Scopes, u \in r.live :
            d[u] = q /\ r.name[u] # NoName =>
              r.name[u] \in DOMAIN r.table[q] /\ r.table[q][r.name[u]] = u
      BY ONLY <1>3, <2>5, <3>0
    <3> QED BY ONLY <2>3, <3>1, <3>2 DEF Exact
  <2> QED BY ONLY <1>2, <2>6 DEF d
<1> QED BY <1>6, <1>7

(* The name that v gets, and the entry of it. *)
Placed(s, r, t, v, base) ==
  \E n \in Seq(Int) :
    /\ n # NoName /\ n \notin DOMAIN s.table[t]
    /\ base \notin DOMAIN s.table[t] => n = base
    /\ r.name = [s.name EXCEPT ![v] = n]
    /\ r.table = [s.table EXCEPT ![t] = Entered(s.table[t], n, v)]

LEMMA PlaceShape ==
  ASSUME NamesAssumption, NEW s, Shape(s), NEW v \in Named, NEW t \in Homes, NEW base \in Seq(Int),
         t # None => IsFiniteSet(DOMAIN s.table[t]), NEW r, r = PlaceName(s, t, v, base)
  PROVE  /\ Shape(r) /\ SameOwners(s, r) /\ SameLeaks(s, r)
         /\ t = None \/ base = NoName => r.name = [s.name EXCEPT ![v] = base] /\ r.table = s.table
         /\ t # None /\ base # NoName => Placed(s, r, t, v, base)
<1>1. CASE t = None \/ base = NoName
  <2>1. r.live = s.live /\ r.parent = s.parent /\ r.list = s.list /\ r.ts = s.ts
        /\ r.cache = s.cache /\ r.failed = s.failed /\ r.table = s.table /\ r.last = s.last
        /\ DOMAIN r = DOMAIN s
    BY <1>1 DEF PlaceName, Shape
  <2>2. r.name = [s.name EXCEPT ![v] = base] BY <1>1 DEF PlaceName, Shape
  <2>3. r.name \in [Named -> Seq(Int)] BY <2>2 DEF Shape
  <2>4. Shape(r) BY <2>1, <2>3 DEF Shape
  <2> QED BY <1>1, <2>1, <2>2, <2>4 DEF SameOwners, SameLeaks
<1>2. CASE t # None /\ base # NoName
  <2> DEFINE u == UniqueName(s.table[t], s.last[t], base)
  <2>0. t \in Scopes /\ s.last[t] \in Nat BY <1>2 DEF Homes, Shape
  <2>1. /\ u.n \in Seq(Int) /\ u.n \notin DOMAIN s.table[t] /\ u.n # NoName /\ u.last \in Nat
        /\ base \notin DOMAIN s.table[t] => u.n = base
    BY <1>2, <2>0, UniqueIsNew
  <2>2. r = [s EXCEPT !.name[v] = u.n, !.last[t] = u.last, !.table[t] = Entered(@, u.n, v)]
    BY <1>2 DEF PlaceName
  <2> HIDE DEF u
  <2>3. r.live = s.live /\ r.parent = s.parent /\ r.list = s.list /\ r.ts = s.ts
        /\ r.cache = s.cache /\ r.failed = s.failed /\ DOMAIN r = DOMAIN s
    BY <2>2 DEF Shape
  <2>4. r.name = [s.name EXCEPT ![v] = u.n] BY <2>2 DEF Shape
  <2>5. r.last = [s.last EXCEPT ![t] = u.last] BY <2>2 DEF Shape
  <2>6. r.table = [s.table EXCEPT ![t] = Entered(s.table[t], u.n, v)] BY <2>2 DEF Shape
  <2>7. r.name \in [Named -> Seq(Int)] /\ r.last \in [Scopes -> Nat] /\ DOMAIN r.table = Scopes
    <3>1. s.name \in [Named -> Seq(Int)] /\ s.last \in [Scopes -> Nat] /\ DOMAIN s.table = Scopes BY DEF Shape
    <3>2. r.name \in [Named -> Seq(Int)] BY ONLY <2>1, <2>4, <3>1
    <3>3. r.last \in [Scopes -> Nat] BY ONLY <2>1, <2>5, <3>1
    <3>4. DOMAIN r.table = Scopes BY ONLY <2>6, <3>1
    <3> QED BY ONLY <3>2, <3>3, <3>4
  <2>8. Shape(r) BY <2>3, <2>7 DEF Shape
  <2>9. Placed(s, r, t, v, base) BY <2>1, <2>4, <2>6 DEF Placed
  <2> QED BY <1>2, <2>3, <2>8, <2>9 DEF SameOwners, SameLeaks
<1> QED BY <1>1, <1>2

(* A name that is free is kept. *)
Kept(s, r, t, v, base) == (t = None \/ base = NoName \/ base \notin DOMAIN s.table[t]) => r.name[v] = base

(* A name that is in no table enters one. *)
LEMMA PlaceExact ==
  ASSUME NamesAssumption, NEW s, Shape(s), NEW sc \in [Named -> Homes], Exact(s, sc), NEW v \in s.live,
         sc[v] = None, NEW t \in Homes, NEW base \in Seq(Int), NEW r, r = PlaceName(s, t, v, base)
  PROVE  /\ Shape(r) /\ SameOwners(s, r) /\ SameLeaks(s, r) /\ Exact(r, [sc EXCEPT ![v] = t])
         /\ OthersNamed(s, r, v) /\ Kept(s, r, t, v, base)
<1> DEFINE d == [sc EXCEPT ![v] = t]
<1>1. v \in Named /\ None \notin Scopes /\ s.live \subseteq Named /\ s.name \in [Named -> Seq(Int)]
  BY HomeKinds DEF Shape
<1>2. t # None => t \in Scopes /\ IsFiniteSet(DOMAIN s.table[t]) BY DEF Homes, Exact
<1>3. d \in [Named -> Homes] /\ d[v] = t /\ \A u \in Named : u # v => d[u] = sc[u]
  BY <1>1
<1> HIDE DEF d
<1>4. \A q \in Scopes : \A n \in DOMAIN s.table[q] :
        /\ n # NoName /\ s.table[q][n] \in s.live /\ s.table[q][n] # v
        /\ s.name[s.table[q][n]] = n /\ d[s.table[q][n]] = q
  <2> SUFFICES ASSUME NEW q \in Scopes, NEW n \in DOMAIN s.table[q]
               PROVE  /\ n # NoName /\ s.table[q][n] \in s.live /\ s.table[q][n] # v
                      /\ s.name[s.table[q][n]] = n /\ d[s.table[q][n]] = q
    OBVIOUS
  <2>1. /\ n # NoName /\ s.table[q][n] \in s.live
        /\ s.name[s.table[q][n]] = n /\ sc[s.table[q][n]] = q
    BY DEF Exact
  <2>2. s.table[q][n] # v BY <1>1, <2>1
  <2> QED BY <1>1, <1>3, <2>1, <2>2
<1>5. CASE t = None \/ base = NoName
  <2>1. /\ Shape(r) /\ SameOwners(s, r) /\ SameLeaks(s, r)
        /\ r.name = [s.name EXCEPT ![v] = base] /\ r.table = s.table
    BY <1>1, <1>2, <1>5, PlaceShape
  <2>2. r.live = s.live BY <2>1 DEF SameOwners
  <2>3. r.name[v] = base /\ \A u \in Named : u # v => r.name[u] = s.name[u] BY <1>1, <2>1
  <2>4. ASSUME NEW q \in Scopes, NEW n \in DOMAIN s.table[q] PROVE r.name[s.table[q][n]] = n
    BY <1>1, <1>4, <2>3
  <2>5. ASSUME NEW q \in Scopes, NEW u \in s.live, d[u] = q, r.name[u] # NoName
        PROVE  r.name[u] \in DOMAIN s.table[q] /\ s.table[q][r.name[u]] = u
    <3>1. u # v BY <1>1, <1>3, <1>5, <2>3, <2>5
    <3>2. sc[u] = q /\ r.name[u] = s.name[u] BY <1>1, <1>3, <2>3, <2>5, <3>1
    <3> QED BY <2>5, <3>2 DEF Exact
  <2>6. \A q \in Scopes : IsFiniteSet(DOMAIN s.table[q]) BY DEF Exact
  <2>7. Exact(r, d) BY <1>4, <2>1, <2>2, <2>4, <2>5, <2>6 DEF Exact
  <2> QED BY <2>1, <2>3, <2>7 DEF d, OthersNamed, Kept
<1>6. CASE t # None /\ base # NoName
  <2>1. /\ Shape(r) /\ SameOwners(s, r) /\ SameLeaks(s, r)
        /\ Placed(s, r, t, v, base)
    BY <1>1, <1>2, <1>6, PlaceShape
  <2>2. PICK w \in Seq(Int) :
             /\ w # NoName /\ w \notin DOMAIN s.table[t]
             /\ base \notin DOMAIN s.table[t] => w = base
             /\ r.name = [s.name EXCEPT ![v] = w]
             /\ r.table = [s.table EXCEPT ![t] = Entered(s.table[t], w, v)]
    BY <2>1 DEF Placed
  <2>3. r.live = s.live BY <2>1 DEF SameOwners
  <2>4. r.name[v] = w /\ \A u \in Named : u # v => r.name[u] = s.name[u] BY <1>1, <2>2
  <2>5. r.table[t] = Entered(s.table[t], w, v) /\ \A q \in Scopes : q # t => r.table[q] = s.table[q]
    BY <1>2, <1>6, <2>2 DEF Shape
  <2>6. ASSUME NEW q \in Scopes PROVE IsFiniteSet(DOMAIN r.table[q])
    <3>1. IsFiniteSet(DOMAIN s.table[q]) BY DEF Exact
    <3>2. DOMAIN r.table[q] = IF q = t THEN DOMAIN s.table[q] \cup {w} ELSE DOMAIN s.table[q]
      BY <2>5 DEF Entered
    <3>3. IsFiniteSet(DOMAIN s.table[q] \cup {w}) BY <3>1, FS_AddElement
    <3> QED BY <3>1, <3>2, <3>3
  <2>7. ASSUME NEW q \in Scopes, NEW n \in DOMAIN r.table[q]
        PROVE  /\ n # NoName /\ r.table[q][n] \in s.live
               /\ r.name[r.table[q][n]] = n /\ d[r.table[q][n]] = q
    <3>1. CASE q = t /\ n = w
      <4>1. r.table[q][n] = v BY <2>5, <2>7, <3>1 DEF Entered
      <4> QED BY <1>3, <2>2, <2>4, <3>1, <4>1
    <3>2. CASE ~(q = t /\ n = w)
      <4>1. n \in DOMAIN s.table[q] /\ r.table[q][n] = s.table[q][n] BY <2>5, <3>2 DEF Entered
      <4> QED BY <1>1, <1>4, <2>4, <4>1
    <3> QED BY <3>1, <3>2
  <2>8. ASSUME NEW q \in Scopes, NEW u \in s.live, d[u] = q, r.name[u] # NoName
        PROVE  r.name[u] \in DOMAIN r.table[q] /\ r.table[q][r.name[u]] = u
    <3>1. CASE u = v
      <4>1. q = t BY <1>3, <2>8, <3>1
      <4> QED BY <2>4, <2>5, <3>1, <4>1 DEF Entered
    <3>2. CASE u # v
      <4>1. sc[u] = q /\ r.name[u] = s.name[u] BY <1>1, <1>3, <2>4, <2>8, <3>2
      <4>2. s.name[u] \in DOMAIN s.table[q] /\ s.table[q][s.name[u]] = u BY <2>8, <4>1 DEF Exact
      <4>3. q = t => s.name[u] # w BY <2>2, <4>2
      <4> QED BY <2>5, <4>1, <4>2, <4>3 DEF Entered
    <3> QED BY <3>1, <3>2
  <2>9. Exact(r, d) BY <2>3, <2>6, <2>7, <2>8 DEF Exact
  <2> QED BY <1>6, <2>1, <2>2, <2>4, <2>9 DEF d, OthersNamed, Kept
<1> QED BY <1>5, <1>6
-----------------------------------------------------------------------------
(* The states of the loop that takes the names out of a table. *)
OutRun(s, vs, from, f) ==
  f[0] = s /\ \A i \in 1 .. Len(vs) : f[i] = RemoveName(f[i - 1], from, vs[i])

LEMMA OutUnfolds ==
  ASSUME NEW s, NEW vs \in Seq(Named), NEW from
  PROVE  \E f : OutRun(s, vs, from, f) /\ NamesOut(s, vs, from) = f[Len(vs)]
<1> DEFINE n == Len(vs)
           G(k, g) == g = [i \in 0 .. k |-> IF i = 0 THEN s ELSE RemoveName(g[i - 1], from, vs[i])]
           S == {k \in 0 .. n : \E g : G(k, g)}
<1>0. n \in Nat OBVIOUS
<1> HIDE DEF n
<1>1. 0 \in S
  <2> DEFINE g == [i \in 0 .. 0 |-> s]
  <2>1. G(0, g) OBVIOUS
  <2> HIDE DEF g
  <2>2. \E x : G(0, x) BY <2>1
  <2>3. 0 \in 0 .. n BY <1>0
  <2> QED BY <2>2, <2>3
<1>2. ASSUME NEW k \in 0 .. n - 1, k \in S PROVE k + 1 \in S
  <2>1. PICK g : G(k, g) BY <1>2
  <2> DEFINE h == [i \in 0 .. k + 1 |->
                     IF i <= k THEN g[i] ELSE RemoveName(g[k], from, vs[k + 1])]
  <2>2. ASSUME NEW i \in 0 .. k + 1
        PROVE  h[i] = IF i = 0 THEN s ELSE RemoveName(h[i - 1], from, vs[i])
    <3>1. CASE i = 0 BY <1>0, <2>1, <3>1
    <3>2. CASE i # 0 /\ i <= k
      <4>1. h[i] = g[i] /\ h[i - 1] = g[i - 1] BY <1>0, <3>2
      <4>2. g[i] = RemoveName(g[i - 1], from, vs[i]) BY <1>0, <2>1, <3>2
      <4> QED BY <3>2, <4>1, <4>2
    <3>3. CASE i = k + 1
      <4>1. h[i] = RemoveName(g[k], from, vs[k + 1]) /\ h[i - 1] = g[k] /\ i # 0 BY <1>0, <3>3
      <4> QED BY <3>3, <4>1
    <3> QED BY <1>0, <3>1, <3>2, <3>3
  <2>3. G(k + 1, h)
    <3>1. DOMAIN h = 0 .. k + 1 /\ h = [i \in 0 .. k + 1 |-> h[i]] OBVIOUS
    <3> HIDE DEF h
    <3> QED BY <2>2, <3>1
  <2>4. k + 1 \in 0 .. n BY <1>0
  <2> QED BY <2>3, <2>4
<1>3. n \in S
  <2> HIDE DEF S
  <2>1. \A i \in 0 .. n : i \in S BY <1>0, <1>1, <1>2, UpTo
  <2> QED BY <1>0, <2>1
<1> DEFINE f == CHOOSE g : G(n, g)
<1>4. G(n, f) BY <1>3
<1>5. NamesOut(s, vs, from) = f[Len(vs)] BY DEF NamesOut, n
<1> HIDE DEF f
<1>6. OutRun(s, vs, from, f) BY <1>0, <1>4 DEF OutRun, n
<1> QED BY <1>5, <1>6

(* The states of the loop that enters them in another. *)
InRun(s, vs, to, f) ==
  f[0] = s /\ \A i \in 1 .. Len(vs) : f[i] = Reinsert(f[i - 1], to, vs[i])

LEMMA InUnfolds ==
  ASSUME NEW s, NEW vs \in Seq(Named), NEW to
  PROVE  \E f : InRun(s, vs, to, f) /\ NamesIn(s, vs, to) = f[Len(vs)]
<1> DEFINE n == Len(vs)
           G(k, g) == g = [i \in 0 .. k |-> IF i = 0 THEN s ELSE Reinsert(g[i - 1], to, vs[i])]
           S == {k \in 0 .. n : \E g : G(k, g)}
<1>0. n \in Nat OBVIOUS
<1> HIDE DEF n
<1>1. 0 \in S
  <2> DEFINE g == [i \in 0 .. 0 |-> s]
  <2>1. G(0, g) OBVIOUS
  <2> HIDE DEF g
  <2>2. \E x : G(0, x) BY <2>1
  <2>3. 0 \in 0 .. n BY <1>0
  <2> QED BY <2>2, <2>3
<1>2. ASSUME NEW k \in 0 .. n - 1, k \in S PROVE k + 1 \in S
  <2>1. PICK g : G(k, g) BY <1>2
  <2> DEFINE h == [i \in 0 .. k + 1 |->
                     IF i <= k THEN g[i] ELSE Reinsert(g[k], to, vs[k + 1])]
  <2>2. ASSUME NEW i \in 0 .. k + 1
        PROVE  h[i] = IF i = 0 THEN s ELSE Reinsert(h[i - 1], to, vs[i])
    <3>1. CASE i = 0 BY <1>0, <2>1, <3>1
    <3>2. CASE i # 0 /\ i <= k
      <4>1. h[i] = g[i] /\ h[i - 1] = g[i - 1] BY <1>0, <3>2
      <4>2. g[i] = Reinsert(g[i - 1], to, vs[i]) BY <1>0, <2>1, <3>2
      <4> QED BY <3>2, <4>1, <4>2
    <3>3. CASE i = k + 1
      <4>1. h[i] = Reinsert(g[k], to, vs[k + 1]) /\ h[i - 1] = g[k] /\ i # 0 BY <1>0, <3>3
      <4> QED BY <3>3, <4>1
    <3> QED BY <1>0, <3>1, <3>2, <3>3
  <2>3. G(k + 1, h)
    <3>1. DOMAIN h = 0 .. k + 1 /\ h = [i \in 0 .. k + 1 |-> h[i]] OBVIOUS
    <3> HIDE DEF h
    <3> QED BY <2>2, <3>1
  <2>4. k + 1 \in 0 .. n BY <1>0
  <2> QED BY <2>3, <2>4
<1>3. n \in S
  <2> HIDE DEF S
  <2>1. \A i \in 0 .. n : i \in S BY <1>0, <1>1, <1>2, UpTo
  <2> QED BY <1>0, <2>1
<1> DEFINE f == CHOOSE g : G(n, g)
<1>4. G(n, f) BY <1>3
<1>5. NamesIn(s, vs, to) = f[Len(vs)] BY DEF NamesIn, n
<1> HIDE DEF f
<1>6. InRun(s, vs, to, f) BY <1>0, <1>4 DEF InRun, n
<1> QED BY <1>5, <1>6

(* The states of the loop that empties a block. *)
ClearedRun(s, vs, f) ==
  f[0] = s /\ \A i \in 1 .. Len(vs) : f[i] = Destroy(RemoveNode(f[i - 1], vs[i]), vs[i])

LEMMA ClearedUnfolds ==
  ASSUME NEW s, NEW vs \in Seq(Named)
  PROVE  \E f : ClearedRun(s, vs, f) /\ Cleared(s, vs) = f[Len(vs)]
<1> DEFINE n == Len(vs)
           G(k, g) == g = [i \in 0 .. k |-> IF i = 0 THEN s ELSE Destroy(RemoveNode(g[i - 1], vs[i]), vs[i])]
           S == {k \in 0 .. n : \E g : G(k, g)}
<1>0. n \in Nat OBVIOUS
<1> HIDE DEF n
<1>1. 0 \in S
  <2> DEFINE g == [i \in 0 .. 0 |-> s]
  <2>1. G(0, g) OBVIOUS
  <2> HIDE DEF g
  <2>2. \E x : G(0, x) BY <2>1
  <2>3. 0 \in 0 .. n BY <1>0
  <2> QED BY <2>2, <2>3
<1>2. ASSUME NEW k \in 0 .. n - 1, k \in S PROVE k + 1 \in S
  <2>1. PICK g : G(k, g) BY <1>2
  <2> DEFINE h == [i \in 0 .. k + 1 |->
                     IF i <= k THEN g[i] ELSE Destroy(RemoveNode(g[k], vs[k + 1]), vs[k + 1])]
  <2>2. ASSUME NEW i \in 0 .. k + 1
        PROVE  h[i] = IF i = 0 THEN s ELSE Destroy(RemoveNode(h[i - 1], vs[i]), vs[i])
    <3>1. CASE i = 0 BY <1>0, <2>1, <3>1
    <3>2. CASE i # 0 /\ i <= k
      <4>1. h[i] = g[i] /\ h[i - 1] = g[i - 1] BY <1>0, <3>2
      <4>2. g[i] = Destroy(RemoveNode(g[i - 1], vs[i]), vs[i]) BY <1>0, <2>1, <3>2
      <4> QED BY <3>2, <4>1, <4>2
    <3>3. CASE i = k + 1
      <4>1. h[i] = Destroy(RemoveNode(g[k], vs[k + 1]), vs[k + 1]) /\ h[i - 1] = g[k] /\ i # 0 BY <1>0, <3>3
      <4> QED BY <3>3, <4>1
    <3> QED BY <1>0, <3>1, <3>2, <3>3
  <2>3. G(k + 1, h)
    <3>1. DOMAIN h = 0 .. k + 1 /\ h = [i \in 0 .. k + 1 |-> h[i]] OBVIOUS
    <3> HIDE DEF h
    <3> QED BY <2>2, <3>1
  <2>4. k + 1 \in 0 .. n BY <1>0
  <2> QED BY <2>3, <2>4
<1>3. n \in S
  <2> HIDE DEF S
  <2>1. \A i \in 0 .. n : i \in S BY <1>0, <1>1, <1>2, UpTo
  <2> QED BY <1>0, <2>1
<1> DEFINE f == CHOOSE g : G(n, g)
<1>4. G(n, f) BY <1>3
<1>5. Cleared(s, vs) = f[Len(vs)] BY DEF Cleared, n
<1> HIDE DEF f
<1>6. ClearedRun(s, vs, f) BY <1>0, <1>4 DEF ClearedRun, n
<1> QED BY <1>5, <1>6
-----------------------------------------------------------------------------
(* The names of the first k values of vs are in t. *)
Shifted(sc, vs, k, t) == [u \in Named |-> IF \E j \in 1 .. k : vs[j] = u THEN t ELSE sc[u]]

OneByOne(vs) == \A i, j \in 1 .. Len(vs) : vs[i] = vs[j] => i = j

OneMore(sc, vs, i, t) ==
  /\ Shifted(sc, vs, i, t) = [Shifted(sc, vs, i - 1, t) EXCEPT ![vs[i]] = t]
  /\ OneByOne(vs) => Shifted(sc, vs, i - 1, t)[vs[i]] = sc[vs[i]]

LEMMA ShiftedNext ==
  ASSUME NEW sc \in [Named -> Homes], NEW vs \in Seq(Named), NEW i \in 1 .. Len(vs), NEW t \in Homes
  PROVE  OneMore(sc, vs, i, t)
<1> DEFINE d == Shifted(sc, vs, i - 1, t)
<1>1. vs[i] \in Named /\ Len(vs) \in Nat OBVIOUS
<1>2. \A u \in Named : (\E j \in 1 .. i : vs[j] = u) <=> (u = vs[i] \/ \E j \in 1 .. i - 1 : vs[j] = u)
  <2>1. \A j \in 1 .. i : j = i \/ j \in 1 .. i - 1 OBVIOUS
  <2>2. \A j \in 1 .. i - 1 : j \in 1 .. i OBVIOUS
  <2>3. i \in 1 .. i OBVIOUS
  <2> QED BY <2>1, <2>2, <2>3
<1>3. d \in [Named -> Homes] /\ \A u \in Named : d[u] = IF \E j \in 1 .. i - 1 : vs[j] = u THEN t ELSE sc[u]
  BY DEF Shifted
<1> HIDE DEF d
<1>4. Shifted(sc, vs, i, t) = [d EXCEPT ![vs[i]] = t] BY <1>1, <1>2, <1>3, ZenonT(30) DEF Shifted
<1>5. OneByOne(vs) => d[vs[i]] = sc[vs[i]]
  <2> SUFFICES ASSUME OneByOne(vs) PROVE ~ \E j \in 1 .. i - 1 : vs[j] = vs[i] BY <1>1, <1>3
  <2> QED BY <1>1 DEF OneByOne
<1> QED BY <1>4, <1>5 DEF d, OneMore

LEMMA ShiftedNone ==
  ASSUME NEW sc \in [Named -> Homes], NEW vs \in Seq(Named), NEW t PROVE Shifted(sc, vs, 0, t) = sc
BY DEF Shifted

LEMMA OutExact ==
  ASSUME NamesAssumption, NEW s, Shape(s), NEW sc \in [Named -> Homes], Exact(s, sc), NEW from \in Homes,
         NEW vs \in Seq(Named), OneByOne(vs), \A i \in 1 .. Len(vs) : vs[i] \in s.live /\ sc[vs[i]] = from,
         NEW r, r = NamesOut(s, vs, from)
  PROVE  /\ Shape(r) /\ SameOwners(s, r) /\ SameLeaks(s, r) /\ r.name = s.name
         /\ Exact(r, Shifted(sc, vs, Len(vs), None))
<1> DEFINE n == Len(vs)
           Good(f, i) == /\ Shape(f[i]) /\ SameOwners(s, f[i]) /\ SameLeaks(s, f[i]) /\ f[i].name = s.name
                         /\ Exact(f[i], Shifted(sc, vs, i, None))
<1>0. n \in Nat /\ None \in Homes BY DEF Homes
<1>1. PICK f : OutRun(s, vs, from, f) /\ NamesOut(s, vs, from) = f[n] BY OutUnfolds
<1> DEFINE S == {i \in 0 .. n : Good(f, i)}
<1>2. 0 \in S
  <2>1. f[0] = s BY <1>1 DEF OutRun
  <2>2. Good(f, 0) BY <2>1, ShiftedNone DEF SameOwners, SameLeaks
  <2> QED BY <1>0, <2>2
<1>3. ASSUME NEW k \in 0 .. n - 1, k \in S PROVE k + 1 \in S
  <2> DEFINE i == k + 1
             d == Shifted(sc, vs, k, None)
  <2>1. i \in 1 .. n /\ i - 1 = k BY <1>0
  <2>2. Good(f, k) BY <1>3
  <2> HIDE DEF i
  <2>3. f[i] = RemoveName(f[k], from, vs[i]) BY <1>1, <2>1 DEF OutRun
  <2>4. /\ d \in [Named -> Homes] /\ d[vs[i]] = sc[vs[i]]
        /\ Shifted(sc, vs, i, None) = [d EXCEPT ![vs[i]] = None]
    <3>1. d \in [Named -> Homes] BY <1>0 DEF Shifted
    <3>2. OneMore(sc, vs, i, None) BY <1>0, <2>1, ShiftedNext
    <3> QED BY <2>1, <3>1, <3>2 DEF OneMore
  <2>5. vs[i] \in f[k].live /\ sc[vs[i]] = from BY <2>1, <2>2 DEF SameOwners
  <2> HIDE DEF d
  <2>6. Exact(f[k], d) /\ Shape(f[k]) BY <2>2 DEF d
  <2>7. f[i] = RemoveName(f[k], d[vs[i]], vs[i]) BY <2>3, <2>4, <2>5
  <2>8. /\ Shape(f[i]) /\ SameOwners(f[k], f[i]) /\ SameLeaks(f[k], f[i]) /\ f[i].name = f[k].name
        /\ Exact(f[i], [d EXCEPT ![vs[i]] = None])
    BY <2>4, <2>5, <2>6, <2>7, RemoveExact
  <2>9. Good(f, i) BY <2>2, <2>4, <2>8 DEF SameOwners, SameLeaks
  <2>10. i \in 0 .. n BY <1>0, <2>1
  <2> QED BY <2>9, <2>10 DEF i
<1>4. n \in S
  <2> HIDE DEF S
  <2>1. \A i \in 0 .. n : i \in S BY <1>0, <1>2, <1>3, UpTo
  <2> QED BY <1>0, <2>1
<1> QED BY <1>1, <1>4

(* Every value of the list gets a name in the table; no other is renamed. *)
LEMMA InExact ==
  ASSUME NamesAssumption, NEW s, Shape(s), NEW sc \in [Named -> Homes], Exact(s, sc), NEW to \in Homes,
         NEW vs \in Seq(Named), OneByOne(vs), \A i \in 1 .. Len(vs) : vs[i] \in s.live /\ sc[vs[i]] = None,
         NEW r, r = NamesIn(s, vs, to)
  PROVE  /\ Shape(r) /\ SameOwners(s, r) /\ SameLeaks(s, r)
         /\ \A u \in Named : (\A j \in 1 .. Len(vs) : vs[j] # u) => r.name[u] = s.name[u]
         /\ Exact(r, Shifted(sc, vs, Len(vs), to))
<1> DEFINE n == Len(vs)
           Good(f, i) == /\ Shape(f[i]) /\ SameOwners(s, f[i]) /\ SameLeaks(s, f[i])
                         /\ \A u \in Named : (\A j \in 1 .. n : vs[j] # u) => f[i].name[u] = s.name[u]
                         /\ Exact(f[i], Shifted(sc, vs, i, to))
<1>0. n \in Nat OBVIOUS
<1>1. PICK f : InRun(s, vs, to, f) /\ NamesIn(s, vs, to) = f[n] BY InUnfolds
<1> DEFINE S == {i \in 0 .. n : Good(f, i)}
<1>2. 0 \in S
  <2>1. f[0] = s BY <1>1 DEF InRun
  <2>2. Good(f, 0) BY <2>1, ShiftedNone DEF SameOwners, SameLeaks
  <2> QED BY <1>0, <2>2
<1>3. ASSUME NEW k \in 0 .. n - 1, k \in S PROVE k + 1 \in S
  <2> DEFINE i == k + 1
             d == Shifted(sc, vs, k, to)
  <2>1. i \in 1 .. n /\ i - 1 = k BY <1>0
  <2>2. Good(f, k) BY <1>3
  <2> HIDE DEF i
  <2>3. f[i] = PlaceName(f[k], to, vs[i], f[k].name[vs[i]]) BY <1>1, <2>1 DEF InRun, Reinsert
  <2>4. /\ d \in [Named -> Homes] /\ d[vs[i]] = sc[vs[i]]
        /\ Shifted(sc, vs, i, to) = [d EXCEPT ![vs[i]] = to]
    <3>1. d \in [Named -> Homes] BY DEF Shifted
    <3>2. OneMore(sc, vs, i, to) BY <2>1, ShiftedNext
    <3> QED BY <2>1, <3>1, <3>2 DEF OneMore
  <2>5. vs[i] \in f[k].live /\ sc[vs[i]] = None /\ vs[i] \in Named BY <2>1, <2>2 DEF SameOwners
  <2> HIDE DEF d
  <2>6. Exact(f[k], d) /\ Shape(f[k]) BY <2>2 DEF d
  <2>7. f[k].name[vs[i]] \in Seq(Int) BY <2>5, <2>6 DEF Shape
  <2>8. d[vs[i]] = None BY <2>4, <2>5
  <2>9. /\ Shape(f[i]) /\ SameOwners(f[k], f[i]) /\ SameLeaks(f[k], f[i])
        /\ Exact(f[i], [d EXCEPT ![vs[i]] = to])
        /\ OthersNamed(f[k], f[i], vs[i])
    <3> DEFINE a == f[k]
               x == vs[i]
               base == f[k].name[vs[i]]
    <3>1. Shape(a) /\ Exact(a, d) /\ x \in a.live /\ d[x] = None /\ base \in Seq(Int)
          /\ f[i] = PlaceName(a, to, x, base) /\ d \in [Named -> Homes]
      BY <2>3, <2>4, <2>5, <2>6, <2>7, <2>8
    <3> HIDE DEF a, x, base
    <3>2. /\ Shape(f[i]) /\ SameOwners(a, f[i]) /\ SameLeaks(a, f[i])
          /\ Exact(f[i], [d EXCEPT ![x] = to]) /\ OthersNamed(a, f[i], x)
      BY ONLY NamesAssumption, to \in Homes, <3>1, PlaceExact
    <3> QED BY <3>2 DEF a, x
  <2>10. Good(f, i) BY <2>1, <2>2, <2>4, <2>9 DEF SameOwners, SameLeaks, OthersNamed
  <2>11. i \in 0 .. n BY <1>0, <2>1
  <2> QED BY <2>10, <2>11 DEF i
<1>4. n \in S
  <2> HIDE DEF S
  <2>1. \A i \in 0 .. n : i \in S BY <1>0, <1>2, <1>3, UpTo
  <2> QED BY <1>0, <2>1
<1> QED BY <1>1, <1>4

KeptOutside(s, r, vs) == \A u \in Named : (\A j \in 1 .. Len(vs) : vs[j] # u) => r.name[u] = s.name[u]

(* The names of a list go from one table to another, or to none. *)
LEMMA MoveExact ==
  ASSUME NamesAssumption, NEW s, Shape(s), NEW sc \in [Named -> Homes], Exact(s, sc), NEW from \in Homes,
         NEW to \in Homes, NEW vs \in Seq(Named), OneByOne(vs),
         \A i \in 1 .. Len(vs) : vs[i] \in s.live /\ sc[vs[i]] = from,
         NEW r, r = MoveNames(s, vs, from, to)
  PROVE  /\ Shape(r) /\ SameOwners(s, r) /\ SameLeaks(s, r)
         /\ KeptOutside(s, r, vs)
         /\ Exact(r, Shifted(sc, vs, Len(vs), to))
<1> DEFINE q == NamesOut(s, vs, from)
           d == Shifted(sc, vs, Len(vs), None)
<1>1. /\ Shape(q) /\ SameOwners(s, q) /\ SameLeaks(s, q) /\ q.name = s.name /\ Exact(q, d)
  BY OutExact
<1>2. d \in [Named -> Homes] /\ \A i \in 1 .. Len(vs) : d[vs[i]] = None BY DEF Shifted, Homes
<1>3. Shifted(d, vs, Len(vs), to) = Shifted(sc, vs, Len(vs), to) BY DEF Shifted
<1>4. \A i \in 1 .. Len(vs) : vs[i] \in q.live BY <1>1 DEF SameOwners
<1> HIDE DEF d, q
<1>5. CASE to = None BY <1>1, <1>5 DEF MoveNames, KeptOutside, q, d
<1>6. CASE to # None
  <2>1. r = NamesIn(q, vs, to) BY <1>6 DEF MoveNames, q
  <2>2. /\ Shape(r) /\ SameOwners(q, r) /\ SameLeaks(q, r)
        /\ \A u \in Named : (\A j \in 1 .. Len(vs) : vs[j] # u) => r.name[u] = q.name[u]
        /\ Exact(r, Shifted(d, vs, Len(vs), to))
    BY <1>1, <1>2, <1>4, <2>1, InExact
  <2> QED BY <1>1, <1>3, <2>2 DEF SameOwners, SameLeaks, KeptOutside
<1> QED BY <1>5, <1>6
-----------------------------------------------------------------------------
Holds(seq, v) == \E i \in 1 .. Len(seq) : seq[i] = v

LEMMA Piece ==
  ASSUME NEW seq \in Seq(Named), NEW a \in 1 .. Len(seq) + 1, NEW b \in a - 1 .. Len(seq)
  PROVE  /\ SubSeq(seq, a, b) \in Seq(Named) /\ Len(SubSeq(seq, a, b)) = b - a + 1
         /\ \A i \in 1 .. b - a + 1 : SubSeq(seq, a, b)[i] = seq[a + i - 1]
<1>1. a \in Int /\ b \in Int /\ Len(seq) \in Nat OBVIOUS
<1>2. \A i \in a .. b : seq[i] \in Named BY <1>1
<1>3. /\ SubSeq(seq, a, b) \in Seq(Named) /\ Len(SubSeq(seq, a, b)) = IF a <= b THEN b - a + 1 ELSE 0
      /\ \A i \in 1 .. b - a + 1 : SubSeq(seq, a, b)[i] = seq[a + i - 1]
  BY ONLY <1>1, <1>2, SubSeqProperties
<1> QED BY <1>1, <1>3

Joins(q, a, b) ==
  /\ q \in Seq(Named) /\ Len(q) = Len(a) + Len(b)
  /\ \A j \in 1 .. Len(a) + Len(b) : q[j] = IF j <= Len(a) THEN a[j] ELSE b[j - Len(a)]

LEMMA Joined == ASSUME NEW a \in Seq(Named), NEW b \in Seq(Named) PROVE Joins(a \o b, a, b)
BY ConcatProperties DEF Joins

(* What a list is after an insertion, and after a removal. *)
LEMMA Inserted ==
  ASSUME NEW seq \in Seq(Named), NEW v \in Named, NEW i \in 1 .. Len(seq) + 1, ~ Holds(seq, v),
         OneByOne(seq), NEW q, q = InsertAt(seq, i, v)
  PROVE  q \in Seq(Named) /\ OneByOne(q) /\ \A u \in Named : Holds(q, u) <=> Holds(seq, u) \/ u = v
<1> DEFINE n == Len(seq)
<1>0. n \in Nat OBVIOUS
<1>9. /\ q \in Seq(Named) /\ Len(q) = n + 1
      /\ \A j \in 1 .. n + 1 : q[j] = IF j < i THEN seq[j] ELSE IF j = i THEN v ELSE seq[j - 1]
  <2> DEFINE a == SubSeq(seq, 1, i - 1)
             b == SubSeq(seq, i, n)
  <2>1. 1 \in 1 .. n + 1 /\ i - 1 \in 1 - 1 .. n /\ i \in 1 .. n + 1 /\ n \in i - 1 .. n BY <1>0
  <2>2. a \in Seq(Named) /\ Len(a) = i - 1 - 1 + 1 /\ \A j \in 1 .. i - 1 - 1 + 1 : a[j] = seq[1 + j - 1]
    BY <2>1, Piece
  <2>3. b \in Seq(Named) /\ Len(b) = n - i + 1 /\ \A j \in 1 .. n - i + 1 : b[j] = seq[i + j - 1]
    BY <2>1, Piece
  <2>4. <<v>> \in Seq(Named) /\ Len(<<v>>) = 1 /\ <<v>>[1] = v OBVIOUS
  <2>5. q = a \o <<v>> \o b BY DEF InsertAt
  <2> DEFINE c == a \o <<v>>
  <2> HIDE DEF a, b
  <2>6. /\ c \in Seq(Named) /\ Len(c) = Len(a) + 1
        /\ \A j \in 1 .. Len(a) + 1 : c[j] = IF j <= Len(a) THEN a[j] ELSE <<v>>[j - Len(a)]
    BY <2>2, <2>4, ConcatProperties
  <2>7. Len(c) = i /\ \A j \in 1 .. i : c[j] = IF j < i THEN seq[j] ELSE v
    BY <1>0, <2>1, <2>2, <2>4, <2>6
  <2> HIDE DEF c
  <2>8. /\ q \in Seq(Named) /\ Len(q) = Len(c) + Len(b)
        /\ \A j \in 1 .. Len(c) + Len(b) : q[j] = IF j <= Len(c) THEN c[j] ELSE b[j - Len(c)]
    <3>1. c \in Seq(Named) BY <2>6
    <3>2. Joins(c \o b, c, b) BY <2>3, <3>1, Joined
    <3> QED BY <2>5, <3>2 DEF Joins, c
  <2>9. ASSUME NEW j \in 1 .. n + 1
        PROVE  q[j] = IF j < i THEN seq[j] ELSE IF j = i THEN v ELSE seq[j - 1]
    <3>1. CASE j <= i BY <1>0, <2>1, <2>3, <2>7, <2>8, <3>1
    <3>2. CASE j > i
      <4>1. q[j] = b[j - i] BY <1>0, <2>1, <2>3, <2>7, <2>8, <3>2
      <4>2. j - i \in 1 .. n - i + 1 BY <1>0, <2>1, <3>2
      <4>3. b[j - i] = seq[i + (j - i) - 1] BY <2>3, <4>2
      <4>4. i + (j - i) - 1 = j - 1 BY <1>0, <2>1
      <4> QED BY <1>0, <2>1, <3>2, <4>1, <4>3, <4>4
    <3> QED BY <1>0, <2>1, <3>1, <3>2
  <2> QED BY <1>0, <2>1, <2>3, <2>7, <2>8, <2>9
<1>1. q \in Seq(Named) /\ Len(q) = n + 1 BY <1>9
<1>2. \A j \in 1 .. n + 1 : q[j] = IF j < i THEN seq[j] ELSE IF j = i THEN v ELSE seq[j - 1]
  BY <1>9
<1>3. \A j \in 1 .. n : seq[j] # v BY DEF Holds
<1> HIDE DEF n
<1>4. OneByOne(q)
  <2> SUFFICES ASSUME NEW j \in 1 .. n + 1, NEW k \in 1 .. n + 1, q[j] = q[k], j < k PROVE FALSE
    BY <1>0, <1>1 DEF OneByOne
  <2>0. \A x, y \in 1 .. n : seq[x] = seq[y] => x = y BY DEF OneByOne, n
  <2>1. CASE k < i
    <3>1. j \in 1 .. n /\ k \in 1 .. n /\ q[j] = seq[j] /\ q[k] = seq[k] BY <1>0, <1>2, <2>1 DEF n
    <3>2. j = k BY <2>0, <3>1
    <3> QED BY <1>0, <3>2
  <2>2. CASE k = i
    <3>1. j \in 1 .. n /\ q[j] = seq[j] /\ q[k] = v BY <1>0, <1>2, <2>2
    <3> QED BY <1>3, <3>1
  <2>3. CASE k > i /\ j = i
    <3>1. k - 1 \in 1 .. n /\ q[j] = v /\ q[k] = seq[k - 1] BY <1>0, <1>2, <2>3
    <3> QED BY <1>3, <3>1
  <2>4. CASE k > i /\ j < i
    <3>1. j \in 1 .. n /\ k - 1 \in 1 .. n /\ j # k - 1 /\ q[j] = seq[j] /\ q[k] = seq[k - 1]
      BY <1>0, <1>2, <2>4
    <3> QED BY <3>1 DEF OneByOne, n
  <2>5. CASE k > i /\ j > i
    <3>1. j - 1 \in 1 .. n /\ k - 1 \in 1 .. n /\ j - 1 # k - 1 /\ q[j] = seq[j - 1] /\ q[k] = seq[k - 1]
      BY <1>0, <1>2, <2>5
    <3> QED BY <3>1 DEF OneByOne, n
  <2> QED BY <2>1, <2>2, <2>3, <2>4, <2>5
<1>5. ASSUME NEW u \in Named, Holds(q, u) PROVE Holds(seq, u) \/ u = v
  <2>1. PICK j \in 1 .. n + 1 : q[j] = u BY <1>1, <1>5 DEF Holds
  <2>2. CASE j < i
    <3>1. j \in 1 .. n /\ seq[j] = u BY <1>0, <1>2, <2>1, <2>2 DEF n
    <3> QED BY <3>1 DEF Holds, n
  <2>3. CASE j > i
    <3>1. j - 1 \in 1 .. n /\ seq[j - 1] = u BY <1>0, <1>2, <2>1, <2>3
    <3> QED BY <3>1 DEF Holds, n
  <2> QED BY <1>2, <2>1, <2>2, <2>3
<1>6. Holds(q, v)
  <2>1. i \in 1 .. n + 1 /\ q[i] = v BY <1>0, <1>2 DEF n
  <2> QED BY <1>1, <2>1 DEF Holds
<1>7. ASSUME NEW u \in Named, Holds(seq, u) PROVE Holds(q, u)
  <2>1. PICK j \in 1 .. n : seq[j] = u BY <1>7 DEF Holds, n
  <2>2. CASE j < i
    <3>1. j \in 1 .. n + 1 /\ q[j] = u BY <1>0, <1>2, <2>1, <2>2
    <3> QED BY <1>1, <3>1 DEF Holds
  <2>3. CASE ~(j < i)
    <3>1. j + 1 \in 1 .. n + 1 /\ q[j + 1] = u BY <1>0, <1>2, <2>1, <2>3
    <3> QED BY <1>1, <3>1 DEF Holds
  <2> QED BY <2>2, <2>3
<1> QED BY <1>1, <1>4, <1>5, <1>6, <1>7

LEMMA Removed ==
  ASSUME NEW seq \in Seq(Named), NEW v \in Named, Holds(seq, v), OneByOne(seq),
         NEW q, q = Unlisted(seq, v)
  PROVE  /\ q \in Seq(Named) /\ Len(q) = Len(seq) - 1 /\ OneByOne(q)
         /\ \A u \in Named : Holds(q, u) <=> Holds(seq, u) /\ u # v
<1> DEFINE n == Len(seq)
           k == CHOOSE i \in DOMAIN seq : seq[i] = v
<1>0. n \in Nat /\ DOMAIN seq = 1 .. n OBVIOUS
<1>1. k \in 1 .. n /\ seq[k] = v BY <1>0 DEF Holds
<1>2. q = RemoveAt(seq, k) BY DEF Unlisted
<1> HIDE DEF k
<1>9. /\ q \in Seq(Named) /\ Len(q) = n - 1
      /\ \A j \in 1 .. n - 1 : q[j] = IF j < k THEN seq[j] ELSE seq[j + 1]
  <2> DEFINE a == SubSeq(seq, 1, k - 1)
             b == SubSeq(seq, k + 1, n)
  <2>1. 1 \in 1 .. n + 1 /\ k - 1 \in 1 - 1 .. n /\ k + 1 \in 1 .. n + 1 /\ n \in k + 1 - 1 .. n
    BY <1>0, <1>1
  <2>2. a \in Seq(Named) /\ Len(a) = k - 1 - 1 + 1 /\ \A j \in 1 .. k - 1 - 1 + 1 : a[j] = seq[1 + j - 1]
    BY <2>1, Piece
  <2>3. b \in Seq(Named) /\ Len(b) = n - (k + 1) + 1
        /\ \A j \in 1 .. n - (k + 1) + 1 : b[j] = seq[(k + 1) + j - 1]
    BY <2>1, Piece
  <2>4. q = a \o b BY <1>2 DEF RemoveAt
  <2> HIDE DEF a, b
  <2>5. /\ q \in Seq(Named) /\ Len(q) = Len(a) + Len(b)
        /\ \A j \in 1 .. Len(a) + Len(b) : q[j] = IF j <= Len(a) THEN a[j] ELSE b[j - Len(a)]
    <3>1. Joins(a \o b, a, b) BY <2>2, <2>3, Joined
    <3> QED BY <2>4, <3>1 DEF Joins
  <2>6. ASSUME NEW j \in 1 .. n - 1 PROVE q[j] = IF j < k THEN seq[j] ELSE seq[j + 1]
    <3>0. Len(a) = k - 1 /\ Len(b) = n - k /\ k \in Nat BY <1>0, <1>1, <2>2, <2>3
    <3>3. q[j] = IF j <= k - 1 THEN a[j] ELSE b[j - (k - 1)] BY <1>0, <1>1, <2>5, <3>0
    <3>1. CASE j < k
      <4>1. j \in 1 .. k - 1 - 1 + 1 /\ 1 + j - 1 = j BY <1>0, <3>0, <3>1
      <4> QED BY <2>2, <3>0, <3>1, <3>3, <4>1
    <3>2. CASE ~(j < k)
      <4>1. q[j] = b[j - (k - 1)] BY <1>0, <3>0, <3>2, <3>3
      <4>2. j - (k - 1) \in 1 .. n - (k + 1) + 1 BY <1>0, <1>1, <3>2
      <4>3. b[j - (k - 1)] = seq[(k + 1) + (j - (k - 1)) - 1] BY <2>3, <4>2
      <4>4. (k + 1) + (j - (k - 1)) - 1 = j + 1 BY <1>0, <1>1
      <4> QED BY <3>2, <4>1, <4>3, <4>4
    <3> QED BY <3>1, <3>2
  <2> QED BY <1>0, <1>1, <2>2, <2>3, <2>5, <2>6
<1>3. q \in Seq(Named) /\ Len(q) = n - 1 BY <1>9
<1>4. \A j \in 1 .. n - 1 : q[j] = IF j < k THEN seq[j] ELSE seq[j + 1] BY <1>9
<1> HIDE DEF n
<1>5. \A i, j \in 1 .. n : seq[i] = seq[j] => i = j BY DEF OneByOne, n
<1>6. OneByOne(q)
  <2> SUFFICES ASSUME NEW i \in 1 .. n - 1, NEW j \in 1 .. n - 1, q[i] = q[j] PROVE i = j
    BY <1>0, <1>3 DEF OneByOne
  <2> DEFINE f(x) == IF x < k THEN x ELSE x + 1
  <2>1. f(i) \in 1 .. n /\ f(j) \in 1 .. n /\ q[i] = seq[f(i)] /\ q[j] = seq[f(j)]
    BY <1>0, <1>1, <1>4
  <2>2. f(i) = f(j) BY <1>5, <2>1
  <2> QED BY <1>0, <1>1, <2>2
<1>7. ASSUME NEW u \in Named, Holds(q, u) PROVE Holds(seq, u) /\ u # v
  <2>1. PICK j \in 1 .. n - 1 : q[j] = u BY <1>3, <1>7 DEF Holds
  <2>2. PICK i \in 1 .. n : i # k /\ seq[i] = u
    <3>1. CASE j < k
      <4>1. j \in 1 .. n /\ seq[j] = u BY <1>0, <1>4, <2>1, <3>1
      <4> QED BY <3>1, <4>1
    <3>2. CASE ~(j < k)
      <4>1. j + 1 \in 1 .. n /\ seq[j + 1] = u /\ j + 1 # k BY <1>0, <1>1, <1>4, <2>1, <3>2
      <4> QED BY <4>1
    <3> QED BY <3>1, <3>2
  <2>3. u # v BY <1>1, <1>5, <2>2
  <2> QED BY <2>2, <2>3 DEF Holds, n
<1>8. ASSUME NEW u \in Named, Holds(seq, u), u # v PROVE Holds(q, u)
  <2>1. PICK i \in 1 .. n : seq[i] = u BY <1>8 DEF Holds, n
  <2>2. i # k BY <1>1, <1>8, <2>1
  <2>3. CASE i < k
    <3>1. i \in 1 .. n - 1 /\ q[i] = u BY <1>0, <1>1, <1>4, <2>1, <2>3
    <3> QED BY <1>3, <3>1 DEF Holds
  <2>4. CASE i > k
    <3>1. i - 1 \in 1 .. n - 1 /\ q[i - 1] = u BY <1>0, <1>1, <1>4, <2>1, <2>4
    <3> QED BY <1>3, <3>1 DEF Holds
  <2> QED BY <1>0, <1>1, <2>2, <2>3, <2>4
<1> QED BY <1>3, <1>6, <1>7, <1>8 DEF n
-----------------------------------------------------------------------------
(* The object that was added last is not in the set too. *)
Fresh(s) == ~ s.failed /\ s.cache \notin s.ts

LEMMA GarbageAdded ==
  ASSUME NamesAssumption, NEW s, Shape(s), NEW o \in Named, NEW r, r = AddGarbage(s, o)
  PROVE  /\ Shape(r) /\ SameOwners(s, r) /\ SameNames(s, r)
         /\ Reported(r) = Reported(s) \cup {o}
         /\ Fresh(s) /\ o \notin Reported(s) => Fresh(r)
<1>1. /\ r.live = s.live /\ r.parent = s.parent /\ r.list = s.list /\ r.name = s.name
      /\ r.table = s.table /\ r.last = s.last /\ DOMAIN r = DOMAIN s
  BY DEF AddGarbage, Shape
<1>2. r.ts = IF s.cache = None THEN s.ts ELSE s.ts \cup {s.cache} BY DEF AddGarbage, Shape
<1>3. r.cache = o BY DEF AddGarbage, Shape
<1>4. r.failed = (s.failed \/ s.cache \in s.ts) BY DEF AddGarbage, Shape
<1>5. o # None /\ None \notin s.ts BY HomeKinds DEF Shape
<1>6. Shape(r) BY <1>1, <1>2, <1>3 DEF Shape
<1>7. Reported(r) = Reported(s) \cup {o} BY <1>2, <1>3, <1>5 DEF Reported
<1>8. Fresh(s) /\ o \notin Reported(s) => Fresh(r)
  <2>1. Fresh(s) => ~ r.failed BY <1>4 DEF Fresh
  <2>2. o \notin Reported(s) => r.cache \notin r.ts BY <1>2, <1>3, <1>5 DEF Reported
  <2> QED BY <2>1, <2>2 DEF Fresh
<1> QED BY <1>1, <1>6, <1>7, <1>8 DEF SameOwners, SameNames

LEMMA GarbageRemoved ==
  ASSUME NamesAssumption, NEW s, Shape(s), NEW o \in Named, NEW r, r = RemoveGarbage(s, o)
  PROVE  /\ Shape(r) /\ SameOwners(s, r) /\ SameNames(s, r)
         /\ Fresh(s) => Fresh(r) /\ Reported(r) = Reported(s) \ {o}
<1>5. o # None /\ None \notin s.ts BY HomeKinds DEF Shape
<1>1. CASE o = s.cache
  <2>1. /\ r.live = s.live /\ r.parent = s.parent /\ r.list = s.list /\ r.name = s.name
        /\ r.table = s.table /\ r.last = s.last /\ DOMAIN r = DOMAIN s
    BY <1>1 DEF RemoveGarbage, Shape
  <2>2. r.ts = s.ts /\ r.cache = None /\ r.failed = s.failed BY <1>1 DEF RemoveGarbage, Shape
  <2>3. Shape(r) BY <2>1, <2>2 DEF Shape
  <2>4. Fresh(s) => Reported(r) = Reported(s) \ {o} BY <1>1, <1>5, <2>2 DEF Reported, Fresh
  <2>5. Fresh(s) => Fresh(r) BY <1>5, <2>2 DEF Fresh
  <2> QED BY <2>1, <2>3, <2>4, <2>5 DEF SameOwners, SameNames
<1>2. CASE o # s.cache
  <2>1. /\ r.live = s.live /\ r.parent = s.parent /\ r.list = s.list /\ r.name = s.name
        /\ r.table = s.table /\ r.last = s.last /\ DOMAIN r = DOMAIN s
    BY <1>2 DEF RemoveGarbage, Shape
  <2>2. r.ts = s.ts \ {o} /\ r.cache = s.cache /\ r.failed = s.failed
    BY <1>2 DEF RemoveGarbage, Shape
  <2>3. Shape(r) BY <2>1, <2>2 DEF Shape
  <2>4. Reported(r) = Reported(s) \ {o} BY <1>2, <2>2 DEF Reported
  <2>5. Fresh(s) => Fresh(r) BY <2>2 DEF Fresh
  <2> QED BY <2>1, <2>3, <2>4, <2>5 DEF SameOwners, SameNames
<1> QED BY <1>1, <1>2
-----------------------------------------------------------------------------
Fits(s, m) == Reported(s) = Orphans(s) \ m /\ Fresh(s)

LEMMA ExactSame ==
  ASSUME NEW s, NEW r, NEW sc, Exact(s, sc), r.live = s.live, r.name = s.name, r.table = s.table
  PROVE  Exact(r, sc)
BY DEF Exact

LEMMA ParentShape ==
  ASSUME NEW s, Shape(s), NEW v \in Named, NEW p \in Owners(v) \cup {None},
         NEW r, r = [s EXCEPT !.parent[v] = p]
  PROVE  /\ Shape(r) /\ r.live = s.live /\ r.list = s.list /\ r.parent = [s.parent EXCEPT ![v] = p]
         /\ SameNames(s, r) /\ SameLeaks(s, r)
<1>1. /\ r.live = s.live /\ r.list = s.list /\ r.name = s.name /\ r.table = s.table /\ r.last = s.last
      /\ r.ts = s.ts /\ r.cache = s.cache /\ r.failed = s.failed /\ DOMAIN r = DOMAIN s
  BY DEF Shape
<1>2. r.parent = [s.parent EXCEPT ![v] = p] BY DEF Shape
<1>3. Owners(v) \subseteq Containers BY DEF Owners, Containers, Scopes
<1>4. r.parent \in [Named -> Containers \cup {None}] BY <1>2, <1>3 DEF Shape
<1>5. \A u \in Named : r.parent[u] \in Owners(u) \cup {None} BY <1>2 DEF Shape
<1>6. Shape(r) BY <1>1, <1>4, <1>5 DEF Shape
<1> QED BY <1>1, <1>2, <1>6 DEF SameNames, SameLeaks

(* Where the names are after a change of the parent: a block takes along   *)
(* those of its instructions.                                              *)
MovedHomes(s, v, p, sc) ==
  IF v \in Blocks /\ s.parent[v] # p THEN Shifted(sc, s.list[v], Len(s.list[v]), p) ELSE sc

Settled(s, r, v, p, sc, m) ==
  /\ Shape(r) /\ r.live = s.live /\ r.list = s.list /\ r.parent = [s.parent EXCEPT ![v] = p]
  /\ Exact(r, MovedHomes(s, v, p, sc)) /\ Fits(r, m)
  /\ \A u \in Named : (v \in Blocks => ~ Holds(s.list[v], u)) => r.name[u] = s.name[u]
  /\ v \notin Blocks => r.table = s.table

LEMMA ParentSet ==
  ASSUME NamesAssumption, NEW s, Shape(s), NEW sc \in [Named -> Homes], Exact(s, sc), NEW m, Fits(s, m),
         NEW v \in s.live, NEW p \in Owners(v) \cup {None}, s.parent[v] # None \/ p # None,
         s.parent[v] # None => v \notin m,
         v \in Blocks => /\ OneByOne(s.list[v])
                         /\ \A i \in 1 .. Len(s.list[v]) :
                              s.list[v][i] \in s.live /\ sc[s.list[v][i]] = s.parent[v]
  PROVE  Settled(s, SetParent(s, v, p), v, p, sc, m)
<1> DEFINE old == s.parent[v]
           a == IF old # None /\ (v \in Insts => p = None) THEN AddGarbage(s, v) ELSE s
           b == [a EXCEPT !.parent[v] = p]
           c == IF v \in Blocks /\ old # p THEN MoveNames(b, s.list[v], old, p) ELSE b
           r == IF p # None /\ (v \in Insts => old = None) THEN RemoveGarbage(c, v) ELSE c
           d == MovedHomes(s, v, p, sc)
<1>0. /\ v \in Named /\ s.live \subseteq Named /\ old \in Owners(v) \cup {None}
      /\ s.name \in [Named -> Seq(Int)] /\ s.parent \in [Named -> Containers \cup {None}]
  BY DEF Shape
<1>1. v \in Reported(s) <=> v \in s.live /\ old = None /\ v \notin m BY DEF Fits, Orphans
<1>2. /\ Shape(a) /\ SameOwners(s, a) /\ SameNames(s, a) /\ Fresh(a)
      /\ Reported(a) = IF old # None /\ (v \in Insts => p = None) THEN Reported(s) \cup {v} ELSE Reported(s)
  <2>1. CASE old # None /\ (v \in Insts => p = None)
    <3>1. a = AddGarbage(s, v) BY <2>1
    <3> HIDE DEF a
    <3>2. v \notin Reported(s) /\ Fresh(s) BY <1>1, <2>1 DEF Fits
    <3> QED BY <1>0, <2>1, <3>1, <3>2, GarbageAdded
  <2>2. CASE ~(old # None /\ (v \in Insts => p = None))
    <3>1. a = s BY <2>2
    <3> QED BY <2>2, <3>1 DEF Fits, SameOwners, SameNames
  <2> QED BY <2>1, <2>2
<1> HIDE DEF a
<1>3. /\ Shape(b) /\ b.live = a.live /\ b.list = a.list /\ b.parent = [a.parent EXCEPT ![v] = p]
      /\ SameNames(a, b) /\ SameLeaks(a, b)
  BY <1>0, <1>2, ParentShape
<1> HIDE DEF b
<1>4. /\ Exact(b, sc) /\ b.live = s.live /\ b.list = s.list /\ b.name = s.name
      /\ b.parent = [s.parent EXCEPT ![v] = p]
  BY <1>2, <1>3, ExactSame DEF SameOwners, SameNames
<1>5. Fresh(b) /\ Reported(b) = Reported(a) BY <1>2, <1>3 DEF SameLeaks, Fresh, Reported
<1>6. /\ Shape(c) /\ SameOwners(b, c) /\ SameLeaks(b, c) /\ Exact(c, d)
      /\ \A u \in Named : (v \in Blocks => ~ Holds(s.list[v], u)) => c.name[u] = s.name[u]
  <2>1. CASE v \in Blocks /\ old # p
    <3> DEFINE vs == s.list[v]
    <3>1. c = MoveNames(b, vs, old, p) /\ d = Shifted(sc, vs, Len(vs), p) BY <2>1 DEF MovedHomes
    <3>2. vs \in Seq(Named) /\ OneByOne(vs) /\ \A i \in 1 .. Len(vs) : vs[i] \in b.live /\ sc[vs[i]] = old
      BY <1>0, <1>4, <2>1 DEF Shape, Containers
    <3>3. old \in Homes /\ p \in Homes BY <1>0, <2>1, HomeKinds DEF Homes, Scopes
    <3> HIDE DEF c, vs
    <3>4. /\ Shape(c) /\ SameOwners(b, c) /\ SameLeaks(b, c)
          /\ KeptOutside(b, c, vs) /\ Exact(c, Shifted(sc, vs, Len(vs), p))
      BY <1>3, <1>4, <3>1, <3>2, <3>3, MoveExact
    <3>5. \A u \in Named : ~ Holds(vs, u) => c.name[u] = s.name[u]
      BY <1>4, <3>4 DEF Holds, KeptOutside
    <3> QED BY <2>1, <3>1, <3>4, <3>5 DEF vs
  <2>2. CASE ~(v \in Blocks /\ old # p)
    <3>1. c = b /\ d = sc BY <2>2 DEF MovedHomes
    <3> QED BY <1>3, <1>4, <3>1 DEF SameOwners, SameLeaks
  <2> QED BY <2>1, <2>2
<1> HIDE DEF c, d
<1>7. Fresh(c) /\ Reported(c) = Reported(a) BY <1>5, <1>6 DEF SameLeaks, Fresh, Reported
<1>8. /\ Shape(r) /\ SameOwners(c, r) /\ SameNames(c, r) /\ Fresh(r)
      /\ Reported(r) = IF p # None /\ (v \in Insts => old = None) THEN Reported(c) \ {v} ELSE Reported(c)
  <2>1. CASE p # None /\ (v \in Insts => old = None)
    <3>1. r = RemoveGarbage(c, v) BY <2>1
    <3> HIDE DEF r
    <3> QED BY <1>0, <1>6, <1>7, <2>1, <3>1, GarbageRemoved
  <2>2. CASE ~(p # None /\ (v \in Insts => old = None))
    <3>1. r = c BY <2>2
    <3> QED BY <1>6, <1>7, <2>2, <3>1 DEF SameOwners, SameNames
  <2> QED BY <2>1, <2>2
<1>9. SetParent(s, v, p) = r BY DEF SetParent, a, b, c
<1> HIDE DEF r
<1>10. /\ r.live = s.live /\ r.list = s.list /\ r.parent = [s.parent EXCEPT ![v] = p]
  BY <1>4, <1>6, <1>8 DEF SameOwners
<1>11. Exact(r, d) BY <1>6, <1>8, ExactSame DEF SameOwners, SameNames
<1>12. Reported(r) = Orphans(r) \ m
  <2>1. r.parent[v] = p /\ \A u \in Named : u # v => r.parent[u] = s.parent[u] BY <1>0, <1>10
  <2>2. Orphans(r) = IF p = None THEN Orphans(s) \cup {v} ELSE Orphans(s) \ {v}
    BY <1>0, <1>10, <2>1 DEF Orphans
  <2>3. Reported(s) = Orphans(s) \ m BY DEF Fits
  <2>4. CASE p = None
    <3>1. old # None /\ v \notin m BY <2>4
    <3>2. Reported(r) = Reported(s) \cup {v} BY <1>2, <1>7, <1>8, <2>4, <3>1
    <3> QED BY <2>2, <2>3, <2>4, <3>1, <3>2
  <2>5. CASE p # None /\ old = None
    <3>1. Reported(r) = Reported(s) \ {v} BY <1>2, <1>7, <1>8, <2>5
    <3> QED BY <2>2, <2>3, <2>5, <3>1
  <2>6. CASE p # None /\ old # None
    <3>1. Reported(r) = Reported(s) BY <1>1, <1>2, <1>7, <1>8, <2>6
    <3>2. v \notin Orphans(s) BY <2>6 DEF Orphans
    <3> QED BY <2>2, <2>3, <2>6, <3>1, <3>2
  <2> QED BY <2>4, <2>5, <2>6
<1>13. \A u \in Named : (v \in Blocks => ~ Holds(s.list[v], u)) => r.name[u] = s.name[u]
  BY <1>6, <1>8 DEF SameNames
<1>14. v \notin Blocks => r.table = s.table
  <2>1. v \notin Blocks => c = b BY DEF c
  <2> QED BY <1>2, <1>3, <1>8, <2>1 DEF SameNames
<1> QED BY <1>8, <1>9, <1>10, <1>11, <1>12, <1>13, <1>14 DEF Settled, Fits, d
-----------------------------------------------------------------------------
HomeOf(s) == [v \in Named |-> ScopeOf(s, v)]

(* A list holds the values of its container, once. *)
Listed(s) ==
  \A c \in Containers :
    OneByOne(s.list[c]) /\ \A v \in Named : Holds(s.list[c], v) <=> v \in s.live /\ s.parent[v] = c

Blank(s) == \A v \in Named : v \notin s.live => s.parent[v] = None /\ s.name[v] = NoName

(* The invariant of every operation, m the orphans that were reported. *)
All(s, m) == Shape(s) /\ Listed(s) /\ Blank(s) /\ Exact(s, HomeOf(s)) /\ Fits(s, m)

LEMMA HomesTyped ==
  ASSUME NamesAssumption, NEW s, Shape(s)
  PROVE  HomeOf(s) \in [Named -> Homes]
<1>1. SUFFICES ASSUME NEW v \in Named PROVE ScopeOf(s, v) \in Homes BY DEF HomeOf
<1>2. s.parent[v] \in Owners(v) \cup {None} BY DEF Shape
<1>3. CASE s.parent[v] = None BY <1>3 DEF ScopeOf, Homes
<1>4. CASE s.parent[v] # None /\ v \in Insts
  <2>1. s.parent[v] \in Blocks BY <1>2, <1>4, HomeKinds
  <2>2. s.parent[v] \in Named /\ Owners(s.parent[v]) = Funcs BY <2>1, HomeKinds DEF Named
  <2>3. s.parent[s.parent[v]] \in Funcs \cup {None} BY <2>2 DEF Shape
  <2> QED BY <1>4, <2>3 DEF ScopeOf, Homes, Scopes
<1>5. CASE s.parent[v] # None /\ v \notin Insts
  <2>1. s.parent[v] \in Scopes BY <1>2, <1>5 DEF Owners, Scopes
  <2> QED BY <1>5, <2>1 DEF ScopeOf, Homes
<1> QED BY <1>3, <1>4, <1>5

(* Only where a value with a name has it is of matter. *)
LEMMA ExactAgree ==
  ASSUME NEW s, Shape(s), NEW sc, Exact(s, sc), NEW d,
         \A u \in s.live : s.name[u] # NoName => d[u] = sc[u]
  PROVE  Exact(s, d)
<1>1. ASSUME NEW t \in Scopes, NEW n \in DOMAIN s.table[t] PROVE d[s.table[t][n]] = t
  <2>1. /\ n # NoName /\ s.table[t][n] \in s.live
        /\ s.name[s.table[t][n]] = n /\ sc[s.table[t][n]] = t
    BY DEF Exact
  <2> QED BY <2>1
<1>2. ASSUME NEW t \in Scopes, NEW v \in s.live, d[v] = t, s.name[v] # NoName PROVE sc[v] = t
  BY <1>2
<1> QED BY <1>1, <1>2 DEF Exact

(* What is in a block is an instruction. *)
LEMMA InBlock ==
  ASSUME NamesAssumption, NEW s, Shape(s), NEW u \in Named, s.parent[u] \in Blocks
  PROVE  u \in Insts
<1>1. s.parent[u] \in Owners(u) \cup {None} BY DEF Shape
<1>2. s.parent[u] \notin Scopes /\ s.parent[u] # None BY HomeKinds DEF Named
<1> QED BY <1>1, <1>2 DEF Owners, Scopes

LEMMA ListShape ==
  ASSUME NEW s, Shape(s), NEW p \in Containers, NEW q \in Seq(Named), NEW r, r = [s EXCEPT !.list[p] = q]
  PROVE  /\ Shape(r) /\ r.list = [s.list EXCEPT ![p] = q] /\ r.live = s.live /\ r.parent = s.parent
         /\ SameNames(s, r) /\ SameLeaks(s, r)
<1>1. /\ r.live = s.live /\ r.parent = s.parent /\ r.name = s.name /\ r.table = s.table /\ r.last = s.last
      /\ r.ts = s.ts /\ r.cache = s.cache /\ r.failed = s.failed /\ DOMAIN r = DOMAIN s
  BY DEF Shape
<1>2. r.list = [s.list EXCEPT ![p] = q] BY DEF Shape
<1>3. r.list \in [Containers -> Seq(Named)] BY <1>2 DEF Shape
<1>4. Shape(r) BY <1>1, <1>3 DEF Shape
<1> QED BY <1>1, <1>2, <1>4 DEF SameNames, SameLeaks

(* After SetParent every name is where it belongs, but for that of v. *)
LEMMA SettledHomes ==
  ASSUME NamesAssumption, NEW s, Shape(s), NEW sc \in [Named -> Homes], NEW m, NEW v \in s.live,
         NEW p \in Owners(v) \cup {None}, NEW r, Settled(s, r, v, p, sc, m),
         \A u \in s.live : u # v => sc[u] = ScopeOf(s, u),
         v \in Blocks => \A u \in Named : Holds(s.list[v], u) <=> u \in s.live /\ s.parent[u] = v
  PROVE  Exact(r, [HomeOf(r) EXCEPT ![v] = sc[v]])
<1> DEFINE d == MovedHomes(s, v, p, sc)
           e == [HomeOf(r) EXCEPT ![v] = sc[v]]
<1>1. Shape(r) /\ r.live = s.live /\ r.parent = [s.parent EXCEPT ![v] = p] /\ Exact(r, d) BY DEF Settled
<1>2. v \in Named /\ s.live \subseteq Named /\ s.parent \in [Named -> Containers \cup {None}] BY DEF Shape
<1>3. r.parent[v] = p /\ \A u \in Named : u # v => r.parent[u] = s.parent[u] BY <1>1, <1>2
<1>4. e[v] = sc[v] /\ \A u \in Named : u # v => e[u] = ScopeOf(r, u) BY <1>2 DEF HomeOf
<1> HIDE DEF e
<1>5. ASSUME NEW u \in s.live PROVE e[u] = d[u]
  <2>0. u \in Named BY <1>2
  <2>1. CASE v \in Blocks /\ s.parent[v] # p /\ Holds(s.list[v], u)
    <3>1. s.parent[u] = v BY <2>0, <2>1
    <3>2. u \in Insts /\ v # None BY <1>2, <2>0, <2>1, <3>1, InBlock, HomeKinds
    <3>3. u # v BY <2>1, <3>2, HomeKinds
    <3>4. ScopeOf(r, u) = p BY <1>3, <2>0, <3>1, <3>2, <3>3 DEF ScopeOf
    <3>5. d[u] = p BY <2>0, <2>1 DEF MovedHomes, Shifted, Holds
    <3> QED BY <1>4, <2>0, <3>3, <3>4, <3>5
  <2>2. CASE ~ (v \in Blocks /\ s.parent[v] # p /\ Holds(s.list[v], u))
    <3>1. d[u] = sc[u] BY <2>0, <2>2 DEF MovedHomes, Shifted, Holds
    <3>2. CASE u = v BY <1>4, <3>1, <3>2
    <3>3. CASE u # v
      <4>1. sc[u] = ScopeOf(s, u) /\ e[u] = ScopeOf(r, u) BY <1>4, <2>0, <3>3
      <4>2. r.parent[u] = s.parent[u] BY <1>3, <2>0, <3>3
      <4>3. CASE u \in Insts /\ s.parent[u] = v
        <5>1. v \in Blocks
          <6>1. s.parent[u] \in Owners(u) \cup {None} BY <2>0 DEF Shape
          <6> QED BY <1>2, <4>3, <6>1, HomeKinds
        <5>2. Holds(s.list[v], u) BY <2>0, <4>3, <5>1
        <5>3. s.parent[v] = r.parent[v] BY <1>3, <2>2, <5>1, <5>2
        <5> QED BY <3>1, <4>1, <4>2, <4>3, <5>3 DEF ScopeOf
      <4>4. CASE u \in Insts /\ s.parent[u] # v /\ s.parent[u] # None
        <5>1. s.parent[u] \in Named
          <6>1. s.parent[u] \in Owners(u) \cup {None} BY <2>0 DEF Shape
          <6> QED BY <4>4, <6>1, HomeKinds DEF Named
        <5>2. r.parent[s.parent[u]] = s.parent[s.parent[u]] BY <1>3, <4>4, <5>1
        <5> QED BY <3>1, <4>1, <4>2, <5>2 DEF ScopeOf
      <4>5. CASE u \notin Insts \/ s.parent[u] = None
        BY <3>1, <4>1, <4>2, <4>5 DEF ScopeOf
      <4> QED BY <4>3, <4>4, <4>5
    <3> QED BY <3>2, <3>3
  <2> QED BY <2>1, <2>2
<1> HIDE DEF d
<1>6. Exact(r, e) BY <1>1, <1>5, ExactAgree
<1> QED BY <1>6 DEF e
-----------------------------------------------------------------------------
(* Removing a value from a list and adding it to one, as the parents do. *)
LEMMA ListedOff ==
  ASSUME NamesAssumption, NEW s, Shape(s), Listed(s), NEW v \in s.live, s.parent[v] # None,
         NEW q, q = Unlisted(s.list[s.parent[v]], v), NEW r, r.live = s.live,
         r.list = [s.list EXCEPT ![s.parent[v]] = q],
         r.parent = [s.parent EXCEPT ![v] = None]
  PROVE  q \in Seq(Named) /\ Len(q) = Len(s.list[s.parent[v]]) - 1 /\ Listed(r)
<1> DEFINE p == s.parent[v]
           seq == s.list[p]
<1>1. v \in Named /\ p \in Containers /\ seq \in Seq(Named) BY DEF Shape
<1>2. OneByOne(seq) /\ \A u \in Named : Holds(seq, u) <=> u \in s.live /\ s.parent[u] = p
  BY <1>1 DEF Listed
<1>3. /\ q \in Seq(Named) /\ Len(q) = Len(seq) - 1 /\ OneByOne(q)
      /\ \A u \in Named : Holds(q, u) <=> Holds(seq, u) /\ u # v
  BY <1>1, <1>2, Removed
<1>4. r.list[p] = q /\ \A c \in Containers : c # p => r.list[c] = s.list[c] BY <1>1 DEF Shape
<1>5. r.parent[v] = None /\ \A u \in Named : u # v => r.parent[u] = s.parent[u] BY <1>1 DEF Shape
<1>6. ASSUME NEW c \in Containers
      PROVE  OneByOne(r.list[c]) /\ \A u \in Named : Holds(r.list[c], u) <=> u \in r.live /\ r.parent[u] = c
  <2>1. CASE c = p
    <3>1. None \notin Containers BY HomeKinds DEF Containers, Named
    <3> QED BY <1>2, <1>3, <1>4, <1>5, <2>1, <3>1
  <2>2. CASE c # p
    <3>1. None \notin Containers BY HomeKinds DEF Containers, Named
    <3>2. OneByOne(s.list[c]) /\ \A u \in Named : Holds(s.list[c], u) <=> u \in s.live /\ s.parent[u] = c
      BY DEF Listed
    <3> QED BY <1>1, <1>4, <1>5, <2>2, <3>1, <3>2
  <2> QED BY <2>1, <2>2
<1> QED BY <1>3, <1>6 DEF Listed

LEMMA ListedOn ==
  ASSUME NamesAssumption, NEW s, Shape(s), Listed(s), NEW v \in s.live, s.parent[v] = None,
         NEW p \in Containers, NEW i \in 1 .. Len(s.list[p]) + 1,
         NEW q, q = InsertAt(s.list[p], i, v), NEW r, r.live = s.live,
         r.list = [s.list EXCEPT ![p] = q], r.parent = [s.parent EXCEPT ![v] = p]
  PROVE  q \in Seq(Named) /\ Listed(r)
<1> DEFINE seq == s.list[p]
<1>0. None \notin Containers BY HomeKinds DEF Containers, Named
<1>1. v \in Named /\ seq \in Seq(Named) BY DEF Shape
<1>2. OneByOne(seq) /\ \A u \in Named : Holds(seq, u) <=> u \in s.live /\ s.parent[u] = p
  BY <1>1 DEF Listed
<1>3. ~ Holds(seq, v) BY <1>0, <1>1, <1>2
<1>4. /\ q \in Seq(Named) /\ OneByOne(q)
      /\ \A u \in Named : Holds(q, u) <=> Holds(seq, u) \/ u = v
  BY <1>1, <1>2, <1>3, Inserted
<1>5. r.list[p] = q /\ \A c \in Containers : c # p => r.list[c] = s.list[c] BY <1>1 DEF Shape
<1>6. r.parent[v] = p /\ \A u \in Named : u # v => r.parent[u] = s.parent[u] BY <1>1 DEF Shape
<1>7. ASSUME NEW c \in Containers
      PROVE  OneByOne(r.list[c]) /\ \A u \in Named : Holds(r.list[c], u) <=> u \in r.live /\ r.parent[u] = c
  <2>1. CASE c = p BY <1>2, <1>4, <1>5, <1>6, <2>1
  <2>2. CASE c # p
    <3>1. OneByOne(s.list[c]) /\ \A u \in Named : Holds(s.list[c], u) <=> u \in s.live /\ s.parent[u] = c
      BY DEF Listed
    <3> QED BY <1>0, <1>1, <1>5, <1>6, <2>2, <3>1
  <2> QED BY <2>1, <2>2
<1> QED BY <1>4, <1>7 DEF Listed

(* The operations on lists leave the names of dead values as they are. *)
LEMMA BlankKept ==
  ASSUME NamesAssumption, NEW s, Shape(s), Listed(s), Blank(s), NEW v \in s.live, NEW r, r.live = s.live,
         \A u \in Named : u # v => r.parent[u] = s.parent[u],
         \A u \in Named : u # v /\ (v \in Blocks => ~ Holds(s.list[v], u)) => r.name[u] = s.name[u]
  PROVE  Blank(r)
<1>1. ASSUME NEW u \in Named, u \notin r.live PROVE r.parent[u] = None /\ r.name[u] = NoName
  <2>1. u # v /\ u \notin s.live BY <1>1
  <2>2. v \in Blocks => ~ Holds(s.list[v], u) BY <2>1 DEF Listed, Containers
  <2> QED BY <2>1, <2>2 DEF Blank
<1> QED BY <1>1 DEF Blank

(* What ParentSet asks of the list of a block. *)
LEMMA BlockList ==
  ASSUME NamesAssumption, NEW s, Shape(s), Listed(s), NEW v \in Blocks
  PROVE  /\ OneByOne(s.list[v])
         /\ \A i \in 1 .. Len(s.list[v]) :
              /\ s.list[v][i] \in s.live /\ s.list[v][i] # v
              /\ s.parent[s.list[v][i]] = v /\ HomeOf(s)[s.list[v][i]] = s.parent[v]
<1>1. v \in Containers /\ s.list[v] \in Seq(Named) BY DEF Containers, Shape
<1>2. OneByOne(s.list[v]) /\ \A u \in Named : Holds(s.list[v], u) <=> u \in s.live /\ s.parent[u] = v
  BY <1>1 DEF Listed
<1>3. ASSUME NEW i \in 1 .. Len(s.list[v])
      PROVE  /\ s.list[v][i] \in s.live /\ s.list[v][i] # v
             /\ s.parent[s.list[v][i]] = v /\ HomeOf(s)[s.list[v][i]] = s.parent[v]
  <2> DEFINE u == s.list[v][i]
  <2>1. u \in Named /\ Holds(s.list[v], u) BY <1>1 DEF Holds
  <2>2. u \in s.live /\ s.parent[u] = v BY <1>2, <2>1
  <2>3. u \in Insts BY <2>1, <2>2, InBlock
  <2>4. u # v /\ v # None BY <2>3, HomeKinds DEF Named
  <2> QED BY <2>1, <2>2, <2>3, <2>4 DEF HomeOf, ScopeOf
<1> QED BY <1>2, <1>3

Relocated(s, r, v, p) == r.live = s.live /\ r.parent = [s.parent EXCEPT ![v] = p]

(* How a value is named that was inserted. *)
AddedName(s, r, v, p) == v \in Funcs => OthersNamed(s, r, v) /\ Kept(s, r, p, v, s.name[v])

LEMMA AddKeeps ==
  ASSUME NamesAssumption, NEW s, NEW m, All(s, m), NEW v \in s.live, s.parent[v] = None,
         NEW p \in Owners(v), NEW i \in 1 .. Len(s.list[p]) + 1, NEW r, r = AddNode(s, v, p, i)
  PROVE  All(r, m) /\ Relocated(s, r, v, p) /\ AddedName(s, r, v, p)
<1> DEFINE q == InsertAt(s.list[p], i, v)
           b == [s EXCEPT !.list[p] = q]
           a == SetParent(b, v, p)
           t == ScopeOf(a, v)
           sc == HomeOf(s)
           h == [HomeOf(a) EXCEPT ![v] = sc[v]]
<1>1. /\ Shape(s) /\ Listed(s) /\ Blank(s) /\ Exact(s, sc) /\ Fits(s, m) /\ sc \in [Named -> Homes]
      /\ v \in Named /\ s.live \subseteq Named /\ s.parent \in [Named -> Containers \cup {None}]
  BY HomesTyped DEF All, Shape
<1>2. p \in Containers /\ p # None /\ p # v /\ sc[v] = None
  <2>1. p \in Containers BY DEF Owners, Containers, Scopes
  <2>2. p # None /\ p # v BY <1>1 DEF Owners, Named, NamesAssumption
  <2>3. sc[v] = None BY <1>1 DEF HomeOf, ScopeOf
  <2> QED BY <2>1, <2>2, <2>3
<1>3. q \in Seq(Named)
  <2> DEFINE x == [live |-> s.live, list |-> [s.list EXCEPT ![p] = q], parent |-> [s.parent EXCEPT ![v] = p]]
  <2>1. x.live = s.live /\ x.list = [s.list EXCEPT ![p] = q] /\ x.parent = [s.parent EXCEPT ![v] = p]
    OBVIOUS
  <2> HIDE DEF x, q
  <2> QED BY <1>1, <1>2, <2>1, ListedOn DEF q
<1> HIDE DEF q
<1>4. /\ Shape(b) /\ b.list = [s.list EXCEPT ![p] = q] /\ b.live = s.live /\ b.parent = s.parent
      /\ SameNames(s, b) /\ SameLeaks(s, b)
  BY <1>1, <1>2, <1>3, ListShape
<1> HIDE DEF b
<1>5. Exact(b, sc) /\ Fits(b, m)
  <2>1. Exact(b, sc) BY <1>1, <1>4, ExactSame DEF SameNames
  <2>2. Fits(b, m) BY <1>1, <1>4 DEF SameLeaks, Fits, Reported, Orphans, Fresh
  <2> QED BY <2>1, <2>2
<1>6. v \in Blocks => b.list[v] = s.list[v] BY <1>1, <1>2, <1>4 DEF Shape, Containers
<1>7. v \in Blocks => /\ OneByOne(b.list[v])
                      /\ \A j \in 1 .. Len(b.list[v]) :
                           b.list[v][j] \in b.live /\ sc[b.list[v][j]] = b.parent[v]
  BY <1>1, <1>4, <1>6, BlockList
<1>8. Settled(b, a, v, p, sc, m)
  <2> HIDE DEF a, sc
  <2> QED BY <1>1, <1>2, <1>4, <1>5, <1>7, ParentSet DEF a
<1> HIDE DEF a
<1>9. Exact(a, h)
  <2>1. \A u \in b.live : u # v => sc[u] = ScopeOf(b, u) BY <1>1, <1>4 DEF HomeOf, ScopeOf
  <2>2. v \in Blocks => \A u \in Named : Holds(b.list[v], u) <=> u \in b.live /\ b.parent[u] = v
    BY <1>1, <1>4, <1>6 DEF Listed, Containers
  <2> HIDE DEF sc
  <2> QED BY <1>1, <1>4, <1>8, <2>1, <2>2, SettledHomes
<1>10. /\ Shape(a) /\ a.live = s.live /\ a.list = [s.list EXCEPT ![p] = q] /\ Fits(a, m)
       /\ a.parent = [s.parent EXCEPT ![v] = p]
       /\ \A u \in Named : (v \in Blocks => ~ Holds(s.list[v], u)) => a.name[u] = s.name[u]
       /\ v \notin Blocks => a.table = s.table
  BY <1>4, <1>6, <1>8 DEF Settled, SameNames
<1>11. HomeOf(a) \in [Named -> Homes] /\ HomeOf(a)[v] = t /\ a.name[v] \in Seq(Int)
  BY <1>1, <1>10, HomesTyped DEF HomeOf, Shape
<1> HIDE DEF t, sc
<1>12. h \in [Named -> Homes] /\ h[v] = None /\ [h EXCEPT ![v] = t] = HomeOf(a) /\ t \in Homes
  BY <1>1, <1>2, <1>11
<1> HIDE DEF h
<1>13. r = PlaceName(a, t, v, a.name[v]) BY DEF AddNode, Reinsert, a, b, t, q
<1>14. /\ Shape(r) /\ SameOwners(a, r) /\ SameLeaks(a, r) /\ Exact(r, HomeOf(a))
       /\ OthersNamed(a, r, v) /\ Kept(a, r, t, v, a.name[v])
  BY <1>9, <1>10, <1>11, <1>12, <1>13, PlaceExact
<1>15. HomeOf(r) = HomeOf(a) BY <1>14 DEF HomeOf, ScopeOf, SameOwners
<1>16. /\ r.live = s.live /\ r.list = [s.list EXCEPT ![p] = q] /\ r.parent = [s.parent EXCEPT ![v] = p]
  BY <1>10, <1>14 DEF SameOwners
<1>17. Fits(r, m) BY <1>10, <1>14 DEF SameOwners, SameLeaks, Fits, Reported, Orphans, Fresh
<1>18. Listed(r) BY <1>1, <1>2, <1>16, ListedOn DEF q
<1>19. Blank(r)
  <2>1. \A u \in Named : u # v => r.parent[u] = s.parent[u] BY <1>1, <1>16
  <2>2. \A u \in Named : u # v /\ (v \in Blocks => ~ Holds(s.list[v], u)) => r.name[u] = s.name[u]
    BY <1>10, <1>14 DEF OthersNamed
  <2> QED BY <1>1, <1>16, <2>1, <2>2, BlankKept
<1>20. AddedName(s, r, v, p)
  <2> SUFFICES ASSUME v \in Funcs PROVE OthersNamed(s, r, v) /\ Kept(s, r, p, v, s.name[v])
    BY DEF AddedName
  <2>1. v \notin Blocks /\ v \notin Insts BY HomeKinds DEF Scopes
  <2>2. a.name[v] = s.name[v] /\ a.table = s.table BY <1>1, <1>10, <2>1
  <2>3. t = p BY <1>1, <1>10, <2>1 DEF t, ScopeOf
  <2>4. OthersNamed(s, r, v) BY <1>10, <1>14, <2>1 DEF OthersNamed
  <2> QED BY <1>14, <2>2, <2>3, <2>4 DEF Kept
<1> QED BY <1>14, <1>15, <1>16, <1>17, <1>18, <1>19, <1>20 DEF All, Relocated

LEMMA RemoveKeeps ==
  ASSUME NamesAssumption, NEW s, NEW m, All(s, m), NEW v \in s.live, s.parent[v] # None, v \notin m,
         NEW r, r = RemoveNode(s, v)
  PROVE  All(r, m) /\ Relocated(s, r, v, None)
<1> DEFINE p == s.parent[v]
           q == Unlisted(s.list[p], v)
           b == [s EXCEPT !.list[p] = q]
           a == SetParent(b, v, None)
           sc == HomeOf(s)
           h == [HomeOf(a) EXCEPT ![v] = sc[v]]
<1>1. /\ Shape(s) /\ Listed(s) /\ Blank(s) /\ Exact(s, sc) /\ Fits(s, m) /\ sc \in [Named -> Homes]
      /\ v \in Named /\ s.live \subseteq Named /\ s.parent \in [Named -> Containers \cup {None}]
  BY HomesTyped DEF All, Shape
<1>2. p \in Containers /\ p # v /\ p \in Owners(v)
  <2>1. p \in Owners(v) \cup {None} BY <1>1 DEF Shape
  <2> QED BY <1>1, <2>1 DEF Owners, Named, NamesAssumption
<1>3. q \in Seq(Named)
  <2> DEFINE x == [live |-> s.live, list |-> [s.list EXCEPT ![p] = q], parent |-> [s.parent EXCEPT ![v] = None]]
  <2>1. x.live = s.live /\ x.list = [s.list EXCEPT ![p] = q] /\ x.parent = [s.parent EXCEPT ![v] = None]
    OBVIOUS
  <2> HIDE DEF x, q
  <2> QED BY <1>1, <1>2, <2>1, ListedOff DEF q
<1> HIDE DEF q
<1>4. /\ Shape(b) /\ b.list = [s.list EXCEPT ![p] = q] /\ b.live = s.live /\ b.parent = s.parent
      /\ SameNames(s, b) /\ SameLeaks(s, b)
  BY <1>1, <1>2, <1>3, ListShape
<1> HIDE DEF b
<1>5. Exact(b, sc) /\ Fits(b, m)
  <2>1. Exact(b, sc) BY <1>1, <1>4, ExactSame DEF SameNames
  <2>2. Fits(b, m) BY <1>1, <1>4 DEF SameLeaks, Fits, Reported, Orphans, Fresh
  <2> QED BY <2>1, <2>2
<1>6. v \in Blocks => b.list[v] = s.list[v] BY <1>1, <1>2, <1>4 DEF Shape, Containers
<1>7. v \in Blocks => /\ OneByOne(b.list[v])
                      /\ \A j \in 1 .. Len(b.list[v]) :
                           b.list[v][j] \in b.live /\ sc[b.list[v][j]] = b.parent[v]
  BY <1>1, <1>4, <1>6, BlockList
<1>8. Settled(b, a, v, None, sc, m)
  <2> HIDE DEF a, sc
  <2> QED BY <1>1, <1>2, <1>4, <1>5, <1>7, ParentSet DEF a
<1> HIDE DEF a
<1>9. Exact(a, h)
  <2>1. \A u \in b.live : u # v => sc[u] = ScopeOf(b, u) BY <1>1, <1>4 DEF HomeOf, ScopeOf
  <2>2. v \in Blocks => \A u \in Named : Holds(b.list[v], u) <=> u \in b.live /\ b.parent[u] = v
    BY <1>1, <1>4, <1>6 DEF Listed, Containers
  <2> HIDE DEF sc
  <2> QED BY <1>1, <1>4, <1>8, <2>1, <2>2, SettledHomes
<1>10. /\ Shape(a) /\ a.live = s.live /\ a.list = [s.list EXCEPT ![p] = q] /\ Fits(a, m)
       /\ a.parent = [s.parent EXCEPT ![v] = None]
       /\ \A u \in Named : (v \in Blocks => ~ Holds(s.list[v], u)) => a.name[u] = s.name[u]
  BY <1>4, <1>6, <1>8 DEF Settled, SameNames
<1>11. HomeOf(a) \in [Named -> Homes] /\ HomeOf(a)[v] = None
  BY <1>1, <1>10, HomesTyped DEF HomeOf, ScopeOf
<1>12. sc[v] = ScopeOf(s, v) BY <1>1 DEF HomeOf
<1> HIDE DEF sc
<1>13. h \in [Named -> Homes] /\ h[v] = ScopeOf(s, v) /\ [h EXCEPT ![v] = None] = HomeOf(a)
  BY <1>1, <1>11, <1>12
<1> HIDE DEF h
<1>14. r = RemoveName(a, ScopeOf(s, v), v) BY DEF RemoveNode, a, b, q
<1>15. /\ Shape(r) /\ SameOwners(a, r) /\ SameLeaks(a, r) /\ Exact(r, HomeOf(a)) /\ r.name = a.name
  BY <1>9, <1>10, <1>13, <1>14, RemoveExact
<1>16. HomeOf(r) = HomeOf(a) BY <1>15 DEF HomeOf, ScopeOf, SameOwners
<1>17. /\ r.live = s.live /\ r.list = [s.list EXCEPT ![p] = q] /\ r.parent = [s.parent EXCEPT ![v] = None]
  BY <1>10, <1>15 DEF SameOwners
<1>18. Fits(r, m) BY <1>10, <1>15 DEF SameOwners, SameLeaks, Fits, Reported, Orphans, Fresh
<1>19. Listed(r) BY <1>1, <1>2, <1>17, ListedOff DEF q
<1>20. Blank(r)
  <2>1. \A u \in Named : u # v => r.parent[u] = s.parent[u] BY <1>1, <1>17
  <2>2. \A u \in Named : u # v /\ (v \in Blocks => ~ Holds(s.list[v], u)) => r.name[u] = s.name[u]
    BY <1>10, <1>15
  <2> QED BY <1>1, <1>17, <2>1, <2>2, BlankKept
<1> QED BY <1>15, <1>16, <1>17, <1>18, <1>19, <1>20 DEF All, Relocated

LEMMA MoveKeeps ==
  ASSUME NamesAssumption, NEW s, NEW m, All(s, m), NEW v \in s.live, s.parent[v] # None, v \notin m,
         NEW p \in Owners(v), NEW i \in 1 .. Len(s.list[p]), NEW r, r = TransferNode(s, v, p, i)
  PROVE  All(r, m)
<1> DEFINE old == s.parent[v]
           q1 == Unlisted(s.list[old], v)
           a1 == [s EXCEPT !.list[old] = q1]
           q2 == InsertAt(a1.list[p], i, v)
           a == [a1 EXCEPT !.list[p] = q2]
           x == [a1 EXCEPT !.parent[v] = None]
           from == ScopeOf(s, v)
           to == IF v \in Insts THEN s.parent[p] ELSE p
           sc == HomeOf(s)
<1>1. /\ Shape(s) /\ Listed(s) /\ Blank(s) /\ Exact(s, sc) /\ Fits(s, m) /\ sc \in [Named -> Homes]
      /\ v \in Named /\ s.live \subseteq Named /\ s.parent \in [Named -> Containers \cup {None}]
      /\ s.list \in [Containers -> Seq(Named)]
  BY HomesTyped DEF All, Shape
<1> HIDE DEF sc, from, to
<1>2. old \in Containers /\ old # v /\ old \in Owners(v) /\ p \in Containers /\ p # v /\ p # None
  <2>1. old \in Owners(v) \cup {None} BY <1>1 DEF Shape
  <2>2. p \in Containers BY DEF Owners, Containers, Scopes
  <2> QED BY <1>1, <2>1, <2>2 DEF Owners, Named, NamesAssumption
<1>3. q1 \in Seq(Named) /\ Len(q1) = Len(s.list[old]) - 1
  <2> DEFINE y == [live |-> s.live, list |-> [s.list EXCEPT ![old] = q1], parent |-> [s.parent EXCEPT ![v] = None]]
  <2>1. y.live = s.live /\ y.list = [s.list EXCEPT ![old] = q1] /\ y.parent = [s.parent EXCEPT ![v] = None]
    OBVIOUS
  <2>2. y.list = [s.list EXCEPT ![s.parent[v]] = q1] BY <2>1
  <2> HIDE DEF y, q1, old
  <2>3. q1 = Unlisted(s.list[s.parent[v]], v) BY DEF q1, old
  <2>4. q1 \in Seq(Named) /\ Len(q1) = Len(s.list[s.parent[v]]) - 1
    BY ONLY NamesAssumption, <1>1, v \in s.live, s.parent[v] # None, <2>1, <2>2, <2>3, ListedOff, SMTT(30)
  <2> QED BY <2>4 DEF old
<1> HIDE DEF q1
<1>4. /\ Shape(a1) /\ a1.list = [s.list EXCEPT ![old] = q1] /\ a1.live = s.live /\ a1.parent = s.parent
      /\ SameNames(s, a1) /\ SameLeaks(s, a1)
  BY <1>1, <1>2, <1>3, ListShape
<1> HIDE DEF a1, x
<1>16. x = [a1 EXCEPT !.parent[v] = None] BY DEF x
<1>5. /\ Shape(x) /\ x.live = a1.live /\ x.list = a1.list /\ x.parent = [a1.parent EXCEPT ![v] = None]
  <2>1. v \in Named /\ Shape(a1) BY <1>1, <1>4
  <2>2. PICK z \in Owners(v) \cup {None} : z = None OBVIOUS
  <2>3. x = [a1 EXCEPT !.parent[v] = z] BY <1>16, <2>2
  <2>4. Shape(x) BY ONLY <2>1, <2>3, ParentShape
  <2>6. x.live = a1.live /\ x.list = a1.list BY <2>1, <2>3 DEF Shape
  <2>5. x.parent = [a1.parent EXCEPT ![v] = z] BY ONLY <2>1, <2>3, ParentShape
  <2> QED BY <2>2, <2>4, <2>5, <2>6
<1>6. Listed(x) /\ v \in x.live /\ x.parent[v] = None
  <2>1. x.live = s.live /\ x.list = [s.list EXCEPT ![old] = q1] /\ x.parent = [s.parent EXCEPT ![v] = None]
    BY <1>4, <1>5
  <2> QED BY <1>1, <1>2, <2>1, ListedOff DEF q1
<1>7. i \in 1 .. Len(x.list[p]) + 1
  <2>1. CASE p = old
    <3>1. x.list[p] = q1 BY <1>1, <1>2, <1>4, <1>5, <2>1
    <3>2. Len(q1) + 1 = Len(s.list[p]) BY <1>1, <1>2, <1>3, <2>1
    <3> QED BY <3>1, <3>2
  <2>2. CASE p # old
    <3>1. x.list[p] = s.list[p] BY <1>1, <1>2, <1>4, <1>5, <2>2
    <3>2. s.list[p] \in Seq(Named) BY <1>1, <1>2
    <3>3. Len(s.list[p]) \in Nat BY <3>2
    <3> QED BY <3>1, <3>3
  <2> QED BY <2>1, <2>2
<1>8. \A z : z.live = s.live /\ z.list = [x.list EXCEPT ![p] = q2] /\ z.parent = [s.parent EXCEPT ![v] = p]
             => q2 \in Seq(Named) /\ Listed(z)
  <2> SUFFICES ASSUME NEW z, z.live = s.live, z.list = [x.list EXCEPT ![p] = q2],
                      z.parent = [s.parent EXCEPT ![v] = p]
               PROVE  q2 \in Seq(Named) /\ Listed(z)
    OBVIOUS
  <2>1. z.parent = [x.parent EXCEPT ![v] = p] BY <1>1, <1>4, <1>5
  <2>2. q2 = InsertAt(x.list[p], i, v) BY <1>5
  <2>3. z.live = x.live BY <1>4, <1>5
  <2>4. z.list = [x.list EXCEPT ![p] = q2] OBVIOUS
  <2> HIDE DEF q2
  <2>5. Shape(x) /\ Listed(x) /\ v \in x.live /\ x.parent[v] = None /\ p \in Containers BY <1>2, <1>5, <1>6
  <2>6. q2 \in Seq(Named) BY ONLY NamesAssumption, <1>7, <2>1, <2>2, <2>3, <2>4, <2>5, ListedOn
  <2>7. Listed(z) BY ONLY NamesAssumption, <1>7, <2>1, <2>2, <2>3, <2>4, <2>5, ListedOn
  <2> QED BY <2>6, <2>7
<1>9. q2 \in Seq(Named)
  <2> DEFINE y == [live |-> s.live, list |-> [x.list EXCEPT ![p] = q2], parent |-> [s.parent EXCEPT ![v] = p]]
  <2>1. y.live = s.live /\ y.list = [x.list EXCEPT ![p] = q2] /\ y.parent = [s.parent EXCEPT ![v] = p]
    OBVIOUS
  <2> HIDE DEF y, q2
  <2> QED BY <1>8, <2>1
<1> HIDE DEF q2
<1>10. /\ Shape(a) /\ a.list = [a1.list EXCEPT ![p] = q2] /\ a.live = a1.live /\ a.parent = a1.parent
       /\ SameNames(a1, a) /\ SameLeaks(a1, a)
  BY <1>2, <1>4, <1>9, ListShape
<1> HIDE DEF a
<1>11. /\ a.list = [x.list EXCEPT ![p] = q2] /\ a.live = s.live /\ a.parent = s.parent /\ SameNames(s, a)
       /\ SameLeaks(s, a)
  BY <1>4, <1>5, <1>10 DEF SameNames, SameLeaks
<1>12. Exact(a, sc) /\ Fits(a, m)
  <2>1. Exact(a, sc) BY <1>1, <1>11, ExactSame DEF SameNames
  <2>2. Fits(a, m) BY <1>1, <1>11 DEF SameLeaks, Fits, Reported, Orphans, Fresh
  <2> QED BY <2>1, <2>2
<1>13. r = CASE old = p -> a
             [] old # p /\ from # to -> Reinsert(SetParent(RemoveName(a, from, v), v, p), to, v)
             [] OTHER -> SetParent(a, v, p)
  BY DEF TransferNode, a, q2, a1, q1, from, to
<1>14. CASE old = p
  <2>1. r = a BY <1>13, <1>14
  <2>2. [s.parent EXCEPT ![v] = p] = s.parent BY <1>1, <1>14
  <2>3. Listed(a) BY <1>8, <1>11, <2>2
  <2>4. Blank(a) BY <1>1, <1>11 DEF Blank, SameNames
  <2>5. HomeOf(a) = sc BY <1>11 DEF HomeOf, ScopeOf, sc
  <2> QED BY <1>10, <1>11, <1>12, <2>1, <2>2, <2>3, <2>4, <2>5 DEF All
<1>15. CASE old # p
  <2>0. v \in Blocks => a.list[v] = s.list[v]
    BY <1>1, <1>2, <1>4, <1>5, <1>11 DEF Shape, Containers
  <2>1. v \in Blocks => /\ OneByOne(a.list[v])
                        /\ \A j \in 1 .. Len(a.list[v]) :
                             /\ a.list[v][j] \in a.live /\ a.list[v][j] # v
                             /\ sc[a.list[v][j]] = a.parent[v]
    BY <1>1, <1>11, <2>0, BlockList DEF sc
  <2>2. v \in Blocks => \A u \in Named : Holds(a.list[v], u) <=> u \in a.live /\ a.parent[u] = v
    BY <1>1, <1>11, <2>0 DEF Listed, Containers
  <2>3. \A u \in a.live : u # v => sc[u] = ScopeOf(a, u) BY <1>1, <1>11 DEF HomeOf, ScopeOf, sc
  <2>4. sc[v] = from BY <1>1 DEF HomeOf, sc, from
  <2>5. \A z : z.live = s.live /\ z.parent = [s.parent EXCEPT ![v] = p] => ScopeOf(z, v) = to
    BY <1>1, <1>2 DEF ScopeOf, Shape, to
  <2>6. \A z : /\ z.live = s.live /\ z.parent = [s.parent EXCEPT ![v] = p]
               /\ \A u \in Named : u # v /\ (v \in Blocks => ~ Holds(a.list[v], u)) => z.name[u] = s.name[u]
               => Blank(z)
    <3> SUFFICES ASSUME NEW z, z.live = s.live, z.parent = [s.parent EXCEPT ![v] = p],
                        \A u \in Named : u # v /\ (v \in Blocks => ~ Holds(a.list[v], u)) => z.name[u] = s.name[u]
                 PROVE  Blank(z)
      OBVIOUS
    <3>1. \A u \in Named : u # v => z.parent[u] = s.parent[u] BY <1>1
    <3>2. \A u \in Named : u # v /\ (v \in Blocks => ~ Holds(s.list[v], u)) => z.name[u] = s.name[u]
      BY <2>0
    <3> QED BY <1>1, <3>1, <3>2, BlankKept
  <2>7. CASE from # to
    <3> DEFINE b == RemoveName(a, from, v)
               c == SetParent(b, v, p)
               d == [sc EXCEPT ![v] = None]
               h == [HomeOf(c) EXCEPT ![v] = None]
    <3>1. r = PlaceName(c, to, v, c.name[v]) BY <1>13, <1>15, <2>7 DEF Reinsert
    <3>2. /\ Shape(b) /\ SameOwners(a, b) /\ SameLeaks(a, b) /\ b.name = a.name /\ Exact(b, d)
      BY <1>1, <1>10, <1>11, <1>12, <2>4, RemoveExact
    <3> HIDE DEF b
    <3>3. /\ b.live = s.live /\ b.parent = s.parent /\ b.list = a.list /\ Fits(b, m) /\ v \in b.live
          /\ b.name = s.name
      BY <1>11, <1>12, <3>2 DEF SameOwners, SameLeaks, Fits, Reported, Orphans, Fresh, SameNames
    <3>4. d \in [Named -> Homes] /\ d[v] = None /\ \A u \in Named : u # v => d[u] = sc[u]
      BY <1>1 DEF Homes
    <3> HIDE DEF d
    <3>5. v \in Blocks => /\ OneByOne(b.list[v])
                          /\ \A j \in 1 .. Len(b.list[v]) :
                               b.list[v][j] \in b.live /\ d[b.list[v][j]] = b.parent[v]
      BY <1>1, <1>11, <2>1, <3>3, <3>4
    <3>6. Settled(b, c, v, p, d, m) BY <1>2, <3>2, <3>3, <3>4, <3>5, ParentSet
    <3> HIDE DEF c
    <3>7. Exact(c, h)
      <4>1. \A u \in b.live : u # v => d[u] = ScopeOf(b, u)
        BY <1>1, <1>11, <2>3, <3>3, <3>4 DEF ScopeOf
      <4>2. v \in Blocks => \A u \in Named : Holds(b.list[v], u) <=> u \in b.live /\ b.parent[u] = v
        BY <1>11, <2>2, <3>3
      <4>3. Exact(c, [HomeOf(c) EXCEPT ![v] = d[v]]) BY <3>2, <3>3, <3>4, <3>6, <4>1, <4>2, SettledHomes
      <4> QED BY <3>4, <4>3
    <3>8. /\ Shape(c) /\ c.live = s.live /\ c.list = a.list /\ c.parent = [s.parent EXCEPT ![v] = p] /\ Fits(c, m)
          /\ \A u \in Named : (v \in Blocks => ~ Holds(a.list[v], u)) => c.name[u] = s.name[u]
      BY <3>3, <3>6 DEF Settled
    <3>9. HomeOf(c) \in [Named -> Homes] /\ HomeOf(c)[v] = to /\ c.name[v] \in Seq(Int)
      BY <1>1, <2>5, <3>8, HomesTyped DEF HomeOf, Shape
    <3>10. h \in [Named -> Homes] /\ h[v] = None /\ [h EXCEPT ![v] = to] = HomeOf(c) /\ to \in Homes
      BY <1>1, <3>9 DEF Homes
    <3> HIDE DEF h
    <3>11. /\ Shape(r) /\ SameOwners(c, r) /\ SameLeaks(c, r) /\ Exact(r, HomeOf(c)) /\ OthersNamed(c, r, v)
      BY <3>1, <3>7, <3>8, <3>9, <3>10, PlaceExact
    <3>12. HomeOf(r) = HomeOf(c) BY <3>11 DEF HomeOf, ScopeOf, SameOwners
    <3>13. r.live = s.live /\ r.list = a.list /\ r.parent = [s.parent EXCEPT ![v] = p]
      BY <3>8, <3>11 DEF SameOwners
    <3>14. Fits(r, m) BY <3>8, <3>11 DEF SameOwners, SameLeaks, Fits, Reported, Orphans, Fresh
    <3>15. Listed(r) BY <1>8, <1>11, <3>13
    <3>16. Blank(r) BY <2>6, <3>8, <3>11, <3>13 DEF OthersNamed
    <3> QED BY <3>11, <3>12, <3>13, <3>14, <3>15, <3>16 DEF All
  <2>8. CASE from = to
    <3>1. r = SetParent(a, v, p) BY <1>13, <1>15, <2>8
    <3>2. Settled(a, r, v, p, sc, m)
      <4>1. a.parent[v] # None /\ v \in a.live BY <1>11
      <4>2. p \in Owners(v) \cup {None} OBVIOUS
      <4>3. v \in Blocks => /\ OneByOne(a.list[v])
                            /\ \A j \in 1 .. Len(a.list[v]) :
                                 a.list[v][j] \in a.live /\ sc[a.list[v][j]] = a.parent[v]
        BY <2>1
      <4> QED BY ONLY NamesAssumption, v \notin m, <1>1, <1>10, <1>12, <3>1, <4>1, <4>2, <4>3, ParentSet
    <3>3. Exact(r, [HomeOf(r) EXCEPT ![v] = sc[v]])
      <4>1. v \in a.live BY <1>11
      <4> QED BY <1>1, <1>10, <2>2, <2>3, <3>2, <4>1, SettledHomes
    <3>4. /\ Shape(r) /\ r.live = s.live /\ r.list = a.list /\ r.parent = [s.parent EXCEPT ![v] = p] /\ Fits(r, m)
          /\ \A u \in Named : (v \in Blocks => ~ Holds(a.list[v], u)) => r.name[u] = s.name[u]
      BY <1>11, <3>2 DEF Settled, SameNames
    <3>5. HomeOf(r) \in [Named -> Homes] /\ HomeOf(r)[v] = sc[v]
      BY <1>1, <2>4, <2>5, <2>8, <3>4, HomesTyped DEF HomeOf
    <3>6. Exact(r, HomeOf(r))
      <4>1. [HomeOf(r) EXCEPT ![v] = sc[v]] = HomeOf(r) BY <3>5
      <4> QED BY <3>3, <4>1
    <3>7. Listed(r) BY <1>8, <1>11, <3>4
    <3>8. Blank(r) BY <2>6, <3>4
    <3> QED BY <3>4, <3>6, <3>7, <3>8 DEF All
  <2> QED BY <2>7, <2>8
<1> QED BY <1>14, <1>15
-----------------------------------------------------------------------------
LEMMA DestroyKeeps ==
  ASSUME NamesAssumption, NEW s, NEW m, All(s, m), NEW v \in s.live, s.parent[v] = None,
         NEW r, r = Destroy(s, v)
  PROVE  All(r, m) /\ r.live = s.live \ {v} /\ r.parent = s.parent
<1> DEFINE g == RemoveGarbage(s, v)
<1>1. /\ Shape(s) /\ Listed(s) /\ Blank(s) /\ Exact(s, HomeOf(s)) /\ Fits(s, m)
      /\ v \in Named /\ s.live \subseteq Named /\ None \notin Containers /\ None \notin Scopes
  BY HomeKinds DEF All, Shape, Containers, Named
<1>2. /\ Shape(g) /\ SameOwners(s, g) /\ SameNames(s, g) /\ Fresh(g) /\ Reported(g) = Reported(s) \ {v}
  BY <1>1, GarbageRemoved DEF Fits
<1>3. r = [g EXCEPT !.live = @ \ {v}, !.name[v] = NoName] BY DEF Destroy
<1> HIDE DEF g
<1>4. /\ r.parent = g.parent /\ r.list = g.list /\ r.table = g.table /\ r.last = g.last
      /\ r.ts = g.ts /\ r.cache = g.cache /\ r.failed = g.failed /\ DOMAIN r = DOMAIN g
  BY <1>2, <1>3 DEF Shape
<1>5. r.live = g.live \ {v} BY <1>2, <1>3 DEF Shape
<1>6. r.name = [g.name EXCEPT ![v] = NoName] BY <1>2, <1>3 DEF Shape
<1>7. /\ r.live = s.live \ {v} /\ r.parent = s.parent /\ r.list = s.list /\ r.table = s.table
      /\ r.name = [s.name EXCEPT ![v] = NoName]
  BY <1>2, <1>4, <1>5, <1>6 DEF SameOwners, SameNames
<1>8. r.name[v] = NoName /\ \A u \in Named : u # v => r.name[u] = s.name[u] BY <1>1, <1>7 DEF Shape
<1>9. Shape(r)
  <2>1. NoName \in Seq(Int) BY DEF NoName
  <2>2. r.name \in [Named -> Seq(Int)] BY <1>1, <1>7, <2>1 DEF Shape
  <2> QED BY <1>2, <1>4, <1>5, <2>2 DEF Shape
<1>10. Listed(r)
  <2>1. ASSUME NEW c \in Containers
        PROVE  OneByOne(r.list[c]) /\ \A u \in Named : Holds(r.list[c], u) <=> u \in r.live /\ r.parent[u] = c
    BY <1>1, <1>7 DEF Listed
  <2> QED BY <2>1 DEF Listed
<1>11. Blank(r) BY <1>1, <1>7, <1>8 DEF Blank
<1>12. HomeOf(r) = HomeOf(s) /\ HomeOf(s)[v] = None BY <1>1, <1>7 DEF HomeOf, ScopeOf
<1> DEFINE sc == HomeOf(s)
<1>13. Exact(r, sc)
  <2> HIDE DEF sc
  <2>1. ASSUME NEW t \in Scopes
        PROVE  /\ IsFiniteSet(DOMAIN r.table[t])
               /\ \A n \in DOMAIN r.table[t] :
                    /\ n # NoName /\ r.table[t][n] \in r.live
                    /\ r.name[r.table[t][n]] = n /\ sc[r.table[t][n]] = t
               /\ \A u \in r.live : sc[u] = t /\ r.name[u] # NoName =>
                    r.name[u] \in DOMAIN r.table[t] /\ r.table[t][r.name[u]] = u
    <3>0. Exact(s, sc) /\ sc[v] = None BY <1>1, <1>12 DEF sc
    <3>1. IsFiniteSet(DOMAIN r.table[t]) BY <1>7, <3>0 DEF Exact
    <3>2. ASSUME NEW n \in DOMAIN r.table[t]
          PROVE  /\ n # NoName /\ r.table[t][n] \in r.live
                 /\ r.name[r.table[t][n]] = n /\ sc[r.table[t][n]] = t
      <4>1. /\ n # NoName /\ s.table[t][n] \in s.live
            /\ s.name[s.table[t][n]] = n /\ sc[s.table[t][n]] = t
        BY <1>7, <3>0 DEF Exact
      <4>2. s.table[t][n] # v BY <1>1, <3>0, <4>1
      <4> QED BY <1>1, <1>7, <1>8, <4>1, <4>2
    <3>3. ASSUME NEW u \in r.live, sc[u] = t, r.name[u] # NoName
          PROVE  r.name[u] \in DOMAIN r.table[t] /\ r.table[t][r.name[u]] = u
      <4>1. u \in s.live /\ s.name[u] = r.name[u] BY <1>1, <1>7, <1>8
      <4> QED BY <1>7, <3>0, <3>3, <4>1 DEF Exact
    <3> QED BY <3>1, <3>2, <3>3
  <2> QED BY <2>1 DEF Exact
<1>14. Fits(r, m)
  <2>1. Reported(r) = Reported(s) \ {v} /\ Fresh(r) BY <1>2, <1>4 DEF Reported, Fresh
  <2>2. Orphans(r) = Orphans(s) \ {v} BY <1>7 DEF Orphans
  <2> QED BY <1>1, <2>1, <2>2 DEF Fits
<1> QED BY <1>7, <1>9, <1>10, <1>11, <1>12, <1>13, <1>14 DEF All

(* ~BasicBlock: while the list is cleared, what is left of it is in it. *)
Left(x, m, v, vs, k) ==
  /\ All(x, m) /\ v \in x.live /\ x.parent[v] = None
  /\ \A j \in 1 .. Len(vs) : j > k => vs[j] \in x.live /\ x.parent[vs[j]] = v

LEMMA ClearedStep ==
  ASSUME NamesAssumption, NEW x, NEW m, NEW v \in Blocks, NEW vs \in Seq(Named), NEW k \in 1 .. Len(vs),
         Left(x, m, v, vs, k - 1), OneByOne(vs), vs[k] # v, vs[k] \notin m,
         NEW r, r = Destroy(RemoveNode(x, vs[k]), vs[k])
  PROVE  Left(r, m, v, vs, k)
<1> DEFINE u == vs[k]
           a == RemoveNode(x, u)
<1>1. /\ All(x, m) /\ u \in x.live /\ x.parent[u] = v /\ v # None /\ u \in Named
      /\ x.parent \in [Named -> Containers \cup {None}]
  BY HomeKinds DEF Left, Named, All, Shape
<1>2. All(a, m) /\ a.live = x.live /\ a.parent = [x.parent EXCEPT ![u] = None]
  <2> HIDE DEF u
  <2>1. x.parent[u] # None /\ u \notin m /\ a = RemoveNode(x, u) BY <1>1 DEF u
  <2> HIDE DEF a
  <2>2. All(a, m) BY ONLY NamesAssumption, <1>1, <2>1, RemoveKeeps
  <2>3. Relocated(x, a, u, None) BY ONLY NamesAssumption, <1>1, <2>1, RemoveKeeps
  <2> QED BY <2>2, <2>3 DEF Relocated
<1> HIDE DEF a, u
<1>3. u \in a.live /\ a.parent[u] = None BY <1>1, <1>2
<1>4. r = Destroy(a, u) BY DEF a, u
<1>5. All(r, m) /\ r.live = a.live \ {u} /\ r.parent = a.parent
  <2>1. All(a, m) BY <1>2
  <2>2. All(r, m) BY ONLY NamesAssumption, <2>1, <1>3, <1>4, DestroyKeeps
  <2>3. r.live = a.live \ {u} BY ONLY NamesAssumption, <2>1, <1>3, <1>4, DestroyKeeps
  <2>4. r.parent = a.parent BY ONLY NamesAssumption, <2>1, <1>3, <1>4, DestroyKeeps
  <2> QED BY <2>2, <2>3, <2>4
<1>6. \A w \in Named : w # u => r.parent[w] = x.parent[w] BY <1>1, <1>2, <1>5
<1>7. v \in r.live /\ r.parent[v] = None
  <2>1. v \in x.live /\ x.parent[v] = None /\ v # u /\ v \in Named BY DEF Left, u, Named
  <2> QED BY <1>2, <1>5, <1>6, <2>1
<1>8. ASSUME NEW j \in 1 .. Len(vs), j > k PROVE vs[j] \in r.live /\ r.parent[vs[j]] = v
  <2>1. vs[j] # u BY <1>8 DEF OneByOne, u
  <2>2. vs[j] \in x.live /\ x.parent[vs[j]] = v BY <1>8 DEF Left
  <2> QED BY <1>2, <1>5, <1>6, <2>1, <2>2
<1> QED BY <1>5, <1>7, <1>8 DEF Left

LEMMA ClearedKeeps ==
  ASSUME NamesAssumption, NEW s, NEW m, All(s, m), NEW v \in s.live, v \in Blocks, s.parent[v] = None,
         \A j \in 1 .. Len(s.list[v]) : s.list[v][j] \notin m
  PROVE  LET r == Cleared(s, s.list[v]) IN All(r, m) /\ v \in r.live /\ r.parent[v] = None
<1> DEFINE vs == s.list[v]
           n == Len(vs)
<1>1. vs \in Seq(Named) /\ n \in Nat BY DEF All, Shape, Containers
<1>2. OneByOne(vs) /\ \A j \in 1 .. n : /\ vs[j] \in s.live /\ vs[j] # v /\ s.parent[vs[j]] = v
                                        /\ vs[j] \notin m
  BY BlockList DEF All
<1> HIDE DEF vs
<1>3. PICK f : ClearedRun(s, vs, f) /\ Cleared(s, vs) = f[n] BY <1>1, ClearedUnfolds
<1> DEFINE S == {k \in 0 .. n : Left(f[k], m, v, vs, k)}
<1>4. 0 \in S
  <2>1. f[0] = s BY <1>3 DEF ClearedRun
  <2>2. Left(s, m, v, vs, 0) BY <1>2 DEF Left
  <2> QED BY <1>1, <2>1, <2>2
<1>5. ASSUME NEW i \in 0 .. n - 1, i \in S PROVE i + 1 \in S
  <2>1. i + 1 \in 1 .. n /\ (i + 1) - 1 = i BY <1>1
  <2>2. f[i + 1] = Destroy(RemoveNode(f[i], vs[i + 1]), vs[i + 1])
    <3>1. f[i + 1] = Destroy(RemoveNode(f[(i + 1) - 1], vs[i + 1]), vs[i + 1])
      BY <1>3, <2>1 DEF ClearedRun
    <3> QED BY <2>1, <3>1
  <2> DEFINE x == f[i]
             y == f[i + 1]
             k == i + 1
  <2>3. Left(x, m, v, vs, k - 1) BY <1>5, <2>1
  <2>4. y = Destroy(RemoveNode(x, vs[k]), vs[k]) BY <2>2
  <2>5. vs[k] # v /\ vs[k] \notin m BY <1>2, <2>1
  <2> HIDE DEF x, y, k
  <2>6. k \in 1 .. Len(vs) BY <2>1 DEF k
  <2>7. Left(y, m, v, vs, k) BY <1>1, <1>2, <2>3, <2>4, <2>5, <2>6, ClearedStep
  <2> QED BY <1>1, <2>7 DEF y, k
<1> HIDE DEF S
<1>6. n \in S
  <2>1. \A i \in 0 .. n : i \in S BY <1>1, <1>4, <1>5, UpTo
  <2> QED BY <1>1, <2>1
<1>7. Left(Cleared(s, vs), m, v, vs, n) BY <1>3, <1>6 DEF S
<1> QED BY <1>7 DEF Left, vs

LEMMA DeleteKeeps ==
  ASSUME NamesAssumption, NEW s, NEW m, All(s, m), NEW v \in s.live, s.parent[v] = None,
         v \in Blocks => \A j \in 1 .. Len(s.list[v]) : s.list[v][j] \notin m,
         NEW r, r = Delete(s, v)
  PROVE  All(r, m)
<1> DEFINE c == IF v \in Blocks THEN Cleared(s, s.list[v]) ELSE s
<1>1. All(c, m) /\ v \in c.live /\ c.parent[v] = None
  <2>1. CASE v \in Blocks BY <2>1, ClearedKeeps
  <2>2. CASE v \notin Blocks BY <2>2
  <2> QED BY <2>1, <2>2
<1>2. r = Destroy(c, v) BY DEF Delete
<1> HIDE DEF c
<1> QED BY <1>1, <1>2, DestroyKeeps
-----------------------------------------------------------------------------
(* What the operations on names leave as it is. *)
OnlyNames(s, r) == SameOwners(s, r) /\ SameLeaks(s, r)

LEMMA OnlyNamesKeep ==
  ASSUME NamesAssumption, NEW s, NEW m, All(s, m), NEW r, Shape(r), OnlyNames(s, r), Exact(r, HomeOf(s)),
         \A u \in Named : u \notin s.live => r.name[u] = s.name[u]
  PROVE  All(r, m)
<1>1. r.live = s.live /\ r.parent = s.parent /\ r.list = s.list BY DEF OnlyNames, SameOwners
<1>2. Listed(r) BY <1>1 DEF All, Listed
<1>3. Blank(r) BY <1>1 DEF All, Blank
<1>4. HomeOf(r) = HomeOf(s) BY <1>1 DEF HomeOf, ScopeOf
<1>5. Fits(r, m) BY <1>1 DEF All, Fits, Reported, Orphans, Fresh, OnlyNames, SameLeaks
<1> QED BY <1>2, <1>3, <1>4, <1>5 DEF All

Renames(s, r, v, n) ==
  /\ OthersNamed(s, r, v)
  /\ n = NoName => r.name[v] = n
  /\ s.parent[v] = None => r.name[v] = n

LEMMA RenameKeeps ==
  ASSUME NamesAssumption, NEW s, NEW m, All(s, m), NEW v \in s.live, NEW n \in Seq(Int),
         NEW r, r = SetName(s, v, n)
  PROVE  All(r, m) /\ OnlyNames(s, r) /\ Renames(s, r, v, n)
<1>1. CASE s.name[v] = n
  <2>1. r = s BY <1>1 DEF SetName
  <2> QED BY <1>1, <2>1 DEF OnlyNames, SameOwners, SameLeaks, Renames, OthersNamed
<1>2. CASE s.name[v] # n
  <2> DEFINE t == ScopeOf(s, v)
             sc == HomeOf(s)
             a == RemoveName(s, t, v)
             d == [sc EXCEPT ![v] = None]
  <2>1. /\ Shape(s) /\ Exact(s, sc) /\ sc \in [Named -> Homes] /\ v \in Named /\ s.live \subseteq Named
    BY HomesTyped DEF All, Shape
  <2>2. sc[v] = t /\ t \in Homes BY <2>1 DEF HomeOf
  <2>3. s.parent[v] = None => t = None BY DEF ScopeOf
  <2>4. r = PlaceName(a, t, v, n) BY <1>2 DEF SetName
  <2> HIDE DEF t, sc
  <2>5. Shape(a) /\ SameOwners(s, a) /\ SameLeaks(s, a) /\ a.name = s.name /\ Exact(a, d)
    BY <2>1, <2>2, RemoveExact
  <2> HIDE DEF a
  <2>6. d \in [Named -> Homes] /\ d[v] = None /\ [d EXCEPT ![v] = t] = sc
    BY <2>1, <2>2 DEF Homes
  <2> HIDE DEF d
  <2>7. v \in a.live BY <2>5 DEF SameOwners
  <2>8. /\ Shape(r) /\ SameOwners(a, r) /\ SameLeaks(a, r) /\ Exact(r, sc)
        /\ OthersNamed(a, r, v) /\ Kept(a, r, t, v, n)
    BY <2>2, <2>4, <2>5, <2>6, <2>7, PlaceExact, SMTT(30)
  <2>9. OnlyNames(s, r) BY <2>5, <2>8 DEF OnlyNames, SameOwners, SameLeaks
  <2>10. OthersNamed(s, r, v) BY <2>5, <2>8 DEF OthersNamed
  <2>11. Renames(s, r, v, n) BY <2>3, <2>8, <2>10 DEF Renames, Kept
  <2>12. \A u \in Named : u \notin s.live => r.name[u] = s.name[u] BY <2>10 DEF OthersNamed
  <2>13. Exact(r, HomeOf(s)) BY <2>8 DEF sc
  <2> QED BY <2>8, <2>9, <2>11, <2>12, <2>13, OnlyNamesKeep
<1> QED BY <1>1, <1>2

(* Within a table an entry changes hands. *)
Handed(s, t, v, u) ==
  [[s EXCEPT !.name[v] = s.name[u], !.name[u] = NoName] EXCEPT !.table[t][s.name[u]] = v]

HandedOver(s, r, sc) ==
  Shape(r) /\ OnlyNames(s, r) /\ Exact(r, sc) /\ \A w \in Named : w \notin s.live => r.name[w] = s.name[w]

LEMMA HandedKeeps ==
  ASSUME NamesAssumption, NEW s, Shape(s), NEW sc \in [Named -> Homes], Exact(s, sc),
         NEW v \in s.live, NEW u \in s.live, v # u, s.name[v] = NoName, s.name[u] # NoName,
         NEW t \in Scopes, sc[v] = t, sc[u] = t, NEW r, r = Handed(s, t, v, u)
  PROVE  HandedOver(s, r, sc)
<1> DEFINE x == s.name[u]
<1>1. v \in Named /\ u \in Named /\ s.live \subseteq Named /\ x \in Seq(Int) /\ NoName \in Seq(Int)
  BY DEF Shape, NoName
<1>2. x \in DOMAIN s.table[t] /\ s.table[t][x] = u BY DEF Exact
<1>3. /\ r.live = s.live /\ r.parent = s.parent /\ r.list = s.list /\ r.last = s.last /\ r.ts = s.ts
      /\ r.cache = s.cache /\ r.failed = s.failed /\ DOMAIN r = DOMAIN s
  BY DEF Handed, Shape
<1>4. r.name = [[s.name EXCEPT ![v] = x] EXCEPT ![u] = NoName] BY DEF Handed, Shape
<1>5. r.table = [s.table EXCEPT ![t] = [s.table[t] EXCEPT ![x] = v]] BY DEF Handed, Shape
<1> HIDE DEF x
<1>6. r.name \in [Named -> Seq(Int)]
  <2>1. s.name \in [Named -> Seq(Int)] BY DEF Shape
  <2> QED BY <1>1, <1>4, <2>1
<1>7. r.name[v] = x /\ r.name[u] = NoName /\ \A w \in Named : w # v /\ w # u => r.name[w] = s.name[w]
  <2>1. s.name \in [Named -> Seq(Int)] BY DEF Shape
  <2> QED BY <1>1, <1>4, <2>1
<1>8. DOMAIN r.table = Scopes /\ \A q \in Scopes : q # t => r.table[q] = s.table[q] BY <1>5 DEF Shape
<1>9. r.table[t] = [s.table[t] EXCEPT ![x] = v] BY <1>5 DEF Shape
<1>10. DOMAIN r.table[t] = DOMAIN s.table[t] /\ r.table[t][x] = v
       /\ \A n \in DOMAIN s.table[t] : n # x => r.table[t][n] = s.table[t][n]
  BY <1>2, <1>9
<1>11. Shape(r) BY <1>3, <1>6, <1>8 DEF Shape
<1>12. ASSUME NEW q \in Scopes
       PROVE  /\ IsFiniteSet(DOMAIN r.table[q])
              /\ \A n \in DOMAIN r.table[q] :
                   /\ n # NoName /\ r.table[q][n] \in r.live
                   /\ r.name[r.table[q][n]] = n /\ sc[r.table[q][n]] = q
              /\ \A w \in r.live : sc[w] = q /\ r.name[w] # NoName =>
                   r.name[w] \in DOMAIN r.table[q] /\ r.table[q][r.name[w]] = w
  <2>1. IsFiniteSet(DOMAIN s.table[q]) /\ DOMAIN r.table[q] = DOMAIN s.table[q] BY <1>8, <1>10 DEF Exact
  <2>2. ASSUME NEW n \in DOMAIN r.table[q]
        PROVE  /\ n # NoName /\ r.table[q][n] \in r.live
               /\ r.name[r.table[q][n]] = n /\ sc[r.table[q][n]] = q
    <3>1. /\ n # NoName /\ s.table[q][n] \in s.live
          /\ s.name[s.table[q][n]] = n /\ sc[s.table[q][n]] = q
      BY <2>1 DEF Exact
    <3>2. CASE q = t /\ n = x BY <1>1, <1>3, <1>7, <1>10, <3>1, <3>2
    <3>3. CASE ~ (q = t /\ n = x)
      <4>1. r.table[q][n] = s.table[q][n] BY <1>8, <1>10, <2>1, <3>3
      <4>2. s.table[q][n] # u BY <3>1, <3>3 DEF x
      <4>3. s.table[q][n] # v BY <3>1
      <4> QED BY <1>1, <1>3, <1>7, <3>1, <4>1, <4>2, <4>3
    <3> QED BY <3>2, <3>3
  <2>3. ASSUME NEW w \in r.live, sc[w] = q, r.name[w] # NoName
        PROVE  r.name[w] \in DOMAIN r.table[q] /\ r.table[q][r.name[w]] = w
    <3>1. w # u /\ w \in Named /\ w \in s.live BY <1>1, <1>3, <1>7, <2>3
    <3>2. CASE w = v BY <1>2, <1>7, <1>10, <2>3, <3>2
    <3>3. CASE w # v
      <4>1. r.name[w] = s.name[w] BY <1>7, <3>1, <3>3
      <4>2. s.name[w] \in DOMAIN s.table[q] /\ s.table[q][s.name[w]] = w BY <2>3, <3>1, <4>1 DEF Exact
      <4>3. q = t => s.name[w] # x BY <1>2, <3>1, <4>2
      <4> QED BY <1>8, <1>10, <4>1, <4>2, <4>3
    <3> QED BY <3>2, <3>3
  <2> QED BY <2>1, <2>2, <2>3
<1>13. Exact(r, sc) BY <1>12 DEF Exact
<1>14. \A w \in Named : w \notin s.live => r.name[w] = s.name[w] BY <1>7
<1> QED BY <1>3, <1>11, <1>13, <1>14 DEF HandedOver, OnlyNames, SameOwners, SameLeaks

LEMMA TakeKeeps ==
  ASSUME NamesAssumption, NEW s, NEW m, All(s, m), NEW v \in s.live, NEW u \in s.live, v # u,
         NEW r, r = TakeName(s, v, u)
  PROVE  All(r, m)
<1> DEFINE t == ScopeOf(s, v)
           w == ScopeOf(s, u)
           n == s.name[u]
           sc == HomeOf(s)
           z == RemoveName(s, t, v)
           a == [z EXCEPT !.name[v] = NoName]
           d == [sc EXCEPT ![v] = None]
           taken(x) == [x EXCEPT !.name[v] = n, !.name[u] = NoName]
           b == RemoveName(a, w, u)
           e == [d EXCEPT ![u] = None]
<1>1. /\ Shape(s) /\ Exact(s, sc) /\ sc \in [Named -> Homes] /\ v \in Named /\ u \in Named
      /\ s.live \subseteq Named /\ n \in Seq(Int) /\ NoName \in Seq(Int)
  <2>1. Shape(s) /\ Exact(s, sc) BY DEF All
  <2>2. v \in Named /\ u \in Named /\ s.live \subseteq Named /\ s.name \in [Named -> Seq(Int)]
    BY <2>1 DEF Shape
  <2>3. sc \in [Named -> Homes] BY <2>1, HomesTyped
  <2> QED BY <2>1, <2>2, <2>3 DEF NoName
<1>2. sc[v] = t /\ sc[u] = w /\ t \in Homes /\ w \in Homes BY <1>1 DEF HomeOf
<1>3. r = CASE n = NoName -> a
            [] n # NoName /\ t = w ->
                 IF t = None THEN taken(a) ELSE [taken(a) EXCEPT !.table[t][n] = v]
            [] OTHER -> IF t = None THEN taken(b) ELSE Reinsert(taken(b), t, v)
  BY DEF TakeName
<1> HIDE DEF t, w, sc, n
<1>4. Shape(z) /\ SameOwners(s, z) /\ SameLeaks(s, z) /\ z.name = s.name /\ Exact(z, d)
  BY <1>1, <1>2, RemoveExact
<1> HIDE DEF z
<1>5. /\ d \in [Named -> Homes] /\ d[v] = None /\ [d EXCEPT ![v] = None] = d /\ None \in Homes
      /\ \A x \in Named : x # v => d[x] = sc[x]
  BY <1>1 DEF Homes
<1> HIDE DEF d
<1>6. a = PlaceName(z, None, v, NoName) BY DEF PlaceName
<1> HIDE DEF a
<1>7. /\ Shape(a) /\ SameOwners(z, a) /\ SameLeaks(z, a) /\ Exact(a, d) /\ OthersNamed(z, a, v)
      /\ Kept(z, a, None, v, NoName)
  <2>1. v \in z.live BY <1>4 DEF SameOwners
  <2> QED BY <1>1, <1>4, <1>5, <1>6, <2>1, PlaceExact
<1>8. OnlyNames(s, a) BY <1>4, <1>7 DEF OnlyNames, SameOwners, SameLeaks
<1>9. a.name[v] = NoName /\ \A x \in Named : x # v => a.name[x] = s.name[x]
  BY <1>4, <1>7 DEF OthersNamed, Kept
<1>10. v \in a.live /\ u \in a.live /\ a.live = s.live BY <1>8 DEF OnlyNames, SameOwners
<1>11. Exact(a, sc)
  <2>1. \A x \in a.live : a.name[x] # NoName => sc[x] = d[x] BY <1>1, <1>5, <1>9, <1>10
  <2> QED BY <1>7, <2>1, ExactAgree
<1>12. a.name[u] = n BY <1>1, <1>9 DEF n
(* A name that goes from u to v while both are in no table. *)
<1>13. ASSUME NEW x, Shape(x), NEW f \in [Named -> Homes], Exact(x, f), x.live = s.live, f[v] = None, f[u] = None,
              NEW y, y = taken(x)
       PROVE  /\ Shape(y) /\ OnlyNames(x, y) /\ Exact(y, f) /\ y.name[v] = n /\ y.name[u] = NoName
              /\ \A q \in Named : q # v /\ q # u => y.name[q] = x.name[q]
  <2> DEFINE p == PlaceName(x, None, v, n)
  <2>1. [f EXCEPT ![v] = None] = f /\ [f EXCEPT ![u] = None] = f BY <1>13
  <2>2. /\ Shape(p) /\ SameOwners(x, p) /\ SameLeaks(x, p) /\ Exact(p, f) /\ OthersNamed(x, p, v)
        /\ Kept(x, p, None, v, n)
    <3> HIDE DEF p
    <3>1. p = PlaceName(x, None, v, n) BY DEF p
    <3>2. v \in x.live BY <1>13
    <3> QED BY <1>1, <1>5, <1>13, <2>1, <3>1, <3>2, PlaceExact
  <2>3. p = [x EXCEPT !.name[v] = n] BY DEF PlaceName
  <2>4. y = [p EXCEPT !.name[u] = NoName] BY <1>13, <2>3
  <2> HIDE DEF p
  <2>5. y = PlaceName(p, None, u, NoName) BY <2>4 DEF PlaceName
  <2>6. /\ Shape(y) /\ SameOwners(p, y) /\ SameLeaks(p, y) /\ Exact(y, f) /\ OthersNamed(p, y, u)
        /\ Kept(p, y, None, u, NoName)
    <3>1. u \in p.live BY <1>13, <2>2 DEF SameOwners
    <3> QED BY <1>1, <1>5, <1>13, <2>1, <2>2, <2>5, <3>1, PlaceExact
  <2>7. OnlyNames(x, y) BY <2>2, <2>6 DEF OnlyNames, SameOwners, SameLeaks
  <2>8. y.name[v] = n /\ y.name[u] = NoName BY <1>1, <2>2, <2>6 DEF Kept, OthersNamed
  <2>9. \A q \in Named : q # v /\ q # u => y.name[q] = x.name[q] BY <2>2, <2>6 DEF OthersNamed
  <2> QED BY <2>6, <2>7, <2>8, <2>9
<1>14. ASSUME Shape(r), OnlyNames(s, r), Exact(r, sc),
              \A x \in Named : x # v /\ x # u => r.name[x] = s.name[x]
       PROVE  All(r, m)
  <2>1. Exact(r, HomeOf(s)) BY <1>14 DEF sc
  <2>2. \A x \in Named : x \notin s.live => r.name[x] = s.name[x] BY <1>14
  <2> QED BY <1>14, <2>1, <2>2, OnlyNamesKeep
<1>15. CASE n = NoName
  <2>1. r = a BY <1>3, <1>15
  <2> QED BY <1>7, <1>8, <1>9, <1>11, <1>14, <2>1
<1>16. CASE n # NoName /\ t = w /\ t = None
  <2>1. r = taken(a) BY <1>3, <1>16
  <2> HIDE DEF taken
  <2>2. /\ Shape(r) /\ OnlyNames(a, r) /\ Exact(r, sc)
        /\ \A q \in Named : q # v /\ q # u => r.name[q] = a.name[q]
    BY <1>1, <1>2, <1>7, <1>10, <1>11, <1>13, <1>16, <2>1
  <2>3. OnlyNames(s, r) BY <1>8, <2>2 DEF OnlyNames, SameOwners, SameLeaks
  <2> QED BY <1>9, <1>14, <2>2, <2>3
<1>17. CASE n # NoName /\ t = w /\ t # None
  <2>1. r = [taken(a) EXCEPT !.table[t][n] = v] BY <1>3, <1>17
  <2>2. r = Handed(a, t, v, u) BY <1>12, <2>1 DEF Handed
  <2>3. t \in Scopes BY <1>2, <1>17 DEF Homes
  <2> HIDE DEF taken
  <2>8. a.name[v] = NoName /\ a.name[u] # NoName /\ sc[v] = t /\ sc[u] = t /\ Shape(a)
    BY <1>2, <1>7, <1>9, <1>12, <1>17
  <2>9. HandedOver(a, r, sc)
    BY ONLY NamesAssumption, v # u, <1>1, <1>10, <1>11, <2>2, <2>3, <2>8, HandedKeeps
  <2>4. /\ Shape(r) /\ OnlyNames(a, r) /\ Exact(r, sc)
        /\ \A q \in Named : q \notin a.live => r.name[q] = a.name[q]
    BY <2>9 DEF HandedOver
  <2>5. OnlyNames(s, r) BY <1>8, <2>4 DEF OnlyNames, SameOwners, SameLeaks
  <2>6. \A x \in Named : x \notin s.live => r.name[x] = s.name[x] BY <1>9, <1>10, <2>4
  <2>7. Exact(r, HomeOf(s)) BY <2>4 DEF sc
  <2> QED BY <2>4, <2>5, <2>6, <2>7, OnlyNamesKeep
<1>18. CASE n # NoName /\ t # w
  <2>1. r = IF t = None THEN taken(b) ELSE PlaceName(taken(b), t, v, taken(b).name[v])
    BY <1>3, <1>18 DEF Reinsert
  <2>2. d[u] = w BY <1>1, <1>2, <1>5
  <2>3. Shape(b) /\ SameOwners(a, b) /\ SameLeaks(a, b) /\ b.name = a.name /\ Exact(b, e)
    BY <1>5, <1>7, <1>10, <2>2, RemoveExact
  <2> HIDE DEF b
  <2>4. /\ e \in [Named -> Homes] /\ e[v] = None /\ e[u] = None
        /\ \A x \in Named : x # v /\ x # u => e[x] = sc[x]
    BY <1>1, <1>5
  <2> HIDE DEF e
  <2> DEFINE y == taken(b)
  <2> HIDE DEF taken
  <2>5. /\ Shape(y) /\ OnlyNames(b, y) /\ Exact(y, e) /\ y.name[v] = n /\ y.name[u] = NoName
        /\ \A q \in Named : q # v /\ q # u => y.name[q] = b.name[q]
    <3>1. b.live = s.live BY <1>10, <2>3 DEF SameOwners
    <3> QED BY <1>13, <2>3, <2>4, <3>1
  <2>6. r = IF t = None THEN y ELSE PlaceName(y, t, v, n) BY <2>1, <2>5
  <2> HIDE DEF y
  <2>7. OnlyNames(s, y) /\ v \in y.live /\ y.live = s.live
    BY <1>8, <2>3, <2>5 DEF OnlyNames, SameOwners, SameLeaks
  <2>8. \A x \in Named : x # v /\ x # u => y.name[x] = s.name[x] BY <1>9, <2>3, <2>5
  <2>9. CASE t = None
    <3>1. r = y BY <2>6, <2>9
    <3>2. \A x \in y.live : y.name[x] # NoName => sc[x] = e[x] BY <1>1, <1>2, <2>4, <2>5, <2>7, <2>9
    <3>3. Exact(y, sc) BY <2>5, <3>2, ExactAgree
    <3> QED BY <1>14, <2>5, <2>7, <2>8, <3>1, <3>3
  <2>10. CASE t # None
    <3> DEFINE g == [e EXCEPT ![v] = t]
    <3>1. r = PlaceName(y, t, v, n) BY <2>6, <2>10
    <3>2. /\ Shape(r) /\ SameOwners(y, r) /\ SameLeaks(y, r) /\ Exact(r, g) /\ OthersNamed(y, r, v)
      BY <1>1, <1>2, <2>4, <2>5, <2>7, <3>1, PlaceExact, ZenonT(30)
    <3>3. OnlyNames(s, r) /\ r.live = s.live BY <2>7, <3>2 DEF OnlyNames, SameOwners, SameLeaks
    <3>4. \A x \in Named : x # v /\ x # u => r.name[x] = s.name[x] BY <2>8, <3>2 DEF OthersNamed
    <3>5. r.name[u] = NoName BY <1>1, <2>5, <3>2 DEF OthersNamed
    <3>6. \A x \in Named : x # u => g[x] = sc[x] BY <1>1, <1>2, <2>4
    <3> HIDE DEF g
    <3>7. \A x \in r.live : r.name[x] # NoName => sc[x] = g[x] BY <1>1, <3>3, <3>5, <3>6
    <3>8. Exact(r, sc) BY <3>2, <3>7, ExactAgree
    <3> QED BY <1>14, <3>2, <3>3, <3>4, <3>8
  <2> QED BY <2>9, <2>10
<1> QED BY <1>15, <1>16, <1>17, <1>18
-----------------------------------------------------------------------------
New(s, v) == AddGarbage([s EXCEPT !.live = @ \cup {v}], v)

LEMMA NewKeeps ==
  ASSUME NamesAssumption, NEW s, NEW m, All(s, m), NEW v \in Named, v \notin s.live, v \notin m,
         NEW r, r = New(s, v)
  PROVE  /\ All(r, m) /\ r.live = s.live \cup {v} /\ r.parent = s.parent /\ r.parent[v] = None
         /\ SameNames(s, r)
<1> DEFINE b == [s EXCEPT !.live = @ \cup {v}]
           sc == HomeOf(s)
<1>1. /\ Shape(s) /\ Listed(s) /\ Blank(s) /\ Exact(s, sc) /\ Fits(s, m)
      /\ s.live \subseteq Named /\ None \notin Containers /\ None \notin Scopes
      /\ s.parent[v] = None /\ s.name[v] = NoName
  BY HomeKinds DEF All, Shape, Containers, Named, Blank
<1>2. /\ b.parent = s.parent /\ b.list = s.list /\ b.name = s.name /\ b.table = s.table /\ b.last = s.last
      /\ b.ts = s.ts /\ b.cache = s.cache /\ b.failed = s.failed /\ DOMAIN b = DOMAIN s
  BY <1>1 DEF Shape
<1>3. b.live = s.live \cup {v} BY <1>1 DEF Shape
<1>4. r = AddGarbage(b, v) BY DEF New
<1> HIDE DEF b
<1>5. Shape(b) BY <1>1, <1>2, <1>3 DEF Shape
<1>6. v \notin Reported(b) /\ Fresh(b) BY <1>1, <1>2 DEF Fits, Reported, Fresh, Orphans
<1>7. Shape(r) /\ SameOwners(b, r) /\ SameNames(b, r) /\ Reported(r) = Reported(b) \cup {v} /\ Fresh(r)
  BY <1>4, <1>5, <1>6, GarbageAdded
<1>8. /\ r.live = s.live \cup {v} /\ r.parent = s.parent /\ r.list = s.list /\ r.name = s.name
      /\ r.table = s.table /\ r.last = s.last
  BY <1>2, <1>3, <1>7 DEF SameOwners, SameNames
<1>9. Listed(r)
  <2>1. ASSUME NEW c \in Containers
        PROVE  OneByOne(r.list[c]) /\ \A u \in Named : Holds(r.list[c], u) <=> u \in r.live /\ r.parent[u] = c
    BY <1>1, <1>8 DEF Listed
  <2> QED BY <2>1 DEF Listed
<1>10. Blank(r) BY <1>1, <1>8 DEF Blank
<1>11. HomeOf(r) = sc BY <1>8 DEF HomeOf, ScopeOf
<1> HIDE DEF sc
<1>12. Exact(r, sc) BY <1>1, <1>8 DEF Exact
<1>13. Fits(r, m)
  <2>1. Orphans(r) = Orphans(s) \cup {v} BY <1>1, <1>8 DEF Orphans
  <2>2. Reported(b) = Reported(s) BY <1>2 DEF Reported
  <2> QED BY <1>1, <1>7, <2>1, <2>2 DEF Fits
<1> QED BY <1>1, <1>7, <1>8, <1>9, <1>10, <1>11, <1>12, <1>13 DEF All, SameNames

LEMMA ConstructKeeps ==
  ASSUME NamesAssumption, NEW s, NEW m, All(s, m), NEW v \in Named, v \notin s.live, v \notin m,
         NEW p \in Owners(v) \cup {None}, NEW n \in Seq(Int), NEW r, r = Construct(s, v, p, n)
  PROVE  All(r, m)
<1> DEFINE a == New(s, v)
           b == IF p = None THEN a ELSE AddNode(a, v, p, Len(a.list[p]) + 1)
<1>1. r = SetName(b, v, n) BY DEF Construct, New
<1>2. All(a, m) /\ v \in a.live /\ a.parent[v] = None
  <2> HIDE DEF a
  <2>1. a = New(s, v) BY DEF a
  <2>2. All(a, m) BY <2>1, NewKeeps
  <2>3. a.live = s.live \cup {v} BY <2>1, NewKeeps
  <2>4. a.parent[v] = None BY <2>1, NewKeeps
  <2> QED BY <2>2, <2>3, <2>4
<1> HIDE DEF a
<1>3. All(b, m) /\ v \in b.live
  <2>1. CASE p = None BY <1>2, <2>1
  <2>2. CASE p # None
    <3> DEFINE i == Len(a.list[p]) + 1
    <3>1. p \in Owners(v) BY <2>2
    <3>2. p \in Containers BY <3>1 DEF Owners, Containers, Scopes
    <3>3. a.list[p] \in Seq(Named) BY <1>2, <3>2 DEF All, Shape
    <3>4. i \in 1 .. Len(a.list[p]) + 1 BY <3>3
    <3>5. b = AddNode(a, v, p, i) BY <2>2
    <3> HIDE DEF b, i
    <3>6. All(b, m) BY ONLY NamesAssumption, <1>2, <3>1, <3>4, <3>5, AddKeeps
    <3>7. Relocated(a, b, v, p) BY ONLY NamesAssumption, <1>2, <3>1, <3>4, <3>5, AddKeeps
    <3> QED BY <1>2, <3>6, <3>7 DEF Relocated
  <2> QED BY <2>1, <2>2
<1> HIDE DEF b
<1> QED BY <1>1, <1>3, RenameKeeps

SameBut(s, r, sc, d, v) ==
  \A u \in r.live : u # v => u \in s.live /\ d[u] = sc[u] /\ r.name[u] = s.name[u]
FreeBut(s, t, n, v) == n \in DOMAIN s.table[t] => s.table[t][n] = v
Elsewhere(r, d, t, n, v) == d[v] # t \/ r.name[v] # n

(* No value takes a name that is free, but for the one it is given to. *)
LEMMA StaysFree ==
  ASSUME NEW s, NEW r, Shape(s), Shape(r), NEW sc, NEW d, Exact(s, sc), Exact(r, d), NEW v \in Named, NEW t \in Scopes,
         NEW n, n # NoName, SameBut(s, r, sc, d, v), Elsewhere(r, d, t, n, v), FreeBut(s, t, n, v)
  PROVE  n \notin DOMAIN r.table[t]
<1> SUFFICES ASSUME n \in DOMAIN r.table[t] PROVE FALSE OBVIOUS
<1> DEFINE u == r.table[t][n]
<1>1. u \in r.live /\ r.name[u] = n /\ d[u] = t BY DEF Exact
<1>2. u # v BY <1>1 DEF Elsewhere
<1>3. u \in s.live /\ sc[u] = t /\ s.name[u] = n BY <1>1, <1>2 DEF SameBut
<1>4. n \in DOMAIN s.table[t] /\ s.table[t][n] = u BY <1>3 DEF Exact
<1> QED BY <1>2, <1>4 DEF FreeBut

MadeName(s, r, v, p, n) == p # None /\ n # NoName /\ n \notin DOMAIN s.table[p] => r.name[v] = n

LEMMA GlobalKeeps ==
  ASSUME NamesAssumption, NEW s, NEW m, All(s, m), NEW v \in Funcs, v \notin s.live, v \notin m,
         NEW p \in Mods \cup {None}, NEW n \in Seq(Int), NEW r, r = ConstructGlobal(s, v, p, n)
  PROVE  All(r, m) /\ r.live = s.live \cup {v} /\ MadeName(s, r, v, p, n)
<1> DEFINE x == New(s, v)
           a == SetName(x, v, n)
<1>0. v \in Named /\ Owners(v) = Mods BY HomeKinds DEF Named
<1>1. r = IF p = None THEN a ELSE AddNode(a, v, p, Len(a.list[p]) + 1) BY DEF ConstructGlobal, New
<1>2. All(x, m) /\ x.live = s.live \cup {v} /\ x.parent = s.parent /\ x.parent[v] = None /\ SameNames(s, x)
  <2> HIDE DEF x
  <2>1. x = New(s, v) BY DEF x
  <2> QED BY <1>0, <2>1, NewKeeps
<1> HIDE DEF x
<1>3. All(a, m) /\ OnlyNames(x, a) /\ Renames(x, a, v, n)
  <2>1. v \in x.live BY <1>2
  <2> QED BY <1>2, <2>1, RenameKeeps
<1> HIDE DEF a
<1>4. v \in a.live /\ a.live = s.live \cup {v} /\ a.parent[v] = None /\ a.name[v] = n /\ a.parent = s.parent
  BY <1>2, <1>3 DEF OnlyNames, SameOwners, Renames
<1>5. CASE p = None
  <2>1. r = a BY <1>1, <1>5
  <2> QED BY <1>3, <1>4, <1>5, <2>1 DEF MadeName
<1>6. CASE p # None
  <2> DEFINE i == Len(a.list[p]) + 1
  <2>1. p \in Owners(v) BY <1>0, <1>6
  <2>2. p \in Containers /\ p \in Scopes BY <1>6 DEF Containers, Scopes
  <2>3. a.list[p] \in Seq(Named) BY <1>3, <2>2 DEF All, Shape
  <2>4. i \in 1 .. Len(a.list[p]) + 1 BY <2>3
  <2>5. r = AddNode(a, v, p, i) BY <1>1, <1>6
  <2>6. All(a, m) /\ v \in a.live /\ a.parent[v] = None BY <1>3, <1>4
  <2> HIDE DEF i
  <2>7. All(r, m) BY ONLY NamesAssumption, <2>1, <2>4, <2>5, <2>6, AddKeeps
  <2>11. Relocated(a, r, v, p) BY ONLY NamesAssumption, <2>1, <2>4, <2>5, <2>6, AddKeeps
  <2>8. r.live = a.live BY <2>11 DEF Relocated
  <2>9. AddedName(a, r, v, p) BY ONLY NamesAssumption, <2>1, <2>4, <2>5, <2>6, AddKeeps
  <2>10. ASSUME n # NoName, n \notin DOMAIN s.table[p] PROVE r.name[v] = n
    <3>1. n \notin DOMAIN a.table[p]
      <4> DEFINE sc == HomeOf(s)
                 d == HomeOf(a)
      <4>1. Shape(s) /\ Shape(a) /\ Exact(s, sc) /\ Exact(a, d) BY <1>3 DEF All
      <4>2. \A u \in a.live : u # v => u \in s.live /\ d[u] = sc[u] /\ a.name[u] = s.name[u]
        BY <1>2, <1>3, <1>4, <4>1 DEF HomeOf, ScopeOf, Renames, OthersNamed, SameNames, Shape
      <4>3. d[v] # p BY <1>0, <1>4, <1>6 DEF HomeOf, ScopeOf
      <4> HIDE DEF sc, d
      <4>4. SameBut(s, a, sc, d, v) BY <4>2 DEF SameBut
      <4>5. FreeBut(s, p, n, v) BY <2>10 DEF FreeBut
      <4>6. Elsewhere(a, d, p, n, v) BY <4>3 DEF Elsewhere
      <4> QED BY ONLY <1>0, <2>2, <2>10, <4>1, <4>4, <4>5, <4>6, StaysFree
    <3> QED BY <1>4, <2>9, <3>1 DEF AddedName, Kept
  <2> QED BY <1>4, <2>7, <2>8, <2>10 DEF MadeName
<1> QED BY <1>5, <1>6
-----------------------------------------------------------------------------
(* The inductive invariant. *)
IInv == All(ir, missed) /\ missed \subseteq Orphans(ir) /\ AnswerHasName

LEMMA InitIInv == ASSUME NamesAssumption, Init PROVE IInv
<1>1. /\ DOMAIN ir = {"live", "name", "parent", "list", "table", "last", "ts", "cache", "failed"}
      /\ ir.live = {} /\ ir.name = [v \in Named |-> NoName] /\ ir.parent = [v \in Named |-> None]
      /\ ir.list = [c \in Containers |-> << >>] /\ ir.table = [t \in Scopes |-> << >>]
      /\ ir.last = [t \in Scopes |-> 0] /\ ir.ts = {} /\ ir.cache = None /\ ir.failed = FALSE
  BY DEF Init
<1>2. Shape(ir)
  <2>1. ir.name \in [Named -> Seq(Int)] BY <1>1 DEF NoName
  <2>2. ir.list \in [Containers -> Seq(Named)] BY <1>1
  <2> QED BY <1>1, <2>1, <2>2 DEF Shape
<1>3. Listed(ir)
  <2>1. ASSUME NEW c \in Containers
        PROVE  OneByOne(ir.list[c]) /\ \A v \in Named : Holds(ir.list[c], v) <=> v \in ir.live /\ ir.parent[v] = c
    <3>1. ir.list[c] = << >> BY <1>1
    <3> QED BY <1>1, <3>1 DEF OneByOne, Holds
  <2> QED BY <2>1 DEF Listed
<1>4. Blank(ir) BY <1>1 DEF Blank
<1>5. Exact(ir, HomeOf(ir))
  <2> DEFINE sc == HomeOf(ir)
  <2> HIDE DEF sc
  <2>1. ASSUME NEW t \in Scopes PROVE IsFiniteSet(DOMAIN ir.table[t]) /\ DOMAIN ir.table[t] = {}
    <3>1. ir.table[t] = << >> BY <1>1
    <3>2. DOMAIN ir.table[t] = {} BY <3>1
    <3> QED BY <3>2, FS_EmptySet
  <2>2. Exact(ir, sc) BY <1>1, <2>1 DEF Exact
  <2> QED BY <2>2 DEF sc
<1>6. Fits(ir, missed)
  <2>1. Reported(ir) = {} /\ Orphans(ir) = {} /\ missed = {} BY <1>1 DEF Reported, Orphans, Init
  <2> QED BY <1>1, <2>1 DEF Fits, Fresh
<1>7. missed = {} /\ answer[2] = None BY DEF Init
<1> QED BY <1>2, <1>3, <1>4, <1>5, <1>6, <1>7 DEF IInv, All, AnswerHasName

LEMMA AllNext ==
  ASSUME NEW s, ir' = s, NEW m, missed' = m, All(s, m) PROVE All(ir, missed)'
<1>1. Shape(ir)' BY DEF All, Shape
<1>2. Listed(ir)' BY DEF All, Listed, OneByOne, Holds
<1>3. Blank(ir)' BY DEF All, Blank
<1>4. Exact(ir, HomeOf(ir))' BY DEF All, Exact, HomeOf, ScopeOf
<1>5. Fits(ir, missed)' BY DEF All, Fits, Reported, Orphans, Fresh
<1> QED BY <1>1, <1>2, <1>3, <1>4, <1>5 DEF All

LEMMA BecomesKeeps ==
  ASSUME NEW s, All(s, missed), Becomes(s) PROVE IInv'
<1>1. ir' = s /\ missed' = missed \cap Orphans(s) /\ answer' = <<NoName, None>> BY DEF Becomes
<1>2. Fits(s, missed') BY <1>1 DEF All, Fits
<1>3. All(s, missed') BY <1>2 DEF All
<1>4. All(ir, missed)'
  <2> DEFINE m == missed'
  <2>1. ir' = s /\ missed' = m /\ All(s, m) BY <1>1, <1>3
  <2> HIDE DEF m
  <2> QED BY <2>1, AllNext
<1>5. (missed \subseteq Orphans(ir))' BY <1>1 DEF Orphans
<1>6. AnswerHasName' BY <1>1 DEF AnswerHasName
<1> QED BY <1>4, <1>5, <1>6 DEF IInv

(* What the actions know of the values they take. *)
LEMMA Known ==
  ASSUME NamesAssumption, IInv
  PROVE  /\ Shape(ir) /\ ir.live \subseteq Named /\ NoName \in Seq(Int) /\ Names \subseteq Seq(Int)
         /\ \A v \in Named : v \notin ir.live => v \notin missed
         /\ \A v \in ir.live : v \notin Orphans(ir) => ir.parent[v] # None /\ v \notin missed
         /\ \A v \in ir.live : v \in Orphans(ir) => ir.parent[v] = None
         /\ \A v \in Blocks : \A j \in 1 .. Len(ir.list[v]) : ir.list[v][j] \notin missed
<1>1. Shape(ir) /\ Listed(ir) /\ missed \subseteq Orphans(ir) BY DEF IInv, All
<1>2. ASSUME NEW v \in Blocks, NEW j \in 1 .. Len(ir.list[v]) PROVE ir.list[v][j] \notin missed
  <2>1. ir.list[v][j] \in ir.live /\ ir.parent[ir.list[v][j]] = v BY <1>1, BlockList
  <2>2. v # None BY HomeKinds DEF Named
  <2> QED BY <1>1, <2>1, <2>2 DEF Orphans
<1> QED BY <1>1, <1>2 DEF Orphans, Shape, NoName, NamesAssumption

LEMMA CreateKeeps == ASSUME NamesAssumption, IInv, Create PROVE IInv'
<1>1. PICK v \in Named \ ir.live, n \in Names \cup {NoName} :
        \E p \in {None} \cup {c \in Owners(v) : c \in ir.live \cup Mods} :
          Becomes(IF v \in Funcs THEN ConstructGlobal(ir, v, p, n) ELSE Construct(ir, v, p, n))
  BY DEF Create
<1>2. PICK p \in {None} \cup {c \in Owners(v) : c \in ir.live \cup Mods} :
        Becomes(IF v \in Funcs THEN ConstructGlobal(ir, v, p, n) ELSE Construct(ir, v, p, n))
  BY <1>1
<1>3. /\ v \in Named /\ v \notin ir.live /\ v \notin missed /\ p \in Owners(v) \cup {None} /\ n \in Seq(Int)
      /\ All(ir, missed)
  BY Known DEF IInv
<1>4. CASE v \in Funcs
  <2>1. p \in Mods \cup {None} BY <1>3, <1>4, HomeKinds
  <2> DEFINE r == ConstructGlobal(ir, v, p, n)
  <2>2. Becomes(r) BY <1>2, <1>4
  <2>3. r = ConstructGlobal(ir, v, p, n) OBVIOUS
  <2> HIDE DEF r
  <2>4. All(r, missed) BY ONLY NamesAssumption, <1>3, <1>4, <2>1, <2>3, GlobalKeeps
  <2> QED BY <2>2, <2>4, BecomesKeeps
<1>5. CASE v \notin Funcs
  <2> DEFINE r == Construct(ir, v, p, n)
  <2>2. Becomes(r) BY <1>2, <1>5
  <2>3. r = Construct(ir, v, p, n) OBVIOUS
  <2> HIDE DEF r
  <2>4. All(r, missed) BY ONLY NamesAssumption, <1>3, <2>3, ConstructKeeps
  <2> QED BY <2>2, <2>4, BecomesKeeps
<1> QED BY <1>4, <1>5

LEMMA InsertKeeps == ASSUME NamesAssumption, IInv, Insert PROVE IInv'
<1>1. PICK v \in Orphans(ir) : \E p \in Owners(v) \cap (ir.live \cup Mods) :
        \E i \in 1 .. Len(ir.list[p]) + 1 : Becomes(AddNode(ir, v, p, i))
  BY DEF Insert
<1>2. PICK p \in Owners(v) \cap (ir.live \cup Mods) :
        \E i \in 1 .. Len(ir.list[p]) + 1 : Becomes(AddNode(ir, v, p, i))
  BY <1>1
<1>3. PICK i \in 1 .. Len(ir.list[p]) + 1 : Becomes(AddNode(ir, v, p, i)) BY <1>2
<1> DEFINE r == AddNode(ir, v, p, i)
<1>4. v \in ir.live /\ ir.parent[v] = None /\ p \in Owners(v) /\ All(ir, missed) BY DEF Orphans, IInv
<1>5. r = AddNode(ir, v, p, i) OBVIOUS
<1> HIDE DEF r
<1>6. All(r, missed) BY ONLY NamesAssumption, <1>3, <1>4, <1>5, AddKeeps
<1> QED BY <1>3, <1>5, <1>6, BecomesKeeps

LEMMA RemoveFromParentKeeps == ASSUME NamesAssumption, IInv, RemoveFromParent PROVE IInv'
<1>1. PICK v \in ir.live \ Orphans(ir) : Becomes(RemoveNode(ir, v)) BY DEF RemoveFromParent
<1> DEFINE r == RemoveNode(ir, v)
<1>2. v \in ir.live /\ ir.parent[v] # None /\ v \notin missed /\ All(ir, missed) BY Known DEF IInv
<1>3. r = RemoveNode(ir, v) OBVIOUS
<1> HIDE DEF r
<1>4. All(r, missed) BY ONLY NamesAssumption, <1>2, <1>3, RemoveKeeps
<1> QED BY <1>1, <1>3, <1>4, BecomesKeeps

LEMMA EraseFromParentKeeps == ASSUME NamesAssumption, IInv, EraseFromParent PROVE IInv'
<1>1. PICK v \in Live(Insts \cup Blocks) \ Orphans(ir) : Becomes(Delete(RemoveNode(ir, v), v))
  BY DEF EraseFromParent
<1> DEFINE a == RemoveNode(ir, v)
           r == Delete(a, v)
<1>2. v \in ir.live /\ ir.parent[v] # None /\ v \notin missed /\ All(ir, missed) /\ v \in Named
  BY Known DEF IInv, Live
<1>3. a = RemoveNode(ir, v) /\ r = Delete(a, v) /\ Becomes(r) BY <1>1
<1> HIDE DEF a, r
<1>4. All(a, missed) /\ v \in a.live /\ a.parent[v] = None
  <2>1. All(a, missed) BY ONLY NamesAssumption, <1>2, <1>3, RemoveKeeps
  <2>8. Relocated(ir, a, v, None) BY ONLY NamesAssumption, <1>2, <1>3, RemoveKeeps
  <2>2. a.live = ir.live BY <2>8 DEF Relocated
  <2>3. a.parent = [ir.parent EXCEPT ![v] = None] BY <2>8 DEF Relocated
  <2>4. v \in DOMAIN ir.parent BY <1>2, Known DEF Shape
  <2> QED BY <1>2, <2>1, <2>2, <2>3, <2>4
<1>5. ASSUME v \in Blocks, NEW j \in 1 .. Len(a.list[v]) PROVE a.list[v][j] \notin missed
  <2> DEFINE u == a.list[v][j]
  <2>1. u \in a.live /\ u # v /\ a.parent[u] = v BY <1>4, <1>5, BlockList DEF All
  <2> HIDE DEF u
  <2>8. Relocated(ir, a, v, None) BY ONLY NamesAssumption, <1>2, <1>3, RemoveKeeps
  <2>2. a.live = ir.live BY <2>8 DEF Relocated
  <2>3. a.parent = [ir.parent EXCEPT ![v] = None] BY <2>8 DEF Relocated
  <2>4. ir.parent \in [Named -> Containers \cup {None}] /\ u \in Named BY <2>1, <2>2, Known DEF Shape
  <2>5. ir.parent[u] = v BY <2>1, <2>3, <2>4
  <2>6. v # None BY <1>5, HomeKinds DEF Named
  <2>7. u \notin missed BY <2>1, <2>2, <2>5, <2>6, Known DEF Orphans
  <2> QED BY <2>7 DEF u
<1>6. All(r, missed)
  <2>1. v \in Blocks => \A j \in 1 .. Len(a.list[v]) : a.list[v][j] \notin missed BY <1>5
  <2> QED BY ONLY NamesAssumption, <1>3, <1>4, <2>1, DeleteKeeps
<1> QED BY <1>3, <1>6, BecomesKeeps

LEMMA DeleteOrphanKeeps == ASSUME NamesAssumption, IInv, DeleteOrphan PROVE IInv'
<1>1. PICK v \in Orphans(ir) \ Funcs : Becomes(Delete(ir, v)) BY DEF DeleteOrphan
<1> DEFINE r == Delete(ir, v)
<1>2. v \in ir.live /\ ir.parent[v] = None /\ All(ir, missed) BY DEF Orphans, IInv
<1>3. r = Delete(ir, v) OBVIOUS
<1> HIDE DEF r
<1>4. v \in Blocks => \A j \in 1 .. Len(ir.list[v]) : ir.list[v][j] \notin missed BY Known
<1>5. All(r, missed) BY ONLY NamesAssumption, <1>2, <1>3, <1>4, DeleteKeeps
<1> QED BY <1>1, <1>3, <1>5, BecomesKeeps

LEMMA MoveBeforeKeeps == ASSUME NamesAssumption, IInv, MoveBefore PROVE IInv'
<1>1. PICK v \in Live(Insts \cup Blocks) \ Orphans(ir) : \E p \in Owners(v) \cap ir.live :
        \E i \in 1 .. Len(ir.list[p]) : ir.list[p][i] # v /\ Becomes(TransferNode(ir, v, p, i))
  BY DEF MoveBefore
<1>2. PICK p \in Owners(v) \cap ir.live :
        \E i \in 1 .. Len(ir.list[p]) : ir.list[p][i] # v /\ Becomes(TransferNode(ir, v, p, i))
  BY <1>1
<1>3. PICK i \in 1 .. Len(ir.list[p]) : Becomes(TransferNode(ir, v, p, i)) BY <1>2
<1> DEFINE r == TransferNode(ir, v, p, i)
<1>4. /\ v \in ir.live /\ ir.parent[v] # None /\ v \notin missed /\ All(ir, missed) /\ p \in Owners(v)
      /\ i \in 1 .. Len(ir.list[p])
  BY Known DEF IInv, Live
<1>5. r = TransferNode(ir, v, p, i) OBVIOUS
<1> HIDE DEF r
<1>6. All(r, missed) BY ONLY NamesAssumption, <1>4, <1>5, MoveKeeps
<1> QED BY <1>3, <1>5, <1>6, BecomesKeeps

LEMMA RenameStep == ASSUME NamesAssumption, IInv, Rename PROVE IInv'
<1>1. PICK v \in ir.live, n \in Names \cup {NoName} : Becomes(SetName(ir, v, n)) BY DEF Rename
<1> DEFINE r == SetName(ir, v, n)
<1>2. n \in Seq(Int) /\ All(ir, missed) BY Known DEF IInv
<1>3. r = SetName(ir, v, n) OBVIOUS
<1> HIDE DEF r
<1>4. All(r, missed) BY ONLY NamesAssumption, <1>1, <1>2, <1>3, RenameKeeps
<1> QED BY <1>1, <1>3, <1>4, BecomesKeeps

LEMMA TakeStep == ASSUME NamesAssumption, IInv, Take PROVE IInv'
<1>1. PICK v \in ir.live, u \in ir.live : v # u /\ Becomes(TakeName(ir, v, u)) BY DEF Take
<1> DEFINE r == TakeName(ir, v, u)
<1>2. All(ir, missed) BY DEF IInv
<1>3. r = TakeName(ir, v, u) OBVIOUS
<1> HIDE DEF r
<1>4. All(r, missed) BY ONLY NamesAssumption, <1>1, <1>2, <1>3, TakeKeeps
<1> QED BY <1>1, <1>3, <1>4, BecomesKeeps

LEMMA CheckForGarbageKeeps == ASSUME NamesAssumption, IInv, CheckForGarbage PROVE IInv'
<1> DEFINE r == [AddGarbage(ir, None) EXCEPT !.ts = {}, !.cache = None]
<1>1. ir' = r /\ missed' = Orphans(ir) /\ answer' = <<NoName, None>>
  BY DEF CheckForGarbage
<1>0. ~ ir.failed /\ ir.cache \notin ir.ts BY DEF IInv, All, Fits, Fresh
<1>2. /\ r.live = ir.live /\ r.parent = ir.parent /\ r.list = ir.list /\ r.name = ir.name
      /\ r.table = ir.table /\ r.last = ir.last /\ r.failed = FALSE /\ DOMAIN r = DOMAIN ir
      /\ r.ts = {} /\ r.cache = None
  BY <1>0 DEF AddGarbage, IInv, All, Shape
<1> HIDE DEF r
<1>3. Shape(r) BY <1>2 DEF IInv, All, Shape
<1>4. Listed(r) /\ Blank(r) BY <1>2 DEF IInv, All, Listed, Blank
<1>5. HomeOf(r) = HomeOf(ir) BY <1>2 DEF HomeOf, ScopeOf
<1>6. Exact(r, HomeOf(ir))
  <2> DEFINE sc == HomeOf(ir)
  <2>1. Exact(ir, sc) BY DEF IInv, All
  <2> HIDE DEF sc
  <2>2. Exact(r, sc) BY <1>2, <2>1, ExactSame
  <2> QED BY <2>2 DEF sc
<1>7. Fits(r, missed') /\ Orphans(r) = Orphans(ir)
  <2>1. Orphans(r) = Orphans(ir) BY <1>2 DEF Orphans
  <2>2. Reported(r) = {} /\ Fresh(r) BY <1>2 DEF Reported, Fresh, IInv, All, Fits
  <2> QED BY <1>1, <2>1, <2>2 DEF Fits
<1>8. ir' = r BY <1>1
<1>9. All(r, missed') BY <1>3, <1>4, <1>5, <1>6, <1>7 DEF All
<1>10. All(ir, missed)'
  <2> DEFINE m == missed'
  <2>1. ir' = r /\ missed' = m /\ All(r, m) BY <1>8, <1>9
  <2> HIDE DEF m
  <2> QED BY <2>1, AllNext
<1>11. (missed \subseteq Orphans(ir))' BY <1>1, <1>7, <1>8 DEF Orphans
<1>12. AnswerHasName' BY <1>1 DEF AnswerHasName
<1> QED BY <1>10, <1>11, <1>12 DEF IInv

(* Module::getOrInsertFunction: the table of the module has the name only  *)
(* if it is that of the function found, which then makes room for the one  *)
(* that is asked for.                                                      *)
LEMMA GetOrInsertKeeps == ASSUME NamesAssumption, IInv, GetOrInsertFunction PROVE IInv'
<1>1. PICK M \in Mods, n \in Names :
        LET found == IF n \in DOMAIN ir.table[M] THEN ir.table[M][n] ELSE None
            made(s, f) == ConstructGlobal(s, f, M, n)
        IN  IF found # None /\ found \notin Internal
            THEN /\ answer' = <<n, found>> /\ UNCHANGED <<ir, missed>>
            ELSE \E f \in Funcs \ (ir.live \cup Internal) :
                   LET s == IF found = None THEN made(ir, f)
                            ELSE SetName(made(MakeRoom(ir, found), f), found, n)
                   IN  /\ ir' = s /\ answer' = <<n, f>>
                       /\ missed' = missed \cap Orphans(s)
  BY DEF GetOrInsertFunction
<1> DEFINE found == IF n \in DOMAIN ir.table[M] THEN ir.table[M][n] ELSE None
           sc == HomeOf(ir)
<1>2. /\ Shape(ir) /\ Exact(ir, sc) /\ All(ir, missed) /\ ir.live \subseteq Named /\ None \notin Named
      /\ M \in Scopes /\ M # None /\ n \in Seq(Int) /\ n # NoName
  BY HomeKinds DEF IInv, All, Shape, Scopes, NamesAssumption
<1>3. n \in DOMAIN ir.table[M] => /\ ir.table[M][n] \in ir.live /\ ir.name[ir.table[M][n]] = n
                                  /\ sc[ir.table[M][n]] = M
  BY <1>2 DEF Exact
<1>4. found # None => found \in ir.live /\ ir.name[found] = n /\ n \in DOMAIN ir.table[M] /\ ir.table[M][n] = found
  BY <1>2, <1>3
<1>5. found = None => n \notin DOMAIN ir.table[M] BY <1>2, <1>3
<1>6. CASE found # None /\ found \notin Internal
  <2>1. answer' = <<n, found>> /\ ir' = ir /\ missed' = missed BY <1>1, <1>6
  <2> HIDE DEF found, sc
  <2>2. AnswerHasName'
    <3>1. answer'[1] = n /\ answer'[2] = found BY <2>1
    <3> QED BY <1>4, <1>6, <2>1, <3>1 DEF AnswerHasName
  <2>3. All(ir, missed)'
    BY <1>2, <2>1, AllNext
  <2>4. (missed \subseteq Orphans(ir))' BY <2>1 DEF IInv, Orphans
  <2> QED BY <2>2, <2>3, <2>4 DEF IInv
<1>7. CASE ~ (found # None /\ found \notin Internal)
  <2>1. PICK f \in Funcs \ (ir.live \cup Internal) :
          LET s == IF found = None THEN ConstructGlobal(ir, f, M, n)
                   ELSE SetName(ConstructGlobal(MakeRoom(ir, found), f, M, n), found, n)
          IN  /\ ir' = s /\ answer' = <<n, f>>
              /\ missed' = missed \cap Orphans(s)
    BY <1>1, <1>7
  <2> DEFINE s == IF found = None THEN ConstructGlobal(ir, f, M, n)
                  ELSE SetName(ConstructGlobal(MakeRoom(ir, found), f, M, n), found, n)
  <2>2. ir' = s /\ answer' = <<n, f>> /\ missed' = missed \cap Orphans(s) BY <2>1
  <2>3. f \in Funcs /\ f \notin ir.live /\ f \notin Internal /\ f \notin missed /\ f \in Named
    BY Known DEF Named
  <2>4. All(s, missed) /\ s.name[f] = n
    <3>1. CASE found = None
      <4>1. s = ConstructGlobal(ir, f, M, n) BY <3>1
      <4> HIDE DEF s, found, sc
      <4>2. M \in Mods \cup {None} OBVIOUS
      <4>3. All(s, missed) BY ONLY NamesAssumption, <1>2, <2>3, <4>1, <4>2, GlobalKeeps
      <4>4. MadeName(ir, s, f, M, n) BY ONLY NamesAssumption, <1>2, <2>3, <4>1, <4>2, GlobalKeeps
      <4> QED BY <1>2, <1>5, <3>1, <4>3, <4>4 DEF MadeName
    <3>2. CASE found # None
      <4> DEFINE a == SetName(ir, found, NoName)
                 b == ConstructGlobal(a, f, M, n)
      <4>1. s = SetName(b, found, n) BY <3>2 DEF MakeRoom
      <4> HIDE DEF s
      <4>2. found \in ir.live /\ NoName \in Seq(Int) BY <1>4, <3>2, Known
      <4>3. a = SetName(ir, found, NoName) /\ b = ConstructGlobal(a, f, M, n) OBVIOUS
      <4> HIDE DEF a, b, found, sc
      <4>4. All(a, missed) BY ONLY NamesAssumption, <1>2, <4>2, <4>3, RenameKeeps
      <4>5. OnlyNames(ir, a) BY ONLY NamesAssumption, <1>2, <4>2, <4>3, RenameKeeps
      <4>6. Renames(ir, a, found, NoName) BY ONLY NamesAssumption, <1>2, <4>2, <4>3, RenameKeeps
      <4>7. a.live = ir.live /\ a.parent = ir.parent /\ f \notin a.live
        BY <2>3, <4>5 DEF OnlyNames, SameOwners
      <4>8. n \notin DOMAIN a.table[M]
        <5> DEFINE d == HomeOf(a)
        <5>1. Shape(a) /\ Exact(a, d) BY <4>4 DEF All
        <5>2. d = sc BY <4>7 DEF HomeOf, ScopeOf, sc
        <5> HIDE DEF d
        <5>3. \A u \in a.live : u # found => u \in ir.live /\ d[u] = sc[u] /\ a.name[u] = ir.name[u]
          BY <1>2, <4>6, <4>7, <5>2 DEF Renames, OthersNamed
        <5>4. a.name[found] # n BY <1>2, <4>6 DEF Renames
        <5>5. ir.table[M][n] = found /\ found \in Named BY <1>2, <1>4, <3>2, <4>2
        <5>6. SameBut(ir, a, sc, d, found) BY <5>3 DEF SameBut
        <5>7. FreeBut(ir, M, n, found) BY <5>5 DEF FreeBut
        <5>8. Elsewhere(a, d, M, n, found) BY <5>4 DEF Elsewhere
        <5> QED BY ONLY <1>2, <5>1, <5>5, <5>6, <5>7, <5>8, StaysFree
      <4>9. M \in Mods \cup {None} OBVIOUS
      <4>10. All(b, missed) BY ONLY NamesAssumption, <1>2, <2>3, <4>3, <4>4, <4>7, <4>9, GlobalKeeps
      <4>11. b.live = a.live \cup {f} BY ONLY NamesAssumption, <1>2, <2>3, <4>3, <4>4, <4>7, <4>9, GlobalKeeps
      <4>12. MadeName(a, b, f, M, n) BY ONLY NamesAssumption, <1>2, <2>3, <4>3, <4>4, <4>7, <4>9, GlobalKeeps
      <4>13. found \in b.live /\ found # f BY <2>3, <4>2, <4>7, <4>11
      <4>14. All(s, missed) BY ONLY NamesAssumption, <1>2, <4>1, <4>10, <4>13, RenameKeeps
      <4>15. Renames(b, s, found, n) BY ONLY NamesAssumption, <1>2, <4>1, <4>10, <4>13, RenameKeeps
      <4>16. b.name[f] = n BY <1>2, <4>8, <4>12 DEF MadeName
      <4> QED BY <2>3, <4>13, <4>14, <4>15, <4>16 DEF Renames, OthersNamed
    <3> QED BY <3>1, <3>2
  <2> HIDE DEF s, found, sc
  <2>5. All(s, missed')
    <3>1. Fits(s, missed') BY <2>2, <2>4 DEF All, Fits
    <3> QED BY <2>4, <3>1 DEF All
  <2>6. All(ir, missed)'
    <3> DEFINE m == missed'
    <3>1. ir' = s /\ missed' = m /\ All(s, m) BY <2>2, <2>5
    <3> HIDE DEF m
    <3> QED BY <3>1, AllNext
  <2>7. (missed \subseteq Orphans(ir))' BY <2>2 DEF Orphans
  <2>8. AnswerHasName'
    <3>1. answer'[1] = n /\ answer'[2] = f BY <2>2
    <3> QED BY <2>2, <2>3, <2>4, <3>1 DEF AnswerHasName
  <2> QED BY <2>6, <2>7, <2>8 DEF IInv
<1> QED BY <1>6, <1>7

LEMMA NextKeeps == ASSUME NamesAssumption, IInv, [Next]_vars PROVE IInv'
<1>1. CASE Next
  BY <1>1, CreateKeeps, InsertKeeps, RemoveFromParentKeeps, EraseFromParentKeeps, DeleteOrphanKeeps,
     MoveBeforeKeeps, RenameStep, TakeStep, GetOrInsertKeeps, CheckForGarbageKeeps DEF Next
<1>2. CASE UNCHANGED vars
  <2>1. ir' = ir /\ answer' = answer /\ missed' = missed /\ All(ir, missed) BY <1>2 DEF vars, IInv
  <2>2. All(ir, missed)' BY <2>1, AllNext
  <2>3. (missed \subseteq Orphans(ir))' BY <2>1 DEF IInv, Orphans
  <2>4. AnswerHasName' BY <2>1 DEF IInv, AnswerHasName
  <2> QED BY <2>2, <2>3, <2>4 DEF IInv
<1> QED BY <1>1, <1>2

LEMMA Invariant == ASSUME NamesAssumption PROVE Spec => []IInv
<1>1. Init => IInv BY InitIInv
<1>2. IInv /\ [Next]_vars => IInv' BY NextKeeps
<1> QED BY <1>1, <1>2, PTL DEF Spec

(* The fields and the lists of the values and their containers agree:      *)
(* a value is in the list of its parent, once.                             *)
THEOREM NamesTyped == ASSUME NamesAssumption PROVE Spec => []TypeOK
<1>1. ASSUME IInv PROVE TypeOK
  <2>1. Shape(ir) /\ Listed(ir) BY <1>1 DEF IInv, All
  <2>2. ASSUME NEW c \in Containers
        PROVE  /\ \A i, j \in DOMAIN ir.list[c] : ir.list[c][i] = ir.list[c][j] => i = j
               /\ Range(ir.list[c]) = {v \in ir.live : ir.parent[v] = c}
    <3>1. ir.list[c] \in Seq(Named) /\ DOMAIN ir.list[c] = 1 .. Len(ir.list[c]) BY <2>1 DEF Shape
    <3>2. OneByOne(ir.list[c]) /\ \A v \in Named : Holds(ir.list[c], v) <=> v \in ir.live /\ ir.parent[v] = c
      BY <2>1 DEF Listed
    <3>3. \A v \in Named : v \in Range(ir.list[c]) <=> Holds(ir.list[c], v) BY <3>1 DEF Holds, Range
    <3>4. Range(ir.list[c]) \subseteq Named /\ ir.live \subseteq Named BY <2>1, <3>1 DEF Range, Shape
    <3>5. Range(ir.list[c]) = {v \in ir.live : ir.parent[v] = c} BY <3>2, <3>3, <3>4
    <3> QED BY <3>1, <3>2, <3>5 DEF OneByOne
  <2> QED BY <2>1, <2>2 DEF TypeOK, Shape
<1>2. IInv => TypeOK BY <1>1
<1> QED BY <1>2, Invariant, PTL

(* A table holds the names of exactly the values it is the table of,       *)
(* whatever is created, inserted, moved, renamed, taken from and deleted.  *)
THEOREM TablesStayExact == ASSUME NamesAssumption PROVE Spec => []TablesExact
<1>1. ASSUME IInv PROVE TablesExact
  <2> DEFINE sc == HomeOf(ir)
  <2>1. Exact(ir, sc) /\ ir.live \subseteq Named BY <1>1 DEF IInv, All, Shape
  <2>2. \A v \in ir.live : sc[v] = ScopeOf(ir, v) BY <2>1 DEF HomeOf
  <2> HIDE DEF sc
  <2> QED BY <2>1, <2>2 DEF Exact, TablesExact
<1>2. IInv => TablesExact BY <1>1
<1> QED BY <1>2, Invariant, PTL

(* The detector would report exactly the orphans it has not reported.      *)
THEOREM LeaksStayExact == ASSUME NamesAssumption PROVE Spec => []LeaksExact
<1>1. IInv => LeaksExact BY DEF IInv, All, Fits, Fresh, LeaksExact
<1> QED BY <1>1, Invariant, PTL

(* getOrInsertFunction returns an external function of the name asked for. *)
THEOREM AnswersHaveNames == ASSUME NamesAssumption PROVE Spec => []AnswerHasName
<1>1. IInv => AnswerHasName BY DEF IInv
<1> QED BY <1>1, Invariant, PTL
=============================================================================
