--------------------------- MODULE CoreValuesProofs ---------------------------
(***************************************************************************)
(* What values rest on, of any number.  A use that is set or swapped       *)
(* leaves every list linked, and each list holds the uses of its value     *)
(* once.  The tags lead to the end of an array of any length.  Phi nodes   *)
(* stay true to what their predecessors brought.  What the tables say of   *)
(* the predicates is true of numbers of any size.                          *)
(***************************************************************************)
EXTENDS UseList, Waymarks, PhiNodes, CmpPredicates,
        FiniteSetTheorems, SequenceTheorems, WellFoundedInduction, TLAPS

(* A place is the head of a list or the next field of a use, never both. *)
LEMMA PlaceKinds ==
  /\ \A v \in Values : ListHead(v) \in Places
  /\ \A x \in Uses : NextOf(x) \in Places
  /\ \A l \in Places : \/ \E v \in Values : l = ListHead(v) /\ l[1] = "list" /\ l[2] = v
                       \/ \E x \in Uses : l = NextOf(x) /\ l[1] # "list" /\ l[2] = x
  /\ \A v \in Values, x \in Uses : ListHead(v) # NextOf(x)
  /\ \A x, y \in Uses : NextOf(x) = NextOf(y) => x = y
  /\ \A v, w \in Values : ListHead(v) = ListHead(w) => v = w
BY DEF Places, ListHead, NextOf

(* What the place of a list belongs to depends on the value of its use only. *)
LEMMA ListOfPlace ==
  ASSUME NEW m \in Memories
  PROVE  /\ \A v \in Values : ListOf(m, ListHead(v)) = v
         /\ \A x \in Uses : ListOf(m, NextOf(x)) = m.val[x]
         /\ \A l \in Places : ListOf(m, l) \in Values \cup {None}
<1>1. m.val \in [Uses -> Values \cup {None}]
  BY DEF Memories
<1>2. \A v \in Values : ListOf(m, ListHead(v)) = v
  BY DEF ListOf, ListHead
<1>3. \A x \in Uses : ListOf(m, NextOf(x)) = m.val[x]
  BY DEF ListOf, NextOf
<1>4. QED
  BY <1>1, <1>2, <1>3, PlaceKinds

(* removeFromList, and the value that is dropped. *)
LEMMA LeaveLinked ==
  ASSUME NEW m \in Memories, IsLinked(m), NEW x \in Uses
  PROVE  /\ Leave(m, x) \in Memories
         /\ IsLinked(Leave(m, x))
         /\ Leave(m, x).val = [m.val EXCEPT ![x] = None]
<1>1. CASE m.val[x] = None
  BY <1>1 DEF Leave, Memories
<1>2. CASE m.val[x] # None
  <2> DEFINE n == m.ptr[NextOf(x)]
             p == m.prev[x]
             m2 == RemoveFromList(m, x)
  <2>0. NextOf(x) \in Places
    BY PlaceKinds
  <2>1. p \in Places /\ m.ptr[p] = x /\ ListOf(m, p) = m.val[x]
    BY <1>2 DEF IsLinked, Pointed
  <2>2. n # None => n \in Uses /\ m.prev[n] = NextOf(x) /\ m.val[n] = m.val[x]
    BY <1>2, <2>0, ListOfPlace DEF IsLinked, Points, Memories
  <2>3. /\ m2.val = [m.val EXCEPT ![x] = None]
        /\ m2.ptr = [m.ptr EXCEPT ![p] = n]
        /\ m2.prev = [u \in Uses |-> IF u = n THEN p ELSE m.prev[u]]
    BY DEF RemoveFromList, Memories
  <2>4. m2 \in Memories
    BY <2>0, <2>1 DEF RemoveFromList, Memories
  <2> HIDE DEF m2
  <2>5. \A l \in Places \ {NextOf(x)} : ListOf(m2, l) = ListOf(m, l)
    BY <2>3, <2>4, PlaceKinds, ListOfPlace DEF Memories
  <2>6. ASSUME NEW u \in Uses, m2.val[u] # None
        PROVE  Pointed(m2, u)
    <3>1. u # x /\ m.val[u] # None /\ m2.val[u] = m.val[u]
      BY <2>3, <2>6 DEF Memories
    <3>2. m.prev[u] \in Places /\ m.ptr[m.prev[u]] = u /\ ListOf(m, m.prev[u]) = m.val[u]
      BY <3>1 DEF IsLinked, Pointed
    <3>3. CASE u = n
      <4>1. p # NextOf(x)
        BY <2>1, <3>1, <3>3
      <4>2. m2.prev[u] = p /\ m2.ptr[p] = u
        BY <2>1, <2>3, <3>3 DEF Memories
      <4>3. ListOf(m2, p) = m.val[u]
        BY <2>1, <2>2, <2>5, <3>3, <4>1, UsesAssumption
      <4>4. QED
        BY <2>1, <3>1, <4>2, <4>3 DEF Pointed
    <3>4. CASE u # n
      <4>1. m2.prev[u] = m.prev[u]
        BY <2>3, <3>4
      <4>2. m.prev[u] # p /\ m.prev[u] # NextOf(x)
        BY <2>1, <3>1, <3>2, <3>4
      <4>3. m2.ptr[m.prev[u]] = u
        BY <2>3, <3>2, <4>2 DEF Memories
      <4>4. QED
        BY <2>5, <3>1, <3>2, <4>1, <4>2, <4>3 DEF Pointed
    <3>5. QED
      BY <3>3, <3>4
  <2>7. ASSUME NEW l \in Places, ListOf(m2, l) # None, m2.ptr[l] # None
        PROVE  Points(m2, l)
    <3>1. l # NextOf(x)
      BY <2>3, <2>4, <2>7, ListOfPlace DEF Memories
    <3>2. ListOf(m, l) = ListOf(m2, l)
      BY <2>5, <3>1
    <3>3. CASE l = p
      <4>1. m2.ptr[l] = n /\ n \in Uses
        BY <2>0, <2>3, <2>7, <3>3 DEF Memories
      <4>2. n # x
        BY <2>1, <2>2, <3>1, <3>3, <4>1, UsesAssumption
      <4>3. m2.prev[n] = p /\ m2.val[n] = m.val[n]
        BY <2>3, <4>1, <4>2 DEF Memories
      <4>4. QED
        BY <2>1, <2>2, <3>2, <3>3, <4>1, <4>3, UsesAssumption DEF Points
    <3>4. CASE l # p
      <4>1. m2.ptr[l] = m.ptr[l] /\ m.ptr[l] \in Uses
        BY <2>3, <2>7, <3>4 DEF Memories
      <4>2. m.prev[m.ptr[l]] = l /\ m.val[m.ptr[l]] = ListOf(m, l)
        BY <2>7, <3>2, <4>1, UsesAssumption DEF IsLinked, Points
      <4>3. m.ptr[l] # n /\ m.ptr[l] # x
        BY <2>2, <3>1, <3>4, <4>1, <4>2, UsesAssumption
      <4>4. m2.prev[m.ptr[l]] = l /\ m2.val[m.ptr[l]] = m.val[m.ptr[l]]
        BY <2>3, <4>1, <4>2, <4>3 DEF Memories
      <4>5. QED
        BY <3>2, <4>1, <4>2, <4>4 DEF Points
    <3>5. QED
      BY <3>3, <3>4
  <2>8. QED
    BY <1>2, <2>3, <2>4, <2>6, <2>7 DEF Leave, m2, IsLinked
<1>3. QED
  BY <1>1, <1>2

(* addToList. *)
LEMMA EnterLinked ==
  ASSUME NEW m \in Memories, IsLinked(m), NEW x \in Uses, NEW v \in Values \cup {None},
         m.val[x] = None
  PROVE  /\ Enter(m, x, v) \in Memories
         /\ IsLinked(Enter(m, x, v))
         /\ Enter(m, x, v).val = [m.val EXCEPT ![x] = v]
<1>1. CASE v = None
  BY <1>1 DEF Enter, Memories
<1>2. CASE v # None
  <2> DEFINE h == ListHead(v)
             n == m.ptr[h]
             m2 == Enter(m, x, v)
  <2>0. v \in Values /\ h \in Places /\ NextOf(x) \in Places /\ NextOf(x) # h
    BY <1>2, PlaceKinds
  <2>1. n # None => n \in Uses /\ m.prev[n] = h /\ m.val[n] = v
    BY <2>0, ListOfPlace, UsesAssumption DEF IsLinked, Points, Memories
  <2>2. n # x
    BY <1>2, <2>1, UsesAssumption
  <2>3. /\ m2.val = [m.val EXCEPT ![x] = v]
        /\ m2.ptr = [m.ptr EXCEPT ![NextOf(x)] = n, ![h] = x]
        /\ m2.prev = [u \in Uses |-> IF u = x THEN h ELSE IF u = n THEN NextOf(x) ELSE m.prev[u]]
    BY <1>2 DEF Enter, AddToList, Memories
  <2>4. m2 \in Memories
    BY <1>2, <2>0 DEF Enter, AddToList, Memories
  <2> HIDE DEF m2
  <2>5. /\ \A l \in Places \ {NextOf(x)} : ListOf(m2, l) = ListOf(m, l)
        /\ ListOf(m2, NextOf(x)) = v
    BY <2>3, <2>4, PlaceKinds, ListOfPlace DEF Memories
  <2>6. ListOf(m, h) = v
    BY <2>0, ListOfPlace
  <2>7. ASSUME NEW u \in Uses, m2.val[u] # None
        PROVE  Pointed(m2, u)
    <3>1. CASE u = x
      BY <2>0, <2>3, <2>5, <2>6, <3>1 DEF Pointed, Memories
    <3>2. CASE u # x /\ u = n
      BY <2>0, <2>1, <2>3, <2>5, <3>2, UsesAssumption DEF Pointed, Memories
    <3>3. CASE u # x /\ u # n
      <4>1. m2.val[u] = m.val[u] /\ m2.prev[u] = m.prev[u]
        BY <2>3, <3>3 DEF Memories
      <4>2. m.prev[u] \in Places /\ m.ptr[m.prev[u]] = u /\ ListOf(m, m.prev[u]) = m.val[u]
        BY <2>7, <4>1 DEF IsLinked, Pointed
      <4>3. m.prev[u] # h
        BY <3>3, <4>2
      <4>4. m.prev[u] # NextOf(x)
        BY <2>7, <4>1, <4>2, ListOfPlace
      <4>5. m2.ptr[m.prev[u]] = u
        BY <2>3, <4>2, <4>3, <4>4 DEF Memories
      <4>6. QED
        BY <2>5, <4>1, <4>2, <4>4, <4>5 DEF Pointed
    <3>4. QED
      BY <3>1, <3>2, <3>3
  <2>8. ASSUME NEW l \in Places, ListOf(m2, l) # None, m2.ptr[l] # None
        PROVE  Points(m2, l)
    <3>1. CASE l = h
      BY <2>0, <2>3, <2>5, <2>6, <3>1 DEF Points, Memories
    <3>2. CASE l = NextOf(x)
      <4>1. m2.ptr[l] = n /\ n \in Uses
        BY <2>0, <2>3, <2>8, <3>2 DEF Memories
      <4>2. m2.prev[n] = l /\ m2.val[n] = v
        BY <2>1, <2>2, <2>3, <3>2, <4>1, UsesAssumption DEF Memories
      <4>3. QED
        BY <2>5, <3>2, <4>1, <4>2 DEF Points
    <3>3. CASE l # h /\ l # NextOf(x)
      <4>1. m2.ptr[l] = m.ptr[l] /\ m.ptr[l] \in Uses /\ ListOf(m, l) = ListOf(m2, l)
        BY <2>3, <2>5, <2>8, <3>3 DEF Memories
      <4>2. m.prev[m.ptr[l]] = l /\ m.val[m.ptr[l]] = ListOf(m, l)
        BY <2>8, <4>1, UsesAssumption DEF IsLinked, Points
      <4>3. m.ptr[l] # x /\ m.ptr[l] # n
        BY <2>1, <2>8, <3>3, <4>1, <4>2, UsesAssumption
      <4>4. m2.prev[m.ptr[l]] = l /\ m2.val[m.ptr[l]] = m.val[m.ptr[l]]
        BY <2>3, <4>1, <4>2, <4>3 DEF Memories
      <4>5. QED
        BY <4>1, <4>2, <4>4 DEF Points
    <3>4. QED
      BY <3>1, <3>2, <3>3
  <2>9. QED
    BY <2>3, <2>4, <2>7, <2>8 DEF IsLinked, m2
<1>3. QED
  BY <1>1, <1>2
-----------------------------------------------------------------------------
(* Use::set and Use::swap of any uses leave the lists linked: the prev of  *)
(* every use that holds a value points back to it, in the list of its      *)
(* value, for any number of uses and values.                               *)
THEOREM UsesLinked == Spec => [](TypeOK /\ Linked)
<1>1. Init => TypeOK /\ Linked
  BY PlaceKinds DEF Init, NoUses, TypeOK, Memories, Linked, IsLinked
<1>2. TypeOK /\ Linked /\ [Next]_mem => TypeOK' /\ Linked'
  <2> SUFFICES ASSUME TypeOK, Linked, [Next]_mem
               PROVE  TypeOK' /\ Linked'
    OBVIOUS
  <2>1. ASSUME NEW x \in Uses, NEW v \in Values \cup {None}, SetUse(x, v)
        PROVE  TypeOK' /\ Linked'
    <3> DEFINE m1 == Leave(mem, x)
    <3>1. m1 \in Memories /\ IsLinked(m1) /\ m1.val = [mem.val EXCEPT ![x] = None]
      BY LeaveLinked DEF TypeOK, Linked
    <3> HIDE DEF m1
    <3>2. m1.val[x] = None
      BY <3>1 DEF TypeOK, Memories
    <3>3. Enter(m1, x, v) \in Memories /\ IsLinked(Enter(m1, x, v))
      BY <3>1, <3>2, EnterLinked
    <3>4. QED
      BY <2>1, <3>3 DEF SetUse, Set, TypeOK, Linked, m1
  <2>2. ASSUME NEW x \in Uses, NEW y \in Uses, SwapUses(x, y)
        PROVE  TypeOK' /\ Linked'
    <3> DEFINE v == mem.val[x]
               w == mem.val[y]
               m1 == Leave(mem, x)
               m2 == Leave(m1, y)
               m3 == Enter(m2, x, w)
    <3>1. CASE v = w
      BY <2>2, <3>1 DEF SwapUses, Swap, TypeOK, Linked
    <3>2. CASE v # w
      <4>1. x # y /\ v \in Values \cup {None} /\ w \in Values \cup {None}
        BY <3>2 DEF TypeOK, Memories
      <4>2. m1 \in Memories /\ IsLinked(m1) /\ m1.val = [mem.val EXCEPT ![x] = None]
        BY LeaveLinked DEF TypeOK, Linked
      <4> HIDE DEF m1
      <4>3. m2 \in Memories /\ IsLinked(m2) /\ m2.val = [m1.val EXCEPT ![y] = None]
        BY <4>2, LeaveLinked
      <4> HIDE DEF m2, v, w
      <4>4. m2.val[x] = None /\ m2.val[y] = None
        BY <4>1, <4>2, <4>3 DEF TypeOK, Memories
      <4>5. m3 \in Memories /\ IsLinked(m3) /\ m3.val = [m2.val EXCEPT ![x] = w]
        <5> USE DEF m3
        <5>1. w \in Values \cup {None} /\ m2 \in Memories /\ IsLinked(m2) /\ m2.val[x] = None
          BY <4>1, <4>3, <4>4
        <5>2. m3 \in Memories /\ IsLinked(m3)
          BY <5>1, EnterLinked
        <5>3. m3.val = [m2.val EXCEPT ![x] = w]
          BY <5>1, EnterLinked
        <5>4. QED
          BY <5>2, <5>3
      <4> HIDE DEF m3
      <4>6. m3.val[y] = None
        BY <4>1, <4>3, <4>4, <4>5 DEF Memories
      <4>7. Enter(m3, y, v) \in Memories /\ IsLinked(Enter(m3, y, v))
        BY <4>1, <4>5, <4>6, EnterLinked
      <4>8. QED
        BY <2>2, <3>2, <4>7 DEF SwapUses, Swap, TypeOK, Linked, v, w, m1, m2, m3
    <3>3. QED
      BY <3>1, <3>2
  <2>3. CASE UNCHANGED mem
    BY <2>3 DEF TypeOK, Linked
  <2>4. QED
    BY <2>1, <2>2, <2>3 DEF Next
<1>3. QED
  BY <1>1, <1>2, PTL DEF Spec
-----------------------------------------------------------------------------
(* Every value has a list, of any length. *)
IsExact(m) ==
  \A v \in Values : \E n \in Nat : \E s \in [1 .. n -> Uses] : Follows(m, v, s) /\ HoldsOnce(m, v, s)

(* No list is longer than there are uses. *)
LEMMA ExactLists == ASSUME IsExact(mem) PROVE ListsExact
<1> SUFFICES ASSUME NEW v \in Values
             PROVE  \E n \in 0 .. Cardinality(Uses) : \E s \in [1 .. n -> Uses] :
                      Follows(mem, v, s) /\ HoldsOnce(mem, v, s)
  BY DEF ListsExact
<1>0. PICK n \in Nat : \E s \in [1 .. n -> Uses] : Follows(mem, v, s) /\ HoldsOnce(mem, v, s)
  BY DEF IsExact
<1>1. PICK s \in [1 .. n -> Uses] : Follows(mem, v, s) /\ HoldsOnce(mem, v, s) BY <1>0
<1>2. s \in Injection(1 .. n, Uses) BY <1>1 DEF HoldsOnce, Injection, IsInjective
<1>3. Cardinality(1 .. n) = n /\ Cardinality(1 .. n) <= Cardinality(Uses)
  BY <1>2, FS_Injection, FS_Interval, UsesAssumption
<1>4. Cardinality(Uses) \in Nat BY FS_CardinalityType, UsesAssumption
<1>5. n \in 0 .. Cardinality(Uses) BY <1>3, <1>4
<1> QED BY <1>1, <1>5

(* What surrounds the k-th use of a list. *)
Between(m, v, s, k) ==
  /\ m.val[s[k]] = v
  /\ m.ptr[NextOf(s[k])] = At(s, k + 1)
  /\ m.prev[s[k]] = IF k = 1 THEN ListHead(v) ELSE NextOf(s[k - 1])

LEMMA NextInList ==
  ASSUME NEW m \in Memories, IsLinked(m), NEW v \in Values, NEW n \in Nat, NEW s \in [1 .. n -> Uses],
         Follows(m, v, s), HoldsOnce(m, v, s), NEW k \in 1 .. n
  PROVE  Between(m, v, s, k)
<1> USE DEF Between
<1>1. \A j \in 1 .. n : m.val[s[j]] = v /\ s[j] \in Uses /\ s[j] # None
  BY UsesAssumption DEF HoldsOnce
<1>2. CASE k = 1
  <2>1. m.ptr[ListHead(v)] = s[k] BY <1>2 DEF Follows, At
  <2>2. ListHead(v) \in Places /\ ListOf(m, ListHead(v)) # None
    BY PlaceKinds, ListOfPlace, UsesAssumption
  <2> QED BY <1>1, <1>2, <2>1, <2>2 DEF IsLinked, Points, Follows
<1>3. CASE k # 1
  <2>1. k - 1 \in 1 .. n /\ k - 1 + 1 = k BY <1>3
  <2>2. m.ptr[NextOf(s[k - 1])] = s[k] BY <2>1 DEF Follows, At
  <2>3. NextOf(s[k - 1]) \in Places /\ ListOf(m, NextOf(s[k - 1])) = v
    BY <1>1, <2>1, PlaceKinds, ListOfPlace
  <2> QED BY <1>1, <1>3, <2>2, <2>3, UsesAssumption DEF IsLinked, Points, Follows
<1> QED BY <1>2, <1>3

LEMMA LeaveExact ==
  ASSUME NEW m \in Memories, IsLinked(m), IsExact(m), NEW x \in Uses
  PROVE  IsExact(Leave(m, x))
<1>1. CASE m.val[x] = None BY <1>1 DEF Leave
<1>2. CASE m.val[x] # None
  <2> DEFINE p == m.prev[x]
             m2 == RemoveFromList(m, x)
  <2>1. /\ m2.val = [m.val EXCEPT ![x] = None]
        /\ m2.ptr = [m.ptr EXCEPT ![p] = m.ptr[NextOf(x)]]
    BY DEF RemoveFromList, Memories
  <2>2. p \in Places /\ m.ptr[p] = x BY <1>2 DEF IsLinked, Pointed
  <2> HIDE DEF m2
  <2> SUFFICES ASSUME NEW v \in Values
               PROVE  \E n \in Nat : \E s \in [1 .. n -> Uses] : Follows(m2, v, s) /\ HoldsOnce(m2, v, s)
    BY <1>2 DEF IsExact, Leave, m2
  <2>0. PICK n \in Nat : \E s \in [1 .. n -> Uses] : Follows(m, v, s) /\ HoldsOnce(m, v, s)
    BY DEF IsExact
  <2>3. PICK s \in [1 .. n -> Uses] : Follows(m, v, s) /\ HoldsOnce(m, v, s) BY <2>0
  <2>4. \A j \in 1 .. n : s[j] \in Uses /\ NextOf(s[j]) \in Places BY PlaceKinds
  <2>5. ListHead(v) \in Places /\ \A j \in 1 .. n : ListHead(v) # NextOf(s[j]) BY <2>4, PlaceKinds
  <2>6. CASE m.val[x] # v
    <3>1. \A j \in 1 .. n : s[j] # x BY <2>3, <2>6 DEF HoldsOnce
    <3>2. p # ListHead(v) /\ \A j \in 1 .. n : p # NextOf(s[j])
      <4>1. x # None BY UsesAssumption
      <4>2. At(s, 1) # x /\ \A j \in 1 .. n : At(s, j + 1) # x BY <3>1, <4>1 DEF At
      <4> QED BY <2>2, <2>3, <4>2 DEF Follows
    <3>3. Follows(m2, v, s) BY <2>1, <2>3, <2>4, <2>5, <3>2 DEF Follows, Memories
    <3>4. HoldsOnce(m2, v, s)
      <4>1. \A y \in Uses : m2.val[y] = v <=> m.val[y] = v
        BY <2>1, <2>6, UsesAssumption DEF Memories
      <4> QED BY <2>3, <4>1 DEF HoldsOnce
    <3> QED BY <3>3, <3>4
  <2>7. CASE m.val[x] = v
    <3>1. PICK k \in 1 .. n : s[k] = x BY <2>3, <2>7 DEF HoldsOnce
    <3> DEFINE t == [i \in 1 .. n - 1 |-> IF i < k THEN s[i] ELSE s[i + 1]]
    <3>2. n - 1 \in Nat /\ t \in [1 .. n - 1 -> Uses] OBVIOUS
    <3>3. m.ptr[NextOf(x)] = At(s, k + 1) /\ p = IF k = 1 THEN ListHead(v) ELSE NextOf(s[k - 1])
      <4>1. Follows(m, v, s) /\ HoldsOnce(m, v, s) /\ IsLinked(m) BY <2>3
      <4> HIDE DEF t
      <4>2. Between(m, v, s, k)
        BY ONLY <4>1, m \in Memories, v \in Values, n \in Nat, s \in [1 .. n -> Uses], k \in 1 .. n,
                NextInList
      <4> QED BY <3>1, <4>2 DEF Between
    <3>4. \A i \in 1 .. n, j \in 1 .. n : s[i] = s[j] => i = j BY <2>3 DEF HoldsOnce
    <3>5. At(t, k) = At(s, k + 1)
      BY <3>1 DEF At
    <3>6. \A i \in 1 .. n : i < k => At(t, i) = At(s, i) BY <3>1 DEF At
    <3>7. \A i \in 1 .. n : i > k => At(t, i) = At(s, i + 1) BY <3>1 DEF At
    <3>8. m2.ptr[ListHead(v)] = At(t, 1)
      <4>1. CASE k = 1 BY <2>1, <2>5, <3>3, <3>5, <4>1 DEF Memories
      <4>2. CASE k # 1
        <5>1. p # ListHead(v) /\ 1 < k /\ 1 \in 1 .. n
          <6>1. k - 1 \in 1 .. n /\ 1 < k BY <4>2
          <6> QED BY <2>5, <3>3, <4>2, <6>1
        <5> QED BY <2>1, <2>3, <3>6, <5>1 DEF Memories, Follows
      <4> QED BY <4>1, <4>2
    <3>9. ASSUME NEW i \in 1 .. n - 1 PROVE m2.ptr[NextOf(t[i])] = At(t, i + 1)
      <4>1. CASE i < k
        <5>1. t[i] = s[i] /\ i \in 1 .. n /\ i + 1 \in 1 .. n BY <4>1
        <5>2. CASE i = k - 1
          <6>1. p = NextOf(s[i]) /\ i + 1 = k BY <3>3, <5>2
          <6> QED BY <2>1, <2>4, <3>3, <3>5, <5>1, <6>1 DEF Memories
        <5>3. CASE i # k - 1
          <6>1. i + 1 < k BY <4>1, <5>3
          <6>2. p # NextOf(s[i])
            <7>1. k # 1 /\ k - 1 \in 1 .. n BY <6>1
            <7>2. s[k - 1] # s[i] BY <3>4, <5>1, <5>3, <7>1
            <7> QED BY <2>4, <3>3, <5>1, <7>1, <7>2, PlaceKinds
          <6>3. m.ptr[NextOf(s[i])] = At(s, i + 1) BY <2>3, <5>1 DEF Follows
          <6> QED BY <2>1, <2>4, <3>6, <5>1, <6>1, <6>2, <6>3 DEF Memories
        <5> QED BY <5>2, <5>3
      <4>2. CASE ~(i < k)
        <5>1. t[i] = s[i + 1] /\ i + 1 \in 1 .. n /\ i + 1 > k BY <4>2
        <5>2. p # NextOf(s[i + 1])
          <6>1. CASE k = 1 BY <2>5, <3>3, <5>1, <6>1
          <6>2. CASE k # 1
            <7>1. k - 1 \in 1 .. n /\ k - 1 # i + 1 BY <4>2, <6>2
            <7>2. s[k - 1] # s[i + 1] BY <3>4, <5>1, <7>1
            <7> QED BY <2>4, <3>3, <5>1, <6>2, <7>1, <7>2, PlaceKinds
          <6> QED BY <6>1, <6>2
        <5>3. m.ptr[NextOf(s[i + 1])] = At(s, i + 1 + 1) BY <2>3, <5>1 DEF Follows
        <5> QED BY <2>1, <2>4, <3>7, <5>1, <5>2, <5>3, ZenonT(30) DEF Memories
      <4> QED BY <4>1, <4>2
    <3>10. Follows(m2, v, t) BY <3>8, <3>9 DEF Follows
    <3>11. ASSUME NEW i \in 1 .. n - 1, NEW j \in 1 .. n - 1, t[i] = t[j] PROVE i = j
      <4> DEFINE f(e) == IF e < k THEN e ELSE e + 1
      <4>1. f(i) \in 1 .. n /\ f(j) \in 1 .. n /\ t[i] = s[f(i)] /\ t[j] = s[f(j)] OBVIOUS
      <4>2. f(i) = f(j) BY <3>4, <3>11, <4>1
      <4> QED BY <4>2
    <3>12. ASSUME NEW y \in Uses PROVE m2.val[y] = v <=> \E i \in 1 .. n - 1 : t[i] = y
      <4>1. m2.val[y] = v <=> y # x /\ m.val[y] = v BY <2>1, UsesAssumption DEF Memories
      <4>2. ASSUME y # x, m.val[y] = v PROVE \E i \in 1 .. n - 1 : t[i] = y
        <5>1. PICK i \in 1 .. n : s[i] = y BY <2>3, <4>2 DEF HoldsOnce
        <5>2. i # k BY <3>1, <4>2, <5>1
        <5>3. CASE i < k
          <6>1. i \in 1 .. n - 1 /\ t[i] = y BY <5>1, <5>3
          <6> QED BY <6>1
        <5>4. CASE i > k
          <6>1. i - 1 \in 1 .. n - 1 /\ t[i - 1] = y BY <5>1, <5>4
          <6> QED BY <6>1
        <5> QED BY <5>2, <5>3, <5>4
      <4>3. ASSUME NEW i \in 1 .. n - 1, t[i] = y PROVE y # x /\ m.val[y] = v
        <5>1. PICK j \in 1 .. n : j # k /\ t[i] = s[j]
          <6>1. CASE i < k BY <6>1
          <6>2. CASE ~(i < k)
            <7>1. i + 1 \in 1 .. n /\ i + 1 # k BY <6>2
            <7> QED BY <6>2, <7>1
          <6> QED BY <6>1, <6>2
        <5>2. s[j] # s[k] BY <3>4, <5>1
        <5> QED BY <2>3, <3>1, <4>3, <5>1, <5>2 DEF HoldsOnce
      <4> QED BY <4>1, <4>2, <4>3
    <3>13. HoldsOnce(m2, v, t) BY <3>11, <3>12 DEF HoldsOnce
    <3> HIDE DEF t
    <3> QED BY <3>2, <3>10, <3>13
  <2> QED BY <2>6, <2>7
<1> QED BY <1>1, <1>2

LEMMA EnterExact ==
  ASSUME NEW m \in Memories, IsLinked(m), IsExact(m), NEW x \in Uses, NEW w \in Values \cup {None},
         m.val[x] = None
  PROVE  IsExact(Enter(m, x, w))
<1>1. CASE w = None BY <1>1 DEF Enter
<1>2. CASE w # None
  <2> DEFINE h == ListHead(w)
             m2 == Enter(m, x, w)
  <2>0. w \in Values /\ h \in Places /\ NextOf(x) \in Places BY <1>2, PlaceKinds
  <2>1. /\ m2.val = [m.val EXCEPT ![x] = w]
        /\ m2.ptr = [m.ptr EXCEPT ![NextOf(x)] = m.ptr[h], ![h] = x]
    BY <1>2 DEF Enter, AddToList, Memories
  <2> HIDE DEF m2
  <2> SUFFICES ASSUME NEW v \in Values
               PROVE  \E n \in Nat : \E s \in [1 .. n -> Uses] : Follows(m2, v, s) /\ HoldsOnce(m2, v, s)
    BY DEF IsExact, m2
  <2>2. PICK n \in Nat : \E s \in [1 .. n -> Uses] : Follows(m, v, s) /\ HoldsOnce(m, v, s)
    BY DEF IsExact
  <2>3. PICK s \in [1 .. n -> Uses] : Follows(m, v, s) /\ HoldsOnce(m, v, s) BY <2>2
  <2>4. \A j \in 1 .. n : s[j] \in Uses /\ NextOf(s[j]) \in Places /\ s[j] # x
    BY <2>3, PlaceKinds, UsesAssumption DEF HoldsOnce
  <2>5. ListHead(v) \in Places /\ ListHead(v) # NextOf(x)
        /\ \A j \in 1 .. n : h # NextOf(s[j]) /\ NextOf(x) # NextOf(s[j])
    BY <2>0, <2>4, PlaceKinds
  <2>6. CASE v # w
    <3>1. h # ListHead(v) BY <2>0, <2>6, PlaceKinds
    <3>2. Follows(m2, v, s) BY <2>0, <2>1, <2>3, <2>4, <2>5, <3>1 DEF Follows, Memories
    <3>3. \A y \in Uses : m2.val[y] = v <=> m.val[y] = v
      BY <2>1, <2>6, UsesAssumption DEF Memories
    <3>4. HoldsOnce(m2, v, s) BY <2>3, <3>3 DEF HoldsOnce
    <3> QED BY <3>2, <3>4
  <2>7. CASE v = w
    <3> DEFINE t == [i \in 1 .. n + 1 |-> IF i = 1 THEN x ELSE s[i - 1]]
    <3>1. n + 1 \in Nat /\ t \in [1 .. n + 1 -> Uses] OBVIOUS
    <3>2. m2.ptr[h] = x /\ m2.ptr[NextOf(x)] = m.ptr[h] BY <2>0, <2>1, <2>5, <2>7 DEF Memories
    <3>3. At(t, 1) = x /\ \A i \in 1 .. n + 1 : At(t, i + 1) = At(s, i) BY DEF At
    <3>4. ASSUME NEW i \in 1 .. n + 1 PROVE m2.ptr[NextOf(t[i])] = At(t, i + 1)
      <4>1. CASE i = 1
        <5>1. t[i] = x /\ At(t, i + 1) = At(s, 1) BY <3>3, <4>1
        <5> QED BY <2>3, <2>7, <3>2, <5>1 DEF Follows
      <4>2. CASE i # 1
        <5>1. i - 1 \in 1 .. n /\ i - 1 + 1 = i /\ t[i] = s[i - 1] BY <4>2
        <5>2. m2.ptr[NextOf(s[i - 1])] = m.ptr[NextOf(s[i - 1])]
          BY <2>0, <2>1, <2>4, <2>5, <5>1 DEF Memories
        <5>3. m.ptr[NextOf(s[i - 1])] = At(s, i) BY <2>3, <5>1 DEF Follows
        <5> QED BY <3>3, <5>1, <5>2, <5>3
      <4> QED BY <4>1, <4>2
    <3>5. Follows(m2, v, t) BY <2>7, <3>2, <3>3, <3>4 DEF Follows
    <3>6. ASSUME NEW i \in 1 .. n + 1, NEW j \in 1 .. n + 1, t[i] = t[j] PROVE i = j
      <4>1. CASE i = 1 \/ j = 1 BY <2>4, <3>6, <4>1
      <4>2. CASE i # 1 /\ j # 1
        <5>1. i - 1 \in 1 .. n /\ j - 1 \in 1 .. n /\ s[i - 1] = s[j - 1] BY <3>6, <4>2
        <5>2. i - 1 = j - 1 BY <2>3, <5>1 DEF HoldsOnce
        <5> QED BY <5>2
      <4> QED BY <4>1, <4>2
    <3>7. ASSUME NEW y \in Uses PROVE m2.val[y] = v <=> \E i \in 1 .. n + 1 : t[i] = y
      <4>1. m2.val[y] = v <=> y = x \/ m.val[y] = v BY <2>1, <2>7 DEF Memories
      <4>2. t[1] = x /\ 1 \in 1 .. n + 1 OBVIOUS
      <4>3. ASSUME m.val[y] = v PROVE \E i \in 1 .. n + 1 : t[i] = y
        <5>1. PICK i \in 1 .. n : s[i] = y BY <2>3, <4>3 DEF HoldsOnce
        <5>2. i + 1 \in 1 .. n + 1 /\ t[i + 1] = y BY <5>1
        <5> QED BY <5>2
      <4>4. ASSUME NEW i \in 1 .. n + 1, t[i] = y, i # 1 PROVE m.val[y] = v
        <5>1. i - 1 \in 1 .. n /\ s[i - 1] = y BY <4>4
        <5> QED BY <2>3, <5>1 DEF HoldsOnce
      <4> QED BY <4>1, <4>2, <4>3, <4>4
    <3>8. HoldsOnce(m2, v, t) BY <3>6, <3>7 DEF HoldsOnce
    <3> HIDE DEF t
    <3> QED BY <3>1, <3>5, <3>8
  <2> QED BY <2>6, <2>7
<1> QED BY <1>1, <1>2

(* The list of every value holds the uses of that value, each one once,    *)
(* for any number of uses and values: nothing that is set or swapped is    *)
(* lost from a list or left in one.  (Use::set and Use::swap.)             *)
THEOREM UsesListed == Spec => []ListsExact
<1> DEFINE IInv == TypeOK /\ Linked /\ IsExact(mem)
<1>1. Init => IsExact(mem)
  <2> SUFFICES ASSUME Init, NEW v \in Values
               PROVE  \E n \in Nat : \E s \in [1 .. n -> Uses] : Follows(mem, v, s) /\ HoldsOnce(mem, v, s)
    BY DEF IsExact
  <2> DEFINE s == [i \in 1 .. 0 |-> CHOOSE x \in Uses : TRUE]
  <2>1. s \in [1 .. 0 -> Uses] /\ DOMAIN s = {} OBVIOUS
  <2> HIDE DEF s
  <2>2. Follows(mem, v, s) BY <2>1, PlaceKinds DEF Follows, At, Init, NoUses
  <2>3. HoldsOnce(mem, v, s) BY <2>1, UsesAssumption DEF HoldsOnce, Init, NoUses
  <2> QED BY <2>1, <2>2, <2>3
<1>2. Init => TypeOK /\ Linked
  BY PlaceKinds DEF Init, NoUses, TypeOK, Memories, Linked, IsLinked
<1>3. ASSUME TypeOK, Linked, IsExact(mem), [Next]_mem PROVE TypeOK' /\ Linked' /\ IsExact(mem)'
  <2>1. ASSUME NEW x \in Uses, NEW v \in Values \cup {None}, SetUse(x, v)
        PROVE  TypeOK' /\ Linked' /\ IsExact(mem)'
    <3> DEFINE m1 == Leave(mem, x)
    <3>1. m1 \in Memories /\ IsLinked(m1) /\ m1.val = [mem.val EXCEPT ![x] = None]
      BY <1>3, LeaveLinked DEF TypeOK, Linked
    <3>2. IsExact(m1) BY <1>3, LeaveExact DEF TypeOK, Linked
    <3> HIDE DEF m1
    <3>3. m1.val[x] = None BY <1>3, <3>1 DEF TypeOK, Memories
    <3>4. Enter(m1, x, v) \in Memories /\ IsLinked(Enter(m1, x, v)) /\ IsExact(Enter(m1, x, v))
      BY <3>1, <3>2, <3>3, EnterLinked, EnterExact
    <3>5. mem' = Enter(m1, x, v) BY <2>1 DEF SetUse, Set, m1
    <3> QED BY <3>4, <3>5 DEF TypeOK, Linked, IsExact
  <2>2. ASSUME NEW x \in Uses, NEW y \in Uses, SwapUses(x, y)
        PROVE  TypeOK' /\ Linked' /\ IsExact(mem)'
    <3> DEFINE v == mem.val[x]
               w == mem.val[y]
               m1 == Leave(mem, x)
               m2 == Leave(m1, y)
               m3 == Enter(m2, x, w)
    <3>1. CASE v = w BY <1>3, <2>2, <3>1 DEF SwapUses, Swap, TypeOK, Linked, IsExact
    <3>2. CASE v # w
      <4>1. x # y /\ v \in Values \cup {None} /\ w \in Values \cup {None}
        BY <1>3, <3>2 DEF TypeOK, Memories
      <4>2. m1 \in Memories /\ IsLinked(m1) /\ m1.val = [mem.val EXCEPT ![x] = None]
        BY <1>3, LeaveLinked DEF TypeOK, Linked
      <4>3. IsExact(m1) BY <1>3, LeaveExact DEF TypeOK, Linked
      <4> HIDE DEF m1
      <4>4. m2 \in Memories /\ IsLinked(m2) /\ m2.val = [m1.val EXCEPT ![y] = None]
        BY <4>2, LeaveLinked
      <4>5. IsExact(m2) BY <4>2, <4>3, LeaveExact
      <4> HIDE DEF m2, v, w
      <4>6. m2.val[x] = None /\ m2.val[y] = None
        BY <1>3, <4>1, <4>2, <4>4 DEF TypeOK, Memories
      <4>7. m3 \in Memories /\ IsLinked(m3) /\ m3.val = [m2.val EXCEPT ![x] = w]
        <5> USE DEF m3
        <5>1. w \in Values \cup {None} /\ m2 \in Memories /\ IsLinked(m2) /\ m2.val[x] = None
          BY <4>1, <4>4, <4>6
        <5> QED BY ONLY <5>1, x \in Uses, EnterLinked DEF m3
      <4>8. IsExact(m3) BY <4>1, <4>4, <4>5, <4>6, EnterExact
      <4> HIDE DEF m3
      <4>9. m3.val[y] = None BY <4>1, <4>4, <4>6, <4>7 DEF Memories
      <4>10. /\ Enter(m3, y, v) \in Memories /\ IsLinked(Enter(m3, y, v))
             /\ IsExact(Enter(m3, y, v))
        BY <4>1, <4>7, <4>8, <4>9, EnterLinked, EnterExact
      <4>11. mem' = Enter(m3, y, v) BY <2>2, <3>2 DEF SwapUses, Swap, v, w, m1, m2, m3
      <4> QED BY <4>10, <4>11 DEF TypeOK, Linked, IsExact
    <3> QED BY <3>1, <3>2
  <2>3. CASE UNCHANGED mem BY <1>3, <2>3 DEF TypeOK, Linked, IsExact
  <2> QED BY <1>3, <2>1, <2>2, <2>3 DEF Next
<1>4. IInv => ListsExact BY ExactLists
<1> QED BY <1>1, <1>2, <1>3, <1>4, PTL DEF Spec
-----------------------------------------------------------------------------
(* Waymarks: the invariant is what a walk knows: once it reads digits, the *)
(* offset is the number that was left when the digits read so far had      *)
(* still to be written.                                                    *)

(* Induction, from the fact that < is well-founded on the numbers. *)
LEMMA Least == ASSUME NEW S, S \subseteq Nat, S # {} PROVE \E n \in S : \A m \in S : n <= m
<1> DEFINE R == OpToRel(<, Nat)
<1>1. IsWellFoundedOn(R, Nat) BY NatLessThanWellFounded
<1>2. \A x \in Nat, y \in Nat : x < y => <<x, y>> \in R BY DEF OpToRel
<1> HIDE DEF R
<1>3. PICK n \in S : \A m \in S : ~(<<m, n>> \in R) BY <1>1, WFMin
<1>4. ASSUME NEW m \in S PROVE n <= m
  <2>1. m \in Nat /\ n \in Nat OBVIOUS
  <2>2. ~(m < n) BY <1>2, <1>3, <2>1
  <2> QED BY <2>1, <2>2
<1> QED BY <1>4

LEMMA Induction ==
  ASSUME NEW S, 0 \in S, \A d \in Nat : d \in S => d + 1 \in S
  PROVE  Nat \subseteq S
<1> DEFINE T == {d \in Nat : d \notin S}
<1>1. SUFFICES ASSUME T # {} PROVE FALSE OBVIOUS
<1>2. T \subseteq Nat OBVIOUS
<1> HIDE DEF T
<1>3. PICK d \in T : \A m \in T : d <= m BY <1>1, <1>2, Least
<1> USE DEF T
<1>4. d \in Nat /\ d # 0 /\ d - 1 \in Nat OBVIOUS
<1>5. d - 1 \in S BY <1>3, <1>4
<1>6. d - 1 + 1 = d BY <1>4
<1> QED BY <1>4, <1>5, <1>6
-----------------------------------------------------------------------------
(* The count is well defined: there is one such function on the numbers up *)
(* to each bound, they agree, and what they say together is Count.         *)
Counts(g, n) ==
  /\ g \in [0 .. n -> Nat] /\ g[0] = 0
  /\ \A d \in 1 .. n : g[d] = CountAfter(d, g[d - 1])

LEMMA CountAfterType == ASSUME NEW d \in Nat, NEW c \in Nat PROVE CountAfter(d, c) \in Nat
<1>1. c \div 2 \in Nat OBVIOUS
<1> QED BY <1>1 DEF CountAfter

LEMMA CountsExist == \A n \in Nat : \E g : Counts(g, n)
<1> DEFINE S == {n \in Nat : \E g : Counts(g, n)}
<1>1. 0 \in S
  <2>1. Counts([d \in 0 .. 0 |-> 0], 0) BY DEF Counts
  <2> QED BY <2>1
<1>2. ASSUME NEW n \in Nat, n \in S PROVE n + 1 \in S
  <2>1. PICK g : Counts(g, n) BY <1>2
  <2> DEFINE h == [d \in 0 .. n + 1 |-> IF d = n + 1 THEN CountAfter(d, g[n]) ELSE g[d]]
  <2>2. g[n] \in Nat BY <2>1 DEF Counts
  <2>3. CountAfter(n + 1, g[n]) \in Nat
    <3>1. n + 1 \in Nat OBVIOUS
    <3> QED BY <2>2, <3>1, CountAfterType
  <2>4. h \in [0 .. n + 1 -> Nat]
    <3>1. \A d \in 0 .. n + 1 : d # n + 1 => d \in 0 .. n OBVIOUS
    <3> QED BY <2>1, <2>3, <3>1 DEF Counts
  <2>5. h[0] = 0 BY <2>1 DEF Counts
  <2>6. ASSUME NEW d \in 1 .. n + 1 PROVE h[d] = CountAfter(d, h[d - 1])
    <3>1. d - 1 \in 0 .. n /\ d - 1 # n + 1 /\ d \in 0 .. n + 1 /\ d - 1 \in 0 .. n + 1 OBVIOUS
    <3>2. h[d - 1] = g[d - 1] BY <3>1
    <3>3. CASE d = n + 1 BY <3>2, <3>3, <3>1
    <3>4. CASE d # n + 1
      <4>1. d \in 1 .. n BY <3>4
      <4>2. h[d] = g[d] BY <3>4, <3>1
      <4> QED BY <2>1, <3>2, <4>1, <4>2 DEF Counts
    <3> QED BY <3>3, <3>4
  <2> HIDE DEF h
  <2>7. Counts(h, n + 1) BY <2>4, <2>5, <2>6 DEF Counts
  <2> QED BY <2>7
<1> HIDE DEF S
<1>3. Nat \subseteq S BY <1>1, <1>2, Induction
<1> QED BY <1>3 DEF S

LEMMA CountsAgree ==
  ASSUME NEW n \in Nat, NEW m \in Nat, n <= m, NEW g, Counts(g, n), NEW h, Counts(h, m)
  PROVE  g[n] = h[n]
<1> DEFINE S == {d \in Nat : d <= n => g[d] = h[d]}
<1>1. 0 \in S BY DEF Counts
<1>2. ASSUME NEW d \in Nat, d \in S PROVE d + 1 \in S
  <2>1. SUFFICES ASSUME d + 1 <= n PROVE g[d + 1] = h[d + 1] OBVIOUS
  <2>2. g[d] = h[d] BY <1>2, <2>1
  <2>3. d + 1 \in 1 .. n /\ d + 1 \in 1 .. m /\ d + 1 - 1 = d BY <2>1
  <2>4. g[d + 1] = CountAfter(d + 1, g[d]) BY <2>3 DEF Counts
  <2>5. h[d + 1] = CountAfter(d + 1, h[d]) BY <2>3 DEF Counts
  <2> QED BY <2>2, <2>4, <2>5
<1> HIDE DEF S
<1>3. Nat \subseteq S BY <1>1, <1>2, Induction
<1>4. n \in S BY <1>3
<1> QED BY <1>4 DEF S

LEMMA CountDef ==
  /\ Count \in [Nat -> Nat] /\ Count[0] = 0
  /\ \A d \in Nat \ {0} : Count[d] = CountAfter(d, Count[d - 1])
<1> DEFINE of(d) == CHOOSE g : Counts(g, d)
           f == [d \in Nat |-> of(d)[d]]
           Is(c) == c = [d \in Nat |-> IF d = 0 THEN 0 ELSE CountAfter(d, c[d - 1])]
<1>1. \A d \in Nat : Counts(of(d), d) BY CountsExist
<1> HIDE DEF of
<1>2. \A d \in Nat : f[d] = of(d)[d] OBVIOUS
<1>3. f \in [Nat -> Nat]
  <2>1. ASSUME NEW d \in Nat PROVE of(d)[d] \in Nat BY <1>1 DEF Counts
  <2> QED BY <2>1
<1>4. f[0] = 0 BY <1>1, <1>2 DEF Counts
<1>5. ASSUME NEW d \in Nat \ {0} PROVE f[d] = CountAfter(d, f[d - 1])
  <2>1. d \in Nat /\ d - 1 \in Nat /\ d \in 1 .. d /\ d - 1 <= d OBVIOUS
  <2>2. of(d)[d] = CountAfter(d, of(d)[d - 1]) BY <1>1, <2>1 DEF Counts
  <2>3. Counts(of(d), d) /\ Counts(of(d - 1), d - 1) BY <1>1, <2>1
  <2>4. of(d - 1)[d - 1] = of(d)[d - 1] BY <2>1, <2>3, CountsAgree
  <2>5. f[d] = of(d)[d] /\ f[d - 1] = of(d - 1)[d - 1] BY <1>2, <2>1
  <2> QED BY <2>2, <2>4, <2>5
<1> HIDE DEF f
<1>6. Is(f)
  <2> DEFINE h == [d \in Nat |-> IF d = 0 THEN 0 ELSE CountAfter(d, f[d - 1])]
  <2>1. ASSUME NEW d \in Nat PROVE f[d] = h[d] BY <1>4, <1>5
  <2>2. h = [d \in Nat |-> h[d]] OBVIOUS
  <2> HIDE DEF h
  <2>3. f = h BY <1>3, <2>1, <2>2
  <2> QED BY <2>3 DEF h
<1>7. Count = CHOOSE c : Is(c) BY DEF Count
<1>8. Is(Count) BY <1>6, <1>7
<1>9. Count[0] = 0 BY <1>8
<1>10. \A d \in Nat \ {0} : Count[d] = CountAfter(d, Count[d - 1]) BY <1>8
<1>11. ASSUME NEW d \in Nat PROVE Count[d] \in Nat
  <2> DEFINE S == {e \in Nat : Count[e] \in Nat}
  <2>1. 0 \in S BY <1>9
  <2>2. ASSUME NEW e \in Nat, e \in S PROVE e + 1 \in S
    <3>1. e + 1 \in Nat \ {0} /\ e + 1 - 1 = e OBVIOUS
    <3>2. Count[e + 1] = CountAfter(e + 1, Count[e]) BY <1>10, <3>1
    <3>3. CountAfter(e + 1, Count[e]) \in Nat BY <2>2, <3>1, CountAfterType
    <3> QED BY <3>2, <3>3
  <2> HIDE DEF S
  <2>3. Nat \subseteq S BY <2>1, <2>2, Induction
  <2> QED BY <2>3 DEF S
<1>12. Count \in [Nat -> Nat]
  <2>1. Count = [d \in Nat |-> Count[d]] BY <1>8
  <2> HIDE DEF Is
  <2> QED BY <1>11, <2>1
<1> QED BY <1>9, <1>10, <1>12
-----------------------------------------------------------------------------
(* What a tag says of the count. *)
LEMMA Halves ==
  ASSUME NEW c \in Nat, NEW d \in Nat, d = c \div 2 PROVE c = 2 * d + (c % 2)
OBVIOUS


LEMMA DigitSays ==
  ASSUME NEW d \in Nat, TagAfter(d) \in Digits
  PROVE  d > 0 /\ 2 * Count[d + 1] + TagAfter(d) = Count[d] /\ Count[d] \in Nat \ {0}
<1>1. Count[d] \in Nat /\ Count[0] = 0 BY CountDef
<1>2. Count[d] # 0 BY DEF TagAfter, Digits, Stop, FullStop
<1>3. d + 1 \in Nat \ {0} /\ d + 1 - 1 = d OBVIOUS
<1>4. Count[d + 1] = CountAfter(d + 1, Count[d]) BY <1>3, CountDef
<1>5. Count[d + 1] = Count[d] \div 2 BY <1>2, <1>4 DEF CountAfter
<1>6. TagAfter(d) = Count[d] % 2 BY <1>2 DEF TagAfter
<1>7. Count[d] \div 2 \in Nat BY <1>1
<1>8. Count[d] = 2 * Count[d + 1] + TagAfter(d) BY <1>1, <1>5, <1>6, <1>7, Halves
<1>9. d # 0 BY <1>1, <1>2
<1> QED BY <1>1, <1>2, <1>8, <1>9

LEMMA OthersSay ==
  ASSUME NEW d \in Nat, TagAfter(d) \notin Digits
  PROVE  /\ Count[d + 1] = d + 1
         /\ TagAfter(d) = IF d = 0 THEN FullStop ELSE Stop
         /\ d > 0 => d >= 2 /\ Count[d - 1] = 1
<1>1. Count[d] \in Nat /\ Count[0] = 0 BY CountDef
<1>2. Count[d] = 0
  <2>1. Count[d] # 0 => TagAfter(d) = Count[d] % 2 BY DEF TagAfter
  <2>2. Count[d] % 2 \in {0, 1} BY <1>1
  <2> QED BY <2>1, <2>2 DEF Digits
<1>3. d + 1 \in Nat \ {0} /\ d + 1 - 1 = d OBVIOUS
<1>4. Count[d + 1] = CountAfter(d + 1, Count[d]) BY <1>3, CountDef
<1>5. Count[d + 1] = d + 1 BY <1>2, <1>4 DEF CountAfter
<1>6. ASSUME d > 0 PROVE d >= 2 /\ Count[d - 1] = 1
  <2>1. d \in Nat \ {0} /\ d - 1 \in Nat BY <1>6
  <2>2. 0 = CountAfter(d, Count[d - 1]) BY <1>2, <2>1, CountDef
  <2>3. Count[d - 1] \in Nat BY <2>1, CountDef
  <2>4. Count[d - 1] # 0 /\ Count[d - 1] \div 2 = 0 BY <2>1, <2>2 DEF CountAfter
  <2>5. Count[d - 1] = 1 BY <2>3, <2>4
  <2> QED BY <1>1, <2>1, <2>5
<1> QED BY <1>2, <1>5, <1>6 DEF TagAfter
-----------------------------------------------------------------------------
(* The use at current is the last but Done. *)
Done == Len(tags) - current - 1
WalkInv ==
  /\ \E n \in 1 .. MaxLen : tags = InitTags(n)
  /\ current \in Nat /\ offset \in Nat /\ found \in BOOLEAN
  /\ found => current = Len(tags)
  /\ ~found => current < Len(tags)
  /\ ~found /\ offset # 0 => offset = Count[Done + 1]

LEMMA TagsLength ==
  ASSUME MarksAssumption, NEW n \in 1 .. MaxLen
  PROVE  Len(InitTags(n)) = n /\ \A i \in 1 .. n : InitTags(n)[i] = TagAfter(n - i)
BY DEF InitTags, MarksAssumption

LEMMA TagHere ==
  ASSUME MarksAssumption, WalkInv, ~found
  PROVE  Done \in Nat /\ Tag = TagAfter(Done) /\ Len(tags) \in Nat
<1>1. PICK n \in 1 .. MaxLen : tags = InitTags(n) BY DEF WalkInv
<1>2. n \in Nat /\ n > 0 BY DEF MarksAssumption
<1>3. Len(tags) = n BY <1>1, TagsLength
<1>4. current < n /\ current \in Nat BY <1>3 DEF WalkInv
<1>5. current + 1 \in 1 .. n /\ n - (current + 1) = n - current - 1 BY <1>2, <1>4
<1>6. tags[current + 1] = TagAfter(n - (current + 1)) BY <1>1, <1>5, TagsLength
<1> QED BY <1>2, <1>3, <1>4, <1>5, <1>6 DEF Tag, Done

LEMMA InitWalkInv == ASSUME MarksAssumption, WalkInit PROVE WalkInv
<1>1. PICK n \in 1 .. MaxLen : tags = InitTags(n) /\ current \in 0 .. n - 1 BY DEF WalkInit
<1>2. Len(tags) = n BY <1>1, TagsLength
<1>3. current \in Nat /\ current < Len(tags) BY <1>1, <1>2 DEF MarksAssumption
<1>4. offset = 0 /\ found = FALSE BY DEF WalkInit
<1> QED BY <1>1, <1>3, <1>4 DEF WalkInv

LEMMA Becomes ==
  ASSUME WalkInv, UNCHANGED tags, current' \in Nat, offset' \in Nat, found' \in BOOLEAN,
         found' => current' = Len(tags),
         ~found' => current' < Len(tags),
         ~found' /\ offset' # 0 => offset' = Count[Done' + 1]
  PROVE  WalkInv'
<1>1. \E n \in 1 .. MaxLen : tags' = InitTags(n) BY DEF WalkInv
<1> QED BY <1>1 DEF WalkInv

LEMMA SeekKeeps == ASSUME MarksAssumption, WalkInv, Seek, UNCHANGED tags PROVE WalkInv' /\ current < current'
<1>1. ~found /\ offset = 0 BY DEF Seek
<1>2. Done \in Nat /\ Tag = TagAfter(Done) /\ Len(tags) \in Nat BY <1>1, TagHere
<1>3. current \in Nat /\ current = Len(tags) - Done - 1 BY <1>2 DEF WalkInv, Done
<1>4. /\ current' = IF Tag = Stop THEN current + 2 ELSE current + 1
      /\ offset' = IF Tag = Stop THEN 1 ELSE 0
  BY DEF Seek
<1>5. found' \in BOOLEAN /\ (found' <=> Tag = FullStop) BY DEF Seek
<1>6. CASE Tag \in Digits
  <2>1. Done > 0 BY <1>2, <1>6, DigitSays
  <2>2. Tag # Stop /\ Tag # FullStop BY <1>6 DEF Digits, Stop, FullStop
  <2>3. current' = current + 1 /\ offset' = 0 BY <1>4, <2>2
  <2>4. ~found' BY <1>5, <2>2
  <2>5. current' \in Nat /\ current' < Len(tags) /\ current < current' BY <1>2, <1>3, <2>1, <2>3
  <2>6. offset' \in Nat /\ ~(offset' # 0) BY <2>3
  <2> QED BY <1>5, <2>4, <2>5, <2>6, Becomes
<1>7. CASE Tag \notin Digits /\ Done = 0
  <2>1. Tag = FullStop /\ Tag # Stop BY <1>2, <1>7, OthersSay DEF FullStop, Stop
  <2>2. current' = current + 1 /\ offset' = 0 BY <1>4, <2>1
  <2>3. found' BY <1>5, <2>1
  <2>4. current' \in Nat /\ current' = Len(tags) /\ current < current' BY <1>2, <1>3, <1>7, <2>2
  <2>5. offset' \in Nat BY <2>2
  <2> QED BY <1>5, <2>3, <2>4, <2>5, Becomes
<1>8. CASE Tag \notin Digits /\ Done # 0
  <2>1. Done > 0 BY <1>2, <1>8
  <2>2. Tag = Stop /\ Tag # FullStop /\ Done >= 2 /\ Count[Done - 1] = 1
    BY <1>2, <1>8, <2>1, OthersSay DEF FullStop, Stop
  <2>3. current' = current + 2 /\ offset' = 1 BY <1>4, <2>2
  <2>4. ~found' BY <1>5, <2>2
  <2>5. current' \in Nat /\ current' < Len(tags) /\ current < current' BY <1>2, <1>3, <2>2, <2>3
  <2>6. Done' = Len(tags) - current' - 1 BY DEF Done
  <2>7. Done' + 1 = Done - 1 BY <1>2, <1>3, <2>3, <2>6
  <2>8. offset' \in Nat /\ offset' = Count[Done' + 1] BY <2>2, <2>3, <2>7
  <2> QED BY <1>5, <2>4, <2>5, <2>8, Becomes
<1> QED BY <1>6, <1>7, <1>8

LEMMA ReadDigitKeeps ==
  ASSUME MarksAssumption, WalkInv, ReadDigit, UNCHANGED tags
  PROVE  WalkInv' /\ current < current'
<1>1. ~found /\ offset # 0 /\ Tag \in Digits BY DEF ReadDigit
<1>2. Done \in Nat /\ Tag = TagAfter(Done) /\ Len(tags) \in Nat BY <1>1, TagHere
<1>3. current \in Nat /\ current = Len(tags) - Done - 1 BY <1>2 DEF WalkInv, Done
<1>4. Done > 0 /\ 2 * Count[Done + 1] + Tag = Count[Done] /\ Count[Done] \in Nat BY <1>1, <1>2, DigitSays
<1>5. offset' = Count[Done] BY <1>1, <1>4 DEF ReadDigit, WalkInv
<1>6. current' = current + 1 /\ found' = found BY DEF ReadDigit
<1>7. current' \in Nat /\ current' < Len(tags) BY <1>2, <1>3, <1>4, <1>6
<1>8. Done' = Len(tags) - current' - 1 BY DEF Done
<1>9. Done' + 1 = Done BY <1>2, <1>3, <1>6, <1>8
<1> QED BY <1>1, <1>3, <1>4, <1>5, <1>6, <1>7, <1>9 DEF WalkInv

LEMMA ArriveKeeps ==
  ASSUME MarksAssumption, WalkInv, Arrive, UNCHANGED tags
  PROVE  WalkInv' /\ current < current'
<1>1. ~found /\ offset # 0 /\ Tag \notin Digits BY DEF Arrive
<1>2. Done \in Nat /\ Tag = TagAfter(Done) /\ Len(tags) \in Nat BY <1>1, TagHere
<1>3. current \in Nat /\ current = Len(tags) - Done - 1 BY <1>2 DEF WalkInv, Done
<1>4. offset = Done + 1 BY <1>1, <1>2, OthersSay DEF WalkInv
<1>5. current' = current + offset /\ found' = TRUE /\ offset' = offset BY DEF Arrive
<1>6. current' \in Nat /\ current' = Len(tags) /\ current < current' BY <1>2, <1>3, <1>4, <1>5
<1> QED BY <1>2, <1>4, <1>5, <1>6 DEF WalkInv

LEMMA NextKeeps == ASSUME MarksAssumption, WalkInv, WalkNext PROVE WalkInv' /\ current < current'
BY SeekKeeps, ReadDigitKeeps, ArriveKeeps DEF WalkNext

LEMMA StutterKeeps == ASSUME WalkInv, UNCHANGED walkVars PROVE WalkInv'
BY DEF WalkInv, walkVars, Done

LEMMA Invariant == ASSUME MarksAssumption PROVE WalkSpec => []WalkInv
<1>1. WalkInit => WalkInv BY InitWalkInv
<1>2. WalkInv /\ [WalkNext]_walkVars => WalkInv' BY NextKeeps, StutterKeeps
<1> QED BY <1>1, <1>2, PTL DEF WalkSpec

(* No use beyond the array is looked at, however long the array is:        *)
(* Use::getImpliedUser.                                                    *)
THEOREM WalkStaysInside == ASSUME MarksAssumption PROVE WalkSpec => []Inside
<1>1. WalkInv => Inside
  <2>1. SUFFICES ASSUME WalkInv PROVE Inside OBVIOUS
  <2>2. Len(tags) \in Nat
    <3>1. PICK n \in 1 .. MaxLen : tags = InitTags(n) BY <2>1 DEF WalkInv
    <3> QED BY <3>1, TagsLength DEF MarksAssumption
  <2> QED BY <2>1, <2>2 DEF WalkInv, Inside
<1> QED BY <1>1, Invariant, PTL

(* Where the walk is over it is at the end of the array, where the user    *)
(* is: Use::getImpliedUser from any use of any array.                      *)
THEOREM WalkEndsAtUser == ASSUME MarksAssumption PROVE WalkSpec => []EndsAtUser
<1>1. WalkInv => EndsAtUser BY DEF WalkInv, EndsAtUser
<1> QED BY <1>1, Invariant, PTL

(* Each step takes the walk nearer to the end; as it stays inside, it is   *)
(* over after at most as many steps as there are uses.                     *)
THEOREM WalkAdvances == ASSUME MarksAssumption PROVE WalkSpec => [][current < current']_walkVars
<1>1. WalkInv /\ [WalkNext]_walkVars => [current < current']_walkVars BY NextKeeps
<1> QED BY <1>1, Invariant, PTL DEF WalkSpec
-----------------------------------------------------------------------------
(***************************************************************************)
(* Phi nodes, however many of them, predecessors and edges there are.  All *)
(* phi nodes list the same blocks.  While removePredecessor goes over      *)
(* them, those that are done list the new blocks and the others the old    *)
(* ones; what each entry is, is determined throughout: it is what the      *)
(* block brought, or what that phi node has been replaced by.              *)
(***************************************************************************)
Carried == Incoming \cup Phis
OneByOne(q) == \A i, j \in 1 .. Len(q) : q[i] = q[j] => i = j
Occurs(q, v) == \E i \in 1 .. Len(q) : q[i] = v
LaterIn(s, v) == IF v \in Phis THEN s[v] ELSE v
(* The entries of a phi node for which f was brought. *)
Merged(blocks, s, f) == [i \in 1 .. Len(blocks) |-> [v |-> LaterIn(s, f[blocks[i]]), b |-> blocks[i]]]
Enters(blocks) == \E q \in Outside : Occurs(blocks, q)

(* A phi node that has been replaced, by what comes along every edge.  *)
Settled(x, s, blocks) ==
  /\ s[x] \notin Phis
  /\ \A q \in Preds : Occurs(blocks, q) => LaterIn(s, brought[x][q]) \in {Undef, s[x]}
  /\ \A q \in Outside : Occurs(blocks, q) => s[x] \in Available[q]

(* A state of removePredecessor, when the phi nodes of done are done. *)
Mid(t, done, old, new) ==
  /\ DOMAIN t = {"front", "entries", "sees"}
  /\ t.front \in Seq(Phis) /\ OneByOne(t.front)
  /\ DOMAIN t.entries = Phis
  /\ t.sees \in [Phis -> Carried]
  /\ \A x \in Phis : Occurs(t.front, x) =>
       t.entries[x] = Merged(IF x \in done THEN new ELSE old, t.sees, brought[x])
  /\ Enters(new) => \A x \in Phis :
       IF Occurs(t.front, x) THEN t.sees[x] = x ELSE Settled(x, t.sees, new)

Brought ==
  /\ brought \in [Phis -> [Preds -> Incoming]]
  /\ \A x \in Phis, p \in Preds : brought[x][p] \in Available[p]
PhiInv ==
  /\ Brought
  /\ \E blocks \in Seq(Preds) :
       edges = [p \in Preds |-> EdgesFrom(blocks, p)] /\ Mid(Now, {}, blocks, blocks)
-----------------------------------------------------------------------------
(* Induction, from the fact that < is well-founded on the numbers. *)
LEMMA LeastNumber == ASSUME NEW S, S \subseteq Nat, S # {} PROVE \E n \in S : \A m \in S : n <= m
<1> DEFINE R == OpToRel(<, Nat)
<1>1. IsWellFoundedOn(R, Nat) BY NatLessThanWellFounded
<1>2. \A x \in Nat, y \in Nat : x < y => <<x, y>> \in R BY DEF OpToRel
<1> HIDE DEF R
<1>3. PICK n \in S : \A m \in S : ~(<<m, n>> \in R) BY <1>1, WFMin
<1>4. ASSUME NEW m \in S PROVE n <= m
  <2>1. m \in Nat /\ n \in Nat OBVIOUS
  <2>2. ~(m < n) BY <1>2, <1>3, <2>1
  <2> QED BY <2>1, <2>2
<1> QED BY <1>4

LEMMA UpTo ==
  ASSUME NEW n \in Nat, NEW S, 0 \in S, \A i \in 0 .. n - 1 : i \in S => i + 1 \in S
  PROVE  \A i \in 0 .. n : i \in S
<1> DEFINE T == {i \in 0 .. n : i \notin S}
<1>1. SUFFICES ASSUME T # {} PROVE FALSE OBVIOUS
<1>2. T \subseteq Nat OBVIOUS
<1> HIDE DEF T
<1>3. PICK k \in T : \A m \in T : k <= m BY <1>1, <1>2, LeastNumber
<1> USE DEF T
<1>4. k # 0 /\ k - 1 \in 0 .. n - 1 OBVIOUS
<1>5. k - 1 \in S BY <1>3, <1>4
<1>6. k - 1 + 1 = k BY <1>4
<1> QED BY <1>4, <1>5, <1>6
-----------------------------------------------------------------------------
(* A sequence without one of its elements. *)
LEMMA Piece ==
  ASSUME NEW T, NEW q \in Seq(T), NEW a \in 1 .. Len(q) + 1, NEW b \in a - 1 .. Len(q)
  PROVE  /\ SubSeq(q, a, b) \in Seq(T) /\ Len(SubSeq(q, a, b)) = b - a + 1
         /\ \A i \in 1 .. b - a + 1 : SubSeq(q, a, b)[i] = q[a + i - 1]
<1>1. a \in Int /\ b \in Int /\ Len(q) \in Nat OBVIOUS
<1>2. \A i \in a .. b : q[i] \in T BY <1>1
<1>3. /\ SubSeq(q, a, b) \in Seq(T) /\ Len(SubSeq(q, a, b)) = IF a <= b THEN b - a + 1 ELSE 0
      /\ \A i \in 1 .. b - a + 1 : SubSeq(q, a, b)[i] = q[a + i - 1]
  BY ONLY <1>1, <1>2, SubSeqProperties
<1> QED BY <1>1, <1>3

Joins(q, a, b, T) ==
  /\ q \in Seq(T) /\ Len(q) = Len(a) + Len(b)
  /\ \A j \in 1 .. Len(a) + Len(b) : q[j] = IF j <= Len(a) THEN a[j] ELSE b[j - Len(a)]

LEMMA Joined == ASSUME NEW T, NEW a \in Seq(T), NEW b \in Seq(T) PROVE Joins(a \o b, a, b, T)
BY ConcatProperties DEF Joins

Lacks(r, q, k, T) ==
  /\ r \in Seq(T) /\ Len(r) = Len(q) - 1
  /\ \A j \in 1 .. Len(q) - 1 : r[j] = IF j < k THEN q[j] ELSE q[j + 1]

LEMMA Removed ==
  ASSUME NEW T, NEW q \in Seq(T), NEW k \in 1 .. Len(q)
  PROVE  Lacks(RemoveAt(q, k), q, k, T)
<1> DEFINE n == Len(q)
           a == SubSeq(q, 1, k - 1)
           b == SubSeq(q, k + 1, n)
           r == RemoveAt(q, k)
<1>0. n \in Nat /\ k \in 1 .. n OBVIOUS
<1>1. 1 \in 1 .. n + 1 /\ k - 1 \in 1 - 1 .. n /\ k + 1 \in 1 .. n + 1 /\ n \in k + 1 - 1 .. n
  BY <1>0
<1>2. a \in Seq(T) /\ Len(a) = k - 1 - 1 + 1 /\ \A j \in 1 .. k - 1 - 1 + 1 : a[j] = q[1 + j - 1]
  BY <1>1, Piece
<1>3. b \in Seq(T) /\ Len(b) = n - (k + 1) + 1
      /\ \A j \in 1 .. n - (k + 1) + 1 : b[j] = q[(k + 1) + j - 1]
  BY <1>1, Piece
<1>4. r = a \o b BY DEF RemoveAt
<1> HIDE DEF a, b, r, n
<1>5. /\ r \in Seq(T) /\ Len(r) = Len(a) + Len(b)
      /\ \A j \in 1 .. Len(a) + Len(b) : r[j] = IF j <= Len(a) THEN a[j] ELSE b[j - Len(a)]
  <2>1. Joins(a \o b, a, b, T) BY <1>2, <1>3, Joined
  <2> QED BY <1>4, <2>1 DEF Joins
<1>6. ASSUME NEW j \in 1 .. n - 1 PROVE r[j] = IF j < k THEN q[j] ELSE q[j + 1]
  <2>0. Len(a) = k - 1 /\ Len(b) = n - k /\ k \in Nat BY <1>0, <1>2, <1>3
  <2>3. r[j] = IF j <= k - 1 THEN a[j] ELSE b[j - (k - 1)] BY <1>0, <1>5, <2>0
  <2>1. CASE j < k
    <3>1. j \in 1 .. k - 1 - 1 + 1 /\ 1 + j - 1 = j BY <1>0, <2>0, <2>1
    <3> QED BY <1>2, <2>0, <2>1, <2>3, <3>1
  <2>2. CASE ~(j < k)
    <3>1. r[j] = b[j - (k - 1)] BY <1>0, <2>0, <2>2, <2>3
    <3>2. j - (k - 1) \in 1 .. n - (k + 1) + 1 BY <1>0, <2>2
    <3>3. b[j - (k - 1)] = q[(k + 1) + (j - (k - 1)) - 1] BY <1>3, <3>2
    <3>4. (k + 1) + (j - (k - 1)) - 1 = j + 1 BY <1>0
    <3> QED BY <2>2, <3>1, <3>3, <3>4
  <2> QED BY <2>1, <2>2
<1>7. Len(r) = n - 1 BY <1>0, <1>2, <1>3, <1>5
<1> QED BY <1>5, <1>6, <1>7 DEF Lacks, n, r

LEMMA LacksOccurs ==
  ASSUME NEW T, NEW q \in Seq(T), NEW k \in 1 .. Len(q), NEW r, Lacks(r, q, k, T), NEW v
  PROVE  /\ Occurs(r, v) => Occurs(q, v)
         /\ Occurs(q, v) /\ v # q[k] => Occurs(r, v)
<1>0. Len(q) \in Nat /\ k \in Nat OBVIOUS
<1>1. ASSUME Occurs(r, v) PROVE Occurs(q, v)
  <2>1. PICK j \in 1 .. Len(q) - 1 : r[j] = v BY <1>1 DEF Occurs, Lacks
  <2>2. r[j] = IF j < k THEN q[j] ELSE q[j + 1] BY DEF Lacks
  <2>3. j \in 1 .. Len(q) /\ j + 1 \in 1 .. Len(q) BY <1>0
  <2> QED BY <2>1, <2>2, <2>3 DEF Occurs
<1>2. ASSUME Occurs(q, v), v # q[k] PROVE Occurs(r, v)
  <2>1. PICK j \in 1 .. Len(q) : q[j] = v BY <1>2 DEF Occurs
  <2>2. j # k BY <1>2, <2>1
  <2>3. CASE j < k
    <3>1. j \in 1 .. Len(q) - 1 BY <1>0, <2>3
    <3>2. r[j] = q[j] BY <2>3, <3>1 DEF Lacks
    <3> QED BY <2>1, <3>1, <3>2 DEF Occurs, Lacks
  <2>4. CASE j > k
    <3>1. j - 1 \in 1 .. Len(q) - 1 /\ ~(j - 1 < k) /\ j - 1 + 1 = j BY <1>0, <2>4
    <3>2. r[j - 1] = q[j] BY <3>1 DEF Lacks
    <3> QED BY <2>1, <3>1, <3>2 DEF Occurs, Lacks
  <2> QED BY <1>0, <2>2, <2>3, <2>4
<1> QED BY <1>1, <1>2

LEMMA LacksOnce ==
  ASSUME NEW T, NEW q \in Seq(T), OneByOne(q), NEW k \in 1 .. Len(q), NEW r, Lacks(r, q, k, T)
  PROVE  OneByOne(r) /\ ~Occurs(r, q[k])
<1> DEFINE f(j) == IF j < k THEN j ELSE j + 1
<1>0. Len(q) \in Nat /\ k \in Nat /\ Len(r) = Len(q) - 1 BY DEF Lacks
<1>1. ASSUME NEW j \in 1 .. Len(r) PROVE f(j) \in 1 .. Len(q) /\ f(j) # k /\ r[j] = q[f(j)]
  BY <1>0 DEF Lacks
<1>2. ASSUME NEW i \in 1 .. Len(r), NEW j \in 1 .. Len(r), r[i] = r[j] PROVE i = j
  <2>1. f(i) = f(j) BY <1>1, <1>2 DEF OneByOne
  <2> QED BY <1>0, <2>1
<1>3. ASSUME NEW j \in 1 .. Len(r) PROVE r[j] # q[k]
  BY <1>1 DEF OneByOne
<1> QED BY <1>2, <1>3 DEF OneByOne, Occurs
-----------------------------------------------------------------------------
(* The index of the first entry for p is the same in all phi nodes. *)
FirstOf(blocks, p) == CHOOSE i \in {j \in 1 .. Len(blocks) : blocks[j] = p} :
                        \A j \in {k \in 1 .. Len(blocks) : blocks[k] = p} : i <= j

LEMMA FirstFound ==
  ASSUME NEW blocks \in Seq(Preds), NEW p, Occurs(blocks, p)
  PROVE  FirstOf(blocks, p) \in 1 .. Len(blocks) /\ blocks[FirstOf(blocks, p)] = p
<1> DEFINE I == {j \in 1 .. Len(blocks) : blocks[j] = p}
<1>1. I \subseteq Nat /\ I # {} BY DEF Occurs
<1>2. \E i \in I : \A j \in I : i <= j BY <1>1, LeastNumber
<1>3. FirstOf(blocks, p) \in I BY <1>2 DEF FirstOf
<1> QED BY <1>3

Lists(e, blocks, s, f) ==
  /\ e \in Seq(Range(e)) /\ Len(e) = Len(blocks) /\ DOMAIN e = 1 .. Len(blocks)
  /\ \A i \in 1 .. Len(blocks) :
       /\ e[i] = [v |-> LaterIn(s, f[blocks[i]]), b |-> blocks[i]]
       /\ e[i].v = LaterIn(s, f[blocks[i]]) /\ e[i].b = blocks[i]

LEMMA MergedShape ==
  ASSUME NEW blocks \in Seq(Preds), NEW s, NEW f
  PROVE  Lists(Merged(blocks, s, f), blocks, s, f)
<1> DEFINE e == Merged(blocks, s, f)
<1>1. Len(blocks) \in Nat OBVIOUS
<1>2. DOMAIN e = 1 .. Len(blocks) BY DEF Merged
<1>3. \A i \in 1 .. Len(blocks) : e[i] = [v |-> LaterIn(s, f[blocks[i]]), b |-> blocks[i]] BY DEF Merged
<1>4. e = [i \in 1 .. Len(blocks) |-> e[i]] BY DEF Merged
<1> HIDE DEF e
<1>5. e \in [1 .. Len(blocks) -> Range(e)] BY <1>2, <1>4 DEF Range
<1>6. e \in Seq(Range(e)) BY <1>1, <1>5
<1>7. Len(e) = Len(blocks) BY <1>1, <1>2, <1>6
<1>8. Lists(e, blocks, s, f) BY <1>2, <1>3, <1>6, <1>7 DEF Lists
<1> QED BY <1>8 DEF e

LEMMA IndexIsFirst ==
  ASSUME NEW blocks \in Seq(Preds), NEW p, Occurs(blocks, p), NEW s, NEW f
  PROVE  GetBasicBlockIndex(Merged(blocks, s, f), p) = FirstOf(blocks, p)
<1> DEFINE e == Merged(blocks, s, f)
           I == {j \in 1 .. Len(blocks) : blocks[j] = p}
<1>1. Len(e) = Len(blocks) /\ \A i \in 1 .. Len(blocks) : e[i].b = blocks[i]
  <2>1. Lists(e, blocks, s, f) BY MergedShape
  <2> HIDE DEF e
  <2> QED BY <2>1 DEF Lists
<1> HIDE DEF e
<1>2. {i \in 1 .. Len(e) : e[i].b = p} = I BY <1>1
<1>3. I # {} BY DEF Occurs
<1>4. GetBasicBlockIndex(e, p) = Min(I) BY <1>2, <1>3 DEF GetBasicBlockIndex, SelectInSeq
<1>5. Min(I) = FirstOf(blocks, p) BY DEF Min, FirstOf
<1> QED BY <1>4, <1>5 DEF e

(* An entry goes from all phi nodes as its block goes from the list. *)
LEMMA MergedRemoved ==
  ASSUME NEW blocks \in Seq(Preds), NEW k \in 1 .. Len(blocks), NEW s, NEW f
  PROVE  RemoveAt(Merged(blocks, s, f), k) = Merged(RemoveAt(blocks, k), s, f)
<1> DEFINE e == Merged(blocks, s, f)
           T == Range(e)
           r == RemoveAt(e, k)
           new == RemoveAt(blocks, k)
           g == Merged(new, s, f)
<1>0. Len(blocks) \in Nat OBVIOUS
<1>1. /\ e \in Seq(T) /\ Len(e) = Len(blocks)
      /\ \A i \in 1 .. Len(blocks) : e[i] = [v |-> LaterIn(s, f[blocks[i]]), b |-> blocks[i]]
  BY MergedShape DEF Lists
<1> HIDE DEF e, T
<1>2. Lacks(r, e, k, T) BY <1>1, Removed
<1>3. Lacks(new, blocks, k, Preds) BY Removed
<1> HIDE DEF r, new
<1>4. /\ g \in Seq(Range(g)) /\ Len(g) = Len(new)
      /\ \A i \in 1 .. Len(new) : g[i] = [v |-> LaterIn(s, f[new[i]]), b |-> new[i]]
  <2>1. new \in Seq(Preds) BY <1>3 DEF Lacks
  <2> QED BY <2>1, MergedShape DEF Lists
<1> HIDE DEF g
<1>5. Len(r) = Len(blocks) - 1 /\ Len(new) = Len(blocks) - 1 BY <1>1, <1>2, <1>3 DEF Lacks
<1>6. ASSUME NEW i \in 1 .. Len(blocks) - 1 PROVE r[i] = g[i]
  <2>1. r[i] = IF i < k THEN e[i] ELSE e[i + 1] BY <1>1, <1>2 DEF Lacks
  <2>2. new[i] = IF i < k THEN blocks[i] ELSE blocks[i + 1] BY <1>3 DEF Lacks
  <2>3. i \in 1 .. Len(blocks) /\ i + 1 \in 1 .. Len(blocks) BY <1>0
  <2>4. g[i] = [v |-> LaterIn(s, f[new[i]]), b |-> new[i]] BY <1>4, <1>5
  <2>5. CASE i < k BY <1>1, <2>1, <2>2, <2>3, <2>4, <2>5
  <2>6. CASE ~(i < k) BY <1>1, <2>1, <2>2, <2>3, <2>4, <2>6
  <2> QED BY <2>5, <2>6
<1>7. r = g
  <2>1. r \in Seq(T) BY <1>2 DEF Lacks
  <2>2. DOMAIN r = 1 .. Len(blocks) - 1 /\ DOMAIN g = 1 .. Len(blocks) - 1 BY <1>4, <1>5, <2>1
  <2>3. r = [i \in 1 .. Len(blocks) - 1 |-> r[i]] BY <2>1, <2>2
  <2>4. g = [i \in 1 .. Len(blocks) - 1 |-> g[i]] BY <1>4, <2>2
  <2> QED BY <1>6, <2>3, <2>4
<1> QED BY <1>7 DEF r, g, e, new

LEMMA EdgesType ==
  ASSUME NEW blocks \in Seq(Preds), NEW p
  PROVE  /\ IsFiniteSet({i \in DOMAIN blocks : blocks[i] = p})
         /\ EdgesFrom(blocks, p) \in Nat /\ (EdgesFrom(blocks, p) > 0 <=> Occurs(blocks, p))
<1> DEFINE I == {i \in DOMAIN blocks : blocks[i] = p}
<1>1. DOMAIN blocks = 1 .. Len(blocks) /\ Len(blocks) \in Nat OBVIOUS
<1>2. IsFiniteSet(1 .. Len(blocks)) BY <1>1, FS_Interval
<1>3. I \in SUBSET (1 .. Len(blocks)) BY <1>1
<1>4. IsFiniteSet(I) BY <1>2, <1>3, FS_Subset
<1>5. Occurs(blocks, p) <=> I # {} BY <1>1 DEF Occurs
<1> HIDE DEF I
<1>6. Cardinality(I) \in Nat /\ (Cardinality(I) = 0 <=> I = {}) BY <1>4, FS_CardinalityType, FS_EmptySet
<1>7. EdgesFrom(blocks, p) = Cardinality(I) BY DEF EdgesFrom, I
<1> QED BY <1>4, <1>5, <1>6, <1>7 DEF I

LEMMA EdgesRemoved ==
  ASSUME NEW blocks \in Seq(Preds), NEW k \in 1 .. Len(blocks), NEW q
  PROVE  EdgesFrom(RemoveAt(blocks, k), q) =
           IF q = blocks[k] THEN EdgesFrom(blocks, q) - 1 ELSE EdgesFrom(blocks, q)
<1> DEFINE new == RemoveAt(blocks, k)
           n == Len(blocks)
           I == {i \in DOMAIN blocks : blocks[i] = q}
           J == {i \in DOMAIN new : new[i] = q}
           h == [j \in J |-> IF j < k THEN j ELSE j + 1]
<1>1. Lacks(new, blocks, k, Preds) BY Removed
<1>2. n \in Nat /\ k \in 1 .. n /\ DOMAIN blocks = 1 .. n OBVIOUS
<1>3. DOMAIN new = 1 .. n - 1 /\ new \in Seq(Preds) BY <1>1 DEF Lacks
<1>4. \A j \in 1 .. n - 1 : new[j] = IF j < k THEN blocks[j] ELSE blocks[j + 1] BY <1>1 DEF Lacks
<1>5. IsFiniteSet(J) /\ IsFiniteSet(I) BY <1>3, EdgesType
<1> HIDE DEF new, n
<1>6. h \in [J -> I \ {k}]
  <2> SUFFICES ASSUME NEW j \in J PROVE h[j] \in I \ {k} OBVIOUS
  <2>1. j \in 1 .. n - 1 /\ new[j] = q BY <1>3
  <2>2. CASE j < k
    <3>1. j \in 1 .. n /\ blocks[j] = q /\ j # k BY <1>2, <1>4, <2>1, <2>2
    <3> QED BY <1>2, <2>2, <3>1
  <2>3. CASE ~(j < k)
    <3>1. j + 1 \in 1 .. n /\ blocks[j + 1] = q /\ j + 1 # k BY <1>2, <1>4, <2>1, <2>3
    <3> QED BY <1>2, <2>3, <3>1
  <2> QED BY <2>2, <2>3
<1>7. \A i, j \in J : h[i] = h[j] => i = j
  <2> SUFFICES ASSUME NEW i \in J, NEW j \in J, h[i] = h[j] PROVE i = j OBVIOUS
  <2>1. i \in 1 .. n - 1 /\ j \in 1 .. n - 1 BY <1>3
  <2>2. h[i] = (IF i < k THEN i ELSE i + 1) /\ h[j] = (IF j < k THEN j ELSE j + 1) OBVIOUS
  <2> QED BY <1>2, <2>1, <2>2
<1>8. \A i \in I \ {k} : \E j \in J : h[j] = i
  <2> SUFFICES ASSUME NEW i \in I \ {k} PROVE \E j \in J : h[j] = i OBVIOUS
  <2>1. i \in 1 .. n /\ blocks[i] = q /\ i # k BY <1>2
  <2>2. CASE i < k
    <3>1. i \in 1 .. n - 1 /\ new[i] = q BY <1>2, <1>4, <2>1, <2>2
    <3>2. i \in J BY <1>3, <3>1
    <3> QED BY <2>2, <3>2
  <2>3. CASE i > k
    <3>1. i - 1 \in 1 .. n - 1 /\ ~(i - 1 < k) /\ i - 1 + 1 = i BY <1>2, <2>1, <2>3
    <3>2. new[i - 1] = q BY <1>4, <2>1, <3>1
    <3>3. i - 1 \in J BY <1>3, <3>1, <3>2
    <3> QED BY <3>1, <3>3
  <2> QED BY <1>2, <2>1, <2>2, <2>3
<1> HIDE DEF h, I, J
<1>9. ExistsBijection(J, I \ {k})
  BY <1>6, <1>7, <1>8 DEF ExistsBijection, Bijection, Injection, Surjection, IsInjective
<1>10. Cardinality(I \ {k}) = Cardinality(J) BY <1>5, <1>9, FS_Bijection
<1>11. Cardinality(I \ {k}) = IF k \in I THEN Cardinality(I) - 1 ELSE Cardinality(I)
  BY <1>5, FS_RemoveElement
<1>12. k \in I <=> q = blocks[k] BY <1>2 DEF I
<1>13. EdgesFrom(new, q) = Cardinality(J) /\ EdgesFrom(blocks, q) = Cardinality(I) BY DEF EdgesFrom, I, J
<1> QED BY <1>10, <1>11, <1>12, <1>13 DEF new
-----------------------------------------------------------------------------
(* A phi node is replaced by a value and erased. *)
Gone(u, r, x, v) ==
  /\ DOMAIN r = {"front", "entries", "sees"}
  /\ r.front = RemoveAt(u.front, CHOOSE i \in DOMAIN u.front : u.front[i] = x)
  /\ r.sees = [y \in Phis |-> IF u.sees[y] = x THEN v ELSE u.sees[y]]
  /\ DOMAIN r.entries = Phis
  /\ \A y \in Phis : y # x =>
       r.entries[y] = [i \in DOMAIN u.entries[y] |->
                         IF u.entries[y][i].v = x THEN [u.entries[y][i] EXCEPT !.v = v] ELSE u.entries[y][i]]

LEMMA GoneShape ==
  ASSUME NEW u, DOMAIN u = {"front", "entries", "sees"}, NEW x \in Phis, NEW v
  PROVE  Gone(u, EraseFromParent(ReplaceAllUsesWith(u, x, v), x), x, v)
<1> DEFINE a == ReplaceAllUsesWith(u, x, v)
           r == EraseFromParent(a, x)
           E == [y \in Phis |-> [i \in DOMAIN u.entries[y] |->
                  IF u.entries[y][i].v = x THEN [u.entries[y][i] EXCEPT !.v = v] ELSE u.entries[y][i]]]
           S == [y \in Phis |-> IF u.sees[y] = x THEN v ELSE u.sees[y]]
<1>0. DOMAIN E = Phis OBVIOUS
<1>1. a = [u EXCEPT !.sees = S, !.entries = E] BY DEF ReplaceAllUsesWith
<1>5. \A y \in Phis : E[y] = [i \in DOMAIN u.entries[y] |->
                  IF u.entries[y][i].v = x THEN [u.entries[y][i] EXCEPT !.v = v] ELSE u.entries[y][i]]
  OBVIOUS
<1> HIDE DEF a, E
<1>2. DOMAIN a = {"front", "entries", "sees"} /\ a.front = u.front /\ a.sees = S /\ a.entries = E BY <1>1
<1>3. /\ DOMAIN r = DOMAIN a /\ r.sees = a.sees /\ r.entries = [a.entries EXCEPT ![x] = << >>]
      /\ r.front = RemoveAt(a.front, CHOOSE i \in DOMAIN a.front : a.front[i] = x)
  BY <1>2 DEF EraseFromParent
<1> HIDE DEF r
<1>4. DOMAIN r.entries = Phis /\ \A y \in Phis : y # x => r.entries[y] = E[y] BY <1>0, <1>2, <1>3
<1>6. r.sees = [y \in Phis |-> IF u.sees[y] = x THEN v ELSE u.sees[y]] BY <1>2, <1>3
<1> HIDE DEF S
<1> QED BY <1>2, <1>3, <1>4, <1>5, <1>6 DEF Gone, r, a

(* What may replace a phi node: if the block is still entered, a value     *)
(* that comes along every edge, or nothing in particular does.             *)
Fits(v, x, s, new) ==
  /\ v \notin Phis
  /\ \A q \in Preds : Occurs(new, q) => LaterIn(s, brought[x][q]) \in {v, x, Undef}
  /\ \A q \in Outside : Occurs(new, q) => v \in Available[q]

(* u is t, but for the entries of x. *)
But(t, u, x) ==
  /\ DOMAIN u = {"front", "entries", "sees"} /\ u.front = t.front /\ u.sees = t.sees
  /\ DOMAIN u.entries = Phis /\ \A y \in Phis : y # x => u.entries[y] = t.entries[y]

FrontLoses(t, r, x) == \A y \in Phis : Occurs(r.front, y) <=> Occurs(t.front, y) /\ y # x

LEMMA FrontShrinks ==
  ASSUME NEW q \in Seq(Phis), OneByOne(q), NEW x \in Phis, Occurs(q, x),
         NEW r, r = RemoveAt(q, CHOOSE i \in DOMAIN q : q[i] = x)
  PROVE  r \in Seq(Phis) /\ OneByOne(r) /\ \A y \in Phis : Occurs(r, y) <=> Occurs(q, y) /\ y # x
<1> DEFINE k == CHOOSE i \in DOMAIN q : q[i] = x
<1>1. DOMAIN q = 1 .. Len(q) OBVIOUS
<1>2. k \in 1 .. Len(q) /\ q[k] = x BY <1>1 DEF Occurs
<1> HIDE DEF k
<1>3. Lacks(r, q, k, Phis) BY <1>2, Removed DEF k
<1>4. OneByOne(r) /\ ~Occurs(r, q[k]) BY ONLY <1>2, <1>3, q \in Seq(Phis), OneByOne(q), LacksOnce
<1>5. ASSUME NEW y \in Phis PROVE Occurs(r, y) <=> Occurs(q, y) /\ y # x
  <2>1. (Occurs(r, y) => Occurs(q, y)) /\ (Occurs(q, y) /\ y # q[k] => Occurs(r, y))
    BY ONLY <1>2, <1>3, q \in Seq(Phis), LacksOccurs
  <2> QED BY <1>2, <1>4, <2>1
<1>6. r \in Seq(Phis) BY <1>3 DEF Lacks
<1> QED BY <1>4, <1>5, <1>6

LEMMA Replaced ==
  ASSUME PhisAssumption, Brought, NEW old \in Seq(Preds), NEW new \in Seq(Preds), NEW done, NEW t, Mid(t, done, old, new),
         NEW x \in Phis, Occurs(t.front, x), NEW u, But(t, u, x), NEW v \in Carried,
         Enters(new) => Fits(v, x, t.sees, new),
         NEW r, r = EraseFromParent(ReplaceAllUsesWith(u, x, v), x)
  PROVE  Mid(r, done \cup {x}, old, new) /\ FrontLoses(t, r, x)
<1>1. Gone(u, r, x, v) BY GoneShape DEF But
<1>2. t.front \in Seq(Phis) /\ OneByOne(t.front) /\ t.sees \in [Phis -> Carried] BY DEF Mid
<1>3. r.front \in Seq(Phis) /\ OneByOne(r.front) /\ FrontLoses(t, r, x)
  <2>1. r.front = RemoveAt(t.front, CHOOSE i \in DOMAIN t.front : t.front[i] = x) BY <1>1 DEF Gone, But
  <2> QED BY <1>2, <2>1, FrontShrinks DEF FrontLoses
<1>4. r.sees \in [Phis -> Carried] /\ \A y \in Phis : r.sees[y] = IF t.sees[y] = x THEN v ELSE t.sees[y]
  BY <1>1, <1>2 DEF Gone, But
<1>5. \A w : LaterIn(r.sees, w) = IF LaterIn(t.sees, w) = x THEN v ELSE LaterIn(t.sees, w)
  BY <1>4 DEF LaterIn
<1>6. ASSUME NEW y \in Phis, Occurs(r.front, y)
      PROVE  r.entries[y] = Merged(IF y \in done \cup {x} THEN new ELSE old, r.sees, brought[y])
  <2> DEFINE bl == IF y \in done THEN new ELSE old
             e == u.entries[y]
             f == brought[y]
  <2>1. y # x /\ Occurs(t.front, y) BY <1>3, <1>6 DEF FrontLoses
  <2>2. e = Merged(bl, t.sees, f) BY <2>1 DEF Mid, But
  <2>3. bl \in Seq(Preds) OBVIOUS
  <2>4. (IF y \in done \cup {x} THEN new ELSE old) = bl BY <2>1
  <2>5. r.entries[y] = [i \in DOMAIN e |-> IF e[i].v = x THEN [e[i] EXCEPT !.v = v] ELSE e[i]]
    BY <1>1, <2>1 DEF Gone
  <2> HIDE DEF bl, e, f
  <2>6. Lists(e, bl, t.sees, f) BY <2>2, <2>3, MergedShape
  <2>7. ASSUME NEW i \in 1 .. Len(bl)
        PROVE  (IF e[i].v = x THEN [e[i] EXCEPT !.v = v] ELSE e[i])
                 = [v |-> LaterIn(r.sees, f[bl[i]]), b |-> bl[i]]
    <3>1. e[i] = [v |-> LaterIn(t.sees, f[bl[i]]), b |-> bl[i]] BY <2>6 DEF Lists
    <3>2. CASE LaterIn(t.sees, f[bl[i]]) = x
      <4>1. LaterIn(r.sees, f[bl[i]]) = v BY <1>5, <3>2
      <4>2. [e[i] EXCEPT !.v = v] = [v |-> v, b |-> bl[i]] BY <3>1
      <4>3. e[i].v = x BY <3>1, <3>2
      <4> QED BY <4>1, <4>2, <4>3
    <3>3. CASE LaterIn(t.sees, f[bl[i]]) # x
      <4>1. LaterIn(r.sees, f[bl[i]]) = LaterIn(t.sees, f[bl[i]]) BY <1>5, <3>3
      <4>2. e[i].v # x BY <3>1, <3>3
      <4> QED BY <3>1, <4>1, <4>2
    <3> QED BY <3>2, <3>3
  <2>8. DOMAIN e = 1 .. Len(bl) BY <2>6 DEF Lists
  <2>9. r.entries[y] = Merged(bl, r.sees, f) BY <2>5, <2>7, <2>8 DEF Merged
  <2> QED BY <2>4, <2>9 DEF f
<1>7. ASSUME Enters(new), NEW y \in Phis
      PROVE  IF Occurs(r.front, y) THEN r.sees[y] = y ELSE Settled(y, r.sees, new)
  <2>0. Fits(v, x, t.sees, new) /\ Undef \notin Phis BY <1>7 DEF PhisAssumption
  <2>1. CASE y = x
    <3>1. t.sees[x] = x BY <1>7 DEF Mid
    <3>2. r.sees[x] = v /\ ~Occurs(r.front, x) BY <1>3, <1>4, <3>1 DEF FrontLoses
    <3>3. ASSUME NEW q \in Preds, Occurs(new, q) PROVE LaterIn(r.sees, brought[x][q]) \in {Undef, v}
      <4>1. LaterIn(t.sees, brought[x][q]) \in {v, x, Undef} BY <2>0, <3>3 DEF Fits
      <4> QED BY <1>5, <4>1
    <3>4. Settled(x, r.sees, new) BY <2>0, <3>2, <3>3 DEF Settled, Fits
    <3> QED BY <2>1, <3>2, <3>4
  <2>2. CASE y # x /\ Occurs(t.front, y)
    <3>1. t.sees[y] = y BY <1>7, <2>2 DEF Mid
    <3> QED BY <1>3, <1>4, <2>2, <3>1 DEF FrontLoses
  <2>3. CASE y # x /\ ~Occurs(t.front, y)
    <3>1. Settled(y, t.sees, new) BY <1>7, <2>3 DEF Mid
    <3>2. r.sees[y] = t.sees[y] BY <1>4, <3>1 DEF Settled
    <3>3. ASSUME NEW q \in Preds, Occurs(new, q) PROVE LaterIn(r.sees, brought[y][q]) \in {Undef, r.sees[y]}
      <4>1. LaterIn(t.sees, brought[y][q]) \in {Undef, t.sees[y]} /\ t.sees[y] \notin Phis
        BY <3>1, <3>3 DEF Settled
      <4> QED BY <1>5, <2>0, <3>2, <4>1
    <3>4. Settled(y, r.sees, new) BY <3>1, <3>2, <3>3 DEF Settled
    <3>5. ~Occurs(r.front, y) BY <1>3, <2>3 DEF FrontLoses
    <3> QED BY <3>4, <3>5
  <2> QED BY <2>1, <2>2, <2>3
<1>8. DOMAIN r = {"front", "entries", "sees"} /\ DOMAIN r.entries = Phis BY <1>1 DEF Gone
<1>9. Mid(r, done \cup {x}, old, new) BY ONLY <1>3, <1>4, <1>6, <1>7, <1>8 DEF Mid
<1> QED BY <1>3, <1>9
-----------------------------------------------------------------------------
(* What hasConstantValue finds fits. *)
LEMMA BroughtLater ==
  ASSUME PhisAssumption, Brought, NEW s \in [Phis -> Carried], NEW x \in Phis, NEW q \in Preds
  PROVE  /\ LaterIn(s, brought[x][q]) \in Carried
         /\ q \in Outside =>
              /\ LaterIn(s, brought[x][q]) = brought[x][q] /\ brought[x][q] \notin Phis
              /\ brought[x][q] \in Available[q]
<1>1. brought[x][q] \in Incoming /\ brought[x][q] \in Available[q] BY DEF Brought
<1>2. LaterIn(s, brought[x][q]) \in Carried BY <1>1 DEF LaterIn, Carried
<1>3. ASSUME q \in Outside PROVE brought[x][q] \notin Phis BY <1>1, <1>3 DEF PhisAssumption
<1> QED BY <1>1, <1>2, <1>3 DEF LaterIn

LEMMA UndefType == ASSUME PhisAssumption PROVE Undef \in Incoming /\ Undef \in Carried /\ NoValue \notin Carried
<1>1. Self \in Preds BY DEF PhisAssumption, Preds
<1>2. Undef \in Available[Self] BY <1>1 DEF PhisAssumption
<1>3. Undef \in Incoming BY <1>1, <1>2 DEF Incoming
<1> QED BY <1>3 DEF Carried, PhisAssumption

LEMMA ConstantFits ==
  ASSUME PhisAssumption, Brought, NEW new \in Seq(Preds), NEW s \in [Phis -> Carried], NEW x \in Phis,
         NEW v, v = HasConstantValue(Merged(new, s, brought[x]), x), v # NoValue
  PROVE  v \in Carried /\ (Enters(new) => Fits(v, x, s, new))
<1> DEFINE e == Merged(new, s, brought[x])
           values == {e[i].v : i \in DOMAIN e}
           others == values \ {x, Undef}
           value == CHOOSE w \in others : TRUE
<1>1. Lists(e, new, s, brought[x]) BY MergedShape
<1>2. v = HasConstantValue(e, x) OBVIOUS
<1> HIDE DEF e
<1>3. v = IF others = {} THEN Undef
          ELSE IF \E w, z \in others : w # z THEN NoValue
          ELSE IF Len(e) > 1 /\ Undef \in values /\ value \in Insts \cup Phis THEN NoValue
          ELSE value
  BY <1>2 DEF HasConstantValue
<1>4. Len(e) = Len(new) /\ Len(new) \in Nat /\ DOMAIN e = 1 .. Len(new) BY <1>1 DEF Lists
<1>5. \A i \in 1 .. Len(new) : e[i].v = LaterIn(s, brought[x][new[i]]) /\ new[i] \in Preds BY <1>1 DEF Lists
<1>6. \A i \in 1 .. Len(new) : e[i].v \in values BY <1>4
<1>7. \A q \in Preds : Occurs(new, q) => LaterIn(s, brought[x][q]) \in values BY <1>5, <1>6 DEF Occurs
<1>8. values \subseteq Carried BY <1>4, <1>5, BroughtLater
<1>9. x \in Phis /\ Undef \notin Phis /\ Undef \in Carried BY UndefType DEF PhisAssumption
<1>12. \A w, z \in values : w # z => Len(e) > 1
  <2> SUFFICES ASSUME NEW i \in 1 .. Len(new), NEW j \in 1 .. Len(new), e[i].v # e[j].v PROVE Len(e) > 1
    BY <1>4
  <2>1. i # j OBVIOUS
  <2> QED BY <1>4, <2>1
<1> HIDE DEF values
<1>10. CASE others = {}
  <2>1. v = Undef BY <1>3, <1>10
  <2>2. \A w \in values : w \in {v, x, Undef} BY <1>10
  <2>3. \A q \in Outside : Undef \in Available[q] BY DEF PhisAssumption, Preds
  <2> QED BY <1>7, <1>9, <2>1, <2>2, <2>3 DEF Fits
<1>11. CASE others # {}
  <2>1. v = value /\ ~(\E w, z \in others : w # z)
        /\ ~(Len(e) > 1 /\ Undef \in values /\ value \in Insts \cup Phis)
    BY <1>3, <1>11
  <2>2. value \in others BY <1>11
  <2> HIDE DEF value
  <2>3. \A w \in values : w \in {v, x, Undef} BY <2>1, <2>2
  <2>4. v \in Carried /\ v \in values /\ v # x /\ v # Undef BY <1>8, <2>1, <2>2
  <2>5. Undef \in values => v \notin Insts \cup Phis BY <1>12, <2>1, <2>4
  <2>6. ASSUME Enters(new) PROVE Fits(v, x, s, new)
    <3>1. ASSUME NEW q \in Outside, Occurs(new, q)
          PROVE  q \in Preds /\ brought[x][q] \in Available[q] /\ brought[x][q] \notin Phis
                 /\ (brought[x][q] = v \/ (brought[x][q] = Undef /\ Undef \in values))
      <4>1. q \in Preds BY DEF Preds
      <4>2. LaterIn(s, brought[x][q]) \in values BY <1>7, <3>1, <4>1
      <4>3. brought[x][q] \in values /\ brought[x][q] \notin Phis /\ brought[x][q] \in Available[q]
        BY <4>1, <4>2, BroughtLater
      <4> QED BY <2>3, <4>1, <4>3
    <3>2. v \notin Phis
      <4>1. PICK q \in Outside : Occurs(new, q) BY <2>6 DEF Enters
      <4> QED BY <2>5, <3>1, <4>1
    <3>3. ASSUME NEW q \in Outside, Occurs(new, q) PROVE v \in Available[q]
      <4>1. CASE brought[x][q] = v BY <3>1, <3>3, <4>1
      <4>2. CASE Undef \in values
        <5>1. v \in Incoming \ (Insts \cup Phis) BY <2>4, <2>5, <4>2 DEF Carried
        <5> QED BY <5>1 DEF PhisAssumption
      <4> QED BY <3>1, <3>3, <4>1, <4>2
    <3>4. \A q \in Preds : Occurs(new, q) => LaterIn(s, brought[x][q]) \in {v, x, Undef} BY <1>7, <2>3
    <3> QED BY <3>2, <3>3, <3>4 DEF Fits
  <2> QED BY <2>4, <2>6
<1> QED BY <1>10, <1>11
-----------------------------------------------------------------------------
(* One phi node is done. *)
Does(t, r, x, done, old, new) ==
  /\ Mid(r, done \cup {x}, old, new)
  /\ \A y \in Phis : Occurs(r.front, y) => Occurs(t.front, y)
  /\ \A y \in Phis : Occurs(t.front, y) /\ y # x => Occurs(r.front, y)

Leaves(old, new, p) ==
  /\ old \in Seq(Preds) /\ Occurs(old, p) /\ new = RemoveAt(old, FirstOf(old, p))

LEMMA LeavesShape ==
  ASSUME NEW old, NEW new, NEW p, Leaves(old, new, p)
  PROVE  /\ Lacks(new, old, FirstOf(old, p), Preds) /\ new \in Seq(Preds) /\ Len(new) = Len(old) - 1
         /\ FirstOf(old, p) \in 1 .. Len(old) /\ old[FirstOf(old, p)] = p
         /\ \A q : Occurs(new, q) => Occurs(old, q)
<1>1. FirstOf(old, p) \in 1 .. Len(old) /\ old[FirstOf(old, p)] = p BY FirstFound DEF Leaves
<1>2. Lacks(new, old, FirstOf(old, p), Preds) BY <1>1, Removed DEF Leaves
<1>3. \A q : Occurs(new, q) => Occurs(old, q) BY <1>1, <1>2, LacksOccurs DEF Leaves
<1> QED BY <1>1, <1>2, <1>3 DEF Lacks

WithoutEntry(t, x, p) == [t EXCEPT !.entries[x] = RemoveAt(@, GetBasicBlockIndex(@, p))]

LEMMA EntryLeaves ==
  ASSUME NEW old, NEW new, NEW p, Leaves(old, new, p), NEW done, NEW t, Mid(t, done, old, new),
         NEW x \in Phis, x \notin done, Occurs(t.front, x), NEW u, u = WithoutEntry(t, x, p)
  PROVE  /\ But(t, u, x) /\ u.entries[x] = Merged(new, t.sees, brought[x])
         /\ t.entries[x] = Merged(old, t.sees, brought[x]) /\ Len(t.entries[x]) = Len(old)
<1> DEFINE e == t.entries[x]
           k == FirstOf(old, p)
<1>1. old \in Seq(Preds) /\ Occurs(old, p) /\ new = RemoveAt(old, k) BY DEF Leaves
<1>2. e = Merged(old, t.sees, brought[x]) BY DEF Mid
<1>3. GetBasicBlockIndex(e, p) = k BY <1>1, <1>2, IndexIsFirst
<1>4. k \in 1 .. Len(old) BY <1>1, FirstFound
<1>5. RemoveAt(e, k) = Merged(new, t.sees, brought[x]) BY <1>1, <1>2, <1>4, MergedRemoved
<1>6. Len(e) = Len(old)
  <2>1. Lists(e, old, t.sees, brought[x]) BY <1>1, <1>2, MergedShape
  <2> HIDE DEF e
  <2> QED BY <2>1 DEF Lists
<1>7. DOMAIN t = {"front", "entries", "sees"} /\ DOMAIN t.entries = Phis BY DEF Mid
<1>8. u = [t EXCEPT !.entries = [t.entries EXCEPT ![x] = RemoveAt(e, k)]]
  <2>1. u = [t EXCEPT !.entries[x] = RemoveAt(@, GetBasicBlockIndex(@, p))] BY DEF WithoutEntry
  <2> QED BY <1>3, <1>7, <2>1
<1> HIDE DEF k, e
<1>9. But(t, u, x) /\ u.entries[x] = RemoveAt(e, k) BY <1>7, <1>8 DEF But
<1> QED BY <1>2, <1>5, <1>6, <1>9 DEF e

LEMMA EntryKept ==
  ASSUME NEW old, NEW new, NEW done, NEW t, Mid(t, done, old, new), NEW x \in Phis, Occurs(t.front, x),
         NEW u, But(t, u, x), u.entries[x] = Merged(new, t.sees, brought[x])
  PROVE  Does(t, u, x, done, old, new)
<1>1. /\ u.front = t.front /\ u.sees = t.sees /\ DOMAIN u = {"front", "entries", "sees"}
      /\ DOMAIN u.entries = Phis /\ \A y \in Phis : y # x => u.entries[y] = t.entries[y]
  BY DEF But
<1>2. ASSUME NEW y \in Phis, Occurs(u.front, y)
      PROVE  u.entries[y] = Merged(IF y \in done \cup {x} THEN new ELSE old, u.sees, brought[y])
  <2>1. CASE y = x BY <1>1, <2>1
  <2>2. CASE y # x
    <3>1. t.entries[y] = Merged(IF y \in done THEN new ELSE old, t.sees, brought[y]) BY <1>1, <1>2 DEF Mid
    <3>2. y \in done \cup {x} <=> y \in done BY <2>2
    <3> QED BY <1>1, <2>2, <3>1, <3>2
  <2> QED BY <2>1, <2>2
<1>3. /\ t.front \in Seq(Phis) /\ OneByOne(t.front) /\ t.sees \in [Phis -> Carried]
      /\ Enters(new) => \A y \in Phis : IF Occurs(t.front, y) THEN t.sees[y] = y ELSE Settled(y, t.sees, new)
  BY DEF Mid
<1>4. Mid(u, done \cup {x}, old, new) BY ONLY <1>1, <1>2, <1>3 DEF Mid
<1> QED BY <1>1, <1>4 DEF Does

LEMMA FixDoes ==
  ASSUME PhisAssumption, Brought, NEW old, NEW new, NEW p, Leaves(old, new, p),
         NEW done, NEW t, Mid(t, done, old, new), NEW x \in Phis, x \notin done, Occurs(t.front, x),
         NEW keep, NEW r, r = FixPhi(t, x, p, keep)
  PROVE  Does(t, r, x, done, old, new)
<1> DEFINE u == WithoutEntry(t, x, p)
           v == HasConstantValue(u.entries[x], x)
<1>0. old \in Seq(Preds) /\ new \in Seq(Preds) BY LeavesShape DEF Leaves
<1>1. RemoveIncomingValue(t, x, p, FALSE) = u BY DEF RemoveIncomingValue, WithoutEntry
<1>2. r = IF keep \/ v = NoValue THEN u ELSE EraseFromParent(ReplaceAllUsesWith(u, x, v), x)
  BY <1>1 DEF FixPhi
<1>3. But(t, u, x) /\ u.entries[x] = Merged(new, t.sees, brought[x]) BY EntryLeaves
<1> HIDE DEF u
<1>4. CASE keep \/ v = NoValue
  <2>1. r = u BY <1>2, <1>4
  <2> QED BY <1>3, <2>1, EntryKept
<1>5. CASE ~(keep \/ v = NoValue)
  <2>1. r = EraseFromParent(ReplaceAllUsesWith(u, x, v), x) /\ v # NoValue BY <1>2, <1>5
  <2>2. v = HasConstantValue(Merged(new, t.sees, brought[x]), x) BY <1>3
  <2>3. t.sees \in [Phis -> Carried] BY DEF Mid
  <2> HIDE DEF v
  <2>4. v \in Carried /\ (Enters(new) => Fits(v, x, t.sees, new)) BY <1>0, <2>1, <2>2, <2>3, ConstantFits
  <2>5. Mid(r, done \cup {x}, old, new) /\ FrontLoses(t, r, x) BY <1>0, <1>3, <2>1, <2>4, Replaced
  <2> QED BY <2>5 DEF Does, FrontLoses
<1> QED BY <1>4, <1>5

LEMMA NukeDoes ==
  ASSUME PhisAssumption, Brought, NEW old, NEW new, NEW p, Leaves(old, new, p), Len(old) <= 2,
         NEW done, NEW t, Mid(t, done, old, new), NEW x \in Phis, x \notin done, Occurs(t.front, x),
         NEW r, r = NukePhi(t, x, p, Len(old))
  PROVE  Does(t, r, x, done, old, new)
<1> DEFINE u == WithoutEntry(t, x, p)
<1>0. /\ old \in Seq(Preds) /\ new \in Seq(Preds) /\ Len(new) = Len(old) - 1 /\ Len(old) \in Nat
      /\ Len(old) > 0
  <2>1. FirstOf(old, p) \in 1 .. Len(old) BY LeavesShape
  <2> QED BY <2>1, LeavesShape DEF Leaves
<1>1. /\ But(t, u, x) /\ u.entries[x] = Merged(new, t.sees, brought[x])
      /\ Len(t.entries[x]) = Len(old)
  BY EntryLeaves
<1>2. RemoveIncomingValue(t, x, p, TRUE) =
        IF Len(old) = 1 THEN EraseFromParent(ReplaceAllUsesWith(u, x, Undef), x) ELSE u
  BY <1>1 DEF RemoveIncomingValue, WithoutEntry
<1>3. t.sees \in [Phis -> Carried] BY DEF Mid
<1> HIDE DEF u
<1> DEFINE a == RemoveIncomingValue(t, x, p, TRUE)
<1>6. r = IF Len(old) # 2 THEN a
          ELSE EraseFromParent(ReplaceAllUsesWith(a, x, IF a.entries[x][1].v = x THEN Undef ELSE a.entries[x][1].v), x)
  BY DEF NukePhi
<1>7. a = IF Len(old) = 1 THEN EraseFromParent(ReplaceAllUsesWith(u, x, Undef), x) ELSE u BY <1>2
<1> HIDE DEF a
<1>4. CASE Len(old) = 1
  <2>1. r = EraseFromParent(ReplaceAllUsesWith(u, x, Undef), x) BY <1>4, <1>6, <1>7
  <2>2. ~Enters(new) BY <1>0, <1>4 DEF Enters, Occurs
  <2>3. Undef \in Carried BY UndefType
  <2>4. Mid(r, done \cup {x}, old, new) /\ FrontLoses(t, r, x)
    BY <1>0, <1>1, <2>1, <2>2, <2>3, Replaced
  <2> QED BY <2>4 DEF Does, FrontLoses
<1>5. CASE Len(old) = 2
  <2> DEFINE w == u.entries[x][1].v
             v == IF w = x THEN Undef ELSE w
             q == new[1]
  <2>1. r = EraseFromParent(ReplaceAllUsesWith(u, x, v), x) 
    <3>1. a = u BY <1>5, <1>7
    <3> QED BY <1>5, <1>6, <3>1
  <2>2. 1 \in 1 .. Len(new) /\ q \in Preds /\ \A z : Occurs(new, z) => z = q
    <3>1. Len(new) = 1 BY <1>0, <1>5
    <3>2. 1 .. Len(new) = {1} BY <3>1
    <3> QED BY <1>0, <3>1, <3>2 DEF Occurs
  <2>3. w = LaterIn(t.sees, brought[x][q])
    <3>1. Lists(u.entries[x], new, t.sees, brought[x]) BY <1>0, <1>1, MergedShape
    <3> QED BY <2>2, <3>1 DEF Lists
  <2> HIDE DEF w, q
  <2>4. w \in Carried BY <1>3, <2>2, <2>3, BroughtLater
  <2>5. v \in Carried BY <2>4, UndefType
  <2>6. ASSUME Enters(new) PROVE Fits(v, x, t.sees, new)
    <3>1. q \in Outside BY <2>2, <2>6 DEF Enters
    <3>2. w = brought[x][q] /\ w \notin Phis /\ w \in Available[q] BY <1>3, <2>2, <2>3, <3>1, BroughtLater
    <3>3. v = w BY <3>2
    <3>4. \A z \in Preds : Occurs(new, z) => LaterIn(t.sees, brought[x][z]) = v BY <2>2, <2>3, <3>3
    <3>5. \A z \in Outside : Occurs(new, z) => v \in Available[z] BY <2>2, <3>2, <3>3
    <3> QED BY <3>2, <3>3, <3>4, <3>5 DEF Fits
  <2> HIDE DEF v
  <2>7. Mid(r, done \cup {x}, old, new) /\ FrontLoses(t, r, x) BY <1>0, <1>1, <2>1, <2>5, <2>6, Replaced
  <2> QED BY <2>7 DEF Does, FrontLoses
<1> QED BY <1>0, <1>4, <1>5
-----------------------------------------------------------------------------
(* The states of the loop over the phi nodes. *)
Run(s, p, keep, count, f) ==
  f[0] = s /\ \A i \in 1 .. Len(s.front) : f[i] = UpdatePhi(f[i - 1], s.front[i], p, keep, count)

LEMMA UpdateUnfolds ==
  ASSUME NEW s, s.front \in Seq(Phis), NEW p, NEW keep, NEW count
  PROVE  \E f : Run(s, p, keep, count, f) /\ UpdatePhis(s, p, keep, count) = f[Len(s.front)]
<1> DEFINE n == Len(s.front)
           G(k, g) == g = [i \in 0 .. k |->
                             IF i = 0 THEN s ELSE UpdatePhi(g[i - 1], s.front[i], p, keep, count)]
           S == {k \in 0 .. n : \E g : G(k, g)}
<1>0. n \in Nat OBVIOUS
<1> HIDE DEF n
<1>1. 0 \in S
  <2> DEFINE g == [i \in 0 .. 0 |-> s]
  <2>1. G(0, g) OBVIOUS
  <2> HIDE DEF g
  <2>2. \E x : G(0, x) BY <2>1
  <2>3. 0 \in 0 .. n BY <1>0
  <2> QED BY <2>2, <2>3
<1>2. ASSUME NEW k \in 0 .. n - 1, k \in S PROVE k + 1 \in S
  <2>1. PICK g : G(k, g) BY <1>2
  <2> DEFINE h == [i \in 0 .. k + 1 |->
                     IF i <= k THEN g[i] ELSE UpdatePhi(g[k], s.front[k + 1], p, keep, count)]
  <2>2. ASSUME NEW i \in 0 .. k + 1
        PROVE  h[i] = IF i = 0 THEN s ELSE UpdatePhi(h[i - 1], s.front[i], p, keep, count)
    <3>1. CASE i = 0 BY <1>0, <2>1, <3>1
    <3>2. CASE i # 0 /\ i <= k
      <4>1. h[i] = g[i] /\ h[i - 1] = g[i - 1] BY <1>0, <3>2
      <4>2. g[i] = UpdatePhi(g[i - 1], s.front[i], p, keep, count) BY <1>0, <2>1, <3>2
      <4> QED BY <3>2, <4>1, <4>2
    <3>3. CASE i = k + 1
      <4>1. h[i] = UpdatePhi(g[k], s.front[k + 1], p, keep, count) /\ h[i - 1] = g[k] /\ i # 0
        BY <1>0, <3>3
      <4> QED BY <3>3, <4>1
    <3> QED BY <1>0, <3>1, <3>2, <3>3
  <2>3. G(k + 1, h)
    <3>1. DOMAIN h = 0 .. k + 1 /\ h = [i \in 0 .. k + 1 |-> h[i]] OBVIOUS
    <3> HIDE DEF h
    <3> QED BY <2>2, <3>1
  <2>4. k + 1 \in 0 .. n BY <1>0
  <2> QED BY <2>3, <2>4
<1>3. n \in S
  <2> HIDE DEF S
  <2>1. \A i \in 0 .. n : i \in S BY <1>0, <1>1, <1>2, UpTo
  <2> QED BY <1>0, <2>1
<1> DEFINE f == CHOOSE g : G(n, g)
<1>4. G(n, f) BY <1>3
<1>5. UpdatePhis(s, p, keep, count) = f[Len(s.front)] BY DEF UpdatePhis, n
<1> HIDE DEF f
<1>6. f[0] = s /\ \A i \in 1 .. n : f[i] = UpdatePhi(f[i - 1], s.front[i], p, keep, count)
  BY <1>0, <1>4
<1> QED BY <1>5, <1>6 DEF Run, n

LEMMA UpdateDoes ==
  ASSUME PhisAssumption, Brought, NEW old, NEW new, NEW p, Leaves(old, new, p),
         NEW done, NEW t, Mid(t, done, old, new), NEW x \in Phis, x \notin done, Occurs(t.front, x),
         NEW keep, NEW count, count <= 2 /\ ~keep => count = Len(old),
         NEW r, r = UpdatePhi(t, x, p, keep, count)
  PROVE  Does(t, r, x, done, old, new)
<1>1. CASE count <= 2 /\ ~keep
  <2>1. count = Len(old) BY <1>1
  <2>2. r = NukePhi(t, x, p, Len(old)) /\ Len(old) <= 2 BY <1>1, <2>1 DEF UpdatePhi
  <2> QED BY <2>2, NukeDoes
<1>2. CASE ~(count <= 2 /\ ~keep)
  <2>1. r = FixPhi(t, x, p, keep) BY <1>2 DEF UpdatePhi
  <2> QED BY <2>1, FixDoes
<1> QED BY <1>1, <1>2

DoneTo(s, i) == {s.front[j] : j \in 1 .. i}
Reaches(s, t, i, old, new) ==
  /\ Mid(t, DoneTo(s, i), old, new)
  /\ \A y \in Phis : Occurs(t.front, y) => Occurs(s.front, y)
  /\ \A j \in i + 1 .. Len(s.front) : Occurs(t.front, s.front[j])

LEMMA AllUpdated ==
  ASSUME PhisAssumption, Brought, NEW old, NEW new, NEW p, Leaves(old, new, p),
         NEW s, Mid(s, {}, old, new),
         NEW keep, NEW count, count <= 2 /\ ~keep => count = Len(old),
         NEW r, r = UpdatePhis(s, p, keep, count)
  PROVE  Mid(r, {}, new, new)
<1> DEFINE n == Len(s.front)
<1>1. s.front \in Seq(Phis) /\ OneByOne(s.front) BY DEF Mid
<1>2. n \in Nat BY <1>1
<1>3. PICK f : Run(s, p, keep, count, f) /\ r = f[n] BY <1>1, UpdateUnfolds
<1> DEFINE S == {i \in 0 .. n : Reaches(s, f[i], i, old, new)}
<1>4. 0 \in S
  <2>1. f[0] = s BY <1>3 DEF Run
  <2>2. DoneTo(s, 0) = {} BY DEF DoneTo
  <2>3. \A j \in 0 + 1 .. Len(s.front) : Occurs(s.front, s.front[j]) BY DEF Occurs
  <2>4. Reaches(s, f[0], 0, old, new) BY <2>1, <2>2, <2>3 DEF Reaches
  <2> QED BY <1>2, <2>4
<1>5. ASSUME NEW i \in 0 .. n - 1, i \in S PROVE i + 1 \in S
  <2> DEFINE t == f[i]
             x == s.front[i + 1]
             d == DoneTo(s, i)
  <2>1. i + 1 \in 1 .. n /\ i + 1 \in 0 .. n /\ i + 1 - 1 = i /\ i \in Nat BY <1>2
  <2>2. f[i + 1] = UpdatePhi(t, x, p, keep, count) BY <1>3, <2>1 DEF Run
  <2>3. Reaches(s, t, i, old, new) BY <1>5
  <2>4. x \in Phis BY <1>1, <2>1
  <2>5. x \notin d BY <1>1, <2>1 DEF DoneTo, OneByOne
  <2>6. Occurs(t.front, x)
    <3>1. i + 1 \in i + 1 .. Len(s.front) BY <2>1
    <3> QED BY <2>3, <3>1 DEF Reaches
  <2>7. DoneTo(s, i + 1) = d \cup {x}
    <3>1. \A j \in 1 .. i + 1 : j \in 1 .. i \/ j = i + 1 BY <2>1
    <3>2. \A j \in 1 .. i : j \in 1 .. i + 1 BY <2>1
    <3>3. i + 1 \in 1 .. i + 1 BY <2>1
    <3> QED BY <3>1, <3>2, <3>3 DEF DoneTo
  <2>8. Mid(t, d, old, new) BY <2>3 DEF Reaches
  <2> HIDE DEF t, x, d
  <2>9. Does(t, f[i + 1], x, d, old, new) BY <2>2, <2>4, <2>5, <2>6, <2>8, UpdateDoes
  <2>10. ASSUME NEW j \in (i + 1) + 1 .. Len(s.front) PROVE Occurs(f[i + 1].front, s.front[j])
    <3>1. j \in i + 1 .. Len(s.front) /\ j \in 1 .. n /\ j # i + 1 BY <1>2, <2>1
    <3>2. s.front[j] \in Phis BY <1>1, <3>1
    <3>3. s.front[j] # x BY <1>1, <2>1, <3>1 DEF OneByOne, x
    <3>4. Occurs(t.front, s.front[j]) BY <2>3, <3>1 DEF Reaches
    <3> QED BY <2>9, <3>2, <3>3, <3>4 DEF Does
  <2>11. Reaches(s, f[i + 1], i + 1, old, new)
    <3>1. \A y \in Phis : Occurs(f[i + 1].front, y) => Occurs(s.front, y) BY <2>3, <2>9 DEF Does, Reaches
    <3>2. Mid(f[i + 1], DoneTo(s, i + 1), old, new) BY <2>7, <2>9 DEF Does
    <3> QED BY <2>10, <3>1, <3>2 DEF Reaches
  <2> QED BY <2>1, <2>11
<1>6. n \in S
  <2> HIDE DEF S, n
  <2>1. \A i \in 0 .. n : i \in S BY <1>2, <1>4, <1>5, UpTo
  <2> QED BY <1>2, <2>1
<1>7. Reaches(s, r, n, old, new) BY <1>3, <1>6
<1>8. \A y \in Phis : Occurs(r.front, y) => y \in DoneTo(s, n) BY <1>7 DEF Reaches, Occurs, DoneTo
<1>9. \A y \in Phis : Occurs(r.front, y) => r.entries[y] = Merged(new, r.sees, brought[y])
  BY <1>7, <1>8 DEF Reaches, Mid
<1>10. \A y \in Phis : Occurs(r.front, y) =>
         r.entries[y] = Merged(IF y \in {} THEN new ELSE new, r.sees, brought[y])
  BY <1>9
<1> QED BY <1>7, <1>10 DEF Reaches, Mid
-----------------------------------------------------------------------------
(* An edge goes. *)
LEMMA RemovePredecessorDoes ==
  ASSUME PhisAssumption, Brought, NEW old, NEW new, NEW p, Leaves(old, new, p),
         NEW s, Mid(s, {}, old, old), NEW keep, NEW r, r = RemovePredecessor(s, p, keep)
  PROVE  Mid(r, {}, new, new)
<1>1. old \in Seq(Preds) /\ \A q : Occurs(new, q) => Occurs(old, q) BY LeavesShape DEF Leaves
<1>2. Mid(s, {}, old, new)
  <2>1. ASSUME Enters(new), NEW y \in Phis
        PROVE  IF Occurs(s.front, y) THEN s.sees[y] = y ELSE Settled(y, s.sees, new)
    <3>1. Enters(old) BY <1>1, <2>1 DEF Enters
    <3>2. IF Occurs(s.front, y) THEN s.sees[y] = y ELSE Settled(y, s.sees, old) BY <3>1 DEF Mid
    <3> QED BY <1>1, <3>2 DEF Settled
  <2> QED BY <2>1 DEF Mid
<1>3. CASE s.front = << >>
  <2>1. r = s BY <1>3 DEF RemovePredecessor
  <2>2. \A y : ~Occurs(s.front, y) BY <1>3 DEF Occurs
  <2> QED BY <1>2, <2>1, <2>2 DEF Mid
<1>4. CASE s.front # << >>
  <2> DEFINE x == s.front[1]
             e == s.entries[x]
             count == IF StaysInLoop(e, p) THEN 3 ELSE Len(e)
  <2>1. r = UpdatePhis(s, p, keep, count) BY <1>4 DEF RemovePredecessor
  <2>2. s.front \in Seq(Phis) BY DEF Mid
  <2>3. 1 \in 1 .. Len(s.front) BY <1>4, <2>2
  <2>4. x \in Phis /\ Occurs(s.front, x) BY <2>2, <2>3 DEF Occurs
  <2>5. e = Merged(old, s.sees, brought[x]) BY <2>4 DEF Mid
  <2> HIDE DEF x, e
  <2>6. Len(e) = Len(old)
    <3>1. Lists(e, old, s.sees, brought[x]) BY <1>1, <2>5, MergedShape
    <3> QED BY <3>1 DEF Lists
  <2>7. count <= 2 /\ ~keep => count = Len(old) BY <2>6
  <2> HIDE DEF count
  <2> QED BY <1>2, <2>1, <2>7, AllUpdated
<1> QED BY <1>3, <1>4

LEMMA RemoveEdgeKeeps ==
  ASSUME PhisAssumption, PhiInv, NEW p \in Preds, NEW keep \in BOOLEAN, RemoveEdge(p, keep)
  PROVE  PhiInv'
<1>0. Brought /\ brought' = brought BY DEF PhiInv, RemoveEdge
<1>1. PICK old \in Seq(Preds) :
        edges = [q \in Preds |-> EdgesFrom(old, q)] /\ Mid(Now, {}, old, old)
  BY DEF PhiInv
<1>2. edges[p] > 0 BY DEF RemoveEdge
<1>3. Occurs(old, p) BY <1>1, <1>2, EdgesType
<1>4. PICK new : new = RemoveAt(old, FirstOf(old, p)) OBVIOUS
<1>5. Leaves(old, new, p) BY <1>3, <1>4 DEF Leaves
<1>6. PICK r : r = RemovePredecessor(Now, p, keep) OBVIOUS
<1>7. Mid(r, {}, new, new) BY <1>0, <1>1, <1>5, <1>6, RemovePredecessorDoes
<1>8. front' = r.front /\ entries' = r.entries /\ sees' = r.sees BY <1>6 DEF RemoveEdge
<1>9. edges' = [q \in Preds |-> EdgesFrom(new, q)]
  <2>1. edges' = [edges EXCEPT ![p] = @ - 1] BY DEF RemoveEdge
  <2>2. \A q \in Preds : EdgesFrom(new, q) = IF q = p THEN EdgesFrom(old, q) - 1 ELSE EdgesFrom(old, q)
    <3>1. FirstOf(old, p) \in 1 .. Len(old) /\ old[FirstOf(old, p)] = p BY <1>3, FirstFound
    <3> QED BY <1>4, <3>1, EdgesRemoved
  <2> QED BY <1>1, <2>1, <2>2
<1>10. new \in Seq(Preds) BY <1>5, LeavesShape
<1>11. Mid(Now, {}, new, new)'
  <2>1. /\ Now'.front = r.front /\ Now'.entries = r.entries /\ Now'.sees = r.sees
        /\ DOMAIN Now' = {"front", "entries", "sees"}
    BY <1>8 DEF Now
  <2>2. /\ r.front \in Seq(Phis) /\ OneByOne(r.front) /\ DOMAIN r.entries = Phis
        /\ r.sees \in [Phis -> Carried]
        /\ \A x \in Phis : Occurs(r.front, x) =>
             r.entries[x] = Merged(IF x \in {} THEN new ELSE new, r.sees, brought[x])
        /\ Enters(new) => \A x \in Phis :
             IF Occurs(r.front, x) THEN r.sees[x] = x ELSE Settled(x, r.sees, new)
    BY <1>7 DEF Mid
  <2>3. \A x, s : Settled(x, s, new)' <=> Settled(x, s, new) BY <1>0 DEF Settled
  <2> HIDE DEF Now
  <2> QED BY ONLY <1>0, <2>1, <2>2, <2>3 DEF Mid
<1>12. Brought' BY <1>0 DEF Brought
<1> QED BY <1>9, <1>10, <1>11, <1>12 DEF PhiInv

LEMMA InitPhiInv == ASSUME PhisAssumption, PhiInit PROVE PhiInv
<1>1. PICK n \in 1 .. MaxEdges : \E blocks \in [1 .. n -> Preds] :
        /\ edges = [p \in Preds |-> EdgesFrom(blocks, p)]
        /\ front = Nodes
        /\ brought \in {f \in [Phis -> [Preds -> Incoming]] :
                          \A x \in Phis, p \in Preds :
                            f[x][p] \in IF edges[p] = 0 THEN {Undef} ELSE Available[p]}
        /\ entries = [x \in Phis |-> [i \in 1 .. n |-> [v |-> brought[x][blocks[i]], b |-> blocks[i]]]]
        /\ sees = [x \in Phis |-> x]
  BY DEF PhiInit
<1>2. PICK blocks \in [1 .. n -> Preds] :
        /\ edges = [p \in Preds |-> EdgesFrom(blocks, p)]
        /\ front = Nodes
        /\ brought \in {f \in [Phis -> [Preds -> Incoming]] :
                          \A x \in Phis, p \in Preds :
                            f[x][p] \in IF edges[p] = 0 THEN {Undef} ELSE Available[p]}
        /\ entries = [x \in Phis |-> [i \in 1 .. n |-> [v |-> brought[x][blocks[i]], b |-> blocks[i]]]]
        /\ sees = [x \in Phis |-> x]
  BY <1>1
<1>3. n \in Nat BY DEF PhisAssumption
<1>4. blocks \in Seq(Preds) /\ Len(blocks) = n BY <1>2, <1>3
<1>5. Brought
  <2>1. brought \in [Phis -> [Preds -> Incoming]] BY <1>2
  <2>2. ASSUME NEW x \in Phis, NEW p \in Preds PROVE brought[x][p] \in Available[p]
    <3>1. brought[x][p] \in IF edges[p] = 0 THEN {Undef} ELSE Available[p] BY <1>2
    <3> QED BY <3>1 DEF PhisAssumption
  <2> QED BY <2>1, <2>2 DEF Brought
<1>6. Nodes \in Seq(Phis) /\ OneByOne(Nodes) BY DEF PhisAssumption, OneByOne
<1>7. \A x \in Phis : Occurs(Nodes, x) BY <1>6 DEF Phis, ToSet, Occurs
<1>8. \A w : LaterIn(sees, w) = w BY <1>2 DEF LaterIn
<1>9. ASSUME NEW x \in Phis PROVE entries[x] = Merged(blocks, sees, brought[x])
  BY <1>2, <1>4, <1>8 DEF Merged
<1>10. Mid(Now, {}, blocks, blocks)
  <2>1. /\ DOMAIN Now = {"front", "entries", "sees"} /\ Now.front = Nodes
        /\ Now.entries = entries /\ Now.sees = sees
    BY <1>2 DEF Now
  <2>2. DOMAIN entries = Phis /\ sees \in [Phis -> Carried] /\ \A x \in Phis : sees[x] = x
    BY <1>2 DEF Carried
  <2> HIDE DEF Now
  <2> QED BY ONLY <1>6, <1>7, <1>9, <2>1, <2>2 DEF Mid
<1> QED BY <1>2, <1>4, <1>5, <1>10 DEF PhiInv

LEMMA PhiStutterKeeps == ASSUME PhiInv, UNCHANGED phiVars PROVE PhiInv'
<1>1. /\ edges' = edges /\ front' = front /\ entries' = entries /\ sees' = sees /\ brought' = brought
  BY DEF phiVars
<1>2. PICK blocks \in Seq(Preds) :
        edges = [p \in Preds |-> EdgesFrom(blocks, p)] /\ Mid(Now, {}, blocks, blocks)
  BY DEF PhiInv
<1>3. Mid(Now, {}, blocks, blocks)'
  <2>1. Now' = Now BY <1>1 DEF Now
  <2>2. \A x, s : Settled(x, s, blocks)' <=> Settled(x, s, blocks) BY <1>1 DEF Settled
  <2> QED BY <1>1, <1>2, <2>1, <2>2 DEF Mid
<1>4. Brought' BY <1>1 DEF Brought, PhiInv
<1> QED BY <1>1, <1>2, <1>3, <1>4 DEF PhiInv

LEMMA PhiInvariant == ASSUME PhisAssumption PROVE PhiSpec => []PhiInv
<1>1. PhiInit => PhiInv BY InitPhiInv
<1>2. PhiInv /\ [PhiNext]_phiVars => PhiInv' BY RemoveEdgeKeeps, PhiStutterKeeps DEF PhiNext
<1> QED BY <1>1, <1>2, PTL DEF PhiSpec
-----------------------------------------------------------------------------
(* What the invariant says of the phi nodes of the block. *)
LEMMA Known ==
  ASSUME PhisAssumption, PhiInv
  PROVE  \E blocks \in Seq(Preds) :
           /\ edges = [p \in Preds |-> EdgesFrom(blocks, p)]
           /\ \A x \in Phis : x \in ToSet(front) =>
                Lists(entries[x], blocks, sees, brought[x]) /\ entries[x] = Merged(blocks, sees, brought[x])
           /\ Entered <=> Enters(blocks)
           /\ \A p \in Preds : edges[p] > 0 <=> Occurs(blocks, p)
           /\ Enters(blocks) => \A x \in Phis :
                IF x \in ToSet(front) THEN sees[x] = x ELSE Settled(x, sees, blocks)
           /\ ToSet(front) \subseteq Phis
<1>1. PICK blocks \in Seq(Preds) :
        edges = [p \in Preds |-> EdgesFrom(blocks, p)] /\ Mid(Now, {}, blocks, blocks)
  BY DEF PhiInv
<1>2. Now.front = front /\ Now.entries = entries /\ Now.sees = sees BY DEF Now
<1>3. front \in Seq(Phis) BY <1>1, <1>2 DEF Mid
<1>4. \A x : x \in ToSet(front) <=> Occurs(front, x) BY <1>3 DEF ToSet, Occurs
<1>5. ToSet(front) \subseteq Phis BY <1>3 DEF ToSet
<1>6. \A p \in Preds : edges[p] > 0 <=> Occurs(blocks, p) BY <1>1, EdgesType
<1>7. Entered <=> Enters(blocks) BY <1>6 DEF Entered, Enters, Preds
<1>8. ASSUME NEW x \in Phis, x \in ToSet(front)
      PROVE  Lists(entries[x], blocks, sees, brought[x]) /\ entries[x] = Merged(blocks, sees, brought[x])
  <2>1. entries[x] = Merged(blocks, sees, brought[x]) BY <1>1, <1>2, <1>4, <1>8 DEF Mid
  <2> QED BY <2>1, MergedShape
<1>9. ASSUME Enters(blocks), NEW x \in Phis
      PROVE  IF x \in ToSet(front) THEN sees[x] = x ELSE Settled(x, sees, blocks)
  BY <1>1, <1>2, <1>4, <1>9 DEF Mid
<1> QED BY <1>1, <1>5, <1>6, <1>7, <1>8, <1>9

(* For any predecessors, phi nodes and edges: every phi node has an        *)
(* operand for every edge, as many from a predecessor as there are edges   *)
(* from it.  BasicBlock::removePredecessor.                                *)
THEOREM EntriesAlwaysMatch == ASSUME PhisAssumption PROVE PhiSpec => []EntriesMatch
<1>1. ASSUME PhiInv PROVE EntriesMatch
  <2>1. PICK blocks \in Seq(Preds) :
          /\ edges = [p \in Preds |-> EdgesFrom(blocks, p)]
          /\ \A x \in Phis : x \in ToSet(front) => Lists(entries[x], blocks, sees, brought[x])
          /\ ToSet(front) \subseteq Phis
    BY <1>1, Known
  <2>2. ASSUME NEW x \in ToSet(front), NEW p \in Preds
        PROVE  Cardinality({i \in DOMAIN entries[x] : entries[x][i].b = p}) = edges[p]
    <3>1. Lists(entries[x], blocks, sees, brought[x]) BY <2>1
    <3>a. DOMAIN blocks = 1 .. Len(blocks) OBVIOUS
    <3>b. DOMAIN entries[x] = 1 .. Len(blocks) /\ \A i \in 1 .. Len(blocks) : entries[x][i].b = blocks[i]
      BY <3>1 DEF Lists
    <3>2. DOMAIN entries[x] = DOMAIN blocks /\ \A i \in DOMAIN blocks : entries[x][i].b = blocks[i]
      BY <3>a, <3>b
    <3>3. {i \in DOMAIN entries[x] : entries[x][i].b = p} = {i \in DOMAIN blocks : blocks[i] = p}
      BY <3>2
    <3> QED BY <2>1, <3>3 DEF EdgesFrom
  <2> QED BY <2>2 DEF EntriesMatch
<1> QED BY <1>1, PhiInvariant, PTL

(* A block that control still enters gets along every edge that is left    *)
(* what that edge brought before, be it through a phi node or through the  *)
(* value that has replaced it.  removePredecessor and hasConstantValue.    *)
THEOREM ValuesAlwaysKept == ASSUME PhisAssumption PROVE PhiSpec => []ValueKept
<1>1. ASSUME PhiInv PROVE ValueKept
  <2>1. SUFFICES ASSUME Entered, NEW x \in Phis, NEW p \in Preds, edges[p] > 0,
                        Later(brought[x][p]) # Undef
                 PROVE  Along(sees[x], p) = Later(brought[x][p])
    BY DEF ValueKept
  <2>2. PICK blocks \in Seq(Preds) :
          /\ \A y \in Phis : y \in ToSet(front) =>
               Lists(entries[y], blocks, sees, brought[y]) /\ entries[y] = Merged(blocks, sees, brought[y])
          /\ Enters(blocks) /\ Occurs(blocks, p)
          /\ \A y \in Phis : IF y \in ToSet(front) THEN sees[y] = y ELSE Settled(y, sees, blocks)
          /\ ToSet(front) \subseteq Phis
    BY <1>1, <2>1, Known
  <2>3. Later(brought[x][p]) = LaterIn(sees, brought[x][p]) BY DEF Later, LaterIn
  <2>4. CASE x \in ToSet(front)
    <3>1. sees[x] = x /\ Lists(entries[x], blocks, sees, brought[x]) BY <2>2, <2>4
    <3>2. GetBasicBlockIndex(entries[x], p) = FirstOf(blocks, p) BY <2>2, <2>4, IndexIsFirst
    <3>3. FirstOf(blocks, p) \in 1 .. Len(blocks) /\ blocks[FirstOf(blocks, p)] = p
      BY <2>2, FirstFound
    <3>4. entries[x][FirstOf(blocks, p)].v = LaterIn(sees, brought[x][p]) BY <3>1, <3>3 DEF Lists
    <3> QED BY <2>3, <2>4, <3>1, <3>2, <3>4 DEF Along
  <2>5. CASE x \notin ToSet(front)
    <3>1. Settled(x, sees, blocks) BY <2>2, <2>5
    <3>2. LaterIn(sees, brought[x][p]) \in {Undef, sees[x]} /\ sees[x] \notin Phis
      BY <2>2, <3>1 DEF Settled
    <3> QED BY <2>1, <2>2, <2>3, <3>2 DEF Along
  <2> QED BY <2>4, <2>5
<1> QED BY <1>1, PhiInvariant, PTL

(* What a phi node is replaced by is there on every way into the block     *)
(* from outside.  removePredecessor, hasConstantValue.                     *)
THEOREM ReplacementsDominate == ASSUME PhisAssumption PROVE PhiSpec => []Dominated
<1>1. ASSUME PhiInv PROVE Dominated
  <2>1. SUFFICES ASSUME NEW x \in Phis, NEW p \in Outside, Entered, edges[p] > 0, sees[x] \notin Phis
                 PROVE  sees[x] \in Available[p]
    BY DEF Dominated
  <2>2. p \in Preds BY DEF Preds
  <2>3. PICK blocks \in Seq(Preds) :
          /\ Occurs(blocks, p)
          /\ \A y \in Phis : IF y \in ToSet(front) THEN sees[y] = y ELSE Settled(y, sees, blocks)
    BY <1>1, <2>1, <2>2, Known
  <2>4. Settled(x, sees, blocks) BY <2>1, <2>3
  <2> QED BY <2>3, <2>4 DEF Settled
<1> QED BY <1>1, PhiInvariant, PTL
(* So the phi nodes of any block stay exact while its edges leave in any   *)
(* order (BasicBlock::removePredecessor).                                  *)
THEOREM PhisStayExact == ASSUME PhisAssumption PROVE PhiSpec => []PhisExact
<1>1. EntriesMatch /\ ValueKept /\ Dominated => PhisExact BY DEF PhisExact
<1> QED BY <1>1, EntriesAlwaysMatch, ValuesAlwaysKept, ReplacementsDominate, PTL
-----------------------------------------------------------------------------
(***************************************************************************)
(* The tables of the comparisons, for numbers of any size: the number of   *)
(* patterns of bits is twice that of those that are not negative.          *)
(***************************************************************************)
Sizes == {2 * n : n \in Nat \ {0}}

LEMMA HalfOf == ASSUME NEW n \in Nat PROVE (2 * n) \div 2 = n
OBVIOUS
LEMMA SignedIs ==
  ASSUME NEW n \in Nat \ {0}, NEW x \in 0 .. 2 * n - 1
  PROVE  SignedIn(x, 2 * n) = (IF x >= n THEN x - 2 * n ELSE x) /\ SignedIn(x, 2 * n) \in Int
BY HalfOf DEF SignedIn
LEMMA Compares ==
  ASSUME NEW x \in Int, NEW y \in Int
  PROVE  /\ Relation(x, y) = "L" <=> x < y
         /\ Relation(x, y) = "G" <=> x > y
         /\ Relation(x, y) = "E" <=> x = y
         /\ Relation(x, y) \in {"L", "G", "E"}
BY DEF Relation
(* What a predicate says of two patterns.                                  *)
Says(p, x, y) ==
  \/ p \in {"IEQ", "IUGE", "IULE", "ISGE", "ISLE"} /\ x = y
  \/ p \in {"INE", "IUGT", "IUGE", "ISGT", "ISGE"} /\ x > y
  \/ p \in {"INE", "IULT", "IULE", "ISLT", "ISLE"} /\ x < y
LEMMA ICmpNames ==
  ICmps = {"IEQ", "INE", "IUGT", "IUGE", "IULT", "IULE", "ISGT", "ISGE", "ISLT", "ISLE"}
BY DEF ICmps, ICmpCode
LEMMA CodeIs ==
  /\ ICmpCode["IEQ"] = {"E"} /\ ICmpCode["INE"] = {"L", "G"}
  /\ ICmpCode["IUGT"] = {"G"} /\ ICmpCode["ISGT"] = {"G"}
  /\ ICmpCode["IUGE"] = {"G", "E"} /\ ICmpCode["ISGE"] = {"G", "E"}
  /\ ICmpCode["IULT"] = {"L"} /\ ICmpCode["ISLT"] = {"L"}
  /\ ICmpCode["IULE"] = {"L", "E"} /\ ICmpCode["ISLE"] = {"L", "E"}
BY DEF ICmpCode
LEMMA CodeSays ==
  ASSUME NEW p \in ICmps, NEW x \in Int, NEW y \in Int
  PROVE  Relation(x, y) \in ICmpCode[p] <=> Says(p, x, y)
<1> DEFINE r == Relation(x, y)
<1>1. r = "L" <=> x < y BY Compares
<1>2. r = "G" <=> x > y BY Compares
<1>3. r = "E" <=> x = y BY Compares
<1>4. r \in {"L", "G", "E"} BY Compares
<1> SUFFICES r \in ICmpCode[p] <=> Says(p, x, y) OBVIOUS
<1> HIDE DEF r
<1>5. CASE p = "IEQ" BY <1>3, <1>5, CodeIs DEF Says
<1>6. CASE p = "INE" BY <1>3, <1>4, <1>6, CodeIs DEF Says
<1>7. CASE p \in {"IUGT", "ISGT"} BY <1>2, <1>7, CodeIs DEF Says
<1>8. CASE p \in {"IUGE", "ISGE"}
  <2>1. r \in {"G", "E"} <=> x >= y BY <1>1, <1>2, <1>3, <1>4
  <2> QED BY <2>1, <1>8, CodeIs DEF Says
<1>9. CASE p \in {"IULT", "ISLT"} BY <1>1, <1>9, CodeIs DEF Says
<1>10. CASE p \in {"IULE", "ISLE"}
  <2>1. r \in {"L", "E"} <=> x <= y BY <1>1, <1>2, <1>3, <1>4
  <2> QED BY <2>1, <1>10, CodeIs DEF Says
<1> QED BY <1>5, <1>6, <1>7, <1>8, <1>9, <1>10, ICmpNames
LEMMA HoldsSays ==
  ASSUME NEW n \in Nat \ {0}, NEW p \in ICmps, NEW x \in 0 .. 2 * n - 1, NEW y \in 0 .. 2 * n - 1
  PROVE  IntegerHolds(p, x, y, 2 * n) <=>
           IF IsSignedPredicate(p) THEN Says(p, SignedIn(x, 2 * n), SignedIn(y, 2 * n)) ELSE Says(p, x, y)
<1>1. SignedIn(x, 2 * n) \in Int /\ SignedIn(y, 2 * n) \in Int BY SignedIs
<1> QED BY <1>1, CodeSays DEF IntegerHolds
LEMMA TableIs ==
  /\ InversePredicate("IEQ") = "INE" /\ InversePredicate("INE") = "IEQ"
  /\ InversePredicate("IUGT") = "IULE" /\ InversePredicate("IULE") = "IUGT"
  /\ InversePredicate("IULT") = "IUGE" /\ InversePredicate("IUGE") = "IULT"
  /\ InversePredicate("ISGT") = "ISLE" /\ InversePredicate("ISLE") = "ISGT"
  /\ InversePredicate("ISLT") = "ISGE" /\ InversePredicate("ISGE") = "ISLT"
BY DEF InversePredicate, InverseTable
LEMMA InverseSays ==
  ASSUME NEW p \in ICmps, NEW x \in Int, NEW y \in Int
  PROVE  /\ InversePredicate(p) \in ICmps
         /\ IsSignedPredicate(InversePredicate(p)) <=> IsSignedPredicate(p)
         /\ Says(InversePredicate(p), x, y) <=> ~Says(p, x, y)
<1>1. CASE p \in {"IEQ", "INE"} BY <1>1, ICmpNames, TableIs DEF Says, IsSignedPredicate
<1>2. CASE p \in {"IUGT", "ISGT"} BY <1>2, ICmpNames, TableIs DEF Says, IsSignedPredicate
<1>3. CASE p \in {"IULE", "ISLE"} BY <1>3, ICmpNames, TableIs DEF Says, IsSignedPredicate
<1>4. CASE p \in {"IULT", "ISLT"} BY <1>4, ICmpNames, TableIs DEF Says, IsSignedPredicate
<1>5. CASE p \in {"IUGE", "ISGE"} BY <1>5, ICmpNames, TableIs DEF Says, IsSignedPredicate
<1> QED BY <1>1, <1>2, <1>3, <1>4, <1>5, ICmpNames
LEMMA SwapIs ==
  /\ Swapped("IEQ") = "IEQ" /\ Swapped("INE") = "INE"
  /\ Swapped("IUGT") = "IULT" /\ Swapped("IULT") = "IUGT"
  /\ Swapped("IULE") = "IUGE" /\ Swapped("IUGE") = "IULE"
  /\ Swapped("ISGT") = "ISLT" /\ Swapped("ISLT") = "ISGT"
  /\ Swapped("ISLE") = "ISGE" /\ Swapped("ISGE") = "ISLE"
BY DEF Swapped, SwappedTable
LEMMA SwappedSays ==
  ASSUME NEW p \in ICmps, NEW x \in Int, NEW y \in Int
  PROVE  /\ Swapped(p) \in ICmps
         /\ IsSignedPredicate(Swapped(p)) <=> IsSignedPredicate(p)
         /\ Says(Swapped(p), y, x) <=> Says(p, x, y)
<1>1. CASE p \in {"IEQ", "INE"} BY <1>1, ICmpNames, SwapIs DEF Says, IsSignedPredicate
<1>2. CASE p \in {"IUGT", "IULT", "ISGT", "ISLT"} BY <1>2, ICmpNames, SwapIs DEF Says, IsSignedPredicate
<1>3. CASE p \in {"IULE", "IUGE", "ISLE", "ISGE"} BY <1>3, ICmpNames, SwapIs DEF Says, IsSignedPredicate
<1> QED BY <1>1, <1>2, <1>3, ICmpNames
LEMMA FormSays ==
  ASSUME NEW p \in ICmps, NEW x \in Int, NEW y \in Int
  PROVE  /\ SignedPredicate(p) \in ICmps /\ ~IsUnsignedPredicate(SignedPredicate(p))
         /\ UnsignedPredicate(p) \in ICmps /\ ~IsSignedPredicate(UnsignedPredicate(p))
         /\ Says(SignedPredicate(p), x, y) <=> Says(p, x, y)
         /\ Says(UnsignedPredicate(p), x, y) <=> Says(p, x, y)
<1> DEFINE from(q) == CHOOSE u \in DOMAIN SignedTable : SignedTable[u] = q
<1>1. DOMAIN SignedTable = {"IUGT", "IULT", "IUGE", "IULE"} BY DEF SignedTable
<1>2. /\ SignedTable["IUGT"] = "ISGT" /\ SignedTable["IULT"] = "ISLT"
      /\ SignedTable["IUGE"] = "ISGE" /\ SignedTable["IULE"] = "ISLE"
  BY DEF SignedTable
<1>3. /\ from("ISGT") = "IUGT" /\ from("ISLT") = "IULT"
      /\ from("ISGE") = "IUGE" /\ from("ISLE") = "IULE"
  BY <1>1, <1>2
<1>4. UnsignedPredicate(p) = IF IsSignedPredicate(p) THEN from(p) ELSE p BY DEF UnsignedPredicate
<1> HIDE DEF from
<1>5. CASE p \in {"IEQ", "INE"}
  BY <1>1, <1>4, <1>5, ICmpNames DEF SignedPredicate, Says, IsSignedPredicate, IsUnsignedPredicate
<1>6. CASE p \in {"IUGT", "IUGE", "IULT", "IULE"}
  BY <1>1, <1>2, <1>4, <1>6, ICmpNames DEF SignedPredicate, Says, IsSignedPredicate, IsUnsignedPredicate
<1>7. CASE p \in {"ISGT", "ISGE", "ISLT", "ISLE"}
  BY <1>1, <1>3, <1>4, <1>7, ICmpNames DEF SignedPredicate, Says, IsSignedPredicate, IsUnsignedPredicate
<1> QED BY <1>5, <1>6, <1>7, ICmpNames

(* What the tables say of an integer predicate is true of all pairs of     *)
(* patterns: its inverse holds where it does not, its swapped form of the  *)
(* swapped operands, its signed form where its unsigned form does if both  *)
(* are not negative, and of equal operands if it is true when equal.       *)
(* getInversePredicate, getSwappedPredicate, getSignedPredicate.           *)
THEOREM IntegerPredicatesHold ==
  ASSUME NEW size \in Sizes, NEW p \in ICmps, NEW x \in 0 .. size - 1, NEW y \in 0 .. size - 1
  PROVE  /\ IntegerHolds(InversePredicate(p), x, y, size) <=> ~IntegerHolds(p, x, y, size)
         /\ IntegerHolds(Swapped(p), y, x, size) <=> IntegerHolds(p, x, y, size)
         /\ IsCommutative(p) => (IntegerHolds(p, x, y, size) <=> IntegerHolds(p, y, x, size))
         /\ IntegerHolds(p, x, x, size) <=> IsTrueWhenEqual(p)
         /\ x < size \div 2 /\ y < size \div 2 =>
              (IntegerHolds(SignedPredicate(p), x, y, size) <=> IntegerHolds(UnsignedPredicate(p), x, y, size))
<1>1. PICK n \in Nat \ {0} : size = 2 * n BY DEF Sizes
<1> DEFINE sx == SignedIn(x, 2 * n)
           sy == SignedIn(y, 2 * n)
<1>2. sx \in Int /\ sy \in Int BY <1>1, SignedIs
<1>3. ASSUME NEW q \in ICmps
      PROVE  /\ IntegerHolds(q, x, y, size) <=> IF IsSignedPredicate(q) THEN Says(q, sx, sy) ELSE Says(q, x, y)
             /\ IntegerHolds(q, y, x, size) <=> IF IsSignedPredicate(q) THEN Says(q, sy, sx) ELSE Says(q, y, x)
             /\ IntegerHolds(q, x, x, size) <=> IF IsSignedPredicate(q) THEN Says(q, sx, sx) ELSE Says(q, x, x)
  BY <1>1, HoldsSays
<1>4. x < n => sx = x BY <1>1, SignedIs
<1>5. y < n => sy = y BY <1>1, SignedIs
<1> HIDE DEF sx, sy
<1>6. IntegerHolds(InversePredicate(p), x, y, size) <=> ~IntegerHolds(p, x, y, size)
  <2>1. CASE IsSignedPredicate(p) BY <1>2, <1>3, <2>1, InverseSays
  <2>2. CASE ~IsSignedPredicate(p) BY <1>3, <2>2, InverseSays
  <2> QED BY <2>1, <2>2
<1>7. IntegerHolds(Swapped(p), y, x, size) <=> IntegerHolds(p, x, y, size)
  <2>1. CASE IsSignedPredicate(p) BY <1>2, <1>3, <2>1, SwappedSays
  <2>2. CASE ~IsSignedPredicate(p) BY <1>3, <2>2, SwappedSays
  <2> QED BY <2>1, <2>2
<1>8. IsCommutative(p) => (IntegerHolds(p, x, y, size) <=> IntegerHolds(p, y, x, size))
  <2> SUFFICES ASSUME IsCommutative(p) PROVE IntegerHolds(p, x, y, size) <=> IntegerHolds(p, y, x, size)
    OBVIOUS
  <2>1. p \in {"IEQ", "INE"} BY DEF IsCommutative, IsICmpEquality
  <2> QED BY <1>3, <2>1 DEF IsSignedPredicate, Says
<1>9. IntegerHolds(p, x, x, size) <=> IsTrueWhenEqual(p)
  BY <1>2, <1>3, ICmpNames DEF IsTrueWhenEqual, Says, IsSignedPredicate
<1>10. ASSUME x < size \div 2, y < size \div 2
       PROVE  IntegerHolds(SignedPredicate(p), x, y, size) <=> IntegerHolds(UnsignedPredicate(p), x, y, size)
  <2>1. sx = x /\ sy = y BY <1>1, <1>4, <1>5, <1>10, HalfOf
  <2> QED BY <1>3, <2>1, FormSays
<1> QED BY <1>6, <1>7, <1>8, <1>9, <1>10

LEMMA Wraps ==
  ASSUME NEW n \in Nat \ {0}, NEW a \in 0 .. 2 * n
  PROVE  a % (2 * n) = IF a = 2 * n THEN 0 ELSE a
OBVIOUS
LEMMA RangeIs ==
  ASSUME NEW n \in Nat \ {0}, NEW p \in ICmps, NEW c \in 0 .. 2 * n - 1
  PROVE  LET r == MakeRange(p, c, 2 * n)
             next == IF c = 2 * n - 1 THEN 0 ELSE c + 1
         IN  /\ r.lower = IF p \in {"IEQ", "IUGE", "ISGE"} THEN c
                          ELSE IF p \in {"INE", "IUGT", "ISGT"} THEN next
                          ELSE IF p \in {"IULT", "IULE"} THEN 0 ELSE n
             /\ r.upper = IF p \in {"INE", "IULT", "ISLT"} THEN c
                          ELSE IF p \in {"IEQ", "IULE", "ISLE"} THEN next
                          ELSE IF p \in {"IUGT", "IUGE"} THEN 0 ELSE n
<1>1. c % (2 * n) = c BY Wraps
<1>2. (c + 1) % (2 * n) = IF c = 2 * n - 1 THEN 0 ELSE c + 1
  <2>1. c + 1 \in 0 .. 2 * n OBVIOUS
  <2>2. (c + 1) % (2 * n) = IF c + 1 = 2 * n THEN 0 ELSE c + 1 BY <2>1, Wraps
  <2> QED BY <2>2
<1>3. 0 % (2 * n) = 0 BY Wraps
<1>4. n % (2 * n) = n BY Wraps
<1>5. (2 * n) \div 2 = n BY HalfOf
<1>6. p \in {"IEQ", "INE", "IUGT", "IUGE", "IULT", "IULE", "ISGT", "ISGE", "ISLT", "ISLE"} BY ICmpNames
<1> QED BY <1>1, <1>2, <1>3, <1>4, <1>5, <1>6 DEF MakeRange, RangeFrom

(* The range that is made of a predicate and a number holds exactly the    *)
(* numbers that compare so with it, past the largest to zero and past the  *)
(* largest that is not negative, unless these are none or all, for which   *)
(* there is no such range.  makeConstantRange.                             *)
THEOREM RangesExact ==
  ASSUME NEW size \in Sizes, NEW p \in ICmps, NEW c \in 0 .. size - 1,
         \E x \in 0 .. size - 1 : IntegerHolds(p, x, c, size),
         \E x \in 0 .. size - 1 : ~IntegerHolds(p, x, c, size)
  PROVE  \A x \in 0 .. size - 1 : IntegerHolds(p, x, c, size) <=> InRange(x, MakeRange(p, c, size))
<1>1. PICK n \in Nat \ {0} : size = 2 * n BY DEF Sizes
<1> DEFINE r == MakeRange(p, c, 2 * n)
           next == IF c = 2 * n - 1 THEN 0 ELSE c + 1
           of(x) == IF x >= n THEN x - 2 * n ELSE x
<1>2. /\ r.lower = IF p \in {"IEQ", "IUGE", "ISGE"} THEN c
                   ELSE IF p \in {"INE", "IUGT", "ISGT"} THEN next
                   ELSE IF p \in {"IULT", "IULE"} THEN 0 ELSE n
      /\ r.upper = IF p \in {"INE", "IULT", "ISLT"} THEN c
                   ELSE IF p \in {"IEQ", "IULE", "ISLE"} THEN next
                   ELSE IF p \in {"IUGT", "IUGE"} THEN 0 ELSE n
  BY <1>1, RangeIs
<1>3. ASSUME NEW x \in 0 .. size - 1
      PROVE  IntegerHolds(p, x, c, size) <=> IF IsSignedPredicate(p) THEN Says(p, of(x), of(c)) ELSE Says(p, x, c)
  BY <1>1, HoldsSays, SignedIs
<1>4. ASSUME NEW x \in 0 .. size - 1
      PROVE  InRange(x, r) <=> IF r.lower < r.upper THEN r.lower <= x /\ x < r.upper ELSE x >= r.lower \/ x < r.upper
  <2>1. r.lower \in Int /\ r.upper \in Int BY <1>1, <1>2
  <2> HIDE DEF r
  <2> QED BY <1>1, <2>1 DEF InRange
<1> HIDE DEF r
<1> SUFFICES ASSUME NEW x \in 0 .. size - 1 PROVE IntegerHolds(p, x, c, size) <=> InRange(x, r)
  BY <1>1 DEF r
<1>5. CASE p \in {"IEQ", "INE"} BY <1>1, <1>2, <1>3, <1>4, <1>5 DEF Says, IsSignedPredicate
<1>6. CASE p \in {"IUGT", "IUGE", "IULT", "IULE"}
  <2>1. CASE p = "IUGT" BY <1>1, <1>2, <1>3, <1>4, <2>1 DEF Says, IsSignedPredicate
  <2>2. CASE p = "IUGE" BY <1>1, <1>2, <1>3, <1>4, <2>2 DEF Says, IsSignedPredicate
  <2>3. CASE p = "IULT" BY <1>1, <1>2, <1>3, <1>4, <2>3 DEF Says, IsSignedPredicate
  <2>4. CASE p = "IULE" BY <1>1, <1>2, <1>3, <1>4, <2>4 DEF Says, IsSignedPredicate
  <2> QED BY <1>6, <2>1, <2>2, <2>3, <2>4
<1>7. CASE p \in {"ISGT", "ISGE", "ISLT", "ISLE"}
  <2>1. CASE p = "ISGT" BY <1>1, <1>2, <1>3, <1>4, <2>1 DEF Says, IsSignedPredicate
  <2>2. CASE p = "ISGE" BY <1>1, <1>2, <1>3, <1>4, <2>2 DEF Says, IsSignedPredicate
  <2>3. CASE p = "ISLT" BY <1>1, <1>2, <1>3, <1>4, <2>3 DEF Says, IsSignedPredicate
  <2>4. CASE p = "ISLE" BY <1>1, <1>2, <1>3, <1>4, <2>4 DEF Says, IsSignedPredicate
  <2> QED BY <1>7, <2>1, <2>2, <2>3, <2>4
<1> QED BY <1>5, <1>6, <1>7, ICmpNames

(* How the relation of two floating point numbers reads from the other     *)
(* side; U is that of numbers which are not ordered.                       *)
Mirrored(r) == CASE r = "L" -> "G" [] r = "G" -> "L" [] OTHER -> r
LEMMA FCmpNames ==
  FCmps = {"NEVER", "OEQ", "OGT", "OGE", "OLT", "OLE", "ONE", "ORD",
           "UNO", "UEQ", "UGT", "UGE", "ULT", "ULE", "UNE", "ALWAYS"}
BY DEF FCmps, FCmpCode
LEMMA FCmpCodeIs ==
  /\ FCmpCode["NEVER"] = {} /\ FCmpCode["OEQ"] = {"E"}
  /\ FCmpCode["OGT"] = {"G"} /\ FCmpCode["OGE"] = {"G", "E"}
  /\ FCmpCode["OLT"] = {"L"} /\ FCmpCode["OLE"] = {"L", "E"}
  /\ FCmpCode["ONE"] = {"L", "G"} /\ FCmpCode["ORD"] = {"E", "G", "L"}
  /\ FCmpCode["UNO"] = {"U"} /\ FCmpCode["UEQ"] = {"U", "E"}
  /\ FCmpCode["UGT"] = {"U", "G"} /\ FCmpCode["UGE"] = {"U", "G", "E"}
  /\ FCmpCode["ULT"] = {"U", "L"} /\ FCmpCode["ULE"] = {"U", "L", "E"}
  /\ FCmpCode["UNE"] = {"U", "L", "G"} /\ FCmpCode["ALWAYS"] = {"E", "G", "L", "U"}
BY DEF FCmpCode, Ordered
LEMMA FCmpInverseIs ==
  /\ InversePredicate("NEVER") = "ALWAYS" /\ InversePredicate("OEQ") = "UNE"
  /\ InversePredicate("OGT") = "ULE" /\ InversePredicate("OGE") = "ULT"
  /\ InversePredicate("OLT") = "UGE" /\ InversePredicate("OLE") = "UGT"
  /\ InversePredicate("ONE") = "UEQ" /\ InversePredicate("ORD") = "UNO"
  /\ InversePredicate("UNO") = "ORD" /\ InversePredicate("UEQ") = "ONE"
  /\ InversePredicate("UGT") = "OLE" /\ InversePredicate("UGE") = "OLT"
  /\ InversePredicate("ULT") = "OGE" /\ InversePredicate("ULE") = "OGT"
  /\ InversePredicate("UNE") = "OEQ" /\ InversePredicate("ALWAYS") = "NEVER"
BY DEF InversePredicate, InverseTable
LEMMA FCmpSwapIs ==
  /\ Swapped("NEVER") = "NEVER" /\ Swapped("OEQ") = "OEQ"
  /\ Swapped("OGT") = "OLT" /\ Swapped("OGE") = "OLE"
  /\ Swapped("OLT") = "OGT" /\ Swapped("OLE") = "OGE"
  /\ Swapped("ONE") = "ONE" /\ Swapped("ORD") = "ORD"
  /\ Swapped("UNO") = "UNO" /\ Swapped("UEQ") = "UEQ"
  /\ Swapped("UGT") = "ULT" /\ Swapped("UGE") = "ULE"
  /\ Swapped("ULT") = "UGT" /\ Swapped("ULE") = "UGE"
  /\ Swapped("UNE") = "UNE" /\ Swapped("ALWAYS") = "ALWAYS"
BY DEF Swapped, SwappedTable

LEMMA MirroredIs ==
  ASSUME NEW x \in Int, NEW y \in Int
  PROVE  Relation(y, x) = Mirrored(Relation(x, y))
BY DEF Relation, Mirrored

(* The same of the floating point predicates, whatever the relation of the *)
(* two numbers: the inverse has exactly the relations that a predicate has *)
(* not, the swapped form those seen from the other side, and only those    *)
(* called unordered hold of what is not ordered.                           *)
THEOREM FloatPredicatesHold ==
  ASSUME NEW p \in FCmps, NEW r \in {"L", "G", "E", "U"}
  PROVE  /\ r \in FCmpCode[InversePredicate(p)] <=> r \notin FCmpCode[p]
         /\ Mirrored(r) \in FCmpCode[Swapped(p)] <=> r \in FCmpCode[p]
         /\ IsCommutative(p) => (Mirrored(r) \in FCmpCode[p] <=> r \in FCmpCode[p])
         /\ IsOrdered(p) => "U" \notin FCmpCode[p]
         /\ IsUnordered(p) => "U" \in FCmpCode[p]
<1>1. p \notin ICmps BY FCmpNames, ICmpNames
<1>2. Mirrored("L") = "G" /\ Mirrored("G") = "L" /\ Mirrored("E") = "E" /\ Mirrored("U") = "U" BY DEF Mirrored
<1>3. r \in FCmpCode[InversePredicate(p)] <=> r \notin FCmpCode[p]
  BY FCmpNames, FCmpCodeIs, FCmpInverseIs
<1>4. Mirrored(r) \in FCmpCode[Swapped(p)] <=> r \in FCmpCode[p]
  BY <1>2, FCmpNames, FCmpCodeIs, FCmpSwapIs
<1>5. IsCommutative(p) => (Mirrored(r) \in FCmpCode[p] <=> r \in FCmpCode[p])
  BY <1>1, <1>2, FCmpNames, FCmpCodeIs DEF IsCommutative, IsFCmpEquality
<1>6. IsOrdered(p) => "U" \notin FCmpCode[p] BY FCmpNames, FCmpCodeIs DEF IsOrdered
<1>7. IsUnordered(p) => "U" \in FCmpCode[p] BY FCmpNames, FCmpCodeIs DEF IsUnordered
<1> QED BY <1>3, <1>4, <1>5, <1>6, <1>7
=============================================================================
