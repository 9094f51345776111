------------------------------ MODULE UseList ------------------------------
(***************************************************************************)
(* Every operand is a Use, and the uses of a value form a list through the *)
(* uses themselves.  A use knows the place that points to it, the head of  *)
(* the list or the next field of another use, so that it leaves the list   *)
(* without a search.                                                       *)
(***************************************************************************)
EXTENDS Naturals, FiniteSets

CONSTANTS
  Uses,     \* the uses there may be
  Values,   \* the values they may hold
  None      \* the null pointer
ASSUME UsesAssumption == None \notin Uses /\ None \notin Values /\ IsFiniteSet(Uses)

VARIABLE mem   \* val of each use, the use that each place points to, and prev

ListHead(v) == <<"list", v>>   \* Value::UseList
NextOf(x) == <<"next", x>>     \* Use::Next
Places == {ListHead(v) : v \in Values} \cup {NextOf(x) : x \in Uses}

NoUses ==
  [val |-> [x \in Uses |-> None], ptr |-> [l \in Places |-> None], prev |-> [x \in Uses |-> None]]

(* Mutant: the use that was first still has the head before it. *)
AddUnlinked(m, x, l) ==
  [m EXCEPT !.ptr = [m.ptr EXCEPT ![NextOf(x)] = m.ptr[l], ![l] = x], !.prev[x] = l]
AddToList(m, x, l) ==
  [m EXCEPT !.ptr = [m.ptr EXCEPT ![NextOf(x)] = m.ptr[l], ![l] = x],
            !.prev = [u \in Uses |-> IF u = x THEN l ELSE IF u = m.ptr[l] THEN NextOf(x) ELSE m.prev[u]]]

(* x holds nothing from here on, until it is set. *)
RemoveFromList(m, x) ==
  LET next == m.ptr[NextOf(x)]
  IN  [m EXCEPT !.ptr[m.prev[x]] = next, !.val[x] = None,
                !.prev = [u \in Uses |-> IF u = next THEN m.prev[x] ELSE m.prev[u]]]

Leave(m, x) == IF m.val[x] = None THEN m ELSE RemoveFromList(m, x)
Enter(m, x, v) ==
  IF v = None THEN m ELSE AddToList([m EXCEPT !.val[x] = v], x, ListHead(v))
Set(m, x, v) == Enter(Leave(m, x), x, v)

(* Mutant: the second use is still in its list when it is added to another. *)
SwapWithin(m, x, y) ==
  LET v == m.val[x]
      w == m.val[y]
  IN  IF v = w THEN m ELSE Enter(Enter(Leave(m, x), x, w), y, v)
Swap(m, x, y) ==
  LET v == m.val[x]
      w == m.val[y]
  IN  IF v = w THEN m ELSE Enter(Enter(Leave(Leave(m, x), y), x, w), y, v)
-----------------------------------------------------------------------------
Init == mem = NoUses
SetUse(x, v) == mem' = Set(mem, x, v)
SwapUses(x, y) == mem' = Swap(mem, x, y)
Next ==
  \/ \E x \in Uses, v \in Values \cup {None} : SetUse(x, v)
  \/ \E x, y \in Uses : SwapUses(x, y)
Spec == Init /\ [][Next]_mem
-----------------------------------------------------------------------------
Memories ==
  [val : [Uses -> Values \cup {None}], ptr : [Places -> Uses \cup {None}],
   prev : [Uses -> Places \cup {None}]]
TypeOK == mem \in Memories

(* The value in whose list a place is, None for one that is in no list. *)
ListOf(m, l) == IF l[1] = "list" THEN l[2] ELSE m.val[l[2]]
Pointed(m, x) ==
  m.prev[x] \in Places /\ m.ptr[m.prev[x]] = x /\ ListOf(m, m.prev[x]) = m.val[x]
Points(m, l) == m.prev[m.ptr[l]] = l /\ m.val[m.ptr[l]] = ListOf(m, l)
IsLinked(m) ==
  /\ \A x \in Uses : m.val[x] # None => Pointed(m, x)
  /\ \A l \in Places : ListOf(m, l) # None /\ m.ptr[l] # None => Points(m, l)

(* A use that holds a value is what its prev points to, in the list of its *)
(* value, and what a place of a list points to has that place before it:   *)
(* Use::addToList, Use::removeFromList.                                    *)
Linked == IsLinked(mem)

(* The list of v, followed from its head to its end, is s. *)
At(s, i) == IF i \in DOMAIN s THEN s[i] ELSE None
Follows(m, v, s) ==
  /\ m.ptr[ListHead(v)] = At(s, 1)
  /\ \A i \in DOMAIN s : m.ptr[NextOf(s[i])] = At(s, i + 1)
HoldsOnce(m, v, s) ==
  /\ \A i, j \in DOMAIN s : s[i] = s[j] => i = j
  /\ \A x \in Uses : m.val[x] = v <=> \E i \in DOMAIN s : s[i] = x

(* The list of a value holds each use of the value once and nothing else:  *)
(* what use_iterator, hasNUses and getNumUses walk.                        *)
ListsExact ==
  \A v \in Values : \E n \in 0 .. Cardinality(Uses) : \E s \in [1 .. n -> Uses] :
    Follows(mem, v, s) /\ HoldsOnce(mem, v, s)
=============================================================================
