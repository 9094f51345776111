---------------------------- MODULE TypeRefinement ----------------------------
(***************************************************************************)
(* Types as objects.  A type is made once: the factories look it up in a    *)
(* map.  An abstract type, one that contains an opaque type, knows its      *)
(* users; when an opaque type is refined to another type, its users change  *)
(* in place, and one that has become like a type that there was before is   *)
(* refined to that type in turn.                                            *)
(***************************************************************************)
EXTENDS Integers, SequencesExt, FiniteSetsExt

CONSTANTS
  Places,        \* where types may be (bound)
  MaxOpaques,    \* how many opaque types there may be, with AlwaysOpaqueTy (bound)
  Clients        \* what a client does: the kinds of types that it makes, and how many operations,
                 \* handles, names in the symbol table and elements of a structure (bounds)

VARIABLES
  heap,      \* the types, and what refers to them
  handles,   \* PATypeHolders: the type that each refers to, 0 if there is none
  client,    \* one of Clients
  steps      \* how many operations there have been
vars == <<heap, handles, client, steps>>

Handles == 1 .. client.handles
Int32Ty == 1
AlwaysOpaqueTy == 2      \* what the elements of a type that is gone refer to
SymbolTable == 0         \* is a user, as a type is
TypeObject(id, elems, num, abstract) ==
  [id |-> id, elems |-> elems, num |-> num, abstract |-> abstract, refs |-> 0, users |-> << >>, forward |-> 0]
Gone == TypeObject("Gone", << >>, 0, FALSE)      \* what is at an address where there is no type
Init ==
  /\ heap = [types |-> [a \in Places |-> Gone]
                       @@ Int32Ty :> TypeObject("Integer", << >>, 32, FALSE)
                       @@ AlwaysOpaqueTy :> [TypeObject("Opaque", << >>, 0, TRUE) EXCEPT !.refs = 1],
             table |-> {}, byHash |-> << >>, names |-> << >>, failed |-> FALSE]
  /\ client \in Clients
  /\ handles = [k \in Handles |-> 0]
  /\ steps = 0

Check(h, holds) == IF holds THEN h ELSE [h EXCEPT !.failed = TRUE]
IsAbstract(h, a) == h.types[a].abstract

(***************************************************************************)
(* References (of holders) and users (of elements), counted for abstract    *)
(* types; an abstract type that has neither is freed.  What it has been     *)
(* refined to keeps the reference of the link.                              *)
(***************************************************************************)
RECURSIVE RemoveUser(_, _, _)
Release(h, a, u) == IF IsAbstract(h, a) THEN RemoveUser(h, a, u) ELSE h
Destroy(h, a) ==
  LET released == FoldLeft(LAMBDA g, c : Release(g, c, a), h, h.types[a].elems)
  IN  [Check(released, released.types[a].users = << >>) EXCEPT !.types[a] = Gone]
Unused(h, a) == h.types[a].refs = 0 /\ h.types[a].users = << >>
Collect(h, a) == IF IsAbstract(h, a) /\ Unused(h, a) THEN Destroy(h, a) ELSE h
RemoveUser(h, a, u) ==
  LET at == {i \in DOMAIN h.types[a].users : h.types[a].users[i] = u}
  IN  IF at = {} THEN Check(h, FALSE) ELSE Collect([h EXCEPT !.types[a].users = RemoveAt(@, Max(at))], a)
AddUser(h, a, u) == IF IsAbstract(h, a) THEN [h EXCEPT !.types[a].users = Append(@, u)] ELSE h
AddRef(h, a) == IF IsAbstract(h, a) THEN [h EXCEPT !.types[a].refs = @ + 1] ELSE h
DropRef(h, a) == IF IsAbstract(h, a) THEN Collect([h EXCEPT !.types[a].refs = @ - 1], a) ELSE h
SetElement(h, u, i, t) ==
  IF h.types[u].elems[i] = t THEN h
  ELSE AddUser([Release(h, h.types[u].elems[i], u) EXCEPT !.types[u].elems[i] = t], t, u)

(* What a type has been refined to; a holder that is read moves there, and  *)
(* the links it has followed are made shorter.                              *)
RECURSIVE Root(_, _)
Root(h, a) == IF h.types[a].forward = 0 THEN a ELSE Root(h, h.types[a].forward)
RECURSIVE Compress(_, _)
Compress(h, a) ==
  LET f == h.types[a].forward
      g == Compress(h, f)
  IN  IF h.types[f].forward = 0 THEN h
      ELSE [DropRef(AddRef(g, Root(h, a)), f) EXCEPT !.types[a].forward = Root(h, a)]
Followed(h, a) == IF h.types[a].forward = 0 THEN h ELSE AddRef(DropRef(Compress(h, a), a), Root(h, a))

(***************************************************************************)
(* The maps of the factories: by what a type is made of, and by its hash,   *)
(* which is 0 for a pointer to an opaque type.  Two shapes may have one     *)
(* hash; TypesEqual tells them apart.                                       *)
(***************************************************************************)
Shape(o) == <<o.id, Len(o.elems), o.num>>
Key(o) == <<o.id, o.elems, o.num>>
Hash(h, o) == <<o.id, IF o.id = "Pointer" THEN Shape(h.types[o.elems[1]]) ELSE Shape(o)>>
HashOf(h, a) == Hash(h, h.types[a])
ZeroHash(hash) == <<hash[1], <<"Opaque", 0, 0>>>>
Found(h, key) == {e[2] : e \in {e \in h.table : e[1] = key}}
InsertKey(h, a) == AddRef([h EXCEPT !.table = @ \cup {<<Key(h.types[a]), a>>}], a)
EraseKey(h, a) ==
  LET e == <<Key(h.types[a]), a>>
  IN  IF e \in h.table THEN DropRef([h EXCEPT !.table = @ \ {e}], a) ELSE Check(h, FALSE)
InsertHash(h, hash, a) == AddRef([h EXCEPT !.byHash = Append(@, <<hash, a>>)], a)
RemoveFromTypesByHash(h, hash, a) ==
  LET at(x) == {i \in DOMAIN h.byHash : h.byHash[i] = <<x, a>>}
      erase(i) == DropRef([h EXCEPT !.byHash = RemoveAt(@, i)], a)
  IN  CASE at(hash) # {} -> erase(Min(at(hash)))
        [] at(hash) = {} /\ at(ZeroHash(hash)) # {} -> erase(Min(at(ZeroHash(hash))))
        [] OTHER -> Check(h, FALSE)
Derived(h, a, o) ==    \* the type o is made at a
  LET used == FoldLeft(LAMBDA g, c : AddUser(g, c, a), [h EXCEPT !.types[a] = o], o.elems)
  IN  InsertHash(InsertKey(used, a), HashOf(used, a), a)

(***************************************************************************)
(* Two types are equal if they have the same shape, as far as that is       *)
(* known: what has been assumed of the types seen on the way is in eq.      *)
(***************************************************************************)
(* Mutant: a type seen before is taken to be equal to any other. *)
Anything(eq, a, b) == TRUE
Assumed(eq, a, b) == eq[a] = b
RECURSIVE TypesEqual(_, _, _, _)
TypesEqual(h, a, b, eq) ==
  LET x == h.types[a]
      y == h.types[b]
      element(r, i) == IF r.equal THEN TypesEqual(h, x.elems[i], y.elems[i], r.eq) ELSE r
  IN
  CASE a = b -> [equal |-> TRUE, eq |-> eq]
    [] a # b /\ (Shape(x) # Shape(y) \/ x.id = "Opaque") -> [equal |-> FALSE, eq |-> eq]
    [] a # b /\ Shape(x) = Shape(y) /\ x.id # "Opaque" /\ a \in DOMAIN eq -> [equal |-> Assumed(eq, a, b), eq |-> eq]
    [] OTHER -> FoldLeftDomain(element, [equal |-> TRUE, eq |-> eq @@ (a :> b)], x.elems)
IsEqual(h, a, b) == TypesEqual(h, a, b, << >>).equal

(* What is reached from a type through abstract types.                      *)
Children(h, a) == IF IsAbstract(h, a) THEN ToSet(h.types[a].elems) ELSE {}
RECURSIVE Reached(_, _)
Reached(h, as) ==
  LET more == as \cup UNION {Children(h, a) : a \in as} IN IF more = as THEN as ELSE Reached(h, more)
Below(h, a) == Reached(h, Children(h, a))
TypeHasCycleThroughItself(h, a) == a \in Below(h, a)

(***************************************************************************)
(* Abstract types that contain no opaque type any more become concrete, a   *)
(* cycle of types at once, what they contain first; the first cycle that    *)
(* does not ends it.  The users of a type that becomes concrete are told.   *)
(***************************************************************************)
RECURSIVE PostOrder(_, _, _)
PostOrder(h, a, seen) ==    \* seen, then what is below a, then a
  IF a \in ToSet(seen.path) \cup ToSet(seen.done) THEN seen
  ELSE LET visit(s, c) == PostOrder(h, c, s)
           below == FoldLeft(visit, [seen EXCEPT !.path = Append(@, a)], IF IsAbstract(h, a) THEN h.types[a].elems ELSE << >>)
       IN  [below EXCEPT !.done = Append(@, a)]
Cycle(h, a) == {a} \cup {b \in Below(h, a) : a \in Below(h, b)}
StaysAbstract(h, scc) ==
  \/ \E a \in scc : h.types[a].id = "Opaque"
  \/ \E a \in scc : \E c \in ToSet(h.types[a].elems) \ scc : IsAbstract(h, c)
RECURSIVE PromoteAbstractToConcrete(_, _)
TypeBecameConcrete(h, u, a) ==
  LET uses == SelectSeq(h.types[u].elems, LAMBDA c : c = a)
      g == FoldLeft(LAMBDA x, c : RemoveUser(x, a, u), h, uses)
  IN  PromoteAbstractToConcrete(g, u)
NameBecameConcrete(h, a) ==
  FoldLeft(LAMBDA g, c : IF c = a THEN RemoveUser(g, a, SymbolTable) ELSE g, h, h.names)
RECURSIVE NotifyLast(_, _, _)
NotifyLast(h, a, size) ==    \* each round, one user at least is gone
  IF h.types[a].users = << >> \/ h.failed THEN h
  ELSE LET u == Last(h.types[a].users)
           g == IF u = SymbolTable THEN NameBecameConcrete(h, a) ELSE TypeBecameConcrete(h, u, a)
       IN  NotifyLast(Check(g, Len(g.types[a].users) < size), a, size - 1)
NotifyUses(h, a) == NotifyLast(h, a, Len(h.types[a].users))
Concrete(h, scc) == [h EXCEPT !.types = [a \in DOMAIN @ |-> [@[a] EXCEPT !.abstract = @ /\ a \notin scc]]]
PromoteCycle(h, order, i) ==    \* the cycle that ends with the i-th type of order
  LET scc == Cycle(h, order[i])
  IN  FoldLeft(NotifyUses, Concrete(h, scc), SelectSeq(order, LAMBDA a : a \in scc))
RECURSIVE PromoteFrom(_, _, _)
PromoteFrom(h, order, i) ==
  CASE i > Len(order) -> h
    [] i <= Len(order) /\ (~IsAbstract(h, order[i]) \/ Cycle(h, order[i]) \cap ToSet(SubSeq(order, i + 1, Len(order))) # {}) ->
         PromoteFrom(h, order, i + 1)
    [] OTHER -> IF StaysAbstract(h, Cycle(h, order[i])) THEN h ELSE PromoteFrom(PromoteCycle(h, order, i), order, i + 1)
PromoteAbstractToConcrete(h, a) ==
  IF IsAbstract(h, a) THEN PromoteFrom(h, PostOrder(h, a, [path |-> << >>, done |-> << >>]).done, 1) ELSE h

(***************************************************************************)
(* The old type a is refined to t, which a holder follows while the users   *)
(* of a, the last first, change: types and the symbol table.                *)
(***************************************************************************)
RECURSIVE RefineAbstractType(_, _, _, _)
RefineNames(h, old, new) ==
  LET rename(g, n) ==
        IF g.names[n] # old THEN g
        ELSE AddUser([RemoveUser(g, old, SymbolTable) EXCEPT !.names[n] = new], new, SymbolTable)
  IN  FoldLeftDomain(rename, h, h.names)
(* Mutant: the type is not read again from its holder. *)
Unfollowed(h, t) == t
Target(h, t) == Root(h, t)
RECURSIVE RefineUsers(_, _, _)
RefineUsers(h, a, t) ==    \* t is where the holder is, which never moves to a
  IF h.failed \/ h.types[a].users = << >> THEN DropRef(DropRef(h, a), t)
  ELSE LET g == Followed(h, t)
           u == Last(h.types[a].users)
           new == Target(h, t)
           r == IF u = SymbolTable THEN RefineNames(g, a, new) ELSE RefineAbstractType(g, u, a, new)
       IN  RefineUsers(Check(r, Len(r.types[a].users) # Len(g.types[a].users)), a, new)
DropAllTypeUses(h, a) ==
  FoldLeftDomain(LAMBDA g, i : SetElement(g, a, i, IF i = 1 THEN AlwaysOpaqueTy ELSE Int32Ty), h, h.types[a].elems)
RefineAbstractTypeTo(h, a, t) ==
  IF ~(IsAbstract(h, a) /\ a # t /\ h.types[a].forward = 0) THEN Check(h, FALSE)
  ELSE LET linked == AddRef([AddRef(h, t) EXCEPT !.types[a].forward = t], t)
       IN  RefineUsers(DropAllTypeUses(AddRef(linked, a), a), a, t)

Replace(h, u, old, new) ==
  FoldLeftDomain(LAMBDA g, i : IF g.types[u].elems[i] = old THEN SetElement(g, u, i, new) ELSE g, h, h.types[u].elems)
(* Mutant: a type stays where its old hash was. *)
NotRehashed(h, u, oldHash) == h
Rehashed(h, u, oldHash) ==
  IF HashOf(h, u) = oldHash THEN h ELSE InsertHash(RemoveFromTypesByHash(h, oldHash, u), HashOf(h, u), u)
(* Mutant: types on a cycle are compared by their keys, too. *)
AlikeByKey(h, u) == Found(h, Key(h.types[u]))
Alike(h, u) ==    \* by the key or, on a cycle, one by one
  IF ~TypeHasCycleThroughItself(h, u) THEN Found(h, Key(h.types[u]))
  ELSE {h.byHash[i][2] : i \in {i \in DOMAIN h.byHash :
          h.byHash[i][1] = HashOf(h, u) /\ h.byHash[i][2] # u /\ IsEqual(h, u, h.byHash[i][2])}}
First(h, as) == SelectSeq(h.byHash, LAMBDA e : e[2] \in as)[1][2]
Merged(h, u, oldHash, t) == RefineAbstractTypeTo(RemoveFromTypesByHash(h, oldHash, u), u, t)
RefineAbstractType(h, u, old, new) ==
  IF ~IsAbstract(h, u) \/ old = new THEN Check(h, FALSE)
  ELSE LET erased == EraseKey(AddRef(h, u), u)
           changed == Replace(erased, u, old, new)
           alike == Alike(changed, u)
       IN  DropRef(IF alike # {} THEN Merged(changed, u, HashOf(erased, u), First(changed, alike))
                   ELSE PromoteAbstractToConcrete(Rehashed(InsertKey(changed, u), u, HashOf(erased, u)), u),
                   u)

(***************************************************************************)
(* What a client may do, with the handles that Core.h gives it.             *)
(***************************************************************************)
Types == {a \in DOMAIN heap.types : heap.types[a] # Gone}
Free == {a \in Places : heap.types[a] = Gone}
Fresh == Min(Free)
Current(k) == handles[k] # 0 /\ heap.types[handles[k]].forward = 0
Hold(h, k, a) ==    \* the first handle that is not in use
  /\ handles[k] = 0 /\ \A j \in 1 .. k - 1 : handles[j] # 0
  /\ heap' = AddRef(h, a)
  /\ handles' = [handles EXCEPT ![k] = a]
NewOpaque(k) ==
  /\ Free # {} /\ Cardinality({a \in Types : heap.types[a].id = "Opaque"}) < MaxOpaques
  /\ Hold([heap EXCEPT !.types[Fresh] = TypeObject("Opaque", << >>, 0, TRUE)], k, Fresh)
(* The factories: a type of these elements is found, or made.               *)
Get(k, id, elems, num) ==
  LET o == TypeObject(id, elems, num, \E c \in ToSet(elems) : IsAbstract(heap, c)) IN
  /\ id \in client.kinds
  /\ IF Found(heap, Key(o)) # {} THEN Hold(heap, k, CHOOSE a \in Found(heap, Key(o)) : TRUE)
     ELSE Free # {} /\ Hold(Derived(heap, Fresh, o), k, Fresh)
Elements == {handles[k] : k \in {k \in Handles : Current(k)}} \cup {Int32Ty}
ElementsBut(ids) == {a \in Elements : heap.types[a].id \notin ids}
GetPointer(k) == \E a \in Elements : Get(k, "Pointer", <<a>>, 0)
GetArray(k) == \E a \in ElementsBut({"Function"}) : Get(k, "Array", <<a>>, 2)
GetVector(k) == \E a \in {a \in Elements : heap.types[a].id \in {"Integer", "Opaque"}} : Get(k, "Vector", <<a>>, 2)
GetStruct(k) ==
  \E n \in 1 .. client.elements : \E elems \in [1 .. n -> ElementsBut({"Function"})] : Get(k, "Struct", elems, 0)
GetFunction(k) == \E a \in ElementsBut({"Function", "Struct"}) : Get(k, "Function", <<a>>, 1)
Refine(k, t) ==
  /\ Current(k) /\ handles[k] # t
  /\ heap.types[handles[k]].id = "Opaque"
  /\ heap' = RefineAbstractTypeTo(heap, handles[k], t)
  /\ UNCHANGED handles
Resolve(k) ==
  /\ handles[k] # 0 /\ ~Current(k)
  /\ heap' = Followed(heap, handles[k])
  /\ handles' = [handles EXCEPT ![k] = Root(heap, @)]
Dispose(k) ==
  /\ handles[k] # 0
  /\ heap' = DropRef(heap, handles[k])
  /\ handles' = [handles EXCEPT ![k] = 0]
AddTypeName(k) ==
  /\ Current(k) /\ Len(heap.names) < client.names
  /\ heap' = AddUser([heap EXCEPT !.names = Append(@, handles[k])], handles[k], SymbolTable)
  /\ UNCHANGED handles
RemoveTypeName ==
  \E n \in DOMAIN heap.names :
    /\ heap' = Release([heap EXCEPT !.names = RemoveAt(@, n)], heap.names[n], SymbolTable)
    /\ UNCHANGED handles
Operation ==
  \/ \E k \in Handles : \/ NewOpaque(k) \/ GetPointer(k) \/ GetArray(k) \/ GetVector(k) \/ GetStruct(k) \/ GetFunction(k)
                        \/ Resolve(k) \/ Dispose(k) \/ AddTypeName(k)
  \/ \E k \in Handles : \E t \in Elements : Refine(k, t)
  \/ RemoveTypeName
Next == steps < client.steps /\ steps' = steps + 1 /\ UNCHANGED client /\ Operation
Spec == Init /\ [][Next]_vars

(***************************************************************************)
(* Properties.                                                             *)
(***************************************************************************)
Made == Types \ {Int32Ty, AlwaysOpaqueTy}
Canonical == {a \in Made : heap.types[a].forward = 0 /\ heap.types[a].id # "Opaque"}

(* A type seen from a: its shape, and the same of its elements, those seen  *)
(* before by where they were seen first.                                    *)
RECURSIVE Picture(_, _)
Picture(a, p) ==
  LET o == heap.types[a] IN
  CASE a \in ToSet(p.seen) -> [p EXCEPT !.code = Append(@, <<"seen", CHOOSE i \in DOMAIN p.seen : p.seen[i] = a, 0>>)]
    [] a \notin ToSet(p.seen) /\ o.id = "Opaque" -> [p EXCEPT !.code = Append(@, <<"Opaque", a, 0>>)]
    [] OTHER -> FoldLeft(LAMBDA q, c : Picture(c, q),
                         [seen |-> Append(p.seen, a), code |-> Append(p.code, Shape(o))], o.elems)
Code(a) == Picture(a, [seen |-> << >>, code |-> << >>]).code
RECURSIVE HasOpaque(_, _)
HasOpaque(a, seen) ==
  \/ heap.types[a].id = "Opaque"
  \/ a \notin seen /\ \E c \in ToSet(heap.types[a].elems) : HasOpaque(c, seen \cup {a})

(* At rest there is one type of each kind: the maps hold the types that are *)
(* there by what they are made of now, no two of them look alike, and a     *)
(* type is abstract if and only if it contains an opaque type.              *)
TypesUnique ==
  /\ ~heap.failed
  /\ heap.table = {<<Key(heap.types[a]), a>> : a \in Canonical}
  /\ Len(heap.byHash) = Cardinality(Canonical)
  /\ ToSet(heap.byHash) = {<<HashOf(heap, a), a>> : a \in Canonical}
  /\ \A a \in Canonical, b \in Canonical : a # b => Code(a) # Code(b)
  /\ \A a \in Made : IsAbstract(heap, a) <=> HasOpaque(a, {})

(* Nothing refers to a type that has been freed; an abstract type knows     *)
(* each of its users as often as it is used, a concrete one knows none; no  *)
(* element and no name is a type that has been refined; and a type has at   *)
(* least one reference for each holder.                                     *)
Uses(a, u) == Cardinality({i \in DOMAIN heap.types[u].elems : heap.types[u].elems[i] = a})
Occurrences(s, u) == Cardinality({i \in DOMAIN s : s[i] = u})
Holders(a) ==
  Cardinality({e \in heap.table : e[2] = a}) + Cardinality({i \in DOMAIN heap.byHash : heap.byHash[i][2] = a})
  + Cardinality({k \in Handles : handles[k] = a}) + Cardinality({b \in Types : heap.types[b].forward = a})
TypesLinked ==
  /\ UNION {ToSet(heap.types[a].elems) \cup {heap.types[a].forward} : a \in Types} \subseteq Types \cup {0}
  /\ {e[2] : e \in heap.table} \cup {handles[k] : k \in Handles} \cup ToSet(heap.names) \subseteq Types \cup {0}
  /\ \A a \in Types :
       LET users == heap.types[a].users IN
       /\ ~IsAbstract(heap, a) => users = << >>
       /\ IsAbstract(heap, a) =>
            /\ \A u \in Types : Occurrences(users, u) = Uses(a, u)
            /\ Occurrences(users, SymbolTable) = Occurrences(heap.names, a)
            /\ heap.types[a].refs >= Holders(a)
       /\ heap.types[a].forward # 0 => users = << >>

(* Refining changes no type in any other way than that its opaque type is   *)
(* now the other type, however often it is merged: seen to the depth given. *)
RECURSIVE Unfolded(_, _, _, _, _)
Unfolded(h, a, old, new, depth) ==
  LET b == Root(h, a)
      c == IF b = old THEN new ELSE b
      o == h.types[c]
  IN  IF depth = 0 THEN <<"deep">>
      ELSE <<o.id, o.num, IF o.id = "Opaque" THEN c ELSE 0>>
           \o [i \in DOMAIN o.elems |-> Unfolded(h, o.elems[i], old, new, depth - 1)]
Seen(h, old, new) ==
  [k \in {k \in Handles : handles[k] # 0} |-> Unfolded(h, handles[k], old, new, 4)]
KeepShapes ==
  \A k \in Handles : \A t \in Elements :
    Refine(k, t) => Seen(heap', 0, 0) = Seen(heap, handles[k], t)
ShapesKept == [][KeepShapes]_vars
=============================================================================
