---------------------------- MODULE ConstantTable ----------------------------
(***************************************************************************)
(* Constants as objects.  A constant is made once: each class of constants  *)
(* has a map from a type and what the constant is made of.  When a value    *)
(* is replaced, the constants that use it change, and take another place    *)
(* in their map or give way to the constant that has it.  When a type is    *)
(* refined, its constants are made anew.                                    *)
(***************************************************************************)
EXTENDS Integers, SequencesExt, FiniteSetsExt

CONSTANTS
  Places,       \* where constants may be (bound)
  Clients       \* what a client does: the classes of constants that it makes, the types of
                \* their elements, and how many operations (bound)

VARIABLES
  pool,         \* the constants, their uses, their maps and their types
  client,       \* one of Clients
  steps         \* how many operations there have been
vars == <<pool, client, steps>>

(* P is a type of pointers, Q another one, of pointers to an opaque type;   *)
(* each has an array and a structure of two.  VI is a vector of integers.   *)
Aggregates == [Array |-> [P |-> "AP", Q |-> "AQ"], Struct |-> [P |-> "SP", Q |-> "SQ"]]
Concrete == [AQ |-> "AP", SQ |-> "SP"]
Types == {"I", "VI", "P", "Q", "AP", "AQ", "SP", "SQ"}
Classes == {"Zero", "Null", "Undef", "Array", "Struct", "Vector", "Expr"}
LargeKeys == {"Array", "Struct"}

Object(class, type, op, ops) == [class |-> class, type |-> type, op |-> op, ops |-> ops]
Gone == Object("Gone", "I", "none", << >>)
GlobalVariables == 1 .. 3
ZeroInt == 4
Instruction == 5      \* uses a constant, and is none
Fixed == 1 .. 5
Init ==
  /\ pool = [objects |-> [a \in Places |-> Gone] @@ 1 :> Object("Global", "P", "none", << >>)
                         @@ 2 :> Object("Global", "P", "none", << >>) @@ 3 :> Object("Global", "Q", "none", << >>)
                         @@ 4 :> Object("Int", "I", "none", << >>) @@ 5 :> Object("Instruction", "I", "none", <<4>>),
             uses |-> [a \in Places |-> << >>] @@ 1 :> << >> @@ 2 :> << >> @@ 3 :> << >> @@ 4 :> <<<<5, 1>>>> @@ 5 :> << >>,
             map |-> {}, inverse |-> {}, abstractTypes |-> {},
             types |-> [t \in Types |-> [abstract |-> t \in {"Q", "AQ", "SQ"}, made |-> t \in {"P", "Q", "I", "VI"},
                                         forward |-> t, users |-> << >>]],
             result |-> 0, failed |-> FALSE]
  /\ client \in Clients
  /\ steps = 0

Check(h, holds) == IF holds THEN h ELSE [h EXCEPT !.failed = TRUE]
ClassOf(h, c) == h.objects[c].class
IsNullValue(h, c) == ClassOf(h, c) \in {"Zero", "Null", "Int"}
IsAbstract(h, t) == h.types[t].abstract
RECURSIVE Forwarded(_, _)
Forwarded(h, t) == IF h.types[t].forward = t THEN t ELSE Forwarded(h, h.types[t].forward)
TypeOf(h, c) == Forwarded(h, h.objects[c].type)

(* The uses of a value, the newest first.                                   *)
AddUse(h, v, u, i) == [h EXCEPT !.uses[v] = <<<<u, i>>>> \o @]
DropUse(h, v, u, i) == [h EXCEPT !.uses[v] = SelectSeq(@, LAMBDA x : x # <<u, i>>)]
SetOperand(h, u, i, v) ==
  AddUse([DropUse(h, h.objects[u].ops[i], u, i) EXCEPT !.objects[u].ops[i] = v], v, u, i)

(***************************************************************************)
(* ValueMap.  For an abstract type it has an entry that stands for all of   *)
(* its constants of this type, and is a user of the type.                   *)
(***************************************************************************)
Key(o) == [class |-> o.class, type |-> o.type, op |-> o.op, ops |-> o.ops]
At(h, key) == {e \in h.map : e.key = key}
SameType(h, key) == {k \in h.abstractTypes : k.class = key.class /\ k.type = key.type}
FindExistingElement(h, c) ==    \* by the inverse map, or by a search
  IF ClassOf(h, c) \in LargeKeys THEN {e \in h.inverse : e.constant = c /\ e \in h.map}
  ELSE {e \in h.map : e.constant = c}
AddTypeUser(h, t, u) == [h EXCEPT !.types[t].users = Append(@, u)]
RemoveTypeUser(h, t, u) ==
  LET at == {i \in DOMAIN h.types[t].users : h.types[t].users[i] = u}
  IN  IF at = {} THEN Check(h, FALSE) ELSE [h EXCEPT !.types[t].users = RemoveAt(@, Max(at))]
Create(h, a, o) ==
  FoldLeftDomain(LAMBDA g, i : AddUse(g, o.ops[i], a, i), [h EXCEPT !.objects[a] = o, !.result = a], o.ops)
GetOrCreate(h, class, t, op, ops) ==
  LET o == Object(class, t, op, ops)
      a == Min({a \in Places : h.objects[a] = Gone})
      e == [key |-> Key(o), constant |-> a]
      entered == [Create(h, a, o) EXCEPT !.map = @ \cup {e}, !.inverse = IF class \in LargeKeys THEN @ \cup {e} ELSE @]
  IN  IF At(h, Key(o)) # {} THEN [h EXCEPT !.result = (CHOOSE x \in At(h, Key(o)) : TRUE).constant]
      ELSE IF ~IsAbstract(h, t) \/ SameType(h, e.key) # {} THEN entered
      ELSE AddTypeUser([entered EXCEPT !.abstractTypes = @ \cup {e.key}], t, class)
RemoveEntry(h, c) ==
  LET e == CHOOSE e \in FindExistingElement(h, c) : TRUE
      others == {x.key : x \in {x \in h.map : x.key.class = e.key.class /\ x.key.type = e.key.type} \ {e}}
      erased == [h EXCEPT !.map = @ \ {e}, !.inverse = @ \ {e}]
      left == [erased EXCEPT !.abstractTypes = @ \ {e.key}]
  IN  IF FindExistingElement(h, c) = {} THEN Check(h, FALSE)
      ELSE IF ~IsAbstract(h, e.key.type) THEN erased
      ELSE IF e.key \notin h.abstractTypes THEN Check(erased, SameType(h, e.key) # {})
      ELSE IF others # {} THEN [left EXCEPT !.abstractTypes = @ \cup {CHOOSE k \in others : TRUE}]
      ELSE RemoveTypeUser(left, e.key.type, e.key.class)
(* Mutant: the entry that stands for the type is not the new one. *)
MovedAway(h, old, key) == h
Represent(h, old, key) ==
  CASE ~IsAbstract(h, key.type) -> h
    [] IsAbstract(h, key.type) /\ old \in h.abstractTypes ->
         [h EXCEPT !.abstractTypes = (@ \ {old}) \cup {key}]
    [] OTHER -> Check(h, SameType(h, key) # {})
MoveConstantToNewSlot(h, c, key) ==    \* to an entry that has been made for it
  LET old == CHOOSE e \in FindExistingElement(h, c) : TRUE
      new == [key |-> key, constant |-> c]
  IN  IF FindExistingElement(h, c) = {} THEN Check(h, FALSE)
      ELSE Represent([h EXCEPT !.map = (@ \ {old}) \cup {new}, !.inverse = (@ \ {old}) \cup {new}], old.key, key)

(***************************************************************************)
(* A constant is destroyed with all constants that use it.                  *)
(***************************************************************************)
Deleted(h, c) ==
  LET o == h.objects[c]
  IN  [FoldLeftDomain(LAMBDA g, i : DropUse(g, o.ops[i], c, i), h, o.ops) EXCEPT !.objects[c] = Gone]
RECURSIVE DestroyConstant(_, _)
RECURSIVE DestroyConstantImpl(_, _)
DestroyConstantImpl(h, c) ==
  CASE h.failed -> h
    [] ~h.failed /\ h.uses[c] = << >> -> Deleted(h, c)
    [] OTHER -> DestroyConstantImpl(DestroyConstant(h, h.uses[c][1][1]), c)
DestroyConstant(h, c) ==
  IF ClassOf(h, c) \notin Classes THEN Check(h, FALSE) ELSE DestroyConstantImpl(RemoveEntry(h, c), c)

(***************************************************************************)
(* The constructors: what is zero or undefined in all of its elements is    *)
(* a constant of another class, and what folds is no expression.            *)
(***************************************************************************)
AllSame(ops) == \A i \in DOMAIN ops : ops[i] = ops[1]
AllNull(h, ops) == \A i \in DOMAIN ops : IsNullValue(h, ops[i])
Get(h, class, t, ops) ==
  LET zero == CASE class = "Struct" -> AllNull(h, ops)
                [] OTHER -> IsNullValue(h, ops[1]) /\ AllSame(ops)
  IN  CASE zero -> GetOrCreate(h, "Zero", t, "none", << >>)
        [] ~zero /\ class = "Vector" /\ ClassOf(h, ops[1]) = "Undef" /\ AllSame(ops) ->
             GetOrCreate(h, "Undef", t, "none", << >>)
        [] OTHER -> GetOrCreate(h, class, t, "none", ops)
RECURSIVE GetExpr(_, _, _, _)
GetExpr(h, t, op, ops) ==
  LET x == ops[1]
      known == ClassOf(h, x) IN
  CASE (op = "BitCast" /\ TypeOf(h, x) = t) \/ (op = "GetElementPtr" /\ IsNullValue(h, ops[2])) -> [h EXCEPT !.result = x]
    [] op # "GetElementPtr" /\ known = "Expr" /\ h.objects[x].op = "BitCast" -> GetExpr(h, t, op, h.objects[x].ops)
    [] op = "PtrToInt" /\ known = "Null" -> [h EXCEPT !.result = ZeroInt]
    [] op = "BitCast" /\ known = "Null" /\ TypeOf(h, x) # t -> GetOrCreate(h, "Null", t, "none", << >>)
    [] known = "Undef" /\ ~(op = "BitCast" /\ TypeOf(h, x) = t) /\ ~(op = "GetElementPtr" /\ IsNullValue(h, ops[2])) ->
         GetOrCreate(h, "Undef", t, "none", << >>)
    [] OTHER -> GetOrCreate(h, "Expr", t, op, ops)

(***************************************************************************)
(* All uses of a value are replaced, the newest first; a constant is told,  *)
(* and takes care of itself.                                                *)
(***************************************************************************)
RECURSIVE ReplaceUsesOfWithOnConstant(_, _, _, _, _)
RECURSIVE ReplaceAllUsesWith(_, _, _)
ReplaceAllUsesWith(h, old, new) ==
  IF h.failed \/ h.uses[old] = << >> THEN h
  ELSE LET u == h.uses[old][1][1]
           i == h.uses[old][1][2]
       IN  ReplaceAllUsesWith(IF ClassOf(h, u) \in Classes THEN ReplaceUsesOfWithOnConstant(h, u, i, old, new)
                              ELSE SetOperand(h, u, i, new), old, new)
ReplaceBy(h, c) ==    \* c gives way to the constant found
  IF h.result = c THEN Check(h, FALSE) ELSE DestroyConstant(ReplaceAllUsesWith(h, c, h.result), c)
SetOperands(h, c, ops) ==
  FoldLeftDomain(LAMBDA g, i : IF g.objects[c].ops[i] = ops[i] THEN g ELSE SetOperand(g, c, i, ops[i]), h, ops)
TakeShape(h, c, ops) ==
  LET key == [Key(h.objects[c]) EXCEPT !.type = TypeOf(h, c), !.ops = ops]
  IN  IF At(h, key) # {} THEN ReplaceBy([h EXCEPT !.result = (CHOOSE e \in At(h, key) : TRUE).constant], c)
      ELSE SetOperands(MoveConstantToNewSlot(h, c, key), c, ops)
(* Mutant: whether all elements are zero is seen before they are replaced. *)
ZeroBefore(h, old, new, to) == IsNullValue(h, to) /\ AllNull(h, old)
ZeroAfter(h, old, new, to) == IsNullValue(h, to) /\ AllNull(h, new)
(* Mutant: the last operand is read where the one before it is. *)
LastRepeated(ops) == [i \in DOMAIN ops |-> IF i = Len(ops) /\ i > 1 THEN ops[i - 1] ELSE ops[i]]
InOrder(ops) == ops
ReplaceUsesOfWithOnConstant(h, c, i, from, to) ==
  LET o == h.objects[c]
      all == [k \in DOMAIN o.ops |-> IF o.ops[k] = from THEN to ELSE o.ops[k]]
      zero == GetOrCreate(h, "Zero", TypeOf(h, c), "none", << >>)
  IN
  CASE o.class = "Array" -> IF ZeroAfter(h, o.ops, all, to) THEN ReplaceBy(zero, c) ELSE TakeShape(h, c, all)
    [] o.class = "Struct" ->    \* one use at a time; the elements are seen before they are replaced
         IF IsNullValue(h, to) /\ AllNull(h, o.ops) THEN ReplaceBy(zero, c) ELSE TakeShape(h, c, [o.ops EXCEPT ![i] = to])
    [] o.class = "Vector" -> ReplaceBy(Get(h, "Vector", TypeOf(h, c), all), c)
    [] o.class = "Expr" ->
         ReplaceBy(GetExpr(h, IF o.op = "GetElementPtr" THEN TypeOf(h, all[1]) ELSE TypeOf(h, c), o.op, InOrder(all)), c)

(***************************************************************************)
(* A type is refined: the constants of this type are made anew, one after   *)
(* the other, in the order in which its users were added, the last first.   *)
(* A type that contains it is refined in turn, or stays and is concrete.    *)
(***************************************************************************)
Converted(h, c, t) ==
  LET o == h.objects[c] IN
  CASE o.class \in {"Zero", "Null", "Undef"} -> GetOrCreate(h, o.class, t, "none", << >>)
    [] o.class = "Expr" -> GetExpr(h, t, o.op, o.ops)
    [] OTHER -> Get(h, o.class, t, o.ops)
RECURSIVE RefineTable(_, _, _, _)
RefineTable(h, class, old, new) ==
  LET left == {k \in h.abstractTypes : k.class = class /\ k.type = old}
      c == (CHOOSE e \in At(h, CHOOSE k \in left : TRUE) : TRUE).constant
  IN  IF left = {} \/ h.failed THEN h
      ELSE IF At(h, CHOOSE k \in left : TRUE) = {} THEN Check(h, FALSE)
      ELSE RefineTable(ReplaceBy(Converted(h, c, new), c), class, old, new)
BecameConcrete(h, t) ==    \* its users are told, and stay as they are
  [h EXCEPT !.types[t].abstract = FALSE, !.types[t].users = << >>, !.types[Concrete[t]].forward = t]
RECURSIVE RefineType(_, _, _)
RECURSIVE RefineTypeUsers(_, _, _)
RefineTypeUsers(h, old, new) ==
  IF h.failed \/ h.types[old].users = << >> THEN h
  ELSE LET u == Last(h.types[old].users)
           g == RemoveTypeUser(h, old, u)
       IN  RefineTypeUsers(IF u \in Classes THEN RefineTable(h, u, old, new)
                           ELSE IF h.types[Concrete[u]].made THEN RefineType(g, u, Concrete[u])
                           ELSE BecameConcrete(g, u), old, new)
RefineType(h, old, new) == RefineTypeUsers([h EXCEPT !.types[old].forward = new], old, new)

(***************************************************************************)
(* What a client may do.                                                    *)
(***************************************************************************)
Becomes(h) == pool' = [h EXCEPT !.result = 0] /\ pool' # pool
Live == {c \in DOMAIN pool.objects : pool.objects[c] # Gone}
Constants == {c \in Live : ClassOf(pool, c) \in Classes}
OfType(t) == {c \in Live \ {Instruction} : TypeOf(pool, c) = t}
Pointers == {Forwarded(pool, t) : t \in client.types}
(* The type is made: one that is abstract is a user of what it contains.    *)
WithType(h, t, element) ==
  IF h.types[t].made THEN h
  ELSE LET g == [h EXCEPT !.types[t].made = TRUE] IN IF IsAbstract(h, t) THEN AddTypeUser(g, element, t) ELSE g
GetSimple ==
  \E t \in Pointers, class \in {"Null", "Undef"} \cap client.classes :
    Becomes(GetOrCreate(pool, class, t, "none", << >>))
GetAggregate ==
  \E class \in {"Array", "Struct"} \cap client.classes, t \in Pointers : \E ops \in [1 .. 2 -> OfType(t)] :
    LET type == Forwarded(pool, Aggregates[class][t])
    IN  Becomes(Get(WithType(pool, type, t), class, type, ops))
GetVector ==
  "Vector" \in client.classes /\ \E ops \in [1 .. 2 -> OfType("I")] : Becomes(Get(pool, "Vector", "VI", ops))
GetCast ==
  /\ "Expr" \in client.classes
  /\ \E t \in Pointers : \E c \in OfType(t) :
       \/ Becomes(GetExpr(pool, "I", "PtrToInt", <<c>>))
       \/ \E u \in Pointers : Becomes(GetExpr(pool, u, "BitCast", <<c>>))
GetGetElementPtr ==    \* of a pointer that is none itself
  /\ "Expr" \in client.classes
  /\ \E t \in Pointers, i \in OfType("I") : \E c \in {c \in OfType(t) : pool.objects[c].op # "GetElementPtr"} :
       Becomes(GetExpr(pool, t, "GetElementPtr", <<c, i>>))
SetUse == \E c \in Constants : Becomes(SetOperand(pool, Instruction, 1, c))
Replace(g, c) ==
  /\ c # g /\ TypeOf(pool, c) = TypeOf(pool, g) /\ ClassOf(pool, c) \in {"Global", "Null", "Undef"}
  /\ pool.uses[g] # << >>
  /\ Becomes(ReplaceAllUsesWith(pool, g, c))
RECURSIVE Users(_)
Users(cs) == LET more == cs \cup {u[1] : u \in UNION {ToSet(pool.uses[c]) : c \in cs}} IN IF more = cs THEN cs ELSE Users(more)
Destroy == \E c \in Constants : Instruction \notin Users({c}) /\ Becomes(DestroyConstant(pool, c))
Refine == pool.types["Q"].forward = "Q" /\ Becomes(RefineType(pool, "Q", "P"))
Operation ==
  \/ GetSimple \/ GetAggregate \/ GetVector \/ GetCast \/ GetGetElementPtr \/ SetUse \/ Destroy \/ Refine
  \/ \E g \in GlobalVariables, c \in Live : Replace(g, c)
Next == steps < client.steps /\ steps' = steps + 1 /\ UNCHANGED client /\ Operation
Spec == Init /\ [][Next]_vars

(***************************************************************************)
(* Properties.                                                             *)
(***************************************************************************)
(* At rest each constant is at its place in the map of its class, and no    *)
(* other has its type and what it is made of; what stands for an abstract   *)
(* type is an entry of this type, if there is one, and the map is a user of *)
(* the type as long as there is one.  An array that is zero is no array.    *)
ConstantsUnique ==
  /\ ~pool.failed
  /\ pool.map = {[key |-> Key(pool.objects[c]), constant |-> c] : c \in Constants}
  /\ pool.inverse = {e \in pool.map : e.key.class \in LargeKeys}
  /\ \A c, d \in Constants : c # d => Key(pool.objects[c]) # Key(pool.objects[d])
  /\ \A c \in Constants : pool.types[pool.objects[c].type].forward = pool.objects[c].type
  /\ \A t \in {t \in Types : IsAbstract(pool, t)}, class \in Classes :
       LET entries == {e.key : e \in {e \in pool.map : e.key.class = class /\ e.key.type = t}}
           standing == {k \in pool.abstractTypes : k.class = class /\ k.type = t}
       IN  /\ Cardinality(standing) = (IF entries = {} THEN 0 ELSE 1) /\ standing \subseteq entries
           /\ Cardinality({i \in DOMAIN pool.types[t].users : pool.types[t].users[i] = class}) = Cardinality(standing)
  /\ \A c \in Constants : ClassOf(pool, c) \in {"Array", "Vector"} => ~AllNull(pool, pool.objects[c].ops)

(* The uses of a value are the operands that refer to it, each once.        *)
UsesKnown ==
  \A v \in DOMAIN pool.objects :
    /\ ToSet(pool.uses[v]) = {u \in Live \X {1, 2} : u[2] \in DOMAIN pool.objects[u[1]].ops /\ pool.objects[u[1]].ops[u[2]] = v}
    /\ Len(pool.uses[v]) = Cardinality(ToSet(pool.uses[v]))

(* What a constant is, down to the globals, one of them taken for another:  *)
(* what is zero has elements that are zero.                                 *)
RECURSIVE Tree(_, _, _, _)
Tree(h, c, from, to) ==
  LET o == IF c = from THEN h.objects[to] ELSE h.objects[c]
      tree(d) == Tree(h, d, from, to)
      null == <<"Null">>
  IN  CASE o.class = "Global" -> <<"Global", IF c = from THEN to ELSE c>>
        [] o.class \in {"Null", "Int"} -> null
        [] o.class = "Undef" -> <<"Undef">>
        [] o.class = "Zero" -> <<"Aggregate", null, null>>
        [] o.class \in {"Array", "Struct", "Vector"} ->
             IF tree(o.ops[1]) = <<"Undef">> /\ tree(o.ops[2]) = <<"Undef">> THEN <<"Undef">>
             ELSE <<"Aggregate", tree(o.ops[1]), tree(o.ops[2])>>
        [] o.class = "Expr" /\ o.op = "BitCast" -> tree(o.ops[1])
        [] o.class = "Expr" /\ o.op = "PtrToInt" ->
             IF tree(o.ops[1]) \in {null, <<"Undef">>} THEN tree(o.ops[1]) ELSE <<"PtrToInt", tree(o.ops[1])>>
        [] o.class = "Expr" /\ o.op = "GetElementPtr" ->
             CASE tree(o.ops[2]) = null -> tree(o.ops[1])
               [] tree(o.ops[2]) # null /\ tree(o.ops[1]) = <<"Undef">> -> <<"Undef">>
               [] OTHER -> <<"GetElementPtr", tree(o.ops[1]), tree(o.ops[2])>>
Used(h, from, to) == Tree(h, h.objects[Instruction].ops[1], from, to)

(* What an instruction uses changes in nothing but the global that is       *)
(* replaced, and not at all when a type is refined.                         *)
KeepTrees ==
  /\ \A g \in GlobalVariables, c \in Live : Replace(g, c) => Used(pool', 0, 0) = Used(pool, g, c)
  /\ Refine => Used(pool', 0, 0) = Used(pool, 0, 0)
TreesKept == [][KeepTrees]_vars
=============================================================================
