--------------------------- MODULE ConstantMeaning ---------------------------
(***************************************************************************)
(* The values a constant may have in the running program: the definition   *)
(* that what is folded is compared with.  It is the language's, not the    *)
(* code's: what is undefined has every value.  A value of a vector or of   *)
(* an aggregate is the sequence of its elements.  Where says where each    *)
(* global is in memory; it is at zero if it is not there.                  *)
(***************************************************************************)
EXTENDS ConstantFold

CONSTANT Globals     \* the globals with memory of their own

SizeInBits(t) == IF IsPointer(t) THEN PtrBits ELSE Bits(t)
RECURSIVE Product(_)
Product(sets) ==
  IF sets = << >> THEN {<< >>}
  ELSE {Append(s, v) : s \in Product(Front(sets)), v \in Last(sets)}
RECURSIVE Values(_)
Values(t) ==
  CASE IsVector(t) \/ t.id = "Array" -> Product(Repeated(t.num, Values(ElementType(t))))
    [] t.id = "Struct" -> Product([i \in 1 .. Len(t.contained) |-> Values(t.contained[i])])
    [] OTHER -> Patterns(SizeInBits(t))
RECURSIVE Zeros(_)
Zeros(t) ==
  CASE IsVector(t) \/ t.id = "Array" -> Repeated(t.num, Zeros(ElementType(t)))
    [] t.id = "Struct" -> [i \in 1 .. Len(t.contained) |-> Zeros(t.contained[i])]
    [] OTHER -> 0

(* The layout of memory, in bytes. *)
RECURSIVE Size(_)
Size(t) ==
  CASE t.id = "Struct" -> FoldLeft(LAMBDA n, f : n + Size(f), 0, t.contained)
    [] IsVector(t) \/ t.id = "Array" -> t.num * Size(ElementType(t))
    [] t.id = "Function" -> 1
    [] OTHER -> IF SizeInBits(t) > WordBits THEN 2 ELSE 1
FieldOffset(t, i) == FoldLeft(LAMBDA n, f : n + Size(f), 0, SubSeq(t.contained, 1, i))
Object(g, where) == where[g.name] .. where[g.name] + Size(ElementType(g.type)) - 1
AddressSpace == 0 .. 2^(PtrBits - 1) - 1
(* An address stays within what it is the address of, at every level. *)
Addresses(from, to, where) ==
  LET objects == {g \in Globals : where[g.name] # 0 /\ from \in Object(g, where)} IN
  IF \A g \in objects : to \in Object(g, where) /\ to \in AddressSpace
  THEN IF to \in AddressSpace THEN {to} ELSE Patterns(PtrBits) ELSE Patterns(PtrBits)
Step(s, i) ==    \* s: the type, the offset and whether the indices are in range
  IF s.type.id = "Struct"
  THEN [type |-> s.type.contained[i.value + 1], offset |-> s.offset + FieldOffset(s.type, i.value), ok |-> s.ok]
  ELSE [type |-> ElementType(s.type), offset |-> s.offset + i.index * Size(ElementType(s.type)),
        ok |-> s.ok /\ (IsPointer(s.type) \/ (i.index >= 0 /\ i.index < s.type.num))]
Indexed(e, v, where) ==
  LET index(k) == [value |-> v[k], index |-> Signed(v[k], e.ops[k].type.bits)]
      steps == FoldLeft(Step, [type |-> e.ops[1].type, offset |-> 0, ok |-> TRUE], [k \in 1 .. Len(v) - 1 |-> index(k + 1)])
  IN  IF steps.ok THEN Addresses(v[1], v[1] + steps.offset, where) ELSE Patterns(PtrBits)

(* What an operation makes of the values v of its operands. *)
ScalarResults(op, t, u, x) == Cast(op, x, SizeInBits(t), SizeInBits(u))
CastResult(op, t, u, x) ==
  CASE ~IsVector(t) /\ ~IsVector(u) -> ScalarResults(op, t, u, x)
    [] IsVector(t) /\ IsVector(u) /\ t.num = u.num ->
         Product([i \in 1 .. t.num |-> ScalarResults(op, ElementType(t), ElementType(u), x[i])])
    [] OTHER -> Values(u)
BinaryResults(op, t, x, y) ==
  IF IsFloatingPoint(t) THEN {FloatCompute(op, x, y, Bits(t))} ELSE Results(op, x, y, t.bits)
Holds(p, t, x, y) ==
  CASE p \in FCmps -> FloatRelation(x, y, Bits(t)) \in FCmpCode[p]
    [] OTHER -> IntegerHolds(p, x, y, 2^SizeInBits(t))
AllOrNone(b, t) == IF b THEN 2^t.bits - 1 ELSE 0
RECURSIVE At(_, _)
At(v, idxs) == IF idxs = << >> THEN v ELSE At(v[idxs[1] + 1], Tail(idxs))
RECURSIVE With(_, _, _)
With(v, idxs, x) ==
  IF idxs = << >> THEN x ELSE [v EXCEPT ![idxs[1] + 1] = With(v[idxs[1] + 1], Tail(idxs), x)]
Operation(e, v, where) ==
  LET t == e.ops[1].type IN
  CASE e.op \in ToSet(CastOps) -> CastResult(e.op, t, e.type, v[1])
    [] e.op \in BinaryOps ->
         IF IsVector(t) THEN Product([i \in 1 .. t.num |-> BinaryResults(e.op, ElementType(t), v[1][i], v[2][i])])
         ELSE BinaryResults(e.op, t, v[1], v[2])
    [] e.op \in {"ICmp", "FCmp"} -> {AllOrNone(Holds(e.pred, t, v[1], v[2]), Int1)}
    [] e.op \in {"VICmp", "VFCmp"} ->
         {[i \in 1 .. t.num |-> AllOrNone(Holds(e.pred, ElementType(t), v[1][i], v[2][i]), ElementType(e.type))]}
    [] e.op = "Select" -> {IF v[1] = 1 THEN v[2] ELSE v[3]}
    [] e.op = "GetElementPtr" -> Indexed(e, v, where)
    [] e.op = "ExtractElement" -> IF v[2] < t.num THEN {v[1][v[2] + 1]} ELSE Values(e.type)
    [] e.op = "InsertElement" -> IF v[3] < t.num THEN {[v[1] EXCEPT ![v[3] + 1] = v[2]]} ELSE Values(e.type)
    [] e.op = "ShuffleVector" ->
         Product([i \in 1 .. t.num |->
           IF v[3][i] < 2 * t.num THEN {(v[1] \o v[2])[v[3][i] + 1]} ELSE Values(ElementType(t))])
    [] e.op = "ExtractValue" -> {At(v[1], e.idxs)}
    [] e.op = "InsertValue" -> {With(v[1], e.idxs, v[2])}

RECURSIVE Meaning(_, _)
Meaning(c, where) ==
  CASE c.kind \in {"Int", "FP"} -> {c.value}
    [] c.kind = "Undef" -> Values(c.type)
    [] c.kind \in {"Null", "Zero"} -> {Zeros(c.type)}
    [] IsGlobal(c) -> {where[c.name]}
    [] IsExpr(c) -> UNION {Operation(c, v, where) : v \in Product([i \in 1 .. Len(c.ops) |-> Meaning(c.ops[i], where)])}
    [] OTHER -> Product([i \in 1 .. Len(c.ops) |-> Meaning(c.ops[i], where)])

(* Whether a division by zero takes place while c is evaluated. *)
RECURSIVE DividesByZero(_, _)
DividesByZero(c, where) ==
  \/ \E o \in ToSet(Operands(c)) : DividesByZero(o, where)
  \/ IsExpr(c) /\ c.op \in Divisions /\ ~IsVector(c.type) /\ 0 \in Meaning(c.ops[2], where)

(* That a constant is one the code may make: every part of it is valid. *)
RECURSIVE WellMade(_)
WellMade(c) ==
  /\ c.kind \notin {"Failed", "None"}
  /\ \A o \in ToSet(Operands(c)) : WellMade(o)
  /\ IsExpr(c) => ExprIsValid(c, OperandTypes(c))
  /\ c.kind = "Vector" => \A o \in ToSet(c.ops) : o.type = ElementType(c.type)
  /\ c.kind = "Vector" => Len(c.ops) = c.type.num /\ VectorOf(c.ops) = c
=============================================================================
