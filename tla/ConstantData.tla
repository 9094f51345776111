---------------------------- MODULE ConstantData ----------------------------
(***************************************************************************)
(* Constants, by what they are made of: a constant of the code is unique,  *)
(* so one object is one value of this module (ConstantTable says how).     *)
(***************************************************************************)
EXTENDS Casts, CmpPredicates, BitValues, FiniteSets

ConstantInt(t, v) == [kind |-> "Int", type |-> t, value |-> v]
ConstantFP(t, v) == [kind |-> "FP", type |-> t, value |-> v]
UndefValue(t) == [kind |-> "Undef", type |-> t]
ConstantPointerNull(t) == [kind |-> "Null", type |-> t]
ConstantAggregateZero(t) == [kind |-> "Zero", type |-> t]
Aggregate(kind, t, ops) == [kind |-> kind, type |-> t, ops |-> ops]
ConstantExpr(op, t, ops) == [kind |-> "Expr", op |-> op, type |-> t, ops |-> ops]
CompareExpr(op, p, t, ops) == [kind |-> "Expr", op |-> op, pred |-> p, type |-> t, ops |-> ops]
IndicesExpr(op, t, ops, idxs) == [kind |-> "Expr", op |-> op, idxs |-> idxs, type |-> t, ops |-> ops]
Global(t, name, weak, alias, align) ==
  [kind |-> "Global", type |-> PointerType(t, 0), name |-> name, weak |-> weak, alias |-> alias, align |-> align]
None == [kind |-> "None"]        \* the null pointer of the code
Failed == [kind |-> "Failed"]    \* an assertion

IsUndef(c) == c.kind = "Undef"
IsExpr(c) == c.kind = "Expr"
IsExprOf(c, op) == IsExpr(c) /\ c.op = op
IsGlobal(c) == c.kind = "Global"
IsFunction(c) == ElementType(c.type).id = "Function"
IsNullValue(c) == c.kind \in {"Null", "Zero"} \/ (c.kind \in {"Int", "FP"} /\ c.value = 0)
Operands(c) == IF "ops" \in DOMAIN c THEN c.ops ELSE << >>

NullValue(t) ==
  CASE IsInteger(t) -> ConstantInt(t, 0)
    [] IsFloatingPoint(t) -> ConstantFP(t, 0)
    [] IsPointer(t) -> ConstantPointerNull(t)
    [] IsAggregateType(t) \/ IsVector(t) -> ConstantAggregateZero(t)
    [] OTHER -> Failed
NegativeZero(t) == ConstantFP(t, 2^(Bits(t) - 1))
Truth(b) == ConstantInt(Int1, IF b THEN 1 ELSE 0)

AllSame(cs) == \A c \in ToSet(cs) : c = cs[1]
(* (Mutant: a vector is zero as soon as one of its elements is.) *)
FirstDecides(t, cs) == IF IsNullValue(cs[1]) THEN ConstantAggregateZero(t) ELSE
                       IF AllSame(cs) /\ IsUndef(cs[1]) THEN UndefValue(t) ELSE Aggregate("Vector", t, cs)
VectorGet(t, cs) ==
  CASE AllSame(cs) /\ IsNullValue(cs[1]) -> ConstantAggregateZero(t)
    [] AllSame(cs) /\ IsUndef(cs[1]) -> UndefValue(t)
    [] OTHER -> Aggregate("Vector", t, cs)
VectorOf(cs) == VectorGet(VectorType(cs[1].type, Len(cs)), cs)
ArrayGet(t, cs) ==
  IF cs = << >> \/ (IsNullValue(cs[1]) /\ AllSame(cs)) THEN ConstantAggregateZero(t) ELSE Aggregate("Array", t, cs)
StructGet(t, cs) ==
  IF \A c \in ToSet(cs) : IsNullValue(c) THEN ConstantAggregateZero(t) ELSE Aggregate("Struct", t, cs)
StructOf(cs) == StructGet(StructType([i \in 1 .. Len(cs) |-> cs[i].type], FALSE), cs)

Repeated(n, c) == [i \in 1 .. n |-> c]
IntegerOnes(t) == ConstantInt(t, 2^t.bits - 1)
VectorOnes(t) ==
  IF IsInteger(ElementType(t)) THEN VectorOf(Repeated(t.num, IntegerOnes(ElementType(t)))) ELSE Failed
AllOnes(t) == IF IsInteger(t) THEN IntegerOnes(t) ELSE VectorOnes(t)
IsAllOnes(c) == c = IntegerOnes(c.type)
VectorElements(c) ==
  CASE c.kind = "Vector" -> c.ops
    [] c.kind = "Zero" -> Repeated(c.type.num, NullValue(ElementType(c.type)))
    [] c.kind = "Undef" -> Repeated(c.type.num, UndefValue(ElementType(c.type)))
    [] OTHER -> << >>
ZeroValueForNegation(t) ==
  IF IsVector(t) /\ IsFloatingPoint(ElementType(t))
  THEN VectorGet(t, Repeated(t.num, NegativeZero(ElementType(t))))
  ELSE IF IsFloatingPoint(t) THEN NegativeZero(t) ELSE NullValue(t)

(* What may trap, and what is only known when the program is loaded. *)
Divisions == {"UDiv", "SDiv", "FDiv", "URem", "SRem", "FRem"}
(* (Mutant: only the divisor is looked at.) *)
RECURSIVE CanTrap(_)
ShallowTrap(c) == IsExpr(c) /\ c.op \in Divisions /\ (c.ops[2].kind # "Int" \/ IsNullValue(c.ops[2]))
CanTrap(c) ==
  /\ IsExpr(c)
  /\ \/ \E o \in ToSet(c.ops) : CanTrap(o)
     \/ c.op \in Divisions /\ (c.ops[2].kind # "Int" \/ IsNullValue(c.ops[2]))
RECURSIVE ContainsRelocations(_)
ContainsRelocations(c) == IsGlobal(c) \/ \E o \in ToSet(Operands(c)) : ContainsRelocations(o)

(* The type a list of indices leads to: of a getelementptr, whose first    *)
(* index only moves over the pointer, and of an aggregate.                 *)
NoType == [id |-> "none"]
IndexOf(c) == [type |-> c.type, constant |-> c.kind = "Int", value |-> IF c.kind = "Int" THEN c.value ELSE 0]
Walk(t, c) ==
  IF IsComposite(t) /\ ~IsPointer(t) /\ IndexValid(t, IndexOf(c)) THEN TypeAtIndex(t, IndexOf(c)) ELSE NoType
IndexedType(t, idxs) ==
  IF ~IsPointer(t) THEN NoType
  ELSE IF idxs = << >> THEN ElementType(t) ELSE FoldLeft(Walk, ElementType(t), Tail(idxs))
Field(t, i) ==
  CASE t.id = "Struct" /\ i < Len(t.contained) -> t.contained[i + 1]
    [] t.id = "Array" -> ElementType(t)
    [] OTHER -> NoType
FieldType(t, idxs) == FoldLeft(Field, t, idxs)

(* The result of a comparison, and what its constructors assert. *)
CmpResultType(t) == IF IsVector(t) THEN VectorType(Int1, t.num) ELSE Int1
CmpType(op, t) ==
  CASE op \in {"ICmp", "FCmp"} -> CmpResultType(t)
    [] op = "VICmp" -> t
    [] op = "VFCmp" -> VectorInteger(t)
ICmpIsValid(p, t, u) == p \in ICmps /\ t = u /\ (IsIntOrIntVector(t) \/ IsPointer(t))
FCmpIsValid(p, t, u) == p \in FCmps /\ t = u /\ IsFPOrFPVector(t)
VICmpIsValid(p, t, u) == p \in ICmps /\ t = u
VFCmpIsValid(p, t, u) == p \in FCmps /\ t = u
CmpIsValid(op, p, t, u) ==
  CASE op = "ICmp" -> ICmpIsValid(p, t, u)
    [] op = "FCmp" -> FCmpIsValid(p, t, u)
    [] op = "VICmp" -> VICmpIsValid(p, t, u)
    [] op = "VFCmp" -> VFCmpIsValid(p, t, u)

(* The expressions, before they are folded. *)
BinaryOps == {"Add", "Sub", "Mul", "UDiv", "SDiv", "FDiv", "URem", "SRem", "FRem",
              "And", "Or", "Xor", "Shl", "LShr", "AShr"}
CastExpr(op, c, t) == ConstantExpr(op, t, <<c>>)
BinaryExpr(op, x, y) == ConstantExpr(op, x.type, <<x, y>>)
SelectExpr(c, x, y) == ConstantExpr("Select", x.type, <<c, x, y>>)
(* A comparison is of the kind its operands ask for. *)
CompareOp(p, t) ==
  IF p \in ICmps THEN IF IsVector(t) THEN "VICmp" ELSE "ICmp" ELSE IF IsVector(t) THEN "VFCmp" ELSE "FCmp"
Comparison(p, x, y) ==
  CompareExpr(CompareOp(p, x.type), p, CmpType(CompareOp(p, x.type), x.type), <<x, y>>)
GEPExpr(c, idxs) ==
  ConstantExpr("GetElementPtr",
               IF IsPointer(c.type) THEN PointerType(IndexedType(c.type, idxs), c.type.space) ELSE NoType, <<c>> \o idxs)
ExtractElementExpr(v, i) == ConstantExpr("ExtractElement", ElementType(v.type), <<v, i>>)
InsertElementExpr(v, c, i) == ConstantExpr("InsertElement", v.type, <<v, c, i>>)
ShuffleExpr(v, w, mask) == ConstantExpr("ShuffleVector", v.type, <<v, w, mask>>)
ExtractValueExpr(agg, idxs) == IndicesExpr("ExtractValue", FieldType(agg.type, idxs), <<agg>>, idxs)
InsertValueExpr(agg, c, idxs) == IndicesExpr("InsertValue", agg.type, <<agg, c>>, idxs)

(* What their constructors assert.  Fewer casts of vectors are constants   *)
(* than are instructions.                                                  *)
ConstantCastIsValid(op, src, dst) ==
  CASE op \in ToSet(IntegerCasts) -> IsInteger(src) /\ IsInteger(dst) /\ CastIsValid(op, src, dst)
    [] op \in ToSet(FPCasts) -> IsFloatingPoint(src) /\ IsFloatingPoint(dst) /\ CastIsValid(op, src, dst)
    [] op \in ToSet(IntegerToFloat) ->
         (IsVector(src) <=> IsVector(dst)) /\ IsIntOrIntVector(src) /\ IsFPOrFPVector(dst)
    [] op \in ToSet(FloatToInteger) ->
         (IsVector(src) <=> IsVector(dst)) /\ IsFPOrFPVector(src) /\ IsIntOrIntVector(dst)
    [] OTHER -> CastIsValid(op, src, dst)
BinaryIsValid(op, t, u) ==
  /\ t = u
  /\ CASE op \in {"Add", "Sub", "Mul"} -> IsInteger(t) \/ IsFloatingPoint(t) \/ IsVector(t)
       [] op \in {"UDiv", "SDiv", "URem", "SRem"} -> IsIntOrIntVector(t)
       [] op \in {"FDiv", "FRem"} -> IsFPOrFPVector(t)
       [] op \in {"And", "Or", "Xor"} -> IsInteger(t) \/ IsVector(t)
       [] op \in {"Shl", "LShr", "AShr"} -> IsInteger(t)
CompareIsValid(op, p, t, u) == t = u /\ p \in IF op = "ICmp" THEN ICmps ELSE FCmps
VectorCompareIsValid(op, p, t, u) == IsVector(t) /\ CmpIsValid(op, p, t, u)
SelectIsValid(c, t, u) == c = Int1 /\ t = u /\ IsFirstClassType(t)
GEPIsValid(t) == t # NoType /\ ElementType(t) # NoType
ExtractElementIsValid(v, i) == IsVector(v) /\ i = Int32
InsertElementIsValid(v, t, i) == IsVector(v) /\ t = ElementType(v) /\ i = Int32
ShuffleIsValid(t, u, mask) ==
  IsVector(t) /\ t = u /\ IsVector(mask) /\ ElementType(mask) = Int32 /\ mask.num = t.num
ExtractValueIsValid(agg, t) == IsFirstClassType(agg) /\ t # NoType
InsertValueIsValid(agg, t, idxs) == IsFirstClassType(agg) /\ FieldType(agg, idxs) = t
ExprIsValid(e, t) ==    \* t: the types of its operands
  CASE e.op \in ToSet(CastOps) -> IsFirstClassType(e.type) /\ ConstantCastIsValid(e.op, t[1], e.type)
    [] e.op \in BinaryOps -> BinaryIsValid(e.op, t[1], t[2])
    [] e.op \in {"ICmp", "FCmp"} -> CompareIsValid(e.op, e.pred, t[1], t[2])
    [] e.op \in {"VICmp", "VFCmp"} -> VectorCompareIsValid(e.op, e.pred, t[1], t[2])
    [] e.op = "Select" -> SelectIsValid(t[1], t[2], t[3])
    [] e.op = "GetElementPtr" -> GEPIsValid(e.type)
    [] e.op = "ExtractElement" -> ExtractElementIsValid(t[1], t[2])
    [] e.op = "InsertElement" -> InsertElementIsValid(t[1], t[2], t[3])
    [] e.op = "ShuffleVector" -> ShuffleIsValid(t[1], t[2], t[3])
    [] e.op = "ExtractValue" -> ExtractValueIsValid(t[1], e.type)
    [] e.op = "InsertValue" -> InsertValueIsValid(t[1], t[2], e.idxs)
OperandTypes(e) == [i \in 1 .. Len(e.ops) |-> e.ops[i].type]
=============================================================================
