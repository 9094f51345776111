---------------------------- MODULE ConstantFold ----------------------------
(***************************************************************************)
(* Get(e) is the constant that stands for the expression e: what folding   *)
(* makes of it or, if folding makes nothing of it, e itself.               *)
(***************************************************************************)
EXTENDS ConstantData

RECURSIVE Get(_)
Int64 == IntegerType(2 * WordBits)
Int8 == IntegerType(2)    \* the smallest type here that is larger than Int1
Scalar(t, v) == IF IsFloatingPoint(t) THEN ConstantFP(t, v) ELSE ConstantInt(t, v)
Elementwise(E(_), cs) == VectorOf([i \in 1 .. Len(cs) |-> Get(E(cs[i]))])

(***************************************************************************)
(* Casts.                                                                  *)
(***************************************************************************)

(* The zero indices that lead from a pointer to what begins there. *)
RECURSIVE Descent(_, _, _)
Descent(t, target, zeros) ==
  IF t = target THEN zeros
  ELSE IF t.id \in {"Struct", "Array", "Vector"} /\ t.contained # << >>
       THEN Descent(t.contained[1], target, Append(zeros, NullValue(Int32))) ELSE << >>
BitCastVector(v, dest) ==
  IF dest.num # Len(v.ops) \/ \E o \in ToSet(v.ops) : o.kind \notin {"Int", "FP"} THEN None
  ELSE LET element(c) == CastExpr("BitCast", c, ElementType(dest)) IN Elementwise(element, v.ops)
Begins(v, dest, zeros) == IF zeros = << >> THEN None ELSE Get(GEPExpr(v, zeros))
FoldBitCast(v, dest) ==
  CASE v.type = dest -> v
    [] IsPointer(dest) /\ v.type.space = dest.space
       /\ Descent(ElementType(v.type), ElementType(dest), <<NullValue(Int32)>>) # << >> ->
         Begins(v, dest, Descent(ElementType(v.type), ElementType(dest), <<NullValue(Int32)>>))
    [] IsVector(dest) /\ v.kind = "Zero" -> NullValue(dest)
    [] IsVector(dest) /\ v.kind = "Vector" -> BitCastVector(v, dest)
    [] v.kind = "Null" -> ConstantPointerNull(dest)
    [] v.kind = "Int" /\ IsInteger(dest) -> v
    [] v.kind = "Int" /\ IsFloatingPoint(dest) ->
         IF dest.id \in {"Double", "Float"} THEN ConstantFP(dest, v.value) ELSE Failed
    [] v.kind = "FP" -> IF dest \in {Int32, Int64} THEN ConstantInt(dest, v.value) ELSE Failed
    [] OTHER -> None

PointerCastOf(c, t) == Get(CastExpr(PointerCast(c.type, t), c, t))
CastOfCast(op, c, t, pair) == IF pair = Asserts THEN Failed ELSE Get(CastExpr(pair, c, t))
AllIndicesNull(e) == \A i \in 2 .. Len(e.ops) : IsNullValue(e.ops[i])
PairOf(op, v, dest) ==
  IF IsExpr(v) /\ v.op \in ToSet(CastOps) THEN EliminableCastPair(v.op, op, v.ops[1].type, v.type, dest) ELSE Refused
Converted(op, v, dest) ==    \* in integers and floats: APInt and APFloat
  Scalar(dest, CHOOSE r \in Cast(op, v.value, Bits(v.type), Bits(dest)) : TRUE)
ConstantFoldCastInstruction(op, v, dest) ==
  CASE IsUndef(v) -> IF op \in {"ZExt", "SExt", "UIToFP", "SIToFP"} THEN NullValue(dest) ELSE UndefValue(dest)
    [] ~IsUndef(v) /\ "PPC_FP128" \in {v.type.id, dest.id} -> None
    [] PairOf(op, v, dest) # Refused -> CastOfCast(op, v.ops[1], dest, PairOf(op, v, dest))
    [] IsExprOf(v, "GetElementPtr") /\ AllIndicesNull(v) -> PointerCastOf(v.ops[1], dest)
    [] OTHER ->
         CASE op = "BitCast" -> FoldBitCast(v, dest)
           [] op \in {"PtrToInt", "IntToPtr"} -> IF IsNullValue(v) THEN NullValue(dest) ELSE None
           [] op \in {"FPToUI", "FPToSI", "UIToFP", "SIToFP"} /\ v.kind = "Vector" ->
                LET element(c) == CastExpr(op, c, ElementType(dest)) IN Elementwise(element, v.ops)
           [] OTHER -> IF v.kind \in {"Int", "FP"} THEN Converted(op, v, dest) ELSE None

(***************************************************************************)
(* What selects, and what is taken from and put into vectors and           *)
(* aggregates.                                                             *)
(***************************************************************************)
ConstantFoldSelectInstruction(c, x, y) ==
  CASE c.kind = "Int" -> IF c.value # 0 THEN x ELSE y
    [] IsUndef(x) -> y
    [] IsUndef(y) \/ IsUndef(c) \/ x = y -> x
    [] OTHER -> None

OperandAt(cs, i) == IF i < Len(cs) THEN cs[i + 1] ELSE Failed
ConstantFoldExtractElementInstruction(v, i) ==
  CASE IsUndef(v) -> UndefValue(ElementType(v.type))
    [] IsNullValue(v) -> NullValue(ElementType(v.type))
    [] v.kind = "Vector" /\ i.kind = "Int" -> OperandAt(v.ops, i.value)
    [] v.kind = "Vector" /\ IsUndef(i) -> v.ops[1]
    [] OTHER -> None
(* (Mutant: the elements are counted from one.) *)
PutFromOne(cs, i, c) == [k \in 1 .. Len(cs) |-> IF k = i THEN c ELSE cs[k]]
Put(cs, i, c) == [k \in 1 .. Len(cs) |-> IF k = i + 1 THEN c ELSE cs[k]]
ConstantFoldInsertElementInstruction(v, c, i) ==
  CASE i.kind # "Int" -> None
    [] v.kind = "Undef" /\ IsUndef(c) -> v
    [] v.kind = "Zero" /\ IsNullValue(c) -> v
    [] v.kind \in {"Undef", "Zero", "Vector"} -> VectorOf(Put(VectorElements(v), i.value, c))
    [] OTHER -> None
GetVectorElement(v, i) == IF VectorElements(v) = << >> THEN None ELSE VectorElements(v)[i]
Shuffled(v, w, m) ==
  CASE m.kind = "Undef" -> UndefValue(ElementType(v.type))
    [] m.kind = "Int" -> IF m.value >= 2 * v.type.num THEN UndefValue(ElementType(v.type))
                         ELSE IF m.value >= v.type.num THEN GetVectorElement(w, m.value - v.type.num + 1)
                         ELSE GetVectorElement(v, m.value + 1)
    [] OTHER -> None
AllKnown(cs) == IF \E c \in ToSet(cs) : c.kind = "None" THEN None ELSE VectorOf(cs)
ConstantFoldShuffleVectorInstruction(v, w, mask) ==
  CASE IsUndef(mask) -> UndefValue(v.type)
    [] VectorElements(mask) = << >> -> None
    [] OTHER -> AllKnown([i \in 1 .. v.type.num |-> Shuffled(v, w, VectorElements(mask)[i])])

RECURSIVE ConstantFoldExtractValueInstruction(_, _)
ConstantFoldExtractValueInstruction(agg, idxs) ==
  CASE idxs = << >> -> agg
    [] idxs # << >> /\ IsUndef(agg) -> UndefValue(FieldType(agg.type, idxs))
    [] idxs # << >> /\ agg.kind = "Zero" -> NullValue(FieldType(agg.type, idxs))
    [] OTHER -> ConstantFoldExtractValueInstruction(OperandAt(Operands(agg), idxs[1]), Tail(idxs))
FieldCount(t) == IF t.id = "Array" THEN t.num ELSE Len(t.contained)
FieldConstants(agg) ==    \* an aggregate that is undefined or zero is broken up
  CASE agg.kind = "Undef" -> [i \in 1 .. FieldCount(agg.type) |-> UndefValue(Field(agg.type, i - 1))]
    [] agg.kind = "Zero" -> [i \in 1 .. FieldCount(agg.type) |-> NullValue(Field(agg.type, i - 1))]
    [] OTHER -> agg.ops
AggregateOf(t, cs) == IF t.id = "Struct" THEN StructOf(cs) ELSE ArrayGet(t, cs)
RECURSIVE ConstantFoldInsertValueInstruction(_, _, _)
ConstantFoldInsertValueInstruction(agg, c, idxs) ==
  CASE idxs = << >> -> c
    [] idxs # << >> /\ ((IsUndef(agg) /\ IsUndef(c)) \/ (agg.kind = "Zero" /\ IsNullValue(c))) -> agg
    [] idxs # << >> /\ agg.kind \notin {"Undef", "Zero", "Struct", "Array"} -> None
    [] OTHER ->
         LET put(i, f) == IF i = idxs[1] + 1 THEN ConstantFoldInsertValueInstruction(f, c, Tail(idxs)) ELSE f
             from(fields) == [i \in 1 .. Len(fields) |-> put(i, fields[i])]
         IN  AggregateOf(agg.type, from(FieldConstants(agg)))

(***************************************************************************)
(* Arithmetic.                                                             *)
(***************************************************************************)
FoldUndefOperands(op, x, y) ==
  LET null == NullValue(x.type) IN
  CASE op = "Xor" -> IF IsUndef(x) /\ IsUndef(y) THEN null ELSE UndefValue(x.type)
    [] op \in {"Add", "Sub"} -> UndefValue(x.type)
    [] op \in {"Mul", "And", "Shl"} -> null
    [] op \in Divisions -> IF IsUndef(y) THEN y ELSE null
    [] op = "Or" -> AllOnes(x.type)
    [] op = "LShr" -> IF IsUndef(x) /\ IsUndef(y) THEN x ELSE null
    [] op = "AShr" -> x

(* The bits a zero-extended value may have; those the address of a global  *)
(* has not (mutant: four bits of the address of a function are clear).     *)
LowBits(n, width) == (2^n - 1) % 2^width
AlignmentTaken(g) == IF IsFunction(g) THEN 16 ELSE g.align
AlignmentOf(g) == IF IsFunction(g) /\ g.align < 4 THEN 4 ELSE g.align
ClearBits(g, width) == IF AlignmentOf(g) > 1 THEN (AlignmentOf(g) - 1) % 2^width ELSE 0
AndBy(x, y) ==
  CASE IsNullValue(y) -> y
    [] IsAllOnes(y) -> x
    [] IsExprOf(x, "ZExt") /\ LowBits(Bits(x.ops[1].type), y.type.bits) & y.value = LowBits(Bits(x.ops[1].type), y.type.bits) -> x
    [] IsExprOf(x, "PtrToInt") /\ IsGlobal(x.ops[1]) /\ y.value & ClearBits(x.ops[1], y.type.bits) = y.value ->
         NullValue(y.type)
    [] OTHER -> None
FoldIntegerRight(op, x, y) ==
  CASE op = "And" -> AndBy(x, y)
    [] op \in {"Add", "Sub", "Or", "Xor"} /\ y.value = 0 -> x
    [] op = "Or" /\ IsAllOnes(y) -> y
    [] op = "Mul" /\ y.value = 0 -> y
    [] op \in {"Mul", "UDiv", "SDiv"} /\ y.value = 1 -> x
    [] op \in {"URem", "SRem"} /\ y.value = 1 -> NullValue(y.type)
    [] op = "AShr" /\ IsExprOf(x, "ZExt") -> Get(BinaryExpr("LShr", x, y))
    [] OTHER -> None
(* (Mutant: the sign is taken for a digit.) *)
FoldUnsigned(op, x, y) ==
  IF Traps(op, y.value) THEN None
  ELSE ConstantInt(x.type, Compute(IF op = "SDiv" THEN "UDiv" ELSE op, x.value, y.value, x.type.bits))
FoldIntegers(op, x, y) ==
  CASE op \in {"Shl", "LShr", "AShr"} /\ y.value >= x.type.bits -> UndefValue(x.type)
    [] Traps(op, y.value) \/ (op \in {"SDiv", "SRem"} /\ Overflows(op, x.value, y.value, x.type.bits)) -> None
    [] OTHER -> ConstantInt(x.type, Compute(op, x.value, y.value, x.type.bits))
FoldFloats(op, x, y) ==
  IF op = "FRem" /\ Magnitude(y.value, Bits(y.type)) = 0 /\ x.type.id \notin {"Double", "Float"} THEN None
  ELSE ConstantFP(x.type, FloatCompute(op, x.value, y.value, Bits(x.type)))
FoldVectors(op, x, y) ==
  IF {x.kind, y.kind} \subseteq {"Vector", "Zero"} /\ op \notin {"Shl", "LShr", "AShr"}
  THEN LET pair(p) == BinaryExpr(op, p[1], p[2])
           xs == VectorElements(x)
           ys == VectorElements(y)
       IN  Elementwise(pair, [i \in 1 .. Len(xs) |-> <<xs[i], ys[i]>>])
  ELSE None
FoldOperands(op, x, y) ==
  CASE x.kind = "Int" /\ y.kind = "Int" -> FoldIntegers(op, x, y)
    [] x.kind = "FP" /\ y.kind = "FP" -> FoldFloats(op, x, y)
    [] x.kind \notin {"Int", "FP"} /\ IsVector(x.type) -> FoldVectors(op, x, y)
    [] OTHER -> None
Else(c, other) == IF c.kind = "None" THEN other ELSE c
FoldBinary(op, x, y) ==
  CASE x.type.id = "PPC_FP128" -> None
    [] x.type.id # "PPC_FP128" /\ (IsUndef(x) \/ IsUndef(y)) -> FoldUndefOperands(op, x, y)
    [] OTHER -> Else(IF y.kind = "Int" THEN FoldIntegerRight(op, x, y) ELSE None, FoldOperands(op, x, y))
ConstantFoldBinaryInstruction(op, x, y) ==
  Else(FoldBinary(op, x, y),
       IF op \in {"Add", "Mul", "And", "Or", "Xor"} /\ IsExpr(y) /\ ~IsExpr(x) THEN FoldBinary(op, y, x) ELSE None)

(***************************************************************************)
(* Comparisons.                                                            *)
(***************************************************************************)
RECURSIVE IsMaybeZeroSized(_)
IsMaybeZeroSized(t) ==
  \/ t.id = "Opaque"
  \/ t.id \in {"Struct", "Array"} /\ \A f \in ToSet(t.contained) : IsMaybeZeroSized(f)
BadPredicate == "BAD"
SignedOr(signed, p) == IF signed THEN SignedPredicate(p) ELSE p
IdxCompare(c, d, t) ==    \* "E", "L" or "G", and "U" if it is not known
  CASE c = d -> "E"
    [] c # d /\ (c.kind # "Int" \/ d.kind # "Int") -> "U"
    [] OTHER -> LET r == Relation(Signed(c.value, c.type.bits), Signed(d.value, d.type.bits))
                IN  IF r # "E" /\ IsMaybeZeroSized(t) THEN "U" ELSE r
(* The first index that tells two lists apart, from the i-th on; what is   *)
(* left over of the longer list tells them apart if it is not zero.        *)
LeftOver(cs, r) ==
  IF cs = << >> THEN "E" ELSE IF IsNullValue(cs[1]) THEN "again" ELSE IF cs[1].kind = "Int" THEN r ELSE "U"
RECURSIVE CompareIndices(_, _, _, _)
CompareIndices(xs, ys, i, pointer) ==
  LET common == i <= Len(xs) /\ i <= Len(ys)
      r == IF common THEN IdxCompare(xs[i], ys[i], IndexedType(pointer, SubSeq(xs, 1, i)))
           ELSE IF i <= Len(xs) THEN LeftOver(SubSeq(xs, i, Len(xs)), "G")
           ELSE LeftOver(SubSeq(ys, i, Len(ys)), "L")
  IN  IF r = "again" \/ (common /\ r = "E") THEN CompareIndices(xs, ys, i + 1, pointer) ELSE r
RelationPredicate(r, signed) ==
  CASE r = "E" -> "IEQ" [] r = "U" -> BadPredicate
    [] r = "L" -> SignedOr(signed, "IULT") [] r = "G" -> SignedOr(signed, "IUGT")

(* A getelementptr and: a null pointer, a global, another getelementptr.   *)
(* (Mutant: what is at an offset from null is taken to be null.)           *)
NullStaysNull(e) == "IEQ"
NullWithOffset(e) == IF AllIndicesNull(e) THEN "IEQ" ELSE "IUGT"
GEPAndNull(e, signed) ==
  CASE IsGlobal(e.ops[1]) -> SignedOr(signed, IF e.ops[1].weak THEN "IUGE" ELSE "IUGT")
    [] e.ops[1].kind = "Null" -> SignedOr(signed, NullWithOffset(e))
    [] OTHER -> BadPredicate
GEPAndGlobal(e, g, signed) ==
  CASE e.ops[1].kind = "Null" -> SignedOr(signed, IF g.weak THEN "IULE" ELSE "IULT")
    [] IsGlobal(e.ops[1]) /\ e.ops[1] = g ->
         IF Len(e.ops) = 2 /\ ~IsNullValue(e.ops[2]) THEN SignedOr(signed, "IUGT") ELSE Asserts
    [] IsGlobal(e.ops[1]) /\ e.ops[1] # g -> "INE"
    [] OTHER -> BadPredicate
GEPAndGEP(e, f, signed) ==
  CASE ~IsGlobal(e.ops[1]) \/ ~IsGlobal(f.ops[1]) -> BadPredicate
    [] IsGlobal(e.ops[1]) /\ IsGlobal(f.ops[1]) /\ e.ops[1] # f.ops[1] -> "INE"
    [] OTHER -> RelationPredicate(CompareIndices(Tail(e.ops), Tail(f.ops), 1, e.ops[1].type), signed)
GlobalAndSimple(g, y) ==    \* y is a global or null
  IF IsGlobal(y) THEN IF g.alias \/ y.alias \/ (g.weak /\ y.weak) THEN BadPredicate ELSE "INE"
  ELSE IF g.weak \/ g.alias THEN BadPredicate ELSE "INE"
Simple(c) == ~IsExpr(c) /\ ~IsGlobal(c)
IsNotZero(c) == c.kind = "Int" /\ c.value # 0
FirstTrue(x, y, ps) ==
  IF \E p \in ToSet(ps) : IsNotZero(Get(Comparison(p, x, y)))
  THEN CHOOSE p \in ToSet(ps) : IsNotZero(Get(Comparison(p, x, y))) ELSE BadPredicate

(* A cast is compared with zero before it is made; the other comparison of *)
(* casts asks for a pointer made from an integer by what makes none.       *)
RECURSIVE EvaluateICmpRelation(_, _, _)
EvaluateExpr(e, y, signed) ==
  CASE e.op \in {"UIToFP", "SIToFP", "BitCast", "ZExt", "SExt"} ->
         IF IsNullValue(y) /\ (IsPointer(e.type) \/ IsInteger(e.type))
         THEN EvaluateICmpRelation(e.ops[1], NullValue(e.ops[1].type), signed) ELSE BadPredicate
    [] e.op = "GetElementPtr" ->
         CASE y.kind = "Null" -> GEPAndNull(e, signed)
           [] IsGlobal(y) -> GEPAndGlobal(e, y, signed)
           [] IsExprOf(y, "GetElementPtr") -> GEPAndGEP(e, y, signed)
           [] OTHER -> BadPredicate
    [] OTHER -> BadPredicate
EvaluateICmpRelation(x, y, signed) ==
  CASE x = y -> "IEQ"
    [] x # y /\ Simple(x) /\ Simple(y) -> FirstTrue(x, y, <<"IEQ", SignedOr(signed, "IULT"), SignedOr(signed, "IUGT")>>)
    [] x # y /\ ((Simple(x) /\ ~Simple(y)) \/ (IsGlobal(x) /\ IsExpr(y))) -> Swapped(EvaluateICmpRelation(y, x, signed))
    [] x # y /\ IsGlobal(x) /\ ~IsExpr(y) -> GlobalAndSimple(x, y)
    [] x # y /\ IsExpr(x) -> EvaluateExpr(x, y, signed)
(* Of two floats only that they are one constant is found out: two that    *)
(* are numbers have been compared before.                                  *)
EvaluateFCmpRelation(x, y) == IF x = y /\ x.type.id # "PPC_FP128" THEN "OEQ" ELSE BadPredicate

(* What a relation says of a predicate. *)
DecidedBy(r, p) ==
  CASE r = BadPredicate -> None
    [] r = Asserts -> Failed
    [] r = "IEQ" -> Truth(IsTrueWhenEqual(p))
    [] r = "INE" -> IF IsICmpEquality(p) THEN Truth(p = "INE") ELSE None
    [] r \in {"IULT", "ISLT", "IUGT", "ISGT"} ->
         Truth(p \in ICmps /\ ICmpCode[r] \subseteq ICmpCode[p]
               /\ (IsICmpEquality(p) \/ (IsSignedPredicate(p) <=> IsSignedPredicate(r))))
    [] r \in {"IULE", "IUGE", "ISLE", "ISGE"} ->    \* weaker: a strict predicate is decided
         IF p = InversePredicate(r) THEN Truth(FALSE)
         ELSE IF p = Swapped(InversePredicate(r)) THEN Truth(TRUE) ELSE None
    [] r = "OEQ" -> Truth(p \in {"UEQ", "OEQ", "ULE", "OLE", "UGE", "OGE"})
NullAndGlobal(p, x, y) ==
  LET g == IF IsNullValue(x) THEN y ELSE x IN
  IF (IsNullValue(x) \/ IsNullValue(y)) /\ IsGlobal(g) /\ ~g.alias /\ ~g.weak /\ IsICmpEquality(p)
  THEN Truth(p = "INE") ELSE None
(* (Mutant: what is unordered is as good as not equal, even if ordered is   *)
(* asked for.)                                                             *)
FloatHoldsAnyhow(p, r) == r \in FCmpCode[p] \/ (p = "ONE" /\ r = "U")
FloatHolds(p, r) == r \in FCmpCode[p]
FoldCompare(p, x, y) ==
  CASE p = "NEVER" -> IF IsVector(x.type) THEN NullValue(VectorInteger(x.type)) ELSE Truth(FALSE)
    [] p = "ALWAYS" -> IF IsVector(x.type) THEN AllOnes(VectorInteger(x.type)) ELSE Truth(TRUE)
    [] p \notin {"NEVER", "ALWAYS"} /\ (IsUndef(x) \/ IsUndef(y)) ->
         UndefValue(IF IsVector(x.type) THEN VectorInteger(x.type) ELSE Int1)
    [] p \notin {"NEVER", "ALWAYS"} /\ ~IsUndef(x) /\ ~IsUndef(y) ->
         CASE x.type.id = "PPC_FP128" -> None
           [] x.kind = "Int" /\ y.kind = "Int" ->
                LET value(c) == IF IsSignedPredicate(p) THEN Signed(c.value, c.type.bits) ELSE c.value
                IN  Truth(Relation(value(x), value(y)) \in ICmpCode[p])
           [] x.kind = "FP" /\ y.kind = "FP" /\ x.type.id # "PPC_FP128" ->
                Truth(FloatHolds(p, FloatRelation(x.value, y.value, Bits(x.type))))
           [] IsFloatingPoint(x.type) /\ x.type.id # "PPC_FP128" /\ {x.kind, y.kind} # {"FP"} ->
                DecidedBy(EvaluateFCmpRelation(x, y), p)
           [] OTHER -> Else(NullAndGlobal(p, x, y),
                            DecidedBy(EvaluateICmpRelation(x, y, IsSignedPredicate(p)), p))
ConstantFoldCompareInstruction(p, x, y) ==
  Else(FoldCompare(p, x, y),
       IF ~IsFloatingPoint(x.type) /\ ~IsExpr(x) /\ IsExpr(y) THEN FoldCompare(Swapped(p), y, x) ELSE None)
(* A comparison of vectors is folded if all its elements are. *)
Lane(c, t) == IF c.kind = "Int" THEN IF c.value = 0 THEN NullValue(t) ELSE AllOnes(t)
              ELSE IF IsUndef(c) THEN UndefValue(t) ELSE None
FoldVectorCompare(p, x, y, t) ==
  IF VectorElements(x) = << >> \/ VectorElements(y) = << >> THEN None
  ELSE AllKnown([i \in 1 .. t.num |->
         Lane(ConstantFoldCompareInstruction(p, VectorElements(x)[i], VectorElements(y)[i]), ElementType(t))])

(***************************************************************************)
(* Addresses.                                                              *)
(***************************************************************************)
LastIndexed(e) ==    \* the type the last index of e goes into
  IF Len(e.ops) = 2 THEN e.ops[1].type ELSE IndexedType(e.ops[1].type, SubSeq(e.ops, 2, Len(e.ops) - 1))
ToInt64(c) == IF c.type = Int64 THEN c ELSE Get(CastExpr("SExt", c, Int64))
SumOfIndices(c, d) ==
  IF c.type = d.type THEN Get(BinaryExpr("Add", c, d)) ELSE Get(BinaryExpr("Add", ToInt64(c), ToInt64(d)))
CombinedIndex(e, i) == IF IsNullValue(i) THEN Last(e.ops) ELSE SumOfIndices(i, Last(e.ops))
(* (Mutant: the indices are put one after the other.) *)
IndicesAppended(e, idxs) == Tail(e.ops) \o Tail(idxs)
CombinedIndices(e, idxs) == SubSeq(e.ops, 2, Len(e.ops) - 1) \o <<CombinedIndex(e, idxs[1])>> \o Tail(idxs)
IsArrayPointer(t) == IsPointer(t) /\ ElementType(t).id = "Array"
SameElements(t, u) ==
  IsArrayPointer(t) /\ IsArrayPointer(u) /\ ElementType(ElementType(t)) = ElementType(ElementType(u))
Widened(c, d) == IF Bits(c.type) < Bits(d.type) THEN Get(CastExpr("SExt", c, d.type)) ELSE c
MovedInteger(base, offset) ==    \* a base that is smaller is extended to its own type
  IF Bits(base.type) < Bits(offset.type) THEN Get(CastExpr("ZExt", base, base.type))
  ELSE Get(BinaryExpr("Add", base, Widened(offset, base)))
ConstantFoldGetElementPtr(c, idxs, t) ==
  CASE idxs = << >> \/ (Len(idxs) = 1 /\ IsNullValue(idxs[1])) -> c
    [] IsUndef(c) -> UndefValue(t)
    [] IsNullValue(c) /\ (\A i \in ToSet(idxs) : IsNullValue(i)) -> ConstantPointerNull(t)
    [] IsExprOf(c, "GetElementPtr") /\ (LastIndexed(c).id = "Array" \/ IsNullValue(idxs[1])) ->
         Get(GEPExpr(c.ops[1], CombinedIndices(c, idxs)))
    [] IsExprOf(c, "BitCast") /\ Len(idxs) > 1 /\ IsNullValue(idxs[1]) /\ SameElements(c.ops[1].type, c.type) ->
         Get(GEPExpr(c.ops[1], idxs))
    [] IsExprOf(c, "IntToPtr") /\ Len(idxs) = 1 /\ c.ops[1].kind = "Int" /\ idxs[1].kind = "Int"
       /\ ElementType(c.type) = Int8 -> Get(CastExpr("IntToPtr", MovedInteger(c.ops[1], idxs[1]), c.type))
    [] OTHER -> None

(***************************************************************************)
(* The constructors of ConstantExpr.                                       *)
(***************************************************************************)
Fold(e) ==
  LET o == e.ops IN
  CASE e.op \in ToSet(CastOps) -> ConstantFoldCastInstruction(e.op, o[1], e.type)
    [] e.op \in BinaryOps -> ConstantFoldBinaryInstruction(e.op, o[1], o[2])
    [] e.op \in {"ICmp", "FCmp"} -> ConstantFoldCompareInstruction(e.pred, o[1], o[2])
    [] e.op \in {"VICmp", "VFCmp"} -> FoldVectorCompare(e.pred, o[1], o[2], e.type)
    [] e.op = "Select" -> ConstantFoldSelectInstruction(o[1], o[2], o[3])
    [] e.op = "GetElementPtr" -> ConstantFoldGetElementPtr(o[1], Tail(o), e.type)
    [] e.op = "ExtractElement" -> ConstantFoldExtractElementInstruction(o[1], o[2])
    [] e.op = "InsertElement" -> ConstantFoldInsertElementInstruction(o[1], o[2], o[3])
    [] e.op = "ShuffleVector" -> ConstantFoldShuffleVectorInstruction(o[1], o[2], o[3])
    [] e.op = "ExtractValue" -> ConstantFoldExtractValueInstruction(o[1], e.idxs)
    [] e.op = "InsertValue" -> ConstantFoldInsertValueInstruction(o[1], o[2], e.idxs)
Get(e) ==
  IF \E o \in ToSet(e.ops) : o.kind = "Failed" THEN Failed
  ELSE IF ExprIsValid(e, OperandTypes(e)) THEN Else(Fold(e), e) ELSE Failed

Negation(c) == Get(BinaryExpr("Sub", ZeroValueForNegation(c.type), c))
Complement(c) == Get(BinaryExpr("Xor", c, AllOnes(c.type)))
OrBitCastOf(op, c, t) == Get(CastExpr(OrBitCast(op, c.type, t), c, t))
IntegerCastOf(c, t, signed) == Get(CastExpr(IntegerCast(c.type, t, signed), c, t))
FPCastOf(c, t) == IF Bits(c.type) = Bits(t) THEN c ELSE Get(CastExpr(FPCast(c.type, t), c, t))
SizeOf(t) ==
  Get(CastExpr("PtrToInt", Get(GEPExpr(NullValue(PointerType(t, 0)), <<ConstantInt(Int32, 1)>>)), Int64))

(* An expression with other operands.  A comparison cannot have one of its *)
(* operands replaced: it is taken for a binary operator.                   *)
WithOperands(e, ops) ==
  IF ops = e.ops THEN e
  ELSE Get(IF e.op = "GetElementPtr" THEN GEPExpr(ops[1], Tail(ops)) ELSE [e EXCEPT !.ops = ops])
WithOperandReplaced(e, i, c) ==
  CASE e.ops[i] = c -> e
    [] e.ops[i] # c /\ e.op \in {"ICmp", "FCmp", "VICmp", "VFCmp"} -> Failed
    [] OTHER -> WithOperands(e, ReplaceAt(e.ops, i, c))
=============================================================================
