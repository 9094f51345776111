------------------------------ MODULE MCCoreData ------------------------------
(***************************************************************************)
(* The data of LlackCore.  What only computes: a behaviour takes one        *)
(* operation, an input, and computes.  What keeps its data unique: a        *)
(* behaviour is one client of the types, or of the constants.              *)
(***************************************************************************)
EXTENDS ConstantMeaning, TLC

VARIABLES
  part, input, output,       \* what is computed
  heap, handles,             \* the types, see TypeRefinement
  pool,                      \* the constants, see ConstantTable
  client, steps              \* the client of either
tables == <<heap, handles, pool, client, steps>>
vars == <<part, input, output, tables>>

TypeClient(kinds, operations, types, names, elements) ==
  [kinds |-> kinds, steps |-> operations, handles |-> types, names |-> names, elements |-> elements]
TypeClients ==
  {TypeClient({"Pointer"}, 6, 4, 1, 1), TypeClient({"Pointer", "Struct"}, 6, 4, 0, 1),
   TypeClient({"Struct"}, 5, 3, 0, 2), TypeClient({"Pointer", "Array", "Vector", "Function"}, 4, 3, 1, 1)}
Refinement == INSTANCE TypeRefinement WITH Places <- 3 .. 9, MaxOpaques <- 3, Clients <- TypeClients
ConstantClient(classes, types, operations) == [classes |-> classes, types |-> types, steps |-> operations]
ConstantClients ==
  {ConstantClient({"Null", "Array", "Struct"}, {"P", "Q"}, 4), ConstantClient({"Null", "Array"}, {"Q"}, 5),
   ConstantClient({"Null", "Struct"}, {"Q"}, 5), ConstantClient({"Null", "Expr"}, {"P", "Q"}, 4),
   ConstantClient({"Undef", "Vector", "Expr"}, {"P"}, 4)}
Table == INSTANCE ConstantTable WITH Places <- 6 .. 20, Clients <- ConstantClients

MCFPBits == [Float |-> 3, Double |-> 6, X86_FP80 |-> 7, FP128 |-> 8, PPC_FP128 |-> 8]
I2 == IntegerType(2)
I3 == Int32
I6 == Int64
Float3 == Primitive("Float")
Double6 == Primitive("Double")
Pair == ArrayType(I3, 2)
Rec == StructType(<<I3, I2>>, FALSE)
V2 == VectorType(I3, 2)
VF == VectorType(Float3, 2)
Pointer(t) == PointerType(t, 0)
Nothing == [kind |-> "nothing"]

(* The globals: an array, a structure, a variable, one that need not be    *)
(* there, another name and a function.  The two memories they may be in.   *)
A == Global(Pair, "A", FALSE, FALSE, 2)
R == Global(Rec, "R", FALSE, FALSE, 1)
B == Global(I3, "B", FALSE, FALSE, 1)
W == Global(I3, "W", TRUE, FALSE, 1)
L == Global(I3, "L", FALSE, TRUE, 1)
F == Global(FunctionType(Void, << >>, FALSE), "F", FALSE, FALSE, 0)
MCGlobals == {A, R, B, W, F}
Memories ==
  {[A |-> 8, R |-> 12, B |-> 16, W |-> 0, L |-> 16, F |-> 20],
   [A |-> 20, R |-> 8, B |-> 5, W |-> 24, L |-> 24, F |-> 12]}

(* Constants to fold with, none of which folds: all integers of three bits *)
(* and what is not known before the program is loaded.                     *)
N3(n) == ConstantInt(I3, n)
Address(g, t) == CastExpr("PtrToInt", g, t)
FAddress == Address(F, I3)
BAddress == Address(B, I3)
Wide2 == CastExpr("ZExt", Address(B, I2), I3)
Signed2 == CastExpr("SExt", Address(B, I2), I3)
Chosen == SelectExpr(Address(F, Int1), N3(5), N3(2))
Known3 == {N3(n) : n \in 0 .. 7}
Unknown3 == {FAddress, Wide2, Signed2, Chosen}
U3 == UndefValue(I3)
Divided == BinaryExpr("UDiv", N3(5), BAddress)    \* may be a division by zero
Vectors == {VectorOf(<<N3(0), N3(0)>>), VectorOf(<<N3(1), N3(6)>>), VectorOf(<<N3(7), N3(0)>>),
            VectorOf(<<N3(2), U3>>), VectorOf(<<BAddress, N3(4)>>), VectorOf(<<U3, U3>>)}
WholeVectors == {v \in Vectors : U3 \notin ToSet(VectorElements(v))}
Floats == {ConstantFP(Float3, n) : n \in 0 .. 7}
UnknownFloat == CastExpr("UIToFP", BAddress, Float3)
FloatVectors == {VectorOf(<<x, ConstantFP(Float3, 1)>>) : x \in {ConstantFP(Float3, n) : n \in {0, 4, 5}}}
GEP(p, ns) == GEPExpr(p, [i \in 1 .. Len(ns) |-> N3(ns[i])])
Pointers ==
  {B, W, L, ConstantPointerNull(Pointer(I3)), GEP(A, <<0, 0>>), GEP(A, <<0, 1>>), GEP(R, <<0, 0>>),
   GEP(ConstantPointerNull(Pointer(I3)), <<1>>), CastExpr("BitCast", F, Pointer(I3)),
   GEPExpr(A, <<N3(0), FAddress>>)}

Binaries ==
  {BinaryExpr(op, x, y) : op \in BinaryOps \ {"FDiv", "FRem"}, x \in Known3 \cup Unknown3, y \in Known3 \cup Unknown3}
  \cup {BinaryExpr(op, Divided, x) : op \in {"Add", "And", "SRem"}, x \in {N3(0), N3(2), BAddress}}
  \cup {BinaryExpr(op, x, U3) : op \in BinaryOps \ {"FDiv", "FRem"}, x \in {N3(0), N3(5), FAddress}}
  \cup {BinaryExpr(op, U3, x) : op \in BinaryOps \ {"FDiv", "FRem", "AShr"}, x \in {N3(1), N3(5), FAddress, U3}}
  \cup {BinaryExpr(op, x, y) : op \in {"Add", "Sub", "Mul", "FDiv", "FRem"}, x \in Floats \cup {UnknownFloat}, y \in Floats}
  \cup {BinaryExpr(op, x, y) : op \in {"Add", "UDiv", "SRem", "Xor", "Or"}, x \in Vectors, y \in Vectors}
  \cup {BinaryExpr(op, x, y) : op \in {"Sub", "FDiv"}, x \in FloatVectors, y \in FloatVectors}
ScalarTypes == {Int1, I2, I3, I6, Float3, Double6, Primitive("FP128"), Pointer(I3), Pointer(Pair), Pointer(I2)}
Sources ==
  {ConstantInt(Int1, n) : n \in 0 .. 1} \cup {ConstantInt(I2, n) : n \in 0 .. 3} \cup {N3(n) : n \in {0, 1, 6}}
  \cup {ConstantInt(I6, n) : n \in {0, 37}} \cup {ConstantFP(Float3, n) : n \in {0, 2, 4, 7}}
  \cup {ConstantFP(Double6, n) : n \in {9, 33}} \cup {U3} \cup Unknown3 \cup Pointers
  \cup {Address(B, I6), CastExpr("IntToPtr", FAddress, Pointer(I3)), UnknownFloat,
         CastExpr("FPExt", UnknownFloat, Double6), CastExpr("SExt", BAddress, I6), A, R, F, GEP(A, <<1, 0>>)}
Foldable(e) ==    \* a cast of a float is to an integer of 32 or 64 bits, if it is a bitcast
  /\ ExprIsValid(e, OperandTypes(e)) /\ ~(e.op = "IntToPtr" /\ IsUndef(e.ops[1]))
  /\ e.op = "BitCast" => /\ (IsFloatingPoint(e.ops[1].type) => e.type \in {e.ops[1].type, I3, I6})
                         /\ (IsInteger(e.ops[1].type) /\ IsFloatingPoint(e.type) => e.type \in {Float3, Double6})
Conversions ==
  {e \in {CastExpr(op, c, t) : op \in ToSet(CastOps), c \in Sources, t \in ScalarTypes} : Foldable(e)}
  \cup {CastExpr("BitCast", v, t) : v \in Vectors \cup FloatVectors, t \in {V2, VF}}
  \cup {CastExpr(op, v, VF) : op \in {"UIToFP", "SIToFP"}, v \in Vectors \ {UndefValue(V2)}}
  \cup {CastExpr(op, v, V2) : op \in {"FPToUI", "FPToSI"}, v \in FloatVectors}

(* A global that need not be there is not compared with an offset from null. *)
Comparable(x, y) == ~(x.kind = "Expr" /\ x.op = "GetElementPtr" /\ x.ops[1].kind = "Null" /\ y = W)
Comparisons ==
  {Comparison(p, x, y) : p \in ICmps, x \in {N3(0), N3(3), N3(4)} \cup Unknown3, y \in {N3(0), N3(4), N3(7)} \cup Unknown3}
  \cup {Comparison(q[1], q[2][1], q[2][2]) :
         q \in ICmps \X {r \in Pointers \X Pointers : Comparable(r[1], r[2]) /\ Comparable(r[2], r[1])}}
  \cup {Comparison(p, x, U3) : p \in {"IEQ", "INE"}, x \in {N3(2), FAddress}}
  \cup {Comparison(p, x, y) : p \in FCmps, x \in {ConstantFP(Float3, n) : n \in {0, 1, 3, 4, 5}},
                               y \in {ConstantFP(Float3, n) : n \in {0, 1, 3, 6}} \cup {UnknownFloat}}
  \cup {Comparison(p, x, y) : p \in {"IEQ", "IUGT", "ISLE"}, x \in WholeVectors, y \in WholeVectors}
  \cup {Comparison(p, x, y) : p \in FCmps, x \in FloatVectors, y \in FloatVectors}

Aggregates == {ConstantAggregateZero(Rec), UndefValue(Rec), StructOf(<<N3(3), ConstantInt(I2, 1)>>),
               StructOf(<<BAddress, ConstantInt(I2, 0)>>)}
Arrays == {ConstantAggregateZero(Pair), UndefValue(Pair), ArrayGet(Pair, <<N3(3), N3(0)>>)}
NestedType == StructType(<<Rec, I2>>, FALSE)
Nested == {ConstantAggregateZero(NestedType), StructOf(<<StructOf(<<N3(2), ConstantInt(I2, 3)>>), ConstantInt(I2, 1)>>)}
Selections ==
  {SelectExpr(c, x, y) : c \in {Truth(TRUE), Truth(FALSE), UndefValue(Int1), Address(F, Int1)},
                         x \in {N3(1), U3, BAddress}, y \in {N3(1), U3, N3(6)}}
  \cup {ExtractElementExpr(v, i) : v \in Vectors, i \in {N3(0), N3(1), U3, BAddress}}
  \cup {InsertElementExpr(v, c, i) : v \in Vectors, c \in {N3(0), N3(5), U3, FAddress}, i \in {N3(0), N3(1), N3(4), BAddress}}
  \cup {ShuffleExpr(v, w, m) : v \in Vectors \ {UndefValue(V2)}, w \in {VectorOf(<<N3(1), N3(6)>>), ConstantAggregateZero(V2)},
          m \in {VectorOf(<<N3(a), b>>) : a \in 0 .. 4, b \in {N3(0), N3(3), U3}} \cup {UndefValue(V2)}}
  \cup {ExtractValueExpr(g, <<i>>) : g \in Aggregates \cup Arrays, i \in 0 .. 1}
  \cup {ExtractValueExpr(g, <<0, i>>) : g \in Nested, i \in 0 .. 1}
  \cup {InsertValueExpr(g, c, <<0>>) : g \in Aggregates \cup Arrays, c \in {N3(0), N3(7), U3}}
  \cup {InsertValueExpr(g, c, <<1>>) : g \in Arrays, c \in {N3(0), N3(7), BAddress}}
  \cup {InsertValueExpr(g, ConstantInt(I2, n), <<0, 1>>) : g \in Nested, n \in 0 .. 3}

IndexPool == {N3(0), N3(1), N3(7), ConstantInt(I6, 1), FAddress}
Moves ==
  {GEPExpr(p, <<i>>) : p \in Pointers \cup {A, R, UndefValue(Pointer(I3))}, i \in IndexPool}
  \cup {GEPExpr(p, <<i, j>>) : i \in {N3(0), N3(1)}, j \in IndexPool,
          p \in {A, UndefValue(Pointer(Pair)), ConstantPointerNull(Pointer(Pair)),
                 CastExpr("BitCast", F, Pointer(Pair)), CastExpr("BitCast", A, Pointer(ArrayType(I3, 1)))}}
  \cup {GEPExpr(R, <<N3(0), N3(k)>>) : k \in 0 .. 1}
  \cup {GEPExpr(CastExpr("IntToPtr", ConstantInt(I6, 5), Pointer(I2)), <<i>>) : i \in {N3(1), N3(7), ConstantInt(I6, 63)}}
Expressions == Binaries \cup Conversions \cup Comparisons \cup Selections \cup Moves

(* What is built from one constant, or from an expression. *)
Unknowns == {BAddress, Wide2, Chosen}
Rebuilt ==
  {BinaryExpr(op, x, N3(3)) : op \in {"Add", "SDiv", "AShr"}, x \in {BAddress, Wide2}}
  \cup {Chosen, Signed2, GEPExpr(A, <<N3(0), FAddress>>), ExtractElementExpr(VectorOf(<<BAddress, N3(4)>>), FAddress),
        InsertElementExpr(VectorOf(<<N3(1), N3(6)>>), FAddress, BAddress),
        ShuffleExpr(VectorOf(<<N3(1), N3(6)>>), ConstantAggregateZero(V2), VectorOf(<<BAddress, N3(2)>>))}
Built ==
  {[op |-> op, c |-> c] : op \in {"negate", "complement"}, c \in Known3 \cup Unknowns \cup WholeVectors}
  \cup {[op |-> "negate", c |-> c] : c \in Floats \cup FloatVectors}
  \cup {[op |-> "sizeOf", t |-> t] : t \in {I2, I3, I6, Float3, Pair, Rec, NestedType, Pointer(Rec), V2}}
  \cup {[op |-> "integerCast", c |-> c, t |-> t, signed |-> b] :
         c \in Known3 \cup Unknowns \cup {ConstantInt(I2, n) : n \in 0 .. 3}, t \in {I2, I3, I6}, b \in BOOLEAN}
  \cup {[op |-> "fpCast", c |-> c, t |-> t] : c \in Floats \cup {UnknownFloat}, t \in {Float3, Double6}}
  \cup {i \in {[op |-> "orBitCast", cast |-> op, c |-> c, t |-> t] :
               op \in {"ZExt", "SExt", "Trunc"}, c \in Known3 \cup Unknowns, t \in {I2, I3, I6}} :
          i.t = I3 \/ CastIsValid(i.cast, I3, i.t)}
  \cup {i \in {[op |-> "replace", e |-> e, at |-> n, c |-> c] :
               e \in Rebuilt, n \in 1 .. 3, c \in Vectors \cup Known3 \cup {Truth(TRUE), A, Address(F, I2), BAddress}} :
          /\ i.at <= Len(i.e.ops) /\ i.c.type = i.e.ops[i.at].type
          /\ i.e.op = "ExtractElement" /\ i.at = 2 => i.c \in {N3(0), N3(1), BAddress}}

(* The input of each part. *)
Folding == {[op |-> "get", e |-> e] : e \in Expressions} \cup Built
CastTypes == {Int1, I2, I3, I6, IntegerType(7), Float3, Double6, Pointer(I3), Pointer(Pair), V2, VF, VectorType(I2, 3),
              Label, Void, Rec, FunctionType(Void, << >>, FALSE)}
Choosing ==    \* a type that is no single value is not cast to itself
  {i \in [src : CastTypes, dst : CastTypes, srcSigned : BOOLEAN, dstSigned : BOOLEAN] :
     i.src # i.dst \/ Kind(i.src) # "other"}
PairTypes == {Int1, I2, I3, I6, IntegerType(7), Float3, Double6, Pointer(I3), Pointer(Pair)}
Pairs == {i \in [first : ToSet(CastOps), second : ToSet(CastOps), src : PairTypes, mid : PairTypes, dst : PairTypes] :
           CastIsValid(i.first, i.src, i.mid) /\ CastIsValid(i.second, i.mid, i.dst)}
Leaves == {I2, I3, Float3, Double6, Pointer(FunctionType(I3, << >>, TRUE)), OpaqueType("o")}
Valid(t) ==    \* its constructor asserts nothing that fails
  CASE t.id = "Function" -> ValidFunction(t)
    [] t.id = "Struct" -> ValidStruct(t)
    [] t.id = "Vector" -> ValidVector(t)
    [] OTHER -> TRUE
Layers(ts) ==
  ts \cup {ArrayType(t, 2) : t \in ts} \cup {Pointer(t) : t \in ts}
  \cup {t \in {StructType(<<t, u>>, FALSE) : t \in ts, u \in ts} \cup {VectorType(t, 2) : t \in ts}
                \cup {Pointer(FunctionType(t, <<u>>, FALSE)) : t \in ts \cup {Void}, u \in ts} :
           Valid(t) /\ (IsPointer(t) => Valid(ElementType(t)))}
MCTypes == Layers(Layers(Leaves))

NoTypes == heap = Nothing /\ handles = Nothing
NoConstants == pool = Nothing
InitOnce ==
  /\ output = Nothing /\ NoTypes /\ NoConstants /\ client = Nothing /\ steps = 0
  /\ \/ part = "fold" /\ input \in Folding
     \/ part = "choose" /\ input \in Choosing
     \/ part = "pair" /\ input \in Pairs
     \/ part = "predicate" /\ input \in ICmps \cup FCmps
     \/ part = "type" /\ input \in MCTypes
InitTables ==
  /\ input = Nothing /\ output = Nothing
  /\ \/ part = "refine" /\ Refinement!Init /\ NoConstants
     \/ part = "constants" /\ Table!Init /\ NoTypes
Init == InitOnce \/ InitTables
Folded(i) ==
  CASE i.op = "get" -> Get(i.e)
    [] i.op = "negate" -> Negation(i.c)
    [] i.op = "complement" -> Complement(i.c)
    [] i.op = "sizeOf" -> SizeOf(i.t)
    [] i.op = "integerCast" -> IntegerCastOf(i.c, i.t, i.signed)
    [] i.op = "fpCast" -> FPCastOf(i.c, i.t)
    [] i.op = "orBitCast" -> OrBitCastOf(i.cast, i.c, i.t)
    [] i.op = "replace" -> WithOperandReplaced(i.e, i.at, i.c)
Computed ==
  CASE part = "fold" -> Folded(input)
    [] part = "choose" -> [op |-> CastOpcode(input.src, input.srcSigned, input.dst, input.dstSigned)]
    [] part = "pair" -> [op |-> EliminableCastPair(input.first, input.second, input.src, input.mid, input.dst)]
    [] part = "predicate" -> [inverse |-> InversePredicate(input), swapped |-> Swapped(input)]
    [] part = "type" -> [sized |-> IsSized(input)]
ComputeOnce ==
  /\ part \notin {"refine", "constants"} /\ output = Nothing
  /\ output' = Computed
  /\ UNCHANGED <<part, input, tables>>
RefineTypes == part = "refine" /\ Refinement!Next /\ UNCHANGED <<part, input, output, pool>>
UseConstants == part = "constants" /\ Table!Next /\ UNCHANGED <<part, input, output, heap, handles>>
Next == ComputeOnce \/ RefineTypes \/ UseConstants
Spec == Init /\ [][Next]_vars
Done(p) == part = p /\ output # Nothing

(* What is wanted of what is folded. *)
Each(t, v, f(_)) == IF IsVector(t) THEN [k \in 1 .. t.num |-> f(v[k])] ELSE f(v)
Opposed(t, v) ==
  Each(t, v, LAMBDA x : IF IsFPOrFPVector(t) THEN IF IsNaN(x, Bits(Float3)) THEN NaN(Bits(Float3)) ELSE Opposite(x, Bits(Float3))
                        ELSE (-x) % 2^WordBits)
WantedType(i) ==
  CASE i.op \in {"get", "replace"} -> i.e.type
    [] i.op \in {"negate", "complement"} -> i.c.type
    [] i.op = "sizeOf" -> I6
    [] OTHER -> i.t
Wanted(i, where) ==
  CASE i.op = "get" -> Meaning(i.e, where)
    [] i.op = "replace" -> Meaning([i.e EXCEPT !.ops[i.at] = i.c], where)
    [] i.op = "negate" -> {Opposed(i.c.type, v) : v \in Meaning(i.c, where)}
    [] i.op = "complement" -> {Each(i.c.type, v, LAMBDA x : 2^WordBits - 1 - x) : v \in Meaning(i.c, where)}
    [] i.op = "sizeOf" -> {Size(i.t)}
    [] i.op = "integerCast" ->
         {(IF i.signed THEN Signed(v, i.c.type.bits) ELSE v) % 2^i.t.bits : v \in Meaning(i.c, where)}
    [] i.op = "fpCast" -> {Resized(v, Bits(i.c.type), Bits(i.t)) : v \in Meaning(i.c, where)}
    [] i.op = "orBitCast" ->
         {(IF i.cast = "SExt" THEN Signed(v, WordBits) ELSE v) % 2^i.t.bits : v \in Meaning(i.c, where)}

(* What a constructor or a helper of ConstantExpr makes of its operands is  *)
(* a constant of the type asked for, and wherever the globals are, each     *)
(* value that it may have is one that the operation may give.  What cannot  *)
(* trap divides by nothing that may be zero, and what needs no relocation   *)
(* is the same wherever the globals are.                                    *)
FoldsKeepMeaning ==
  Done("fold") =>
    /\ WellMade(output) /\ output.type = WantedType(input)
    /\ \A where \in Memories : Meaning(output, where) \subseteq Wanted(input, where)
    /\ ~IsVector(output.type) /\ ~CanTrap(output) => \A where \in Memories : ~DividesByZero(output, where)
    /\ ~ContainsRelocations(output) => Cardinality({Meaning(output, where) : where \in Memories}) = 1

(* getCastOpcode and the CreateXxxCast functions choose a cast that is      *)
(* valid, or refuse where isCastable says that there is none; a cast that   *)
(* is said to be lossless or to do nothing loses and does nothing.          *)
ChoiceIsValid ==
  Done("choose") =>
    LET src == input.src
        dst == input.dst
    IN
    /\ IF IsCastable(src, dst) THEN CastIsValid(output.op, src, dst) ELSE output.op = Asserts
    /\ \A op \in {PointerCast(src, dst), IntegerCast(src, dst, input.srcSigned), FPCast(src, dst)} :
         op # Asserts => op = output.op
    /\ \A op \in ToSet(CastOps) :
         IsLosslessCast(op, src, dst) /\ CastIsValid(op, src, dst) => CanLosslesslyBitCastTo(src, dst)
    /\ CanLosslesslyBitCastTo(src, dst) /\ IsFirstClassType(src) => CastIsValid("BitCast", src, dst)
    /\ \A op \in {op \in ToSet(CastOps) : CastIsValid(op, src, dst) /\ IsNoopCast(op, src, dst)} :
         /\ SizeInBits(src) = SizeInBits(dst)
         /\ ~IsVector(src) /\ ~IsVector(dst) => \A v \in Values(src) : CastResult(op, src, dst, v) = {v}
(* The one cast that isEliminableCastPair puts in the place of two is valid *)
(* and gives what the two give, for every value.                            *)
PairsKeepMeaning ==
  Done("pair") =>
    /\ output.op # Asserts
    /\ output.op # Refused =>
         /\ CastIsValid(output.op, input.src, input.dst)
         /\ \A v \in Values(input.src) :
              CastResult(output.op, input.src, input.dst, v) \subseteq
              UNION {CastResult(input.second, input.mid, input.dst, w) : w \in CastResult(input.first, input.src, input.mid, v)}

(* What the tables say of a predicate is true of all values: its inverse    *)
(* holds where it does not, its swapped form of the swapped operands, and   *)
(* the range of what it selects, if that is neither nothing nor all, which  *)
(* have no range.                                                           *)
PredicatesHold ==
  Done("predicate") =>
    LET holds(p, x, y) == IF p \in ICmps THEN Holds(p, I3, x, y) ELSE Holds(p, Float3, x, y)
        values == Patterns(WordBits)
    IN
    /\ \A x \in values, y \in values :
         /\ holds(output.inverse, x, y) # holds(input, x, y)
         /\ holds(output.swapped, y, x) = holds(input, x, y)
         /\ IsCommutative(input) => holds(input, x, y) = holds(input, y, x)
    /\ input \in ICmps =>
         /\ IsTrueWhenEqual(input) <=> \A x \in values : holds(input, x, x)
         /\ \A x \in 0 .. 3, y \in 0 .. 3 :
              holds(SignedPredicate(input), x, y) = holds(UnsignedPredicate(input), x, y)
         /\ \A c \in values :
              LET chosen == {x \in values : holds(input, x, c)} IN
              chosen \notin {{}, values} => chosen = {x \in values : InRange(x, MakeRange(input, c, 2^WordBits))}
    /\ input \in FCmps =>
         /\ IsOrdered(input) => \A x \in values, y \in values : IsNaN(x, WordBits) => ~holds(input, x, y)
         /\ IsUnordered(input) => \A x \in values, y \in values : IsNaN(x, WordBits) => holds(input, x, y)

RECURSIVE HasSize(_)
HasSize(t) ==
  \/ t.id \in FloatIds \cup {"Integer", "Pointer"}
  \/ t.id \in {"Struct", "Array", "Vector"} /\ \A c \in ToSet(t.contained) : HasSize(c)
(* isSized says whether a type has a size, a type is a single value or an   *)
(* aggregate unless it is a function or unknown, and what is promoted to be *)
(* passed in a variable argument list keeps its value.                      *)
TypesSized ==
  Done("type") =>
    /\ output.sized <=> HasSize(input)
    /\ IsFirstClassType(input) <=> IsSingleValueType(input) \/ IsAggregateType(input)
    /\ IsSingleValueType(input) =>
         LET promoted == VAArgsPromotedType(input)
             op == CastOpcode(input, TRUE, promoted, TRUE)
         IN  op \in {"SExt", "FPExt", "BitCast"} /\ Bits(promoted) >= Bits(input)

(* The casts are the right ones, alone and in pairs. *)
CastsChosen == ChoiceIsValid /\ PairsKeepMeaning
(* What is answered of predicates and of types is true of their values.     *)
PredicatesAgree == PredicatesHold /\ TypesSized

(* The same for the objects.  A type is made once, and the maps, the users  *)
(* and the references say so, whatever is refined.                          *)
TypesUnique == part = "refine" => Refinement!TypesUnique /\ Refinement!TypesLinked
(* A type changes only by what is known of its opaque types.                *)
ShapesKept == [][part = "refine" => Refinement!KeepShapes]_vars
(* A constant is made once, and the maps and the lists of uses say so,      *)
(* whatever is replaced or refined.                                         *)
ConstantsUnique == part = "constants" => Table!ConstantsUnique /\ Table!UsesKnown
(* What an instruction uses stays what it was, but for what is replaced.    *)
TreesKept == [][part = "constants" => Table!KeepTrees]_vars
=============================================================================
