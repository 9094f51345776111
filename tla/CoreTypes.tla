------------------------------ MODULE CoreTypes ------------------------------
(***************************************************************************)
(* The types of LlackCore, by what they contain.  A type that is one value *)
(* of this module is one object of the code: which types are the same      *)
(* object is the business of TypeRefinement.                               *)
(***************************************************************************)
EXTENDS Integers, Sequences, SequencesExt

CONSTANTS
  FPBits,      \* the sizes of the five floating point types
  WordBits     \* the size of Int32Ty

FloatIds == {"Float", "Double", "X86_FP80", "FP128", "PPC_FP128"}
ASSUME SizesAssumption ==
  FPBits \in [FloatIds -> Nat \ {0}] /\ WordBits \in Nat \ {0}

Primitive(id) == [id |-> id]
IntegerType(bits) == [id |-> "Integer", bits |-> bits]
FunctionType(ret, params, varArg) ==
  [id |-> "Function", contained |-> <<ret>> \o params, varArg |-> varArg]
StructType(fields, packed) == [id |-> "Struct", contained |-> fields, packed |-> packed]
ArrayType(elt, num) == [id |-> "Array", contained |-> <<elt>>, num |-> num]
VectorType(elt, num) == [id |-> "Vector", contained |-> <<elt>>, num |-> num]
PointerType(elt, space) == [id |-> "Pointer", contained |-> <<elt>>, space |-> space]
OpaqueType(name) == [id |-> "Opaque", name |-> name]

Void == Primitive("Void")
Label == Primitive("Label")
Int1 == IntegerType(1)
Int32 == IntegerType(WordBits)

IsInteger(t) == t.id = "Integer"
IsPointer(t) == t.id = "Pointer"
IsVector(t) == t.id = "Vector"
IsFloatingPoint(t) == t.id \in FloatIds
IsFirstClassType(t) == t.id \notin {"Function", "Void", "Opaque"}
IsSingleValueType(t) == t.id \in FloatIds \cup {"Label", "Integer", "Pointer", "Vector"}
IsAggregateType(t) == t.id \in {"Struct", "Array"}
IsComposite(t) == t.id \in {"Array", "Struct", "Pointer", "Vector"}
Contained(t) == IF "contained" \in DOMAIN t THEN t.contained ELSE << >>
ElementType(t) == t.contained[1]
IsIntOrIntVector(t) == IsInteger(t) \/ (IsVector(t) /\ IsInteger(ElementType(t)))
IsFPOrFPVector(t) == IsFloatingPoint(t) \/ (IsVector(t) /\ IsFloatingPoint(ElementType(t)))

(* The size of a primitive type; 0 for the pointer, and for what has none. *)
RECURSIVE Bits(_)
Bits(t) ==
  CASE IsFloatingPoint(t) -> FPBits[t.id]
    [] IsInteger(t) -> t.bits
    [] IsVector(t) -> t.num * Bits(ElementType(t))
    [] OTHER -> 0
VectorInteger(t) == VectorType(IntegerType(Bits(ElementType(t))), t.num)

RECURSIVE IsAbstract(_)
IsAbstract(t) == t.id = "Opaque" \/ \E c \in ToSet(Contained(t)) : IsAbstract(c)

(* A concrete type that may have a size has one; only an abstract type is  *)
(* looked into (mutant: an abstract array is taken to be sized).           *)
RECURSIVE IsSized(_)
DerivedShallow(t) ==
  IsInteger(t) \/ t.id = "Array" \/ (t.id \in {"Vector", "Struct"} /\ \A c \in ToSet(t.contained) : IsSized(c))
IsSizedDerivedType(t) ==
  \/ IsInteger(t)
  \/ t.id \in {"Array", "Vector", "Struct"} /\ \A c \in ToSet(t.contained) : IsSized(c)
IsSized(t) ==
  \/ t.id \in FloatIds \cup {"Integer", "Pointer"}
  \/ t.id \in {"Struct", "Array", "Vector"} /\ (~IsAbstract(t) \/ IsSizedDerivedType(t))

VAArgsPromotedType(t) ==
  IF IsInteger(t) /\ t.bits < WordBits THEN Int32
  ELSE IF t.id = "Float" THEN Primitive("Double") ELSE t

CanLosslesslyBitCastTo(t, u) ==
  \/ t = u
  \/ /\ IsFirstClassType(t) /\ IsFirstClassType(u)
     /\ IF IsVector(t) /\ IsVector(u) THEN Bits(t) = Bits(u) ELSE IsPointer(t) /\ IsPointer(u)

(* What the constructors assert. *)
IsValidReturnType(t) ==
  \/ IsFirstClassType(t)
  \/ t = Void \/ t.id = "Opaque"
  \/ t.id = "Struct" /\ t.contained # << >> /\ \A f \in ToSet(t.contained) : IsFirstClassType(f)
ValidFunction(t) ==
  /\ IsValidReturnType(t.contained[1])
  /\ \A p \in ToSet(Tail(t.contained)) : IsFirstClassType(p) \/ p.id = "Opaque"
ValidStruct(t) == \A f \in ToSet(t.contained) : f # Void
ValidVector(t) ==
  /\ t.num > 0
  /\ IsInteger(ElementType(t)) \/ IsFloatingPoint(ElementType(t)) \/ ElementType(t).id = "Opaque"

(* Indices: of a structure a constant of 32 bits, of the others an integer *)
(* of 32 or 64 bits.  An index is its type and its value.                  *)
IndexValid(t, i) ==
  IF t.id = "Struct" THEN i.type = Int32 /\ i.constant /\ i.value < Len(t.contained)
  ELSE i.type \in {Int32, IntegerType(2 * WordBits)}
TypeAtIndex(t, i) == IF t.id = "Struct" THEN t.contained[i.value + 1] ELSE ElementType(t)
=============================================================================
