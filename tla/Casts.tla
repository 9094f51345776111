-------------------------------- MODULE Casts --------------------------------
(***************************************************************************)
(* The twelve casts: which is valid between two types, which one is chosen *)
(* for them, and which one does the work of two in a row.                  *)
(***************************************************************************)
EXTENDS CoreTypes

CONSTANT PtrBits     \* the size of a pointer, which IntPtrTy gives

IntegerCasts == <<"Trunc", "ZExt", "SExt">>
FloatToInteger == <<"FPToUI", "FPToSI">>
IntegerToFloat == <<"UIToFP", "SIToFP">>
FPCasts == <<"FPTrunc", "FPExt">>
PointerCasts == <<"PtrToInt", "IntToPtr">>
CastOps == IntegerCasts \o FloatToInteger \o IntegerToFloat \o FPCasts \o PointerCasts \o <<"BitCast">>
Refused == "0"       \* no opcode
Asserts == "assert"  \* the code does not go on

CastIsValid(op, src, dst) ==
  LET ints == IsIntOrIntVector(src) /\ IsIntOrIntVector(dst)
      floats == IsFPOrFPVector(src) /\ IsFPOrFPVector(dst)
      bothVectors == IsVector(src) /\ IsVector(dst)
  IN
  /\ IsFirstClassType(src) /\ IsFirstClassType(dst)
  /\ CASE op = "Trunc" -> ints /\ Bits(src) > Bits(dst)
       [] op \in {"ZExt", "SExt"} -> ints /\ Bits(src) < Bits(dst)
       [] op = "FPTrunc" -> floats /\ Bits(src) > Bits(dst)
       [] op = "FPExt" -> floats /\ Bits(src) < Bits(dst)
       [] op \in ToSet(IntegerToFloat) ->
            /\ IsIntOrIntVector(src) /\ IsFPOrFPVector(dst)
            /\ bothVectors => src.num = dst.num
       [] op \in ToSet(FloatToInteger) ->
            /\ IsFPOrFPVector(src) /\ IsIntOrIntVector(dst)
            /\ bothVectors => src.num = dst.num
       [] op = "PtrToInt" -> IsPointer(src) /\ IsInteger(dst)
       [] op = "IntToPtr" -> IsInteger(src) /\ IsPointer(dst)
       [] op = "BitCast" -> (IsPointer(src) <=> IsPointer(dst)) /\ Bits(src) = Bits(dst)

(* The table of the pairs: rows and columns in the order of CastOps. *)
CastResults ==
  << << 1, 0, 0,99,99, 0, 0,99,99,99, 0, 3>>,
     << 8, 1, 9,99,99, 2, 0,99,99,99, 2, 3>>,
     << 8, 0, 1,99,99, 0, 2,99,99,99, 0, 3>>,
     << 0, 0, 0,99,99, 0, 0,99,99,99, 0, 3>>,
     << 0, 0, 0,99,99, 0, 0,99,99,99, 0, 3>>,
     <<99,99,99, 0, 0,99,99, 0, 0,99,99, 4>>,
     <<99,99,99, 0, 0,99,99, 0, 0,99,99, 4>>,
     <<99,99,99, 0, 0,99,99, 1, 0,99,99, 4>>,
     <<99,99,99, 2, 2,99,99,10, 2,99,99, 4>>,
     << 1, 0, 0,99,99, 0, 0,99,99,99, 7, 3>>,
     <<99,99,99,99,99,99,99,99,99,13,99,12>>,
     << 5, 5, 5, 6, 6, 5, 5, 6, 6,11, 5, 1>> >>
ElimCase(first, second) ==
  CastResults[CHOOSE i \in 1 .. 12 : CastOps[i] = first][CHOOSE i \in 1 .. 12 : CastOps[i] = second]

(* (Mutant: the types are not looked at.) *)
WhateverTypes(condition, op) == op
Where(condition, op) == IF condition THEN op ELSE Refused
EliminatedBy(first, second, src, mid, dst, case) ==
  CASE case = 0 -> Refused
    [] case = 1 -> first
    [] case = 2 -> second
    [] case = 3 -> Where(IsInteger(dst), first)
    [] case = 4 -> Where(IsFloatingPoint(dst), first)
    [] case = 5 -> Where(IsInteger(src), second)
    [] case = 6 -> Where(IsFloatingPoint(src), second)
    [] case = 7 -> Where(Bits(mid) >= PtrBits, "BitCast")
    [] case = 8 -> IF Bits(src) = Bits(dst) THEN "BitCast"
                   ELSE IF Bits(src) < Bits(dst) THEN first ELSE second
    [] case = 9 -> "ZExt"
    [] case = 10 -> Where(src = dst, "BitCast")
    [] case = 11 -> Where(IsPointer(src) /\ IsPointer(mid), second)
    [] case = 12 -> Where(IsPointer(mid) /\ IsPointer(dst), first)
    [] case = 13 -> Where(Bits(src) <= PtrBits /\ Bits(src) = Bits(dst), "BitCast")
    [] case = 99 -> Asserts
EliminableCastPair(first, second, src, mid, dst) ==
  EliminatedBy(first, second, src, mid, dst, ElimCase(first, second))

(* The kind of type a cast is chosen by. *)
Kind(t) == CASE IsInteger(t) -> "int" [] IsFloatingPoint(t) -> "fp" [] IsVector(t) -> "vector"
             [] IsPointer(t) -> "pointer" [] OTHER -> "other"
IsCastable(src, dst) ==
  LET s == Kind(src) IN
  /\ IsFirstClassType(src) /\ IsFirstClassType(dst)
  /\ \/ src = dst
     \/ CASE Kind(dst) = "int" -> s \in {"int", "fp", "pointer"} \/ (s = "vector" /\ Bits(src) = Bits(dst))
          [] Kind(dst) = "fp" -> s \in {"int", "fp"} \/ (s = "vector" /\ Bits(src) = Bits(dst))
          [] Kind(dst) = "vector" -> Bits(src) = Bits(dst)
          [] Kind(dst) = "pointer" -> s \in {"int", "pointer"}
          [] Kind(dst) = "other" -> FALSE
(* (Mutant: types of one size are not told apart.) *)
ByOrder(src, dst, smaller, larger) == IF Bits(dst) <= Bits(src) THEN smaller ELSE larger
BySize(src, dst, smaller, larger) ==
  IF Bits(dst) < Bits(src) THEN smaller ELSE IF Bits(dst) > Bits(src) THEN larger ELSE "BitCast"
SameSize(src, dst) == IF Bits(src) = Bits(dst) THEN "BitCast" ELSE Asserts
CastOpcode(src, srcSigned, dst, dstSigned) ==
  LET s == Kind(src) IN
  CASE Kind(dst) = "int" ->
         (CASE s = "int" -> BySize(src, dst, "Trunc", IF srcSigned THEN "SExt" ELSE "ZExt")
            [] s = "fp" -> IF dstSigned THEN "FPToSI" ELSE "FPToUI"
            [] s = "vector" -> SameSize(src, dst)
            [] s = "pointer" -> "PtrToInt"
            [] s = "other" -> Asserts)
    [] Kind(dst) = "fp" ->
         (CASE s = "int" -> IF srcSigned THEN "SIToFP" ELSE "UIToFP"
            [] s = "fp" -> BySize(src, dst, "FPTrunc", "FPExt")
            [] s = "vector" -> SameSize(src, dst)
            [] OTHER -> Asserts)
    [] Kind(dst) = "vector" -> SameSize(src, dst)
    [] Kind(dst) = "pointer" -> (CASE s = "pointer" -> "BitCast" [] s = "int" -> "IntToPtr" [] OTHER -> Asserts)
    [] Kind(dst) = "other" -> Asserts

(* The constructors that choose between two or three opcodes. *)
OrBitCast(op, src, dst) == IF Bits(src) = Bits(dst) THEN "BitCast" ELSE op
PointerCast(src, dst) ==
  IF IsPointer(src) /\ (IsInteger(dst) \/ IsPointer(dst))
  THEN IF IsInteger(dst) THEN "PtrToInt" ELSE "BitCast" ELSE Asserts
IntegerCast(src, dst, signed) ==
  IF IsInteger(src) /\ IsInteger(dst) THEN BySize(src, dst, "Trunc", IF signed THEN "SExt" ELSE "ZExt")
  ELSE Asserts
FPCast(src, dst) ==
  IF IsFloatingPoint(src) /\ IsFloatingPoint(dst) THEN BySize(src, dst, "FPTrunc", "FPExt") ELSE Asserts

IsIntegerCast(op, src, dst) ==
  op \in ToSet(IntegerCasts) \/ (op = "BitCast" /\ IsInteger(src) /\ IsInteger(dst))
IsLosslessCast(op, src, dst) == op = "BitCast" /\ (src = dst \/ (IsPointer(src) /\ IsPointer(dst)))
IsNoopCast(op, src, dst) ==
  \/ op = "BitCast"
  \/ op = "PtrToInt" /\ Bits(dst) = PtrBits
  \/ op = "IntToPtr" /\ Bits(src) = PtrBits
=============================================================================
