---------------------------- MODULE CmpPredicates ----------------------------
(***************************************************************************)
(* The predicates of the comparisons, and the tables from one to another.  *)
(***************************************************************************)
EXTENDS Integers

(* How two numbers compare, and the number that a pattern of bits is, of    *)
(* which there are so many, if it is taken to have a sign.                  *)
Relation(x, y) == IF x < y THEN "L" ELSE IF x > y THEN "G" ELSE "E"
SignedIn(p, size) == IF p >= size \div 2 THEN p - size ELSE p

(* What the four bits of a floating point predicate stand for.  NEVER and   *)
(* ALWAYS are FCMP_FALSE and FCMP_TRUE.                                     *)
Ordered == {"E", "G", "L"}
FCmpCode ==
  [NEVER |-> {}, OEQ |-> {"E"}, OGT |-> {"G"}, OGE |-> {"G", "E"}, OLT |-> {"L"},
   OLE |-> {"L", "E"}, ONE |-> {"L", "G"}, ORD |-> Ordered, UNO |-> {"U"},
   UEQ |-> {"U", "E"}, UGT |-> {"U", "G"}, UGE |-> {"U", "G", "E"}, ULT |-> {"U", "L"},
   ULE |-> {"U", "L", "E"}, UNE |-> {"U", "L", "G"}, ALWAYS |-> Ordered \cup {"U"}]
FCmps == DOMAIN FCmpCode
(* The integer predicates; the prefix I sets them apart from the others. *)
ICmpCode ==
  [IEQ |-> {"E"}, INE |-> {"L", "G"}, IUGT |-> {"G"}, IUGE |-> {"G", "E"}, IULT |-> {"L"},
   IULE |-> {"L", "E"}, ISGT |-> {"G"}, ISGE |-> {"G", "E"}, ISLT |-> {"L"}, ISLE |-> {"L", "E"}]
ICmps == DOMAIN ICmpCode

IsSignedPredicate(p) == p \in {"ISGT", "ISGE", "ISLT", "ISLE"}
IsUnsignedPredicate(p) == p \in {"IUGT", "IUGE", "IULT", "IULE"}
IsOrdered(p) == p \in {"OEQ", "ONE", "OGT", "OLT", "OGE", "OLE", "ORD"}
IsUnordered(p) == p \in {"UEQ", "UNE", "UGT", "ULT", "UGE", "ULE", "UNO"}
IsICmpEquality(p) == p \in {"IEQ", "INE"}
IsTrueWhenEqual(p) == p \in {"IEQ", "IUGE", "ISGE", "IULE", "ISLE"}
IsFCmpEquality(p) == p \in {"OEQ", "ONE", "UEQ", "UNE"}
IsCommutative(p) ==
  IF p \in ICmps THEN IsICmpEquality(p) ELSE IsFCmpEquality(p) \/ p \in {"NEVER", "ALWAYS", "ORD", "UNO"}

(* (Mutant: the inverse of a floating point predicate is ordered as well.) *)
Invert(p) == CASE p = "OGT" -> "OLE" [] p = "OLE" -> "OGT" [] OTHER -> p
InverseTable ==
  [IEQ |-> "INE", INE |-> "IEQ", IUGT |-> "IULE", IULT |-> "IUGE", IUGE |-> "IULT", IULE |-> "IUGT",
   ISGT |-> "ISLE", ISLT |-> "ISGE", ISGE |-> "ISLT", ISLE |-> "ISGT",
   OEQ |-> "UNE", ONE |-> "UEQ", OGT |-> "ULE", OLT |-> "UGE", OGE |-> "ULT", OLE |-> "UGT",
   UEQ |-> "ONE", UNE |-> "OEQ", UGT |-> "OLE", ULT |-> "OGE", UGE |-> "OLT", ULE |-> "OGT",
   ORD |-> "UNO", UNO |-> "ORD", ALWAYS |-> "NEVER", NEVER |-> "ALWAYS"]
InversePredicate(p) == InverseTable[p]
SwappedTable ==
  [ISGT |-> "ISLT", ISLT |-> "ISGT", ISGE |-> "ISLE", ISLE |-> "ISGE",
   IUGT |-> "IULT", IULT |-> "IUGT", IUGE |-> "IULE", IULE |-> "IUGE",
   OGT |-> "OLT", OLT |-> "OGT", OGE |-> "OLE", OLE |-> "OGE",
   UGT |-> "ULT", ULT |-> "UGT", UGE |-> "ULE", ULE |-> "UGE"]
(* (Mutant: a predicate stays as it is.) *)
Unswapped(p) == p
Swapped(p) == IF p \in DOMAIN SwappedTable THEN SwappedTable[p] ELSE p
SignedTable == [IUGT |-> "ISGT", IULT |-> "ISLT", IUGE |-> "ISGE", IULE |-> "ISLE"]
SignedPredicate(p) == IF p \in DOMAIN SignedTable THEN SignedTable[p] ELSE p
UnsignedPredicate(p) ==
  IF IsSignedPredicate(p) THEN CHOOSE q \in DOMAIN SignedTable : SignedTable[q] = p ELSE p

(* Whether p holds of two patterns of bits, of which there are so many.    *)
IntegerHolds(p, x, y, size) ==
  IF IsSignedPredicate(p) THEN Relation(SignedIn(x, size), SignedIn(y, size)) \in ICmpCode[p]
  ELSE Relation(x, y) \in ICmpCode[p]

(* The values x for which p holds of x and c: those from lower up to, but  *)
(* not including upper, past the largest value to zero.  The two ends may  *)
(* only be equal at zero (none) and at the largest value (all).            *)
RangeFrom(lower, upper, c, size) == [lower |-> lower % size, upper |-> upper % size]
MakeRange(p, c, size) ==
  LET smallest == size \div 2 IN
  CASE p = "IEQ" -> RangeFrom(c, c + 1, c, size)
    [] p = "INE" -> RangeFrom(c + 1, c, c, size)
    [] p = "IULT" -> RangeFrom(0, c, c, size)
    [] p = "ISLT" -> RangeFrom(smallest, c, c, size)
    [] p = "IUGT" -> RangeFrom(c + 1, 0, c, size)
    [] p = "ISGT" -> RangeFrom(c + 1, smallest, c, size)
    [] p = "IULE" -> RangeFrom(0, c + 1, c, size)
    [] p = "ISLE" -> RangeFrom(smallest, c + 1, c, size)
    [] p = "IUGE" -> RangeFrom(c, 0, c, size)
    [] p = "ISGE" -> RangeFrom(c, smallest, c, size)
InRange(x, r) ==
  IF r.lower < r.upper THEN x \in r.lower .. r.upper - 1 ELSE x >= r.lower \/ x < r.upper
=============================================================================
