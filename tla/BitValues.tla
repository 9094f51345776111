------------------------------ MODULE BitValues ------------------------------
(***************************************************************************)
(* What a value of b bits means to an operation: an integer, signed or     *)
(* not, or a float.  APInt and APFloat are not part of the repository.     *)
(* A float is kept with its sign apart, and its magnitudes are the natural *)
(* numbers below Infinity(b): what is rounded elsewhere is cut off here.   *)
(***************************************************************************)
EXTENDS Integers, Bitwise, CmpPredicates

Patterns(b) == 0 .. 2^b - 1
Signed(p, b) == SignedIn(p, 2^b)
Abs(n) == IF n < 0 THEN -n ELSE n

NaN(b) == 2^(b - 1) - 1
Infinity(b) == 2^(b - 1) - 2
Negative(p, b) == p >= 2^(b - 1)
Magnitude(p, b) == p % 2^(b - 1)
IsNaN(p, b) == Magnitude(p, b) = NaN(b)
IsFinite(p, b) == Magnitude(p, b) < Infinity(b)
WithSign(negative, magnitude, b) == IF negative THEN 2^(b - 1) + magnitude ELSE magnitude
Number(p, b) == IF Negative(p, b) THEN -Magnitude(p, b) ELSE Magnitude(p, b)
Lesser(x, y) == IF x < y THEN x ELSE y
Float(n, b) == WithSign(n < 0, Lesser(Abs(n), Infinity(b)), b)
Resized(p, b, c) ==
  LET m == Magnitude(p, b)
  IN  WithSign(Negative(p, b), IF m = NaN(b) THEN NaN(c) ELSE
        IF m = Infinity(b) THEN Infinity(c) ELSE Lesser(m, Infinity(c)), c)
ToInteger(p, b, range, c) ==    \* undefined if the integer has no room
  IF IsFinite(p, b) /\ Number(p, b) \in range THEN {Number(p, b) % 2^c} ELSE Patterns(c)

(* What a cast makes of p, of b bits, in c bits: the results there may be. *)
Cast(op, p, b, c) ==
  CASE op \in {"Trunc", "ZExt", "PtrToInt", "IntToPtr"} -> {p % 2^c}
    [] op = "SExt" -> {Signed(p, b) % 2^c}
    [] op = "BitCast" -> {p}
    [] op = "UIToFP" -> {Float(p, c)}
    [] op = "SIToFP" -> {Float(Signed(p, b), c)}
    [] op \in {"FPTrunc", "FPExt"} -> {Resized(p, b, c)}
    [] op = "FPToUI" -> ToInteger(p, b, Patterns(c), c)
    [] op = "FPToSI" -> ToInteger(p, b, -2^(c - 1) .. 2^(c - 1) - 1, c)

(* An operation on two integers, and on two floats.  What divides by zero  *)
(* traps, and a division that overflows has no defined result, nor has a   *)
(* shift by more than there are bits.                                      *)
Quotient(x, y) == IF (x < 0) = (y < 0) THEN Abs(x) \div Abs(y) ELSE -(Abs(x) \div Abs(y))
Traps(op, y) == op \in {"UDiv", "SDiv", "URem", "SRem"} /\ y = 0
Overflows(op, x, y, b) ==
  \/ op \in {"SDiv", "SRem"} /\ Signed(y, b) = -1 /\ x = 2^(b - 1)
  \/ op \in {"Shl", "LShr", "AShr"} /\ y >= b
Compute(op, x, y, b) ==
  LET s == Signed(x, b)
      t == Signed(y, b)
  IN
  CASE op = "Add" -> (x + y) % 2^b
    [] op = "Sub" -> (x - y) % 2^b
    [] op = "Mul" -> (x * y) % 2^b
    [] op = "UDiv" -> x \div y
    [] op = "URem" -> x % y
    [] op = "SDiv" -> Quotient(s, t) % 2^b
    [] op = "SRem" -> (s - t * Quotient(s, t)) % 2^b
    [] op = "And" -> x & y
    [] op = "Or" -> x | y
    [] op = "Xor" -> x ^^ y
    [] op = "Shl" -> (x * 2^y) % 2^b
    [] op = "LShr" -> x \div 2^y
    [] op = "AShr" -> (s \div 2^y) % 2^b
Results(op, x, y, b) ==
  IF Traps(op, y) \/ Overflows(op, x, y, b) THEN Patterns(b) ELSE {Compute(op, x, y, b)}

(* Zero is told from an infinity by its magnitude; a sum that is zero is a *)
(* positive one unless both terms are negative.                            *)
FloatSum(x, y, b) ==
  CASE ~IsFinite(x, b) /\ ~IsFinite(y, b) -> IF x = y THEN x ELSE NaN(b)
    [] ~IsFinite(x, b) -> x
    [] ~IsFinite(y, b) -> y
    [] OTHER -> LET n == Number(x, b) + Number(y, b)
                IN  WithSign(n < 0 \/ (n = 0 /\ Negative(x, b) /\ Negative(y, b)),
                             Lesser(Abs(n), Infinity(b)), b)
Opposite(x, b) == WithSign(~Negative(x, b), Magnitude(x, b), b)
FloatCompute(op, x, y, b) ==
  LET m == Magnitude(x, b)
      n == Magnitude(y, b)
      infinity == Infinity(b)
      signed(k) == WithSign(Negative(x, b) # Negative(y, b), Lesser(k, infinity), b)
  IN
  CASE m = NaN(b) \/ n = NaN(b) -> NaN(b)
    [] op = "Add" -> FloatSum(x, y, b)
    [] op = "Sub" -> FloatSum(x, Opposite(y, b), b)
    [] op = "Mul" -> IF (m = 0 /\ n = infinity) \/ (m = infinity /\ n = 0) THEN NaN(b)
                     ELSE IF m = infinity \/ n = infinity THEN signed(infinity) ELSE signed(m * n)
    [] op = "FDiv" -> IF m = n /\ m \in {0, infinity} THEN NaN(b)
                      ELSE IF n = infinity THEN signed(0)
                      ELSE IF n = 0 \/ m = infinity THEN signed(infinity) ELSE signed(m \div n)
    [] op = "FRem" -> IF n = 0 \/ m = infinity THEN NaN(b)
                      ELSE IF n = infinity THEN x ELSE WithSign(Negative(x, b), m % n, b)

(* How p compares with q as integers and as floats. *)
FloatRelation(p, q, b) ==
  IF IsNaN(p, b) \/ IsNaN(q, b) THEN "U" ELSE Relation(Number(p, b), Number(q, b))
=============================================================================
