----------------------------- MODULE ByteStack -----------------------------
(***************************************************************************)
(* The untyped byte stacks of VMState (llack.h).  A stack grows upwards    *)
(* from its bottom; the top pointer is the length of the sequence.  A      *)
(* value of n bytes is stored as n consecutive bytes, and a load of n      *)
(* bytes returns whatever n bytes are there: nothing on the stack records  *)
(* where a value starts or which type it had.                              *)
(*                                                                         *)
(* A byte is <<v, n, k>>, the k-th of the n bytes of the value v.  A value *)
(* is a pair <<kind, number>>, of kind "int" (an LLVM integer) or "loc" (a *)
(* code location).                                                         *)
(***************************************************************************)
EXTENDS Integers, Sequences

Value == {"int", "loc"} \X Nat
Byte  == Value \X Nat \X Nat

(* The n bytes a store of the value v writes. *)
BytesOf(v, n) == [k \in 1..n |-> <<v, n, k>>]

(* Push moves the top pointer up by the stored bytes, pop moves it down by *)
(* the store size of the requested type and loads from there.              *)
PushBytes(stack, bytes) == stack \o bytes
TopBytes(stack, n) == SubSeq(stack, Len(stack) - n + 1, Len(stack))
BelowTop(stack, n) == SubSeq(stack, 1, Len(stack) - n)

(* Loaded bytes are whole when they are exactly what one store wrote. *)
IsWhole(bytes) == bytes # << >> /\ bytes = BytesOf(bytes[1][1], Len(bytes))
Stored(bytes)  == bytes[1][1]

(* A stack is a sequence of whole cells when every byte is in the middle   *)
(* of the bytes of its own value.                                          *)
WholeCells(stack) ==
  \A i \in 1..Len(stack) :
    LET n == stack[i][2]
        first == i - stack[i][3] + 1
    IN  /\ first >= 1
        /\ first + n - 1 <= Len(stack)
        /\ SubSeq(stack, first, first + n - 1) = BytesOf(stack[i][1], n)
=============================================================================
