----------------------------- MODULE StackMachine -----------------------------
(***************************************************************************)
(* What StackCodeGen promises the instructions that generate code through  *)
(* it: the program that is generated works on stacks of bytes.  push(v)    *)
(* puts the bytes of v on top, pop(t) yields as many bytes from the top as *)
(* a t has, flush() changes nothing that the program can see.              *)
(***************************************************************************)
EXTENDS ByteStack

CONSTANTS
  Stacks,    \* the stacks of VMState: data, retain, cont
  Types,
  SizeOf,
  Values,    \* what may be pushed
  Capacity   \* bytes in each stack

VARIABLES
  stacks,
  popped     \* the bytes of the value last popped

Init == stacks = [s \in Stacks |-> << >>] /\ popped = << >>

Push(s, v, t) ==
  /\ Len(stacks[s]) + SizeOf[t] <= Capacity
  /\ stacks' = [stacks EXCEPT ![s] = PushBytes(@, BytesOf(v, SizeOf[t]))]
  /\ UNCHANGED popped

Pop(s, t) ==
  /\ SizeOf[t] <= Len(stacks[s])
  /\ stacks' = [stacks EXCEPT ![s] = BelowTop(@, SizeOf[t])]
  /\ popped' = TopBytes(stacks[s], SizeOf[t])

Next == \E s \in Stacks, t \in Types : Pop(s, t) \/ \E v \in Values : Push(s, v, t)

Spec == Init /\ [][Next]_<<stacks, popped>>
=============================================================================
