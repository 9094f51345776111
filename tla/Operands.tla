------------------------------ MODULE Operands ------------------------------
(***************************************************************************)
(* Users and their arrays of uses.  The uses of a branch lie before it in  *)
(* its own storage; those of a phi node or a switch hang off it, in an     *)
(* array that is replaced when it grows.  A use is named by its array and  *)
(* its place there; the list of a value is the set of uses that hold it    *)
(* (UseList keeps it so).                                                  *)
(***************************************************************************)
EXTENDS Integers, Sequences, Functions

CONSTANTS
  Phis, Switches, Branches,   \* users that may be created
  Others,    \* blocks, constants and arguments, which use nothing here
  Undef,     \* UndefValue::get: one of Others
  None,
  MaxOps,    \* bound: the uses of an array
  MaxTotal,  \* bound: the operands of all users together
  Careful    \* clients clone no empty phi node and add no case to a cloned switch

Users == Phis \cup Switches \cup Branches
Held == Phis \cup Others

Arrays == Users \X {0, 1}
Places == Arrays \X (0 .. MaxOps - 1)

VARIABLES
  val,   \* what each use holds
  user,  \* OperandList, NumOperands and ReservedSpace of each user, None for none
  len,   \* the uses each array was allocated with, -1 for one that is not
  wild   \* something undefined was done

vars == <<val, user, len, wild>>

Live(u) == user[u] # None
Ready(u) == Live(u) /\ ~user[u].dropped
List(u) == user[u].list
Count(u) == user[u].ops
Contents(u) == [i \in 1 .. Count(u) |-> val[<<List(u), i - 1>>]]
InUse(f) == SumFunctionOnSet([u \in Users |-> IF f[u] = None THEN 0 ELSE f[u].ops], Users)

(* Use::zap and the destructor of a use: the first n uses of a are given up. *)
Zap(m, a, n) == [x \in Places |-> IF x[1] = a /\ x[2] < n THEN None ELSE m[x]]
Fill(m, a, vals) ==
  [x \in Places |-> IF x[1] = a /\ x[2] < Len(vals) THEN vals[x[2] + 1] ELSE m[x]]
(* Mutant: the last operand is not copied. *)
CopyButLast(m, a, b, n) ==
  [x \in Places |-> IF x[1] = b /\ x[2] < n - 1 THEN m[<<a, x[2]>>] ELSE m[x]]
Copy(m, a, b, n) == [x \in Places |-> IF x[1] = b /\ x[2] < n THEN m[<<a, x[2]>>] ELSE m[x]]
ReplaceAllUsesWith(m, v, w) == [x \in Places |-> IF m[x] = v THEN w ELSE m[x]]

NewUser(list, ops, reserved) ==
  [list |-> list, ops |-> ops, reserved |-> reserved, dropped |-> FALSE, cloned |-> FALSE]
Init ==
  /\ val = [x \in Places |-> None]
  /\ user = [u \in Users |-> None]
  /\ len = [a \in Arrays |-> -1]
  /\ wild = FALSE
-----------------------------------------------------------------------------
NewPhi(u) ==
  /\ u \in Phis /\ ~Live(u)
  /\ user' = [user EXCEPT ![u] = NewUser(None, 0, 0)]
  /\ UNCHANGED <<val, len, wild>>

(* allocHungoffUses, or operator new of a branch: every use is empty. *)
Build(u, new, vals, size) ==
  /\ ~Live(u) /\ size <= MaxOps
  /\ user' = [user EXCEPT ![u] = new] /\ InUse(user') <= MaxTotal
  /\ len' = [len EXCEPT ![<<u, 0>>] = size]
  /\ val' = Fill(val, <<u, 0>>, vals)
  /\ UNCHANGED wild
NewSwitch(u, v, b, cases) ==
  LET size == 2 + 2 * cases
  IN  u \in Switches /\ Build(u, NewUser(<<u, 0>>, 2, size), <<v, b>>, size)
NewBranch(u, vals) == u \in Branches /\ Build(u, NewUser(<<u, 0>>, Len(vals), 0), vals, Len(vals))

(* What a copy takes for its ReservedSpace: that of a switch is not        *)
(* initialised (mutant: a phi node takes that of the original).            *)
RoomOfOriginal(w) == IF w \in Phis THEN {user[w].reserved} ELSE 0 .. MaxOps
RoomOfCopy(w) ==
  IF w \in Phis THEN {Count(w)} ELSE IF w \in Switches THEN 0 .. MaxOps ELSE {0}
Clone(u, w) ==
  /\ \E kind \in {Phis, Switches, Branches} : {u, w} \subseteq kind
  /\ Ready(w) /\ (Careful => Count(w) > 0)
  /\ \E room \in RoomOfCopy(w) :
       Build(u, [NewUser(<<u, 0>>, Count(w), room) EXCEPT !.cloned = TRUE], Contents(w), Count(w))
-----------------------------------------------------------------------------
(* resizeOperands: what is asked for, 0 for the next size, and whether     *)
(* that makes a new array.                                                 *)
NextSize(u) ==
  LET e == Count(u)
  IN  IF u \in Switches THEN e * 3 ELSE IF (e * 3) \div 2 < 4 THEN 4 ELSE (e * 3) \div 2
Resizes(u, asked) ==
  IF asked = 0 THEN TRUE
  ELSE IF asked * 2 > Count(u) THEN user[u].reserved < asked
  ELSE asked = Count(u) /\ user[u].reserved # asked
Same(u) == [val |-> val, len |-> len, user |-> user[u]]
(* The uses of the old array are destroyed (mutant: all but the last). *)
ZapAllButLast(m, a, n) == Zap(m, a, n - 1)
ZapOld(m, a, n) == Zap(m, a, n)
ResizeOperands(u, asked) ==
  LET size == IF asked = 0 THEN NextSize(u) ELSE asked
      old == List(u)
      new == IF old = None THEN <<u, 0>> ELSE <<u, 1 - old[2]>>
  IN  IF ~Resizes(u, asked) THEN Same(u)
      ELSE [val |-> IF old = None THEN val ELSE ZapOld(Copy(val, old, new, Count(u)), old, Count(u)),
            len |-> [a \in Arrays |-> IF a = new THEN size ELSE IF a = old THEN -1 ELSE len[a]],
            user |-> [user[u] EXCEPT !.list = new, !.reserved = size]]
Fits(r) == r.user.list # None => r.len[r.user.list] <= MaxOps

ReserveOperandSpace(u, n) ==
  LET r == ResizeOperands(u, 2 * n)
  IN  /\ u \in Phis /\ Ready(u) /\ Fits(r)
      /\ val' = r.val /\ len' = r.len /\ user' = [user EXCEPT ![u] = r.user]
      /\ UNCHANGED wild

(* Mutant: room for one of the two operands will do. *)
HasRoomForOne(u) == Count(u) + 1 <= user[u].reserved
HasRoom(u) == Count(u) + 2 <= user[u].reserved
(* addIncoming and addCase.  Past the end of the array anything may happen. *)
AddPair(u, v, b) ==
  LET r == IF HasRoom(u) THEN Same(u) ELSE ResizeOperands(u, 0)
      a == r.user.list
      n == Count(u)
  IN  /\ u \in Phis \cup Switches /\ Ready(u) /\ Fits(r) /\ InUse(user) + 2 <= MaxTotal
      /\ Careful => ~(u \in Switches /\ user[u].cloned)
      /\ len' = r.len
      /\ user' = [user EXCEPT ![u] = [r.user EXCEPT !.ops = n + 2]]
      /\ IF n + 2 > r.len[a] THEN wild' = TRUE /\ UNCHANGED val
         ELSE wild' = wild /\ val' = [r.val EXCEPT ![<<a, n>>] = v, ![<<a, n + 1>>] = b]
-----------------------------------------------------------------------------
(* What follows the pair at i moves down, and the last pair is given up    *)
(* (mutant: the last value is not).                                        *)
MoveDownOnly(m, a, i, n) ==
  [x \in Places |-> IF x[1] # a \/ x[2] < i THEN m[x]
                  ELSE IF x[2] < n - 2 THEN m[<<a, x[2] + 2>>] ELSE IF x[2] = n - 1 THEN None ELSE m[x]]
MoveDown(m, a, i, n) ==
  [x \in Places |-> IF x[1] # a \/ x[2] < i THEN m[x]
                  ELSE IF x[2] < n - 2 THEN m[<<a, x[2] + 2>>] ELSE None]
(* removeIncomingValue and removeCase of a pair that is there. *)
RemovePair(u, i) ==
  /\ Ready(u) /\ u \notin Branches /\ (u \in Switches => i > 0)
  /\ val' = MoveDown(val, List(u), i, Count(u))
  /\ user' = [user EXCEPT ![u].ops = @ - 2]
  /\ UNCHANGED <<len, wild>>
(* The phi node is left without operands and goes: everything that used it *)
(* uses Undef, and its array is destroyed to the end its tags imply.       *)
RemoveLastPair(u) ==
  /\ u \in Phis /\ Ready(u) /\ Count(u) = 2
  /\ val' = Zap(ReplaceAllUsesWith(MoveDown(val, List(u), 0, 2), u, Undef), List(u), len[List(u)])
  /\ user' = [user EXCEPT ![u] = None]
  /\ len' = [len EXCEPT ![List(u)] = -1]
  /\ UNCHANGED wild

SetOperand(u, i, v) ==
  /\ Ready(u)
  /\ val' = [val EXCEPT ![<<List(u), i>>] = v]
  /\ UNCHANGED <<user, len, wild>>
SetUnconditionalDest(u, b) ==
  LET a == List(u)
  IN  /\ u \in Branches /\ Ready(u)
      /\ val' = Fill(Zap(val, a, Count(u)), a, <<b>>)
      /\ user' = [user EXCEPT ![u].ops = 1]
      /\ UNCHANGED <<len, wild>>
ReplaceEverywhere(v, w) ==
  /\ v # w
  /\ val' = ReplaceAllUsesWith(val, v, w)
  /\ UNCHANGED <<user, len, wild>>
ReplaceUsesOfWith(u, v, w) ==
  /\ Ready(u) /\ v # w
  /\ val' = [x \in Places |->
               IF x[1] = List(u) /\ x[2] < Count(u) /\ val[x] = v THEN w ELSE val[x]]
  /\ UNCHANGED <<user, len, wild>>
DropAllReferences(u) ==
  /\ Ready(u)
  /\ val' = Zap(val, List(u), Count(u))
  /\ user' = [user EXCEPT ![u].dropped = TRUE]
  /\ UNCHANGED <<len, wild>>

(* NumOperands as the destructor of a branch leaves it: one that was made  *)
(* unconditional counts back to where its storage begins.                  *)
CountAsIs(u) == Count(u)
CountForDelete(u) == IF Count(u) = 1 THEN len[List(u)] ELSE Count(u)
(* A user that no other uses is destroyed: an array that hangs off to the  *)
(* end its tags imply, which one without uses does not have, and a branch  *)
(* with the storage that begins NumOperands before it.                     *)
Delete(u) ==
  LET a == List(u)
      n == IF u \in Branches THEN CountForDelete(u) ELSE IF a = None THEN 0 ELSE len[a]
  IN  /\ Live(u) /\ \A x \in Places : val[x] = u => x[1] = a
      /\ val' = Zap(val, a, n)
      /\ wild' = (wild \/ (u \in Branches /\ n # len[a]) \/ (a # None /\ n = 0))
      /\ user' = [user EXCEPT ![u] = None]
      /\ len' = IF a = None THEN len ELSE [len EXCEPT ![a] = -1]

Next ==
  \/ \E u \in Users :
       \/ NewPhi(u)
       \/ \E v, b \in Others, n \in 0 .. 1 : NewSwitch(u, v, b, n)
       \/ \E n \in {1, 3} : \E vals \in [1 .. n -> Others] : NewBranch(u, vals)
       \/ \E w \in Users : Clone(u, w)
       \/ DropAllReferences(u)
       \/ Delete(u)
       \/ RemoveLastPair(u)
       \/ \E n \in 0 .. MaxOps \div 2 : ReserveOperandSpace(u, n)
       \/ \E v \in Held, b \in Others : AddPair(u, v, b)
       \/ \E b \in Others : SetUnconditionalDest(u, b)
       \/ Live(u) /\ \E i \in 0 .. Count(u) - 1 :
            \/ i % 2 = 0 /\ RemovePair(u, i)
            \/ \E v \in Held : SetOperand(u, i, v)
       \/ \E v, w \in Held : ReplaceUsesOfWith(u, v, w)
  \/ \E v, w \in Held : ReplaceEverywhere(v, w)
Spec == Init /\ [][Next]_vars
-----------------------------------------------------------------------------
UserRecords ==
  [list : Arrays \cup {None}, ops : Nat, reserved : Nat, dropped : BOOLEAN, cloned : BOOLEAN]
(* What the sets of users and values have to be.  A value is null or it is *)
(* not, and a client that is careful does not meet what clone leaves out.  *)
OperandsAssumption ==
  /\ Phis \cap Switches = {} /\ Phis \cap Branches = {} /\ Switches \cap Branches = {}
  /\ Undef \in Others /\ Others \cap Users = {}
  /\ None \notin Users \cup Others /\ None \notin Arrays /\ None \notin UserRecords
  /\ MaxOps \in Nat /\ MaxTotal \in Nat
  /\ Careful = TRUE

TypeOK ==
  /\ val \in [Places -> Held \cup {None}]
  /\ user \in [Users -> UserRecords \cup {None}]
  /\ len \in [Arrays -> -1 .. MaxOps]
  /\ wild \in BOOLEAN

(* Every use that holds a value is an operand of a user that exists: none  *)
(* is left in the list of the value by an array that was replaced, by a    *)
(* reserved place or by a user that is gone.  resizeOperands,              *)
(* removeIncomingValue, removeCase, setUnconditionalDest, the destructors. *)
UsersExact ==
  \A x \in Places : val[x] # None =>
    \E u \in Users : Live(u) /\ x[1] = List(u) /\ x[2] < Count(u)

(* The arrays that are allocated are those the users point to, as long as  *)
(* ReservedSpace says: nothing leaks.  allocHungoffUses and Use::zap.      *)
StorageExact ==
  /\ {a \in Arrays : len[a] # -1} = {List(u) : u \in {w \in Users : Live(w)}} \ {None}
  /\ \A u \in Phis : Live(u) /\ List(u) # None => user[u].reserved = len[List(u)]

(* No use is written behind its array, no tag is read where no use is, and *)
(* no storage is given back where it does not begin: the assertion of      *)
(* SwitchInst::addCase, User::operator delete, Use::getImpliedUser.        *)
NeverWild == ~wild

OperandsExact == NeverWild /\ UsersExact /\ StorageExact

Shown == [u \in Users |-> IF Live(u) THEN Contents(u) ELSE <<None>>]
Abstract == INSTANCE OperandLists WITH operands <- Shown, Values <- Held
AbstractStep == Shown' = Shown \/ Abstract!Step(Shown, Shown')
(* A client sees sequences of operands: where they are kept, when they are *)
(* moved and how much room they have changes nothing.                      *)
Implements == Abstract!Spec
=============================================================================
