--------------------------- MODULE OperandsProofs ---------------------------
(***************************************************************************)
(* Proofs about Operands: whatever users there are, no use is left in the  *)
(* list of a value, no array leaks, nothing undefined is done to one, and  *)
(* a client sees sequences of operands.                                    *)
(***************************************************************************)
EXTENDS Operands, TLAPS

Mine(u) == {a \in Arrays : a[1] = u}

(* What is true of the record r of a user u where l says what is allocated.*)
(* Operands come in pairs, except those of a branch; a phi node that has   *)
(* had none has no array; a switch that was not copied and a phi node know *)
(* how much room they have.                                                *)
Sound(u, r, l) ==
  IF r.list = None THEN u \in Phis /\ r.ops = 0 /\ r.reserved = 0
  ELSE /\ r.list \in Mine(u) /\ r.ops <= l[r.list] /\ l[r.list] >= 1
       /\ u \in Phis => r.ops % 2 = 0 /\ r.reserved = l[r.list]
       /\ u \in Switches => r.ops % 2 = 0 /\ r.ops >= 2 /\ (r.cloned \/ r.reserved = l[r.list])
       /\ u \in Branches => r.list = <<u, 0>> /\ r.ops \in {1, l[r.list]}

(* Of the arrays of u none but its list is allocated, and none of their    *)
(* uses holds a value but those that are its operands.                     *)
Kept(u, r, l, m) ==
  /\ \A a \in Mine(u) : l[a] # -1 <=> r # None /\ r.list = a
  /\ \A x \in Places : x[1] \in Mine(u) /\ m[x] # None => r # None /\ r.list = x[1] /\ x[2] < r.ops

IsSound(u, r, l, m) == (r # None => Sound(u, r, l)) /\ Kept(u, r, l, m)
IInv == TypeOK /\ ~wild /\ \A u \in Users : IsSound(u, user[u], len, val)
-----------------------------------------------------------------------------
(* A place is in an array, and an array is one of its user.                *)
LEMMA PlaceOf == ASSUME NEW x \in Places PROVE x[1] \in Arrays /\ x[2] \in 0 .. MaxOps - 1
BY DEF Places
LEMMA ArrayOf == ASSUME NEW a \in Arrays PROVE a[1] \in Users /\ a \in Mine(a[1])
BY DEF Arrays, Mine

(* The invariant gives the properties.                                     *)
LEMMA SoundExact == ASSUME OperandsAssumption, IInv PROVE OperandsExact
<1>1. UsersExact
  <2> SUFFICES ASSUME NEW x \in Places, val[x] # None
               PROVE  \E u \in Users : Live(u) /\ x[1] = List(u) /\ x[2] < Count(u)
    BY DEF UsersExact
  <2>1. x[1][1] \in Users /\ x[1] \in Mine(x[1][1]) BY PlaceOf, ArrayOf
  <2> QED BY <2>1 DEF IInv, IsSound, Kept, Live, List, Count
<1>2. ASSUME NEW a \in Arrays
      PROVE  len[a] # -1 <=> \E u \in Users : Live(u) /\ List(u) = a
  <2>1. a[1] \in Users /\ a \in Mine(a[1]) BY ArrayOf
  <2>2. ASSUME NEW u \in Users, Live(u), List(u) = a PROVE u = a[1]
    BY <2>1, <2>2 DEF IInv, IsSound, Sound, Live, List, Mine, OperandsAssumption
  <2> QED BY <2>1, <2>2 DEF IInv, IsSound, Kept, Live, List
<1>3. ASSUME NEW u \in Users, Live(u), List(u) # None PROVE List(u) \in Arrays
  BY <1>3 DEF IInv, IsSound, Sound, Live, List, Mine
<1>4. {a \in Arrays : len[a] # -1} = {List(u) : u \in {w \in Users : Live(w)}} \ {None}
  BY <1>2, <1>3 DEF OperandsAssumption
<1>5. ASSUME NEW u \in Phis, Live(u), List(u) # None PROVE user[u].reserved = len[List(u)]
  BY <1>5 DEF IInv, IsSound, Sound, Live, List, Users
<1> QED BY <1>1, <1>4, <1>5 DEF OperandsExact, NeverWild, StorageExact, IInv

(* A step of one user leaves the others sound.                             *)
LEMMA OneUser ==
  ASSUME IInv, NEW u \in Users, NEW r \in UserRecords \cup {None},
         user' = [user EXCEPT ![u] = r],
         len' \in [Arrays -> -1 .. MaxOps], val' \in [Places -> Held \cup {None}],
         wild' = FALSE,
         \A a \in Arrays \ Mine(u) : len'[a] = len[a],
         \A x \in Places : x[1] \notin Mine(u) /\ val[x] = None => val'[x] = None,
         IsSound(u, r, len', val')
  PROVE  IInv'
<1>1. TypeOK' BY DEF TypeOK, IInv
<1>2. ASSUME NEW w \in Users PROVE IsSound(w, user'[w], len', val')
  <2>1. CASE w = u BY <2>1 DEF IInv, TypeOK
  <2>2. CASE w # u
    <3>1. user'[w] = user[w] BY <2>2 DEF IInv, TypeOK
    <3>2. \A a \in Mine(w) : a \in Arrays \ Mine(u) BY <2>2 DEF Mine
    <3>3. \A a \in Mine(w) : len'[a] = len[a] BY <3>2
    <3>4. \A x \in Places : x[1] \in Mine(w) /\ val[x] = None => val'[x] = None BY <3>2
    <3>5. IsSound(w, user[w], len, val) BY DEF IInv
    <3>6. user[w] # None => Sound(w, user[w], len') BY <3>3, <3>5 DEF IsSound, Sound
    <3> QED BY <3>1, <3>3, <3>4, <3>5, <3>6 DEF IsSound, Kept
  <2> QED BY <2>1, <2>2
<1> QED BY <1>1, <1>2 DEF IInv
-----------------------------------------------------------------------------
LEMMA InitSound == ASSUME OperandsAssumption, Init PROVE IInv
<1> MaxOps \in Nat BY DEF OperandsAssumption
<1>1. TypeOK
  <2>1. -1 \in -1 .. MaxOps OBVIOUS
  <2> QED BY <2>1 DEF Init, TypeOK
<1>2. ASSUME NEW u \in Users PROVE IsSound(u, user[u], len, val)
  BY DEF Init, IsSound, Kept, Mine
<1> QED BY <1>1, <1>2 DEF IInv, Init

(* Where a user has nothing allocated, its places hold nothing.            *)
LEMMA NothingThere ==
  ASSUME IInv, NEW u \in Users, user[u] = None \/ List(u) = None, None \notin Arrays
  PROVE  /\ \A a \in Mine(u) : len[a] = -1
         /\ \A x \in Places : x[1] \in Mine(u) => val[x] = None
BY DEF IInv, IsSound, Kept, List, Mine

LEMMA NewPhiSound == ASSUME OperandsAssumption, IInv, NEW u \in Users, NewPhi(u) PROVE IInv'
<1> DEFINE r == NewUser(None, 0, 0)
<1>1. r \in UserRecords BY DEF NewUser, UserRecords
<1>2. IsSound(u, r, len, val)
  BY NothingThere DEF NewPhi, Live, IsSound, Sound, Kept, NewUser, OperandsAssumption, Mine
<1> QED BY <1>1, <1>2, OneUser DEF NewPhi, IInv, TypeOK

(* A user with an array of its own, of which the first uses are set.       *)
LEMMA BuildSound ==
  ASSUME OperandsAssumption, IInv, NEW u \in Users, NEW r \in UserRecords,
         NEW vals \in Seq(Held \cup {None}), NEW size \in Nat,
         Build(u, r, vals, size), r.list = <<u, 0>>, r.ops = Len(vals),
         Sound(u, r, [len EXCEPT ![<<u, 0>>] = size])
  PROVE  IInv'
<1> DEFINE a == <<u, 0>>
<1>1. a \in Mine(u) /\ a \in Arrays BY DEF Mine, Arrays
<1>2. r.list = a /\ Sound(u, r, [len EXCEPT ![a] = size]) OBVIOUS
<1>3. /\ len' = [len EXCEPT ![a] = size] /\ val' = Fill(val, a, vals) /\ wild' = wild
      /\ user' = [user EXCEPT ![u] = r] /\ user[u] = None /\ size <= MaxOps
  BY DEF Build, Live
<1> HIDE DEF a
<1>21. r.list # None BY <1>1, <1>2 DEF OperandsAssumption
<1>22. [len EXCEPT ![a] = size][a] = size BY <1>1 DEF IInv, TypeOK
<1>23. size >= 1 BY <1>2, <1>21, <1>22 DEF Sound
<1>24. MaxOps \in Nat BY DEF OperandsAssumption
<1>25. size \in -1 .. MaxOps BY <1>3, <1>23, <1>24
<1>4. len' \in [Arrays -> -1 .. MaxOps] BY <1>3, <1>25 DEF IInv, TypeOK
<1>5. val' \in [Places -> Held \cup {None}] BY <1>3, PlaceOf DEF Fill, IInv, TypeOK
<1>61. None \notin Arrays BY DEF OperandsAssumption
<1>62. \A b \in Mine(u) : len[b] = -1 BY <1>3, <1>61, NothingThere
<1>63. len'[a] # -1 BY <1>1, <1>3, <1>23 DEF IInv, TypeOK
<1>64. \A b \in Arrays : b # a => len'[b] = len[b] BY <1>1, <1>3 DEF IInv, TypeOK
<1>6. \A b \in Mine(u) : len'[b] # -1 <=> r.list = b BY <1>2, <1>62, <1>63, <1>64 DEF Mine
<1>7. ASSUME NEW x \in Places, x[1] \in Mine(u), val'[x] # None
      PROVE  r.list = x[1] /\ x[2] < r.ops
  BY <1>2, <1>3, <1>7, NothingThere DEF Fill, OperandsAssumption
<1>8. IsSound(u, r, len', val')
  BY <1>2, <1>3, <1>6, <1>7 DEF IsSound, Kept, OperandsAssumption
<1>9. \A b \in Arrays \ Mine(u) : len'[b] = len[b] BY <1>1, <1>3 DEF IInv, TypeOK
<1>10. \A x \in Places : x[1] \notin Mine(u) /\ val[x] = None => val'[x] = None
  BY <1>1, <1>3 DEF Fill
<1>11. wild' = FALSE BY ONLY <1>3, IInv, Zenon DEF IInv, TypeOK
<1> QED BY <1>3, <1>4, <1>5, <1>8, <1>9, <1>10, <1>11, OneUser

LEMMA NewSwitchSound ==
  ASSUME OperandsAssumption, IInv, NEW u \in Users, NEW v \in Others, NEW b \in Others,
         NEW n \in 0 .. 1, NewSwitch(u, v, b, n)
  PROVE  IInv'
<1> DEFINE size == 2 + 2 * n
           r == NewUser(<<u, 0>>, 2, size)
<1>1. u \in Switches /\ Build(u, r, <<v, b>>, size) BY DEF NewSwitch
<1>2. size \in Nat /\ size >= 2 OBVIOUS
<1>3. <<v, b>> \in Seq(Held \cup {None}) /\ Len(<<v, b>>) = 2 BY DEF Held
<1>4. r \in UserRecords BY <1>2 DEF NewUser, UserRecords, Arrays
<1>5. <<u, 0>> \in Arrays BY DEF Arrays
<1>6. Sound(u, r, [len EXCEPT ![<<u, 0>>] = size])
  BY <1>1, <1>2, <1>5 DEF Sound, NewUser, Mine, OperandsAssumption, IInv, TypeOK
<1> QED BY <1>1, <1>2, <1>3, <1>4, <1>6, BuildSound DEF NewUser

LEMMA NewBranchSound ==
  ASSUME OperandsAssumption, IInv, NEW u \in Users, NEW n \in {1, 3},
         NEW vals \in [1 .. n -> Others], NewBranch(u, vals)
  PROVE  IInv'
<1> DEFINE r == NewUser(<<u, 0>>, Len(vals), 0)
<1>1. vals \in Seq(Held \cup {None}) /\ Len(vals) = n BY DEF Held
<1>2. u \in Branches /\ Build(u, r, vals, Len(vals)) BY DEF NewBranch
<1>3. r \in UserRecords BY <1>1 DEF NewUser, UserRecords, Arrays
<1>4. <<u, 0>> \in Arrays BY DEF Arrays
<1>5. Sound(u, r, [len EXCEPT ![<<u, 0>>] = Len(vals)])
  BY <1>1, <1>2, <1>4, SMTT(30) DEF Sound, NewUser, Mine, OperandsAssumption, IInv, TypeOK
<1> QED BY <1>1, <1>2, <1>3, <1>5, BuildSound DEF NewUser

LEMMA CloneSound ==
  ASSUME OperandsAssumption, IInv, NEW u \in Users, NEW w \in Users, Clone(u, w)
  PROVE  IInv'
<1>1. PICK room \in RoomOfCopy(w) :
        Build(u, [NewUser(<<u, 0>>, Count(w), room) EXCEPT !.cloned = TRUE], Contents(w), Count(w))
  BY DEF Clone
<1> DEFINE r == [NewUser(<<u, 0>>, Count(w), room) EXCEPT !.cloned = TRUE]
<1>2. Live(w) /\ Count(w) > 0 /\ \E kind \in {Phis, Switches, Branches} : {u, w} \subseteq kind
  BY DEF Clone, Ready, OperandsAssumption
<1>3. user[w] \in UserRecords /\ Sound(w, user[w], len)
  BY <1>2 DEF Live, IInv, IsSound, TypeOK
<1>4. Count(w) \in Nat /\ List(w) # None /\ List(w) \in Arrays
  BY <1>2, <1>3 DEF Sound, UserRecords, Count, List, Mine
<1>5. Count(w) <= MaxOps
  <2>1. len[List(w)] \in -1 .. MaxOps BY <1>4 DEF IInv, TypeOK
  <2>2. MaxOps \in Nat BY DEF OperandsAssumption
  <2> QED BY <1>3, <1>4, <2>1, <2>2 DEF Sound, Count, List
<1>6. Contents(w) \in Seq(Held \cup {None}) /\ Len(Contents(w)) = Count(w)
  <2>1. ASSUME NEW i \in 1 .. Count(w) PROVE <<List(w), i - 1>> \in Places
    BY <1>4, <1>5 DEF Places, OperandsAssumption
  <2>2. \A i \in 1 .. Count(w) : val[<<List(w), i - 1>>] \in Held \cup {None}
    BY <2>1 DEF IInv, TypeOK
  <2>3. Contents(w) \in [1 .. Count(w) -> Held \cup {None}] BY <2>2 DEF Contents
  <2> QED BY <1>4, <2>3
<1>7. room \in Nat
  <2>1. MaxOps \in Nat BY DEF OperandsAssumption
  <2> QED BY <1>4, <2>1 DEF RoomOfCopy
<1>8. <<u, 0>> \in Arrays BY DEF Arrays
<1>9. r \in UserRecords BY <1>4, <1>7, <1>8 DEF NewUser, UserRecords
<1>10. r.list = <<u, 0>> /\ r.ops = Count(w) /\ r.reserved = room /\ r.cloned BY DEF NewUser
<1>11. [len EXCEPT ![<<u, 0>>] = Count(w)][<<u, 0>>] = Count(w) BY <1>8 DEF IInv, TypeOK
<1>12. <<u, 0>> \in Mine(u) BY <1>8 DEF Mine
<1> HIDE DEF r
<1>13. Sound(u, r, [len EXCEPT ![<<u, 0>>] = Count(w)])
  <2>1. r.list # None BY <1>8, <1>10 DEF OperandsAssumption
  <2>2. CASE u \in Phis /\ w \in Phis
    <3>1. u \notin Switches \cup Branches BY <2>2 DEF OperandsAssumption
    <3>2. room = Count(w) BY <2>2 DEF RoomOfCopy
    <3>3. Count(w) % 2 = 0 BY <1>3, <1>4, <2>2 DEF Sound, Count, List
    <3> QED BY <1>2, <1>4, <1>10, <1>11, <1>12, <2>1, <3>1, <3>2, <3>3 DEF Sound
  <2>3. CASE u \in Switches /\ w \in Switches
    <3>1. u \notin Phis \cup Branches BY <2>3 DEF OperandsAssumption
    <3>2. Count(w) % 2 = 0 /\ Count(w) >= 2 BY <1>3, <1>4, <2>3 DEF Sound, Count, List
    <3> QED BY <1>4, <1>10, <1>11, <1>12, <2>1, <3>1, <3>2 DEF Sound
  <2>4. CASE u \in Branches /\ w \in Branches
    <3>1. u \notin Phis \cup Switches BY <2>4 DEF OperandsAssumption
    <3> QED BY <1>2, <1>4, <1>10, <1>11, <1>12, <2>1, <3>1 DEF Sound
  <2> QED BY <1>2, <2>2, <2>3, <2>4
<1> QED BY <1>1, <1>4, <1>6, <1>9, <1>10, <1>13, BuildSound DEF r
-----------------------------------------------------------------------------
(* The arrays of a user are two: the one it has and the one it moves to.   *)
LEMMA TwoArrays ==
  ASSUME NEW u \in Users, NEW a \in Mine(u)
  PROVE  /\ a \in Arrays /\ a[2] \in {0, 1} /\ <<u, 1 - a[2]>> \in Mine(u) /\ <<u, 1 - a[2]>> # a
         /\ \A b \in Mine(u) : b = a \/ b = <<u, 1 - a[2]>>
BY DEF Mine, Arrays

(* What resizeOperands returns, when it fits: the operands are those that  *)
(* were there, in an array that has room for them and, if no size is asked *)
(* for, for a pair more.                                                   *)
Resized(u, r) ==
  /\ r.val \in [Places -> Held \cup {None}] /\ r.len \in [Arrays -> -1 .. MaxOps]
  /\ r.user \in UserRecords /\ IsSound(u, r.user, r.len, r.val)
  /\ \A a \in Arrays \ Mine(u) : r.len[a] = len[a]
  /\ \A x \in Places : x[1] \notin Mine(u) => r.val[x] = val[x]
  /\ r.user.ops = Count(u) /\ r.user.dropped = user[u].dropped /\ r.user.cloned = user[u].cloned
  /\ \A i \in 0 .. Count(u) - 1 : r.val[<<r.user.list, i>>] = val[<<List(u), i>>]

LEMMA SameResized ==
  ASSUME IInv, NEW u \in Users, Live(u) PROVE Resized(u, Same(u))
<1>1. user[u] \in UserRecords BY DEF IInv, TypeOK, Live
<1> QED BY <1>1 DEF Resized, Same, IInv, TypeOK, Count, List

(* A new array of a sufficient size. *)
LEMMA MoveResized ==
  ASSUME OperandsAssumption, IInv, NEW u \in Phis \cup Switches, Live(u),
         NEW new \in Mine(u), new # List(u), NEW size \in 1 .. MaxOps, size >= Count(u),
         List(u) = None => new = <<u, 0>>, NEW m,
         m = IF List(u) = None THEN val
             ELSE ZapOld(Copy(val, List(u), new, Count(u)), List(u), Count(u))
  PROVE  Resized(u, [val |-> m,
                     len |-> [a \in Arrays |-> IF a = new THEN size ELSE IF a = List(u) THEN -1 ELSE len[a]],
                     user |-> [user[u] EXCEPT !.list = new, !.reserved = size]])
<1> DEFINE old == List(u)
           l == [a \in Arrays |-> IF a = new THEN size ELSE IF a = old THEN -1 ELSE len[a]]
           r == [user[u] EXCEPT !.list = new, !.reserved = size]
           n == Count(u)
<1>1. u \in Users /\ MaxOps \in Nat /\ None \notin Arrays /\ new \in Arrays /\ new # None
      /\ u \notin Branches
  BY DEF Users, OperandsAssumption, Mine
<1>2. user[u] \in UserRecords /\ Sound(u, user[u], len) BY <1>1 DEF IInv, IsSound, TypeOK, Live
<1>3. n \in Nat /\ old \in Arrays \cup {None} /\ (old = None => n = 0)
  BY <1>2 DEF UserRecords, Count, List, Sound
<1>4. r \in UserRecords /\ r.list = new /\ r.reserved = size /\ r.ops = n
      /\ r.dropped = user[u].dropped /\ r.cloned = user[u].cloned
  <2>1. size \in Nat BY <1>1
  <2>2. ASSUME NEW q \in UserRecords
        PROVE  LET p == [q EXCEPT !.list = new, !.reserved = size]
               IN  /\ p \in UserRecords /\ p.list = new /\ p.reserved = size /\ p.ops = q.ops
                   /\ p.dropped = q.dropped /\ p.cloned = q.cloned
    BY <1>1, <2>1 DEF UserRecords
  <2> QED BY <1>2, <2>2 DEF Count
<1>5. old # None => old \in Mine(u) BY <1>2 DEF Sound, List
<1>6. \A x \in Places : m[x] = IF old # None /\ x[1] = old /\ x[2] < n THEN None
                               ELSE IF old # None /\ x[1] = new /\ x[2] < n THEN val[<<old, x[2]>>]
                               ELSE val[x]
  BY DEF ZapOld, Zap, Copy
<1>7. \A x \in Places : x[1] \in Mine(u) /\ val[x] # None => x[1] = old /\ x[2] < n
  BY <1>1 DEF IInv, IsSound, Kept, List, Count
<1>8. \A a \in Mine(u) : len[a] # -1 <=> old = a
  BY <1>1 DEF IInv, IsSound, Kept, List, Live
<1>9. \A x \in Places : old # None => <<old, x[2]>> \in Places BY <1>3 DEF Places
<1>10. m \in [Places -> Held \cup {None}]
  <2>1. \A x \in Places : m[x] \in Held \cup {None} BY <1>6, <1>9 DEF IInv, TypeOK
  <2>2. m = [x \in Places |-> m[x]] BY DEF ZapOld, Zap, IInv, TypeOK
  <2> QED BY <2>1, <2>2
<1>11. l \in [Arrays -> -1 .. MaxOps]
  <2>1. size \in -1 .. MaxOps /\ -1 \in -1 .. MaxOps BY <1>1
  <2> QED BY <2>1 DEF IInv, TypeOK
<1>12. l[new] = size BY <1>1
<1>13. \A a \in Mine(u) : l[a] # -1 <=> new = a
  BY <1>1, <1>8, <1>12 DEF Mine
<1>14. \A x \in Places : x[1] \in Mine(u) /\ m[x] # None => x[1] = new /\ x[2] < n
  <2>1. \A x \in Places : x[1] # None BY <1>1, PlaceOf
  <2> QED BY <1>6, <1>7, <2>1
<1>15. \A a \in Arrays \ Mine(u) : l[a] = len[a] BY <1>1, <1>5
<1>16. \A x \in Places : x[1] \notin Mine(u) => m[x] = val[x] BY <1>5, <1>6
<1>17. ASSUME NEW i \in 0 .. n - 1 PROVE m[<<new, i>>] = val[<<old, i>>]
  <2>1. old # None /\ n <= MaxOps
    <3>1. old # None BY <1>3
    <3>2. len[old] \in -1 .. MaxOps /\ n <= len[old]
      BY <1>2, <1>3, <3>1 DEF IInv, TypeOK, Sound, List, Count
    <3> QED BY <1>1, <1>3, <3>1, <3>2
  <2>2. <<new, i>> \in Places BY <1>1, <1>3, <2>1 DEF Places
  <2>3. i < n BY <1>3
  <2>4. PICK x \in Places : x = <<new, i>> BY <2>2
  <2>5. x[1] = new /\ x[2] = i BY <2>4
  <2>6. m[x] = val[<<old, x[2]>>] BY <1>6, <2>1, <2>3, <2>5
  <2> QED BY <2>4, <2>5, <2>6
<1> HIDE DEF r, l, n, old
<1>18. Sound(u, r, l)
  <2>1. n % 2 = 0
    BY <1>2, <1>3 DEF Sound, n, old, Count, List
  <2>2. u \in Switches => n >= 2
    BY <1>2, <1>3 DEF Sound, n, old, Count, List, OperandsAssumption
  <2>3. size >= n /\ size >= 1 BY DEF n
  <2> QED BY <1>1, <1>3, <1>4, <1>12, <2>1, <2>2, <2>3 DEF Sound
<1>19. r # None BY <1>4 DEF OperandsAssumption
<1>20. IsSound(u, r, l, m) BY <1>4, <1>13, <1>14, <1>18, <1>19 DEF IsSound, Kept
<1> QED
  BY <1>4, <1>10, <1>11, <1>15, <1>16, <1>17, <1>20 DEF Resized, r, l, n, old

(* The array that is asked for has room for the operands; the next size    *)
(* has room for a pair more.                                               *)
LEMMA ResizeResized ==
  ASSUME OperandsAssumption, IInv, NEW u \in Phis \cup Switches, Live(u), NEW asked \in Nat,
         asked # 0 => u \in Phis, Fits(ResizeOperands(u, asked))
  PROVE  LET r == ResizeOperands(u, asked)
         IN  /\ Resized(u, r)
             /\ asked = 0 => r.user.list # None /\ Count(u) + 2 <= r.len[r.user.list]
<1> DEFINE size == IF asked = 0 THEN NextSize(u) ELSE asked
           old == List(u)
           new == IF old = None THEN <<u, 0>> ELSE <<u, 1 - old[2]>>
           m == IF old = None THEN val ELSE ZapOld(Copy(val, old, new, Count(u)), old, Count(u))
           l == [a \in Arrays |-> IF a = new THEN size ELSE IF a = old THEN -1 ELSE len[a]]
           q == [user[u] EXCEPT !.list = new, !.reserved = size]
           r == [val |-> m, len |-> l, user |-> q]
<1>1. CASE ~Resizes(u, asked)
  BY <1>1, SameResized DEF Resizes, ResizeOperands, Users
<1>2. CASE Resizes(u, asked)
  <2>1. ResizeOperands(u, asked) = r BY <1>2 DEF ResizeOperands
  <2>2. u \in Users /\ MaxOps \in Nat /\ None \notin Arrays BY DEF Users, OperandsAssumption
  <2>3. user[u] \in UserRecords /\ Sound(u, user[u], len) BY <2>2 DEF IInv, IsSound, TypeOK, Live
  <2>4. Count(u) \in Nat /\ user[u].reserved \in Nat /\ old \in Arrays \cup {None}
    BY <2>3 DEF UserRecords, Count, List
  <2>5. new \in Mine(u) /\ new # old /\ new # None /\ new \in Arrays
    <3>1. CASE old = None
      <4>1. <<u, 0>> \in Mine(u) BY <2>2 DEF Mine, Arrays
      <4> QED BY <2>2, <3>1, <4>1 DEF Mine
    <3>2. CASE old # None
      <4>1. old \in Mine(u) BY <2>3, <3>2 DEF Sound, List
      <4> QED BY <2>2, <3>2, <4>1, TwoArrays DEF Mine
    <3> QED BY <3>1, <3>2
  <2>6. Count(u) % 2 = 0 /\ (u \in Switches => Count(u) >= 2)
    BY <2>3, <2>4 DEF Sound, Count, List, OperandsAssumption
  <2>7. old # None => Count(u) <= len[old] /\ (u \in Phis => user[u].reserved = len[old])
    BY <2>3 DEF Sound, Count, List
  <2>8. old = None => Count(u) = 0 BY <2>3 DEF Sound, Count, List
  <2>9. size \in Nat /\ size >= Count(u) /\ size >= 1 /\ (asked = 0 => size >= Count(u) + 2)
    <3>1. CASE asked = 0
      <4>1. NextSize(u) \in Nat /\ NextSize(u) >= Count(u) + 2 BY <2>4, <2>6 DEF NextSize
      <4> QED BY <2>4, <3>1, <4>1
    <3>2. CASE asked # 0
      <4>1. asked >= Count(u) BY <1>2, <2>4, <2>7, <2>8, <3>2 DEF Resizes, IInv, TypeOK
      <4> QED BY <2>4, <3>2, <4>1
    <3> QED BY <3>1, <3>2
  <2>10. q.list = new /\ l[new] = size
    <3>1. \A p \in UserRecords : [p EXCEPT !.list = new, !.reserved = size].list = new
      BY DEF UserRecords
    <3> QED BY <2>3, <2>5, <3>1
  <2>11. size <= MaxOps
    <3>1. r.user.list = new /\ r.len[new] = size BY <2>10
    <3> HIDE DEF r
    <3> QED BY <2>1, <2>5, <3>1 DEF Fits
  <2> HIDE DEF size, new
  <2>12. size \in 1 .. MaxOps BY <2>2, <2>9, <2>11
  <2>13. Resized(u, r)
    <3>1. old = None => new = <<u, 0>> BY DEF new
    <3> QED BY <2>5, <2>9, <2>12, <3>1, MoveResized
  <2>14. r.user.list = new /\ r.len[new] = size BY <2>10
  <2> HIDE DEF r
  <2> QED BY <2>1, <2>5, <2>9, <2>13, <2>14
<1> QED BY <1>1, <1>2

(* What is resized leaves the others alone.                                *)
LEMMA ReserveSound ==
  ASSUME OperandsAssumption, IInv, NEW u \in Users, NEW n \in Nat, ReserveOperandSpace(u, n)
  PROVE  IInv'
<1> DEFINE r == ResizeOperands(u, 2 * n)
<1>1. /\ u \in Phis /\ Live(u) /\ Fits(r)
      /\ val' = r.val /\ len' = r.len /\ user' = [user EXCEPT ![u] = r.user] /\ wild' = wild
  BY DEF ReserveOperandSpace, Ready
<1>2. 2 * n \in Nat OBVIOUS
<1>3. Resized(u, r) BY <1>1, <1>2, ResizeResized
<1> HIDE DEF r
<1>4. wild' = FALSE BY ONLY <1>1, IInv, Zenon DEF IInv, TypeOK
<1> QED BY <1>1, <1>3, <1>4, OneUser DEF Resized

(* A place is known by its array and its number. *)
LEMMA SamePlace ==
  ASSUME NEW x \in Places, NEW a, NEW i PROVE x = <<a, i>> <=> x[1] = a /\ x[2] = i
BY DEF Places

(* The pair that is added has its place a, n in the array. *)
PairAdded(u, v, b, r, a, n) ==
  /\ Resized(u, r) /\ u \notin Branches /\ Live(u) /\ n \in Nat /\ n = Count(u)
  /\ a \in Mine(u) /\ a = r.user.list /\ n + 2 <= r.len[a]
  /\ <<a, n>> \in Places /\ <<a, n + 1>> \in Places
  /\ len' = r.len /\ user' = [user EXCEPT ![u] = [r.user EXCEPT !.ops = n + 2]]
  /\ wild' = wild
  /\ val' = [r.val EXCEPT ![<<a, n>>] = v, ![<<a, n + 1>>] = b]
LEMMA AddPairPlain ==
  ASSUME OperandsAssumption, IInv, NEW u \in Users, NEW v, NEW b, AddPair(u, v, b)
  PROVE  \E r, a, n : PairAdded(u, v, b, r, a, n)
<1> DEFINE r == IF HasRoom(u) THEN Same(u) ELSE ResizeOperands(u, 0)
           a == r.user.list
           n == Count(u)
<1>1. /\ u \in Phis \cup Switches /\ Live(u) /\ Fits(r) /\ ~(u \in Switches /\ user[u].cloned)
      /\ len' = r.len /\ user' = [user EXCEPT ![u] = [r.user EXCEPT !.ops = n + 2]]
      /\ IF n + 2 > r.len[a] THEN wild' = TRUE /\ UNCHANGED val
         ELSE wild' = wild /\ val' = [r.val EXCEPT ![<<a, n>>] = v, ![<<a, n + 1>>] = b]
  BY DEF AddPair, Ready, OperandsAssumption
<1>2. u \notin Branches /\ None \notin Arrays /\ MaxOps \in Nat BY <1>1 DEF OperandsAssumption
<1>3. user[u] \in UserRecords /\ Sound(u, user[u], len) BY <1>1 DEF IInv, IsSound, TypeOK, Live
<1>4. n \in Nat BY <1>3 DEF UserRecords, Count
<1>5. Resized(u, r) /\ a # None /\ n + 2 <= r.len[a]
  <2>1. CASE HasRoom(u)
    <3>1. r = Same(u) /\ Resized(u, r) BY <1>1, <2>1, SameResized
    <3>2. user[u].list # None BY <1>3, <1>4, <2>1 DEF HasRoom, Sound, Count
    <3>3. user[u].reserved = len[user[u].list] BY <1>1, <1>3, <3>2 DEF Sound
    <3> QED BY <2>1, <3>1, <3>2, <3>3 DEF Same, HasRoom
  <2>2. CASE ~HasRoom(u)
    <3>1. r = ResizeOperands(u, 0) BY <2>2
    <3> HIDE DEF r
    <3>2. Fits(ResizeOperands(u, 0)) BY <1>1, <3>1
    <3> QED BY <1>1, <3>1, <3>2, ResizeResized
  <2> QED BY <2>1, <2>2
<1> HIDE DEF r
<1>6. a \in Mine(u) /\ a \in Arrays BY <1>5 DEF Resized, IsSound, Sound, UserRecords, Mine, OperandsAssumption
<1>7. r.len[a] <= MaxOps BY <1>2, <1>5, <1>6 DEF Resized
<1>8. n + 1 <= MaxOps - 1
  <2>1. r.len[a] \in -1 .. MaxOps BY <1>5, <1>6 DEF Resized
  <2> QED BY <1>2, <1>4, <1>5, <1>7, <2>1
<1>9. <<a, n>> \in Places /\ <<a, n + 1>> \in Places BY <1>2, <1>4, <1>6, <1>8 DEF Places
<1>10. ~(n + 2 > r.len[a])
  <2>1. r.len[a] \in -1 .. MaxOps BY <1>5, <1>6 DEF Resized
  <2> QED BY <1>2, <1>4, <1>5, <2>1
<1>11. wild' = wild /\ val' = [r.val EXCEPT ![<<a, n>>] = v, ![<<a, n + 1>>] = b]
  BY <1>1, <1>10
<1> QED BY <1>1, <1>2, <1>4, <1>5, <1>6, <1>9, <1>11 DEF PairAdded

LEMMA AddPairSound ==
  ASSUME OperandsAssumption, IInv, NEW u \in Users, NEW v \in Held, NEW b \in Others,
         AddPair(u, v, b)
  PROVE  IInv'
<1>0. PICK r, a, n : PairAdded(u, v, b, r, a, n) BY AddPairPlain
<1>1. /\ Resized(u, r) /\ u \notin Branches /\ Live(u) /\ n \in Nat /\ n = Count(u)
      /\ a \in Mine(u) /\ a = r.user.list /\ n + 2 <= r.len[a]
      /\ <<a, n>> \in Places /\ <<a, n + 1>> \in Places
      /\ len' = r.len /\ user' = [user EXCEPT ![u] = [r.user EXCEPT !.ops = n + 2]]
      /\ wild' = wild
      /\ val' = [r.val EXCEPT ![<<a, n>>] = v, ![<<a, n + 1>>] = b]
  BY <1>0 DEF PairAdded
<1> DEFINE q == [r.user EXCEPT !.ops = n + 2]
<1>2. r.user \in UserRecords /\ r.user.ops = n BY <1>1 DEF Resized
<1>3. q \in UserRecords /\ q.ops = n + 2 /\ q.list = a /\ q.reserved = r.user.reserved
      /\ q.cloned = r.user.cloned
  <2>1. n + 2 \in Nat BY <1>1
  <2>2. ASSUME NEW p \in UserRecords, NEW k \in Nat
        PROVE  LET o == [p EXCEPT !.ops = k]
               IN  /\ o \in UserRecords /\ o.ops = k /\ o.list = p.list /\ o.reserved = p.reserved
                   /\ o.cloned = p.cloned
    BY DEF UserRecords
  <2> QED BY <1>1, <1>2, <2>1, <2>2
<1>4. \A x \in Places : val'[x] = IF x[1] = a /\ x[2] = n + 1 THEN b
                                 ELSE IF x[1] = a /\ x[2] = n THEN v ELSE r.val[x]
  <2>1. PICK y \in Places : y = <<a, n>> BY <1>1
  <2>2. PICK z \in Places : z = <<a, n + 1>> BY <1>1
  <2>3. val' = [r.val EXCEPT ![y] = v, ![z] = b] BY <1>1, <2>1, <2>2
  <2>4. \A x \in Places : val'[x] = IF x = z THEN b ELSE IF x = y THEN v ELSE r.val[x]
    BY <1>1, <2>3 DEF Resized
  <2> QED BY <2>1, <2>2, <2>4, SamePlace
<1>5. val' \in [Places -> Held \cup {None}] BY <1>1 DEF Resized, Held
<1> HIDE DEF q
<1>6. r.user # None /\ q # None BY <1>2, <1>3 DEF OperandsAssumption
<1>7. IsSound(u, r.user, r.len, r.val) BY <1>1 DEF Resized
<1>8. a # None /\ a \in Arrays BY <1>1 DEF OperandsAssumption, Mine
<1>9. r.user.list = a /\ Sound(u, r.user, r.len) BY <1>1, <1>6, <1>7 DEF IsSound
<1>10. Sound(u, q, len') BY <1>1, <1>2, <1>3, <1>8, <1>9 DEF Sound
<1>11. \A x \in Places : x[1] \in Mine(u) /\ val'[x] # None => a = x[1] /\ x[2] < n + 2
  <2>1. \A x \in Places : x[1] \in Mine(u) /\ r.val[x] # None => a = x[1] /\ x[2] < n
    BY <1>2, <1>7, <1>9 DEF IsSound, Kept
  <2>2. \A x \in Places : x[2] \in Int BY PlaceOf
  <2>3. n \in Nat BY <1>1
  <2> QED BY <1>4, <2>1, <2>2, <2>3
<1>12. \A c \in Mine(u) : len'[c] # -1 <=> a = c BY <1>1, <1>6, <1>7 DEF IsSound, Kept
<1>13. IsSound(u, q, len', val') BY <1>3, <1>6, <1>10, <1>11, <1>12 DEF IsSound, Kept
<1>14. \A x \in Places : x[1] \notin Mine(u) /\ val[x] = None => val'[x] = None
  BY <1>1, <1>4 DEF Resized
<1>15. wild' = FALSE BY ONLY <1>1, IInv, Zenon DEF IInv, TypeOK
<1> QED BY <1>1, <1>3, <1>5, <1>13, <1>14, <1>15, OneUser DEF Resized, q
-----------------------------------------------------------------------------
(* What the invariant says of one user that exists.                        *)
LEMMA OfLive ==
  ASSUME OperandsAssumption, IInv, NEW u \in Users, Live(u)
  PROVE  /\ user[u] \in UserRecords /\ user[u] # None /\ Sound(u, user[u], len)
         /\ Count(u) \in Nat /\ (List(u) = None => Count(u) = 0)
         /\ List(u) # None => /\ List(u) \in Mine(u) /\ List(u) \in Arrays
                              /\ Count(u) <= len[List(u)] /\ len[List(u)] \in 1 .. MaxOps
         /\ \A x \in Places : x[1] \in Mine(u) /\ val[x] # None => x[1] = List(u) /\ x[2] < Count(u)
         /\ \A a \in Mine(u) : len[a] # -1 <=> List(u) = a
<1>1. user[u] \in UserRecords /\ user[u] # None /\ Sound(u, user[u], len)
  BY DEF IInv, IsSound, TypeOK, Live
<1>2. Count(u) \in Nat /\ (List(u) = None => Count(u) = 0)
  BY <1>1 DEF UserRecords, Sound, Count, List
<1>3. ASSUME List(u) # None
      PROVE  /\ List(u) \in Mine(u) /\ List(u) \in Arrays
             /\ Count(u) <= len[List(u)] /\ len[List(u)] \in 1 .. MaxOps
  <2>1. List(u) \in Mine(u) /\ Count(u) <= len[List(u)] /\ len[List(u)] >= 1
    BY <1>1, <1>3 DEF Sound, List, Count
  <2>2. List(u) \in Arrays BY <2>1 DEF Mine
  <2>3. len[List(u)] \in -1 .. MaxOps BY <2>2 DEF IInv, TypeOK
  <2>4. MaxOps \in Nat BY DEF OperandsAssumption
  <2> QED BY <2>1, <2>2, <2>3, <2>4
<1>4. Kept(u, user[u], len, val) BY DEF IInv, IsSound
<1> QED BY <1>1, <1>2, <1>3, <1>4 DEF Kept, List, Count, Live

(* The record with another number of operands. *)
LEMMA WithOps ==
  ASSUME NEW q \in UserRecords, NEW k \in Nat
  PROVE  LET o == [q EXCEPT !.ops = k]
         IN  /\ o \in UserRecords /\ o.ops = k /\ o.list = q.list /\ o.reserved = q.reserved
             /\ o.cloned = q.cloned /\ o.dropped = q.dropped
BY DEF UserRecords

LEMMA RemovePairSound ==
  ASSUME OperandsAssumption, IInv, NEW u \in Users, Live(u), NEW i \in 0 .. Count(u) - 1,
         i % 2 = 0, RemovePair(u, i)
  PROVE  IInv'
<1> DEFINE a == List(u)
           n == Count(u)
           q == [user[u] EXCEPT !.ops = n - 2]
<1>1. u \notin Branches /\ (u \in Switches => i > 0) /\ val' = MoveDown(val, a, i, n)
      /\ len' = len /\ wild' = wild /\ user' = [user EXCEPT ![u] = q]
  BY DEF RemovePair, Count, List
<1>2. n \in Nat /\ n > i /\ i \in Nat /\ a # None
  BY OfLive
<1>3. user[u] \in UserRecords /\ Sound(u, user[u], len) /\ a \in Mine(u) /\ a \in Arrays
      /\ n <= len[a] /\ len[a] \in 1 .. MaxOps
  BY <1>2, OfLive
<1>4. n % 2 = 0 BY <1>1, <1>2, <1>3 DEF Sound, List, Count, Users
<1>5. n - 2 \in Nat /\ i <= n - 2 BY <1>2, <1>4
<1>6. q \in UserRecords /\ q.ops = n - 2 /\ q.list = a /\ q.reserved = user[u].reserved
      /\ q.cloned = user[u].cloned
  BY <1>3, <1>5, WithOps DEF List
<1>7. \A x \in Places : val'[x] = IF x[1] # a \/ x[2] < i THEN val[x]
                                 ELSE IF x[2] < n - 2 THEN val[<<a, x[2] + 2>>] ELSE None
  BY <1>1 DEF MoveDown
<1>8. \A x \in Places : x[2] < n - 2 => <<a, x[2] + 2>> \in Places
  <2>1. MaxOps \in Nat BY DEF OperandsAssumption
  <2> QED BY <1>2, <1>3, <2>1 DEF Places
<1>9. val' \in [Places -> Held \cup {None}]
  <2>1. \A x \in Places : val'[x] \in Held \cup {None} BY <1>7, <1>8 DEF IInv, TypeOK
  <2>2. val' = [x \in Places |-> val'[x]] BY <1>1 DEF MoveDown
  <2> QED BY <2>1, <2>2
<1> HIDE DEF q
<1>10. Sound(u, q, len') BY <1>1, <1>2, <1>3, <1>4, <1>5, <1>6 DEF Sound, List, Count
<1>11. \A x \in Places : x[1] \in Mine(u) /\ val'[x] # None => a = x[1] /\ x[2] < n - 2
  <2> SUFFICES ASSUME NEW x \in Places, x[1] \in Mine(u), val'[x] # None
               PROVE  a = x[1] /\ x[2] < n - 2
    OBVIOUS
  <2>1. x[2] \in Int BY PlaceOf
  <2>2. x[1] = a BY <1>7, OfLive
  <2>3. x[2] < i \/ x[2] < n - 2 BY <1>7, <2>2
  <2> QED BY <1>2, <1>5, <2>1, <2>2, <2>3
<1>12. \A c \in Mine(u) : len'[c] # -1 <=> a = c BY <1>1, OfLive
<1>13. q # None BY <1>6 DEF OperandsAssumption
<1>14. IsSound(u, q, len', val') BY <1>6, <1>10, <1>11, <1>12, <1>13 DEF IsSound, Kept
<1>15. \A x \in Places : x[1] \notin Mine(u) /\ val[x] = None => val'[x] = None
  BY <1>3, <1>7
<1>16. wild' = FALSE BY ONLY <1>1, IInv, Zenon DEF IInv, TypeOK
<1>17. len' \in [Arrays -> -1 .. MaxOps] BY <1>1 DEF IInv, TypeOK
<1>18. \A c \in Arrays \ Mine(u) : len'[c] = len[c] BY <1>1
<1> QED BY <1>1, <1>6, <1>9, <1>14, <1>15, <1>16, <1>17, <1>18, OneUser

LEMMA SetOperandSound ==
  ASSUME OperandsAssumption, IInv, NEW u \in Users, Live(u), NEW i \in 0 .. Count(u) - 1,
         NEW v \in Held, SetOperand(u, i, v)
  PROVE  IInv'
<1> DEFINE a == List(u)
           n == Count(u)
<1>1. n \in Nat /\ n > i /\ i \in Nat /\ a # None BY OfLive
<1>2. a \in Mine(u) /\ a \in Arrays /\ n <= len[a] /\ len[a] \in 1 .. MaxOps BY <1>1, OfLive
<1>3. <<a, i>> \in Places
  <2>1. MaxOps \in Nat BY DEF OperandsAssumption
  <2> QED BY <1>1, <1>2, <2>1 DEF Places
<1>4. PICK y \in Places : y = <<a, i>> BY <1>3
<1>5. y[1] = a /\ y[2] = i BY <1>4
<1>6. val' = [val EXCEPT ![y] = v] /\ UNCHANGED <<user, len, wild>> BY <1>4 DEF SetOperand
<1>7. val' \in [Places -> Held \cup {None}] BY <1>6 DEF IInv, TypeOK
<1>8. \A x \in Places : x # y => val'[x] = val[x] BY <1>6 DEF IInv, TypeOK
<1>9. user' = [user EXCEPT ![u] = user[u]] BY <1>6 DEF IInv, TypeOK
<1>10. user[u] \in UserRecords /\ user[u] # None /\ Sound(u, user[u], len) BY OfLive
<1>11. \A x \in Places : x[1] \in Mine(u) /\ val'[x] # None => a = x[1] /\ x[2] < n
  BY <1>1, <1>5, <1>8, OfLive
<1>12. \A c \in Mine(u) : len'[c] # -1 <=> a = c BY <1>6, OfLive
<1>13. IsSound(u, user[u], len', val')
  BY <1>6, <1>10, <1>11, <1>12 DEF IsSound, Kept, List, Count
<1>14. \A x \in Places : x[1] \notin Mine(u) /\ val[x] = None => val'[x] = None
  BY <1>2, <1>5, <1>8
<1>15. wild' = FALSE BY ONLY <1>6, IInv, Zenon DEF IInv, TypeOK
<1>16. len' \in [Arrays -> -1 .. MaxOps] BY <1>6 DEF IInv, TypeOK
<1>17. \A c \in Arrays \ Mine(u) : len'[c] = len[c] BY <1>6
<1> QED BY <1>7, <1>9, <1>10, <1>13, <1>14, <1>15, <1>16, <1>17, OneUser

(* What a user holds changes, and nothing else of it.                      *)
LEMMA HoldsSound ==
  ASSUME OperandsAssumption, IInv, NEW u \in Users, Live(u),
         user' = user /\ len' = len /\ wild' = wild, val' \in [Places -> Held \cup {None}],
         \A x \in Places : val[x] = None => val'[x] = None
  PROVE  IInv'
<1>1. user' = [user EXCEPT ![u] = user[u]] BY DEF IInv, TypeOK
<1>2. user[u] \in UserRecords /\ user[u] # None /\ Sound(u, user[u], len) BY OfLive
<1>3. \A x \in Places : x[1] \in Mine(u) /\ val'[x] # None => List(u) = x[1] /\ x[2] < Count(u)
  BY OfLive
<1>4. \A c \in Mine(u) : len'[c] # -1 <=> List(u) = c BY OfLive
<1>5. IsSound(u, user[u], len', val') BY <1>2, <1>3, <1>4 DEF IsSound, Kept, List, Count
<1>6. wild' = FALSE BY ONLY wild' = wild, IInv, Zenon DEF IInv, TypeOK
<1>7. len' \in [Arrays -> -1 .. MaxOps] BY DEF IInv, TypeOK
<1>8. \A c \in Arrays \ Mine(u) : len'[c] = len[c] OBVIOUS
<1> QED BY <1>1, <1>2, <1>5, <1>6, <1>7, <1>8, OneUser

LEMMA ReplaceUsesOfWithSound ==
  ASSUME OperandsAssumption, IInv, NEW u \in Users, NEW v \in Held, NEW w \in Held,
         ReplaceUsesOfWith(u, v, w)
  PROVE  IInv'
<1>1. /\ Live(u) /\ user' = user /\ len' = len /\ wild' = wild
      /\ val' = [x \in Places |->
                   IF x[1] = List(u) /\ x[2] < Count(u) /\ val[x] = v THEN w ELSE val[x]]
  BY DEF ReplaceUsesOfWith, Ready
<1>2. val' \in [Places -> Held \cup {None}] BY <1>1 DEF IInv, TypeOK
<1>3. None \notin Held BY DEF Held, Users, OperandsAssumption
<1>4. \A x \in Places : val[x] = None => val'[x] = None BY <1>1, <1>3
<1> QED BY <1>1, <1>2, <1>4, HoldsSound

(* All uses of a value: those of every user.                               *)
LEMMA ReplaceEverywhereSound ==
  ASSUME OperandsAssumption, IInv, NEW v \in Held, NEW w \in Held, ReplaceEverywhere(v, w)
  PROVE  IInv'
<1>1. /\ user' = user /\ len' = len /\ wild' = wild
      /\ val' = [x \in Places |-> IF val[x] = v THEN w ELSE val[x]]
  BY DEF ReplaceEverywhere, ReplaceAllUsesWith
<1>2. TypeOK' BY <1>1 DEF IInv, TypeOK
<1>3. None \notin Held BY DEF Held, Users, OperandsAssumption
<1>4. \A x \in Places : val[x] = None => val'[x] = None BY <1>1, <1>3
<1>5. ASSUME NEW u \in Users PROVE IsSound(u, user'[u], len', val')
  BY <1>1, <1>4 DEF IInv, IsSound, Kept
<1>6. ~wild' BY <1>1 DEF IInv
<1> QED BY <1>2, <1>5, <1>6 DEF IInv

LEMMA DropAllReferencesSound ==
  ASSUME OperandsAssumption, IInv, NEW u \in Users, DropAllReferences(u)
  PROVE  IInv'
<1> DEFINE q == [user[u] EXCEPT !.dropped = TRUE]
<1>1. /\ Live(u) /\ val' = Zap(val, List(u), Count(u)) /\ len' = len /\ wild' = wild
      /\ user' = [user EXCEPT ![u] = q]
  BY DEF DropAllReferences, Ready
<1>2. user[u] \in UserRecords /\ user[u] # None /\ Sound(u, user[u], len) BY <1>1, OfLive
<1>3. /\ q \in UserRecords /\ q.list = user[u].list /\ q.ops = user[u].ops
      /\ q.reserved = user[u].reserved /\ q.cloned = user[u].cloned
  BY <1>2 DEF UserRecords
<1> HIDE DEF q
<1>4. val' \in [Places -> Held \cup {None}] BY <1>1 DEF Zap, IInv, TypeOK
<1>5. \A x \in Places : val[x] = None => val'[x] = None BY <1>1 DEF Zap
<1>6. \A x \in Places : x[1] \in Mine(u) /\ val'[x] # None => List(u) = x[1] /\ x[2] < Count(u)
  BY <1>1, <1>5, OfLive
<1>7. \A c \in Mine(u) : len'[c] # -1 <=> List(u) = c BY <1>1, OfLive
<1>8. q # None BY <1>3 DEF OperandsAssumption
<1>9. Sound(u, q, len') BY <1>1, <1>2, <1>3 DEF Sound
<1>10. IsSound(u, q, len', val') BY <1>3, <1>6, <1>7, <1>8, <1>9 DEF IsSound, Kept, List, Count
<1>11. wild' = FALSE BY ONLY <1>1, IInv, Zenon DEF IInv, TypeOK
<1>12. len' \in [Arrays -> -1 .. MaxOps] BY <1>1 DEF IInv, TypeOK
<1>13. \A c \in Arrays \ Mine(u) : len'[c] = len[c] BY <1>1
<1> QED BY <1>1, <1>3, <1>4, <1>5, <1>10, <1>11, <1>12, <1>13, OneUser

LEMMA SetUnconditionalDestSound ==
  ASSUME OperandsAssumption, IInv, NEW u \in Users, NEW b \in Others, SetUnconditionalDest(u, b)
  PROVE  IInv'
<1> DEFINE a == List(u)
           n == Count(u)
           q == [user[u] EXCEPT !.ops = 1]
<1>1. /\ u \in Branches /\ Live(u) /\ val' = Fill(Zap(val, a, n), a, <<b>>)
      /\ len' = len /\ wild' = wild /\ user' = [user EXCEPT ![u] = q]
  BY DEF SetUnconditionalDest, Ready
<1>2. user[u] \in UserRecords /\ Sound(u, user[u], len) /\ u \notin Phis \cup Switches
  BY <1>1, OfLive DEF OperandsAssumption
<1>3. a # None /\ a \in Mine(u) /\ len[a] >= 1 /\ a = <<u, 0>>
  BY <1>1, <1>2 DEF Sound, List
<1>4. q \in UserRecords /\ q.ops = 1 /\ q.list = a BY <1>2, WithOps DEF List
<1>5. \A x \in Places : val'[x] = IF x[1] = a /\ x[2] < 1 THEN b
                                 ELSE IF x[1] = a /\ x[2] < n THEN None ELSE val[x]
  <2>1. \A x \in Places : x[2] < Len(<<b>>) => x[2] + 1 = 1 BY PlaceOf
  <2> QED BY <1>1, <2>1 DEF Fill, Zap
<1>6. val' \in [Places -> Held \cup {None}]
  <2>1. \A x \in Places : val'[x] \in Held \cup {None} BY <1>5 DEF Held, IInv, TypeOK
  <2>2. val' = [x \in Places |-> val'[x]] BY <1>1 DEF Fill
  <2> QED BY <2>1, <2>2
<1> HIDE DEF q
<1>7. Sound(u, q, len') BY <1>1, <1>2, <1>3, <1>4 DEF Sound
<1>8. \A x \in Places : x[1] \in Mine(u) /\ val'[x] # None => a = x[1] /\ x[2] < 1
  BY <1>1, <1>5, OfLive
<1>9. \A c \in Mine(u) : len'[c] # -1 <=> a = c BY <1>1, OfLive
<1>10. q # None BY <1>4 DEF OperandsAssumption
<1>11. IsSound(u, q, len', val') BY <1>4, <1>7, <1>8, <1>9, <1>10 DEF IsSound, Kept
<1>12. \A x \in Places : x[1] \notin Mine(u) /\ val[x] = None => val'[x] = None BY <1>3, <1>5
<1>13. wild' = FALSE BY ONLY <1>1, IInv, Zenon DEF IInv, TypeOK
<1>14. len' \in [Arrays -> -1 .. MaxOps] BY <1>1 DEF IInv, TypeOK
<1>15. \A c \in Arrays \ Mine(u) : len'[c] = len[c] BY <1>1
<1> QED BY <1>1, <1>4, <1>6, <1>11, <1>12, <1>13, <1>14, <1>15, OneUser

(* A user that goes leaves nothing.                                        *)
LEMMA GoneSound ==
  ASSUME OperandsAssumption, IInv, NEW u \in Users, Live(u),
         user' = [user EXCEPT ![u] = None],
         len' = IF List(u) = None THEN len ELSE [len EXCEPT ![List(u)] = -1], wild' = FALSE,
         val' \in [Places -> Held \cup {None}],
         \A x \in Places : val[x] = None => val'[x] = None,
         \A x \in Places : List(u) # None /\ x[1] = List(u) /\ x[2] < Count(u) => val'[x] = None
  PROVE  IInv'
<1>1. len' \in [Arrays -> -1 .. MaxOps]
  <2>1. -1 \in -1 .. MaxOps BY DEF OperandsAssumption
  <2> QED BY <2>1 DEF IInv, TypeOK
<1>2. List(u) # None => List(u) \in Mine(u) /\ List(u) \in Arrays BY OfLive
<1>3. \A c \in Arrays \ Mine(u) : len'[c] = len[c] BY <1>2 DEF IInv, TypeOK
<1>4. \A c \in Mine(u) : len'[c] = -1
  <2> SUFFICES ASSUME NEW c \in Mine(u) PROVE len'[c] = -1 OBVIOUS
  <2>1. c \in Arrays /\ c # None BY DEF Mine, OperandsAssumption
  <2>2. len[c] # -1 <=> List(u) = c BY OfLive
  <2> QED BY <2>1, <2>2 DEF IInv, TypeOK
<1>5. \A x \in Places : x[1] \in Mine(u) => val'[x] = None
  <2>1. \A x \in Places : x[1] # None BY PlaceOf DEF OperandsAssumption
  <2> QED BY <2>1, OfLive
<1>6. IsSound(u, None, len', val') BY <1>4, <1>5 DEF IsSound, Kept
<1> QED BY <1>1, <1>3, <1>6, OneUser

LEMMA RemoveLastPairSound ==
  ASSUME OperandsAssumption, IInv, NEW u \in Users, RemoveLastPair(u)
  PROVE  IInv'
<1> DEFINE a == List(u)
<1>1. /\ Live(u) /\ Count(u) = 2
      /\ val' = Zap(ReplaceAllUsesWith(MoveDown(val, a, 0, 2), u, Undef), a, len[a])
      /\ user' = [user EXCEPT ![u] = None] /\ len' = [len EXCEPT ![a] = -1] /\ wild' = wild
  BY DEF RemoveLastPair, Ready
<1>2. a # None /\ len[a] >= 2 /\ len[a] \in Int BY <1>1, OfLive
<1>3. u # None /\ Undef \in Held BY DEF OperandsAssumption, Held
<1>4. \A x \in Places : val'[x] \in Held \cup {None} /\ (val[x] = None => val'[x] = None)
                       /\ (x[1] = a /\ x[2] < 2 => val'[x] = None)
  <2> SUFFICES ASSUME NEW x \in Places
               PROVE  /\ val'[x] \in Held \cup {None} /\ (val[x] = None => val'[x] = None)
                      /\ (x[1] = a /\ x[2] < 2 => val'[x] = None)
    OBVIOUS
  <2>1. x[2] \in Nat BY PlaceOf
  <2>2. MoveDown(val, a, 0, 2)[x] = IF x[1] # a THEN val[x] ELSE None BY <2>1 DEF MoveDown
  <2>3. ReplaceAllUsesWith(MoveDown(val, a, 0, 2), u, Undef)[x]
          = IF x[1] # a THEN IF val[x] = u THEN Undef ELSE val[x] ELSE None
    BY <1>3, <2>2 DEF ReplaceAllUsesWith
  <2>4. val'[x] = IF x[1] = a /\ x[2] < len[a] THEN None
                  ELSE IF x[1] # a THEN IF val[x] = u THEN Undef ELSE val[x] ELSE None
    BY <1>1, <2>3 DEF Zap
  <2> QED BY <1>2, <1>3, <2>1, <2>4 DEF IInv, TypeOK
<1>5. val' = [x \in Places |-> val'[x]] BY <1>1 DEF Zap
<1>6. val' \in [Places -> Held \cup {None}] BY <1>4, <1>5
<1>7. wild' = FALSE BY ONLY <1>1, IInv, Zenon DEF IInv, TypeOK
<1> QED BY <1>1, <1>2, <1>4, <1>6, <1>7, GoneSound

LEMMA DeleteSound ==
  ASSUME OperandsAssumption, IInv, NEW u \in Users, Delete(u)
  PROVE  IInv'
<1> DEFINE a == List(u)
           n == IF u \in Branches THEN CountForDelete(u) ELSE IF a = None THEN 0 ELSE len[a]
<1>1. /\ Live(u) /\ val' = Zap(val, a, n) /\ user' = [user EXCEPT ![u] = None]
      /\ wild' = (wild \/ (u \in Branches /\ n # len[a]) \/ (a # None /\ n = 0))
      /\ len' = IF a = None THEN len ELSE [len EXCEPT ![a] = -1]
  BY DEF Delete
<1>2. a # None => n = len[a] /\ n >= 1 /\ n >= Count(u)
  <2>1. u \in Branches => Count(u) \in {1, len[a]} \/ a = None BY <1>1, OfLive DEF Sound, List, Count
  <2>2. a # None => Count(u) <= len[a] /\ len[a] \in 1 .. MaxOps BY <1>1, OfLive
  <2> QED BY <1>1, <2>1, <2>2, OfLive DEF CountForDelete
<1>3. u \in Branches => a # None BY <1>1, OfLive DEF Sound, List, OperandsAssumption
<1>4. wild' = FALSE
  <2>1. ~(u \in Branches /\ n # len[a]) /\ ~(a # None /\ n = 0) BY <1>2, <1>3
  <2>2. ~wild BY DEF IInv
  <2> HIDE DEF n
  <2> QED BY <1>1, <2>1, <2>2, Zenon
<1>5. val' \in [Places -> Held \cup {None}] BY <1>1 DEF Zap, IInv, TypeOK
<1>6. \A x \in Places : val[x] = None => val'[x] = None BY <1>1 DEF Zap
<1>7. \A x \in Places : a # None /\ x[1] = a /\ x[2] < Count(u) => val'[x] = None
  <2>1. Count(u) \in Nat /\ (a # None => n \in Int) BY <1>1, <1>2, OfLive
  <2>2. \A x \in Places : x[2] \in Nat BY PlaceOf
  <2> HIDE DEF n
  <2> QED BY <1>1, <1>2, <2>1, <2>2 DEF Zap
<1> HIDE DEF n
<1> QED BY <1>1, <1>4, <1>5, <1>6, <1>7, GoneSound
-----------------------------------------------------------------------------
LEMMA StepSound == ASSUME OperandsAssumption, IInv, [Next]_vars PROVE IInv'
<1>1. CASE UNCHANGED vars
  <2>1. UNCHANGED <<val, user, len, wild>> BY <1>1 DEF vars
  <2>2. TypeOK' BY <2>1 DEF IInv, TypeOK
  <2> QED BY <2>1, <2>2 DEF IInv, IsSound, Kept, Sound
<1>2. ASSUME NEW u \in Users, NewPhi(u) PROVE IInv' BY <1>2, NewPhiSound
<1>3. ASSUME NEW u \in Users, NEW v \in Others, NEW b \in Others, NEW n \in 0 .. 1,
             NewSwitch(u, v, b, n)
      PROVE  IInv'
  BY <1>3, NewSwitchSound
<1>4. ASSUME NEW u \in Users, NEW n \in {1, 3}, NEW vals \in [1 .. n -> Others], NewBranch(u, vals)
      PROVE  IInv'
  BY <1>4, NewBranchSound
<1>5. ASSUME NEW u \in Users, NEW w \in Users, Clone(u, w) PROVE IInv' BY <1>5, CloneSound
<1>6. ASSUME NEW u \in Users, DropAllReferences(u) \/ Delete(u) \/ RemoveLastPair(u) PROVE IInv'
  BY <1>6, DropAllReferencesSound, DeleteSound, RemoveLastPairSound
<1>7. ASSUME NEW u \in Users, NEW n \in 0 .. MaxOps \div 2, ReserveOperandSpace(u, n) PROVE IInv'
  <2>1. n \in Nat BY DEF OperandsAssumption
  <2> QED BY <1>7, <2>1, ReserveSound
<1>8. ASSUME NEW u \in Users, NEW v \in Held, NEW b \in Others, AddPair(u, v, b) PROVE IInv'
  BY <1>8, AddPairSound
<1>9. ASSUME NEW u \in Users, NEW b \in Others, SetUnconditionalDest(u, b) PROVE IInv'
  BY <1>9, SetUnconditionalDestSound
<1>10. ASSUME NEW u \in Users, Live(u), NEW i \in 0 .. Count(u) - 1, i % 2 = 0, RemovePair(u, i)
       PROVE  IInv'
  BY <1>10, RemovePairSound
<1>11. ASSUME NEW u \in Users, Live(u), NEW i \in 0 .. Count(u) - 1, NEW v \in Held,
              SetOperand(u, i, v)
       PROVE  IInv'
  BY <1>11, SetOperandSound
<1>12. ASSUME NEW u \in Users, NEW v \in Held, NEW w \in Held, ReplaceUsesOfWith(u, v, w)
       PROVE  IInv'
  BY <1>12, ReplaceUsesOfWithSound
<1>13. ASSUME NEW v \in Held, NEW w \in Held, ReplaceEverywhere(v, w) PROVE IInv'
  BY <1>13, ReplaceEverywhereSound
<1> QED
  BY <1>1, <1>2, <1>3, <1>4, <1>5, <1>6, <1>7, <1>8, <1>9, <1>10, <1>11, <1>12, <1>13, Zenon DEF Next

(* Whatever users, arrays and bounds there are: every use that holds a     *)
(* value is an operand of a user, no array is lost, and nothing undefined  *)
(* is done.  (resizeOperands, removeIncomingValue, the destructors.)       *)
THEOREM OperandsStayExact == ASSUME OperandsAssumption PROVE Spec => []OperandsExact
<1>1. Init => IInv BY InitSound
<1>2. IInv /\ [Next]_vars => IInv' BY StepSound
<1>3. IInv => OperandsExact BY SoundExact
<1> QED BY <1>1, <1>2, <1>3, PTL DEF Spec

(* Every variable keeps its type, and no array is longer than MaxOps.      *)
THEOREM OperandsTyped == ASSUME OperandsAssumption PROVE Spec => []TypeOK
<1>1. Init => IInv BY InitSound
<1>2. IInv /\ [Next]_vars => IInv' BY StepSound
<1>3. IInv => TypeOK BY DEF IInv
<1> QED BY <1>1, <1>2, <1>3, PTL DEF Spec
-----------------------------------------------------------------------------
(* The refinement.  What a client sees of a user with the record r.        *)
View(r, m) == IF r = None THEN <<None>> ELSE [i \in 1 .. r.ops |-> m[<<r.list, i - 1>>]]

(* The operands of a user whose references were not dropped are values:    *)
(* only so is it seen whether it exists.                                   *)
IsFilled(r, m) == r # None /\ ~r.dropped => \A i \in 1 .. r.ops : View(r, m)[i] # None
FInv == IInv /\ \A u \in Users : IsFilled(user[u], val)

LEMMA ShownIs == Shown = [u \in Users |-> View(user[u], val)]
BY DEF Shown, View, Live, Contents, Count, List

(* Where an operand is kept. *)
LEMMA PlaceKept ==
  ASSUME OperandsAssumption, IInv, NEW u \in Users, Live(u), NEW i \in 1 .. Count(u)
  PROVE  /\ List(u) \in Mine(u) /\ List(u) \in Arrays /\ <<List(u), i - 1>> \in Places
         /\ i - 1 < Count(u)
<1>1. Count(u) \in Nat /\ List(u) # None BY OfLive
<1>2. List(u) \in Mine(u) /\ List(u) \in Arrays /\ Count(u) <= len[List(u)] /\ len[List(u)] \in 1 .. MaxOps
  BY <1>1, OfLive
<1>3. MaxOps \in Nat BY DEF OperandsAssumption
<1> QED BY <1>1, <1>2, <1>3 DEF Places

(* An action of one user is seen as one.                                   *)
LEMMA OneShown ==
  ASSUME OperandsAssumption, FInv, NEW u \in Users, NEW r, IInv',
         user' = [user EXCEPT ![u] = r], \A x \in Places : x[1] \notin Mine(u) => val'[x] = val[x],
         IsFilled(r, val')
  PROVE  Shown' = [Shown EXCEPT ![u] = View(r, val')] /\ FInv'
<1>1. user'[u] = r BY DEF FInv, IInv, TypeOK
<1>2. ASSUME NEW w \in Users, w # u PROVE user'[w] = user[w] /\ View(user[w], val') = View(user[w], val)
  <2>1. user'[w] = user[w] BY <1>2 DEF FInv, IInv, TypeOK
  <2>2. ASSUME user[w] # None PROVE View(user[w], val') = View(user[w], val)
    <3>1. ASSUME NEW i \in 1 .. user[w].ops PROVE val'[<<user[w].list, i - 1>>] = val[<<user[w].list, i - 1>>]
      <4>1. user[w].list \in Mine(w) /\ <<user[w].list, i - 1>> \in Places
        BY <2>2, PlaceKept DEF FInv, Live, List, Count
      <4>2. user[w].list \notin Mine(u) BY <1>2, <4>1 DEF Mine
      <4>3. PICK x \in Places : x = <<user[w].list, i - 1>> BY <4>1
      <4>4. x[1] = user[w].list BY <4>3
      <4> QED BY <4>2, <4>3, <4>4
    <3> QED BY <2>2, <3>1 DEF View
  <2> QED BY <2>1, <2>2 DEF View
<1>3. Shown' = [w \in Users |-> View(user'[w], val')]
  BY DEF Shown, View, Live, Contents, Count, List
<1>4. Shown' = [Shown EXCEPT ![u] = View(r, val')] BY <1>1, <1>2, <1>3, ShownIs
<1>5. ASSUME NEW w \in Users PROVE IsFilled(user'[w], val')
  <2>1. CASE w = u BY <1>1, <2>1
  <2>2. CASE w # u BY <1>2, <2>2 DEF IsFilled, FInv
  <2> QED BY <2>1, <2>2
<1> QED BY <1>4, <1>5 DEF FInv

(* The first step of a user: it is made of at most three values, or of     *)
(* what another one holds.                                                 *)
LEMMA CreateStep ==
  ASSUME OperandsAssumption, FInv, NEW u \in Users, user[u] = None, NEW s,
         Shown' = [Shown EXCEPT ![u] = s],
         \/ \E n \in 0 .. 3 : s \in [1 .. n -> Held]
         \/ \E w \in Users : s = Shown[w]
  PROVE  AbstractStep
<1>1. Shown[u] = <<None>> /\ DOMAIN Shown = Users /\ Shown'[u] = s BY ShownIs DEF View
<1>2. CASE s = Shown[u]
  <2>1. Shown' = Shown BY <1>1, <1>2, ShownIs
  <2> QED BY <2>1 DEF AbstractStep
<1>3. CASE s # Shown[u]
  <2>1. Abstract!Create(Shown, Shown', u)
    BY <1>1 DEF Abstract!Create, Abstract!Gone, Abstract!Lists, Abstract!Becomes
  <2> QED BY <1>1, <1>3, <2>1 DEF AbstractStep, Abstract!Step
<1> QED BY <1>2, <1>3

LEMMA NewPhiShown ==
  ASSUME OperandsAssumption, FInv, IInv', NEW u \in Users, NewPhi(u)
  PROVE  AbstractStep /\ FInv'
<1> DEFINE r == NewUser(None, 0, 0)
<1>1. user' = [user EXCEPT ![u] = r] /\ val' = val /\ user[u] = None BY DEF NewPhi, Live
<1>2. r.ops = 0 /\ r \in UserRecords BY DEF NewUser, UserRecords
<1>3. r # None BY <1>2 DEF OperandsAssumption
<1> HIDE DEF r
<1>4. IsFilled(r, val') BY <1>2 DEF IsFilled
<1>5. \E n \in 0 .. 3 : View(r, val') \in [1 .. n -> Held]
  <2>1. View(r, val') \in [1 .. 0 -> Held] BY <1>2, <1>3 DEF View
  <2> QED BY <2>1
<1>6. Shown' = [Shown EXCEPT ![u] = View(r, val')] /\ FInv' BY <1>1, <1>4, OneShown
<1> QED BY <1>1, <1>5, <1>6, CreateStep

LEMMA BuildShown ==
  ASSUME OperandsAssumption, FInv, IInv', NEW u \in Users, NEW r \in UserRecords,
         NEW vals \in Seq(Held \cup {None}), NEW size \in Nat,
         Build(u, r, vals, size), r.list = <<u, 0>>, r.ops = Len(vals),
         \A i \in 1 .. Len(vals) : vals[i] # None
  PROVE  Shown' = [Shown EXCEPT ![u] = vals] /\ FInv' /\ user[u] = None
<1> DEFINE a == <<u, 0>>
<1>1. a \in Mine(u) /\ a \in Arrays BY DEF Mine, Arrays
<1>2. r.list = a OBVIOUS
<1>3. /\ val' = Fill(val, a, vals) /\ user' = [user EXCEPT ![u] = r] /\ user[u] = None
  BY DEF Build, Live
<1> HIDE DEF a
<1>4. r # None BY DEF OperandsAssumption
<1>5. user'[u] = r BY <1>3 DEF FInv, IInv, TypeOK
<1>6. \A i \in 1 .. r.ops : <<a, i - 1>> \in Places
  <2>1. Live(u)' /\ Count(u)' = r.ops /\ List(u)' = a BY <1>2, <1>4, <1>5 DEF Live, Count, List
  <2>2. r.ops \in Nat /\ a # None BY <1>1 DEF UserRecords, OperandsAssumption
  <2>3. Sound(u, r, len') BY <1>4, <1>5 DEF IInv, IsSound
  <2>4. r.ops <= len'[a] /\ len'[a] \in -1 .. MaxOps BY <1>1, <1>2, <2>2, <2>3 DEF Sound, IInv, TypeOK
  <2>5. MaxOps \in Nat BY DEF OperandsAssumption
  <2> QED BY <1>1, <2>2, <2>4, <2>5 DEF Places
<1>7. ASSUME NEW i \in 1 .. r.ops PROVE val'[<<a, i - 1>>] = vals[i]
  <2>1. PICK x \in Places : x = <<a, i - 1>> BY <1>6
  <2>2. x[1] = a /\ x[2] = i - 1 BY <2>1
  <2>3. x[2] < Len(vals) /\ x[2] + 1 = i BY <2>2
  <2>4. val'[x] = vals[x[2] + 1] BY <1>3, <2>2, <2>3 DEF Fill
  <2> QED BY <2>1, <2>3, <2>4
<1>8. View(r, val') = vals
  <2>1. View(r, val') = [i \in 1 .. Len(vals) |-> vals[i]] BY <1>2, <1>4, <1>7 DEF View
  <2> QED BY <2>1
<1>9. IsFilled(r, val') BY <1>8 DEF IsFilled
<1>10. \A x \in Places : x[1] \notin Mine(u) => val'[x] = val[x] BY <1>1, <1>3 DEF Fill
<1>11. Shown' = [Shown EXCEPT ![u] = View(r, val')] /\ FInv' BY <1>3, <1>9, <1>10, OneShown
<1> QED BY <1>3, <1>8, <1>11

LEMMA NewSwitchShown ==
  ASSUME OperandsAssumption, FInv, IInv', NEW u \in Users, NEW v \in Others, NEW b \in Others,
         NEW n \in 0 .. 1, NewSwitch(u, v, b, n)
  PROVE  AbstractStep /\ FInv'
<1> DEFINE size == 2 + 2 * n
           r == NewUser(<<u, 0>>, 2, size)
<1>1. Build(u, r, <<v, b>>, size) BY DEF NewSwitch
<1>2. size \in Nat OBVIOUS
<1>3. <<v, b>> \in Seq(Held \cup {None}) /\ Len(<<v, b>>) = 2 /\ <<v, b>> \in [1 .. 2 -> Held]
  BY DEF Held
<1>4. r \in UserRecords /\ r.list = <<u, 0>> /\ r.ops = 2 BY <1>2 DEF NewUser, UserRecords, Arrays
<1>5. \A i \in 1 .. 2 : <<v, b>>[i] # None BY DEF OperandsAssumption
<1> HIDE DEF r, size
<1>6. Shown' = [Shown EXCEPT ![u] = <<v, b>>] /\ FInv' /\ user[u] = None
  BY <1>1, <1>2, <1>3, <1>4, <1>5, BuildShown
<1>7. \E k \in 0 .. 3 : <<v, b>> \in [1 .. k -> Held] BY <1>3
<1> QED BY <1>6, <1>7, CreateStep

LEMMA NewBranchShown ==
  ASSUME OperandsAssumption, FInv, IInv', NEW u \in Users, NEW n \in {1, 3},
         NEW vals \in [1 .. n -> Others], NewBranch(u, vals)
  PROVE  AbstractStep /\ FInv'
<1> DEFINE r == NewUser(<<u, 0>>, Len(vals), 0)
<1>1. vals \in Seq(Held \cup {None}) /\ Len(vals) = n /\ vals \in [1 .. n -> Held] BY DEF Held
<1>2. Build(u, r, vals, Len(vals)) BY DEF NewBranch
<1>3. r \in UserRecords /\ r.list = <<u, 0>> /\ r.ops = Len(vals)
  BY <1>1 DEF NewUser, UserRecords, Arrays
<1>4. \A i \in 1 .. Len(vals) : vals[i] # None BY <1>1 DEF OperandsAssumption
<1> HIDE DEF r
<1>5. Shown' = [Shown EXCEPT ![u] = vals] /\ FInv' /\ user[u] = None
  BY <1>1, <1>2, <1>3, <1>4, BuildShown
<1>6. \E k \in 0 .. 3 : vals \in [1 .. k -> Held] BY <1>1
<1> QED BY <1>5, <1>6, CreateStep

LEMMA CloneShown ==
  ASSUME OperandsAssumption, FInv, IInv', NEW u \in Users, NEW w \in Users, Clone(u, w)
  PROVE  AbstractStep /\ FInv'
<1>1. PICK room \in RoomOfCopy(w) :
        Build(u, [NewUser(<<u, 0>>, Count(w), room) EXCEPT !.cloned = TRUE], Contents(w), Count(w))
  BY DEF Clone
<1> DEFINE r == [NewUser(<<u, 0>>, Count(w), room) EXCEPT !.cloned = TRUE]
<1>2. Live(w) /\ ~user[w].dropped BY DEF Clone, Ready
<1>3. IInv BY DEF FInv
<1>4. Count(w) \in Nat BY <1>2, <1>3, OfLive
<1>5. \A i \in 1 .. Count(w) : val[<<List(w), i - 1>>] \in Held \cup {None}
  BY <1>2, <1>3, PlaceKept DEF IInv, TypeOK
<1>6. Contents(w) \in [1 .. Count(w) -> Held \cup {None}] BY <1>5 DEF Contents
<1>7. Contents(w) \in Seq(Held \cup {None}) /\ Len(Contents(w)) = Count(w) BY <1>4, <1>6
<1>8. room \in Nat
  <2>1. MaxOps \in Nat BY DEF OperandsAssumption
  <2> QED BY <1>4, <2>1 DEF RoomOfCopy
<1>9. <<u, 0>> \in Arrays BY DEF Arrays
<1>10. r \in UserRecords BY <1>4, <1>8, <1>9 DEF NewUser, UserRecords
<1>11. r.list = <<u, 0>> /\ r.ops = Count(w) BY DEF NewUser
<1>12. Contents(w) = Shown[w] BY <1>2 DEF Shown
<1>13. \A i \in 1 .. Count(w) : Contents(w)[i] # None
  BY <1>2 DEF FInv, IsFilled, View, Contents, Live, Count, List
<1>14. Build(u, r, Contents(w), Count(w)) BY <1>1
<1> HIDE DEF r
<1>15. Shown' = [Shown EXCEPT ![u] = Contents(w)] /\ FInv' /\ user[u] = None
  BY <1>4, <1>7, <1>10, <1>11, <1>13, <1>14, BuildShown
<1> QED BY <1>12, <1>15, CreateStep

(* A user whose references were not dropped is seen as its values. *)
LEMMA ReadyShown ==
  ASSUME OperandsAssumption, FInv, NEW u \in Users, Ready(u)
  PROVE  /\ Live(u) /\ Count(u) \in Nat /\ Shown[u] = View(user[u], val)
         /\ Shown[u] \in [1 .. Count(u) -> Held] /\ Shown[u] \in Seq(Held) /\ Len(Shown[u]) = Count(u)
         /\ Shown[u] # <<None>>
         /\ \A i \in 1 .. Count(u) : Shown[u][i] = val[<<List(u), i - 1>>]
<1>1. Live(u) /\ ~user[u].dropped /\ IInv BY DEF Ready, FInv
<1>2. Count(u) \in Nat BY <1>1, OfLive
<1>3. Shown[u] = View(user[u], val) BY ShownIs
<1>4. \A i \in 1 .. Count(u) : View(user[u], val)[i] # None
  BY <1>1 DEF FInv, IsFilled, Live, Count
<1>5. View(user[u], val) = [i \in 1 .. Count(u) |-> val[<<List(u), i - 1>>]]
  BY <1>1 DEF View, Live, Count, List
<1>6. \A i \in 1 .. Count(u) : val[<<List(u), i - 1>>] \in Held \cup {None}
  BY <1>1, PlaceKept DEF IInv, TypeOK
<1>7. \A i \in 1 .. Count(u) : val[<<List(u), i - 1>>] \in Held BY <1>4, <1>5, <1>6
<1>8. Shown[u] \in [1 .. Count(u) -> Held] BY <1>3, <1>5, <1>7
<1>9. Shown[u] \in Seq(Held) /\ Len(Shown[u]) = Count(u) BY <1>2, <1>8
<1>10. Shown[u] # <<None>>
  <2> SUFFICES ASSUME Shown[u] = <<None>> PROVE FALSE OBVIOUS
  <2>1. Len(<<None>>) = 1 /\ <<None>>[1] = None OBVIOUS
  <2>2. Count(u) = 1 BY <1>9, <2>1
  <2>3. Shown[u][1] # None BY <1>3, <1>4, <2>2
  <2> QED BY <2>1, <2>3
<1>11. \A i \in 1 .. Count(u) : Shown[u][i] = val[<<List(u), i - 1>>] BY <1>3, <1>5
<1> QED BY <1>1, <1>2, <1>3, <1>8, <1>9, <1>10, <1>11

LEMMA ReserveShown ==
  ASSUME OperandsAssumption, FInv, IInv', NEW u \in Users, NEW n \in Nat, ReserveOperandSpace(u, n)
  PROVE  AbstractStep /\ FInv'
<1> DEFINE r == ResizeOperands(u, 2 * n)
<1>1. /\ u \in Phis /\ Ready(u) /\ Fits(r) /\ val' = r.val /\ user' = [user EXCEPT ![u] = r.user]
  BY DEF ReserveOperandSpace
<1>2. 2 * n \in Nat /\ IInv /\ Live(u) BY <1>1 DEF FInv, Ready
<1>3. Resized(u, r) BY <1>1, <1>2, ResizeResized
<1> HIDE DEF r
<1>4. r.user # None /\ r.user.ops = Count(u) BY <1>3 DEF Resized, OperandsAssumption
<1>5. ASSUME NEW i \in 1 .. Count(u) PROVE r.val[<<r.user.list, i - 1>>] = Shown[u][i]
  <2>1. i - 1 \in 0 .. Count(u) - 1 BY <1>1, ReadyShown
  <2>2. r.val[<<r.user.list, i - 1>>] = val[<<List(u), i - 1>>] BY <1>3, <2>1 DEF Resized
  <2> QED BY <1>1, <2>2, ReadyShown
<1>6. View(r.user, val') = Shown[u]
  <2>1. View(r.user, val') = [i \in 1 .. Count(u) |-> Shown[u][i]] BY <1>1, <1>4, <1>5 DEF View
  <2> QED BY <1>1, <2>1, ReadyShown
<1>7. IsFilled(r.user, val')
  <2>1. \A i \in 1 .. Count(u) : Shown[u][i] # None BY <1>1, ReadyShown DEF OperandsAssumption, Held, Users
  <2> QED BY <1>4, <1>6, <2>1 DEF IsFilled
<1>8. \A x \in Places : x[1] \notin Mine(u) => val'[x] = val[x] BY <1>1, <1>3 DEF Resized
<1>9. Shown' = [Shown EXCEPT ![u] = View(r.user, val')] /\ FInv' BY <1>1, <1>7, <1>8, OneShown
<1>10. Shown' = Shown BY <1>6, <1>9, ShownIs
<1> QED BY <1>9, <1>10 DEF AbstractStep

(* What is neither made nor destroyed: how the abstract step is chosen.    *)
LEMMA EditStep ==
  ASSUME NEW u \in Users, NEW s, Shown' = [Shown EXCEPT ![u] = s],
         Shown[u] # <<None>>, s # <<None>>, Len(s) > 0,
         s # Shown[u] => \/ Abstract!AppendPair(Shown, Shown', u)
                        \/ Abstract!RemovePair(Shown, Shown', u)
                        \/ Abstract!SetOperand(Shown, Shown', u)
                        \/ Abstract!Shorten(Shown, Shown', u)
                        \/ Abstract!Forget(Shown, Shown', u)
                        \/ Abstract!ReplaceIn(Shown, Shown', u)
  PROVE  AbstractStep
<1>1. Shown'[u] = s BY ShownIs
<1>2. CASE s = Shown[u] BY <1>2, ShownIs DEF AbstractStep
<1>3. CASE s # Shown[u] BY <1>1, <1>3 DEF AbstractStep, Abstract!Step, Abstract!Gone
<1> QED BY <1>2, <1>3

LEMMA AddPairShown ==
  ASSUME OperandsAssumption, FInv, IInv', NEW u \in Users, NEW v \in Held, NEW b \in Others,
         AddPair(u, v, b)
  PROVE  AbstractStep /\ FInv'
<1>0. PICK r, a, n : PairAdded(u, v, b, r, a, n) BY AddPairPlain DEF FInv
<1>1. /\ Resized(u, r) /\ u \notin Branches /\ n \in Nat /\ n = Count(u)
      /\ a \in Mine(u) /\ a = r.user.list /\ <<a, n>> \in Places /\ <<a, n + 1>> \in Places
      /\ user' = [user EXCEPT ![u] = [r.user EXCEPT !.ops = n + 2]]
      /\ val' = [r.val EXCEPT ![<<a, n>>] = v, ![<<a, n + 1>>] = b]
  BY <1>0 DEF PairAdded
<1> DEFINE q == [r.user EXCEPT !.ops = n + 2]
           s == Shown[u] \o <<v, b>>
<1>2. Ready(u) BY DEF AddPair
<1>3. /\ Live(u) /\ Shown[u] \in Seq(Held) /\ Len(Shown[u]) = n /\ Shown[u] # <<None>>
      /\ Shown[u] \in [1 .. n -> Held] /\ \A i \in 1 .. n : Shown[u][i] = val[<<List(u), i - 1>>]
  BY <1>1, <1>2, ReadyShown
<1>4. q \in UserRecords /\ q.ops = n + 2 /\ q.list = a
  <2>1. n + 2 \in Nat BY <1>1
  <2> QED BY <1>1, <2>1, WithOps DEF Resized
<1> HIDE DEF q
<1>5. q # None BY <1>4 DEF OperandsAssumption
<1>6. v \in Held /\ b \in Held /\ None \notin Held BY DEF Held, Users, OperandsAssumption
<1>7. s \in Seq(Held) /\ Len(s) = n + 2 /\ s[n + 1] = v /\ s[n + 2] = b
      /\ \A i \in 1 .. n : s[i] = Shown[u][i]
  BY <1>1, <1>3, <1>6
<1>8. \A x \in Places : val'[x] = IF x[1] = a /\ x[2] = n + 1 THEN b
                                 ELSE IF x[1] = a /\ x[2] = n THEN v ELSE r.val[x]
  <2>1. PICK y \in Places : y = <<a, n>> BY <1>1
  <2>2. PICK z \in Places : z = <<a, n + 1>> BY <1>1
  <2>3. val' = [r.val EXCEPT ![y] = v, ![z] = b] BY <1>1, <2>1, <2>2
  <2>4. \A x \in Places : val'[x] = IF x = z THEN b ELSE IF x = y THEN v ELSE r.val[x]
    BY <1>1, <2>3 DEF Resized
  <2> QED BY <2>1, <2>2, <2>4, SamePlace
<1>9. user'[u] = q BY <1>1 DEF q, FInv, IInv, TypeOK
<1>10. ASSUME NEW i \in 1 .. n + 2 PROVE val'[<<a, i - 1>>] = s[i]
  <2>1. <<a, i - 1>> \in Places
    <3>1. PICK y \in Places : y = <<a, n + 1>> BY <1>1
    <3>2. y[1] = a /\ y[2] = n + 1 BY <3>1
    <3>3. a \in Arrays /\ n + 1 \in 0 .. MaxOps - 1 BY <3>2, PlaceOf
    <3>4. i - 1 \in 0 .. MaxOps - 1
      <4>1. MaxOps \in Nat BY DEF OperandsAssumption
      <4> QED BY <1>1, <3>3, <4>1
    <3> QED BY <3>3, <3>4 DEF Places
  <2>2. PICK x \in Places : x = <<a, i - 1>> BY <2>1
  <2>3. x[1] = a /\ x[2] = i - 1 BY <2>2
  <2>4. CASE i = n + 2
    <3>1. x[2] = n + 1 BY <1>1, <2>3, <2>4
    <3>2. val'[x] = b BY <1>8, <2>3, <3>1
    <3> QED BY <1>7, <2>2, <2>4, <3>2
  <2>5. CASE i = n + 1
    <3>1. x[2] = n /\ n # n + 1 BY <1>1, <2>3, <2>5
    <3>2. val'[x] = v BY <1>8, <2>3, <3>1
    <3> QED BY <1>7, <2>2, <2>5, <3>2
  <2>6. CASE i \in 1 .. n
    <3>1. i - 1 \in 0 .. Count(u) - 1 BY <1>1, <2>6
    <3>2. val'[x] = r.val[x] BY <1>1, <1>8, <2>3, <2>6
    <3>3. r.val[<<r.user.list, i - 1>>] = val[<<List(u), i - 1>>] BY <1>1, <3>1 DEF Resized
    <3> QED BY <1>1, <1>3, <1>7, <2>2, <2>6, <3>2, <3>3
  <2>7. i = n + 2 \/ i = n + 1 \/ i \in 1 .. n BY <1>1
  <2> QED BY <2>4, <2>5, <2>6, <2>7
<1> HIDE DEF s
<1>11. View(q, val') = s
  <2>1. View(q, val') = [i \in 1 .. n + 2 |-> s[i]] BY <1>4, <1>5, <1>10 DEF View
  <2>2. s \in [1 .. n + 2 -> Held] BY <1>1, <1>7
  <2> QED BY <2>1, <2>2
<1>12. IsFilled(q, val')
  <2>1. \A i \in 1 .. n + 2 : s[i] \in Held BY <1>1, <1>7
  <2> QED BY <1>4, <1>6, <1>11, <2>1 DEF IsFilled
<1>13. \A x \in Places : x[1] \notin Mine(u) => val'[x] = val[x] BY <1>1, <1>8 DEF Resized
<1>14. user' = [user EXCEPT ![u] = q] BY <1>1 DEF q
<1>15. Shown' = [Shown EXCEPT ![u] = s] /\ FInv' BY <1>11, <1>12, <1>13, <1>14, OneShown
<1>16. Shown'[u] = s /\ Shown[u] \o <<v, b>> = s BY <1>15, ShownIs DEF s
<1>17. Abstract!AppendPair(Shown, Shown', u)
  BY <1>1, <1>3, <1>6, <1>7, <1>15, <1>16 DEF Abstract!AppendPair, Abstract!Becomes, Abstract!Gone
<1>18. s # <<None>> /\ Len(s) > 0
  <2>1. Len(<<None>>) = 1 OBVIOUS
  <2> QED BY <1>1, <1>7, <2>1
<1> QED BY <1>3, <1>15, <1>17, <1>18, EditStep

(* Two sequences in a row. *)
LEMMA ConcatIs ==
  ASSUME NEW S, NEW p \in Seq(S), NEW q \in Seq(S)
  PROVE  /\ p \o q \in Seq(S) /\ Len(p \o q) = Len(p) + Len(q)
         /\ \A j \in 1 .. Len(p) + Len(q) :
              (p \o q)[j] = IF j <= Len(p) THEN p[j] ELSE q[j - Len(p)]
OBVIOUS

(* A sequence without its i-th element, and without the pair at i.         *)
LEMMA RemoveAtIs ==
  ASSUME NEW S, NEW s \in Seq(S), NEW i \in 1 .. Len(s)
  PROVE  /\ Abstract!RemoveAt(s, i) \in Seq(S) /\ Len(Abstract!RemoveAt(s, i)) = Len(s) - 1
         /\ \A j \in 1 .. Len(s) - 1 :
              Abstract!RemoveAt(s, i)[j] = IF j < i THEN s[j] ELSE s[j + 1]
<1> DEFINE n == Len(s)
           t == SubSeq(s, 1, i - 1) \o SubSeq(s, i + 1, n)
<1>1. n \in Nat /\ i \in 1 .. n OBVIOUS
<1>2. SubSeq(s, 1, i - 1) \in Seq(S) /\ Len(SubSeq(s, 1, i - 1)) = i - 1
      /\ SubSeq(s, i + 1, n) \in Seq(S) /\ Len(SubSeq(s, i + 1, n)) = n - i
  OBVIOUS
<1>3. \A j \in 1 .. i - 1 : SubSeq(s, 1, i - 1)[j] = s[j] OBVIOUS
<1>4. \A j \in 1 .. n - i : SubSeq(s, i + 1, n)[j] = s[j + i] OBVIOUS
<1> DEFINE p == SubSeq(s, 1, i - 1)
           q == SubSeq(s, i + 1, n)
<1>0. /\ t \in Seq(S) /\ Len(t) = Len(p) + Len(q)
      /\ \A j \in 1 .. Len(p) + Len(q) : t[j] = IF j <= Len(p) THEN p[j] ELSE q[j - Len(p)]
  BY <1>2, ConcatIs
<1> HIDE DEF t, p, q
<1>5. t \in Seq(S) /\ Len(t) = n - 1
  <2>1. Len(p) = i - 1 /\ Len(q) = n - i BY <1>2 DEF p, q
  <2> QED BY <1>0, <1>1, <2>1
<1>6. \A j \in 1 .. n - 1 : t[j] = IF j < i THEN s[j] ELSE s[j + 1]
  <2> SUFFICES ASSUME NEW j \in 1 .. n - 1 PROVE t[j] = IF j < i THEN s[j] ELSE s[j + 1]
    OBVIOUS
  <2>1. Len(p) = i - 1 /\ Len(q) = n - i BY <1>2 DEF p, q
  <2>2. CASE j < i
    <3>1. j \in 1 .. i - 1 /\ j \in 1 .. Len(p) + Len(q) /\ j <= Len(p) BY <1>1, <2>1, <2>2
    <3>2. p[j] = s[j] BY <1>3, <3>1 DEF p
    <3> QED BY <1>0, <2>2, <3>1, <3>2
  <2>3. CASE ~(j < i)
    <3>1. j - (i - 1) \in 1 .. n - i /\ j \in 1 .. Len(p) + Len(q) /\ ~(j <= Len(p))
      BY <1>1, <2>1, <2>3
    <3>2. q[j - (i - 1)] = s[j - (i - 1) + i] BY <1>4, <3>1 DEF q
    <3>3. j - (i - 1) + i = j + 1 BY <1>1
    <3> QED BY <1>0, <2>1, <2>3, <3>1, <3>2, <3>3
  <2> QED BY <2>2, <2>3
<1>7. Abstract!RemoveAt(s, i) = t BY DEF Abstract!RemoveAt, t
<1> QED BY <1>5, <1>6, <1>7

LEMMA WithoutIs ==
  ASSUME NEW S, NEW s \in Seq(S), NEW i \in 1 .. Len(s) - 1
  PROVE  Abstract!Without(s, i) = [j \in 1 .. Len(s) - 2 |-> IF j < i THEN s[j] ELSE s[j + 2]]
<1> DEFINE n == Len(s)
           t == Abstract!RemoveAt(s, i)
           r == Abstract!RemoveAt(t, i)
<1>1. n \in Nat /\ i \in 1 .. n - 1 /\ i \in 1 .. n OBVIOUS
<1>2. t \in Seq(S) /\ Len(t) = n - 1 /\ \A j \in 1 .. n - 1 : t[j] = IF j < i THEN s[j] ELSE s[j + 1]
  BY <1>1, RemoveAtIs
<1> HIDE DEF t
<1>3. i \in 1 .. Len(t) /\ Len(t) - 1 = n - 2 BY <1>1, <1>2
<1>4. r \in Seq(S) /\ Len(r) = n - 2 /\ \A j \in 1 .. n - 2 : r[j] = IF j < i THEN t[j] ELSE t[j + 1]
  BY <1>2, <1>3, RemoveAtIs
<1> HIDE DEF r
<1>5. \A j \in 1 .. n - 2 : r[j] = IF j < i THEN s[j] ELSE s[j + 2]
  BY <1>1, <1>2, <1>4
<1>6. r = [j \in 1 .. n - 2 |-> IF j < i THEN s[j] ELSE s[j + 2]]
  <2>1. r = [j \in 1 .. n - 2 |-> r[j]] BY <1>4
  <2> QED BY <1>5, <2>1
<1>7. Abstract!Without(s, i) = r BY DEF Abstract!Without, r, t
<1> QED BY <1>6, <1>7

LEMMA RemovePairShown ==
  ASSUME OperandsAssumption, FInv, IInv', NEW u \in Users, Live(u), NEW i \in 0 .. Count(u) - 1,
         i % 2 = 0, RemovePair(u, i)
  PROVE  AbstractStep /\ FInv'
<1> DEFINE a == List(u)
           n == Count(u)
           q == [user[u] EXCEPT !.ops = n - 2]
           s == Shown[u]
<1>1. Ready(u) /\ u \notin Branches /\ val' = MoveDown(val, a, i, n) /\ user' = [user EXCEPT ![u] = q]
  BY DEF RemovePair, Count, List
<1>2. /\ n \in Nat /\ s \in Seq(Held) /\ Len(s) = n /\ s # <<None>>
      /\ s \in [1 .. n -> Held] /\ \A j \in 1 .. n : s[j] = val[<<a, j - 1>>]
  BY <1>1, ReadyShown
<1>3. user[u] \in UserRecords /\ Sound(u, user[u], len) /\ IInv BY OfLive DEF FInv
<1>4. n % 2 = 0
  <2>1. user[u].list # None BY <1>3, <1>2, OfLive DEF List
  <2> QED BY <1>1, <1>3, <2>1 DEF Sound, Count, Users
<1>5. n - 2 \in Nat /\ i <= n - 2 /\ i \in Nat BY <1>2, <1>4
<1>6. q \in UserRecords /\ q.ops = n - 2 /\ q.list = a BY <1>3, <1>5, WithOps DEF List
<1>7. q # None BY <1>6 DEF OperandsAssumption
<1> HIDE DEF q
<1>8. ASSUME NEW j \in 1 .. n - 2
      PROVE  val'[<<a, j - 1>>] = IF j < i + 1 THEN s[j] ELSE s[j + 2]
  <2>1. j \in 1 .. n /\ j + 2 \in 1 .. n /\ j - 1 + 2 = j + 2 - 1 BY <1>2
  <2>2. <<a, j - 1>> \in Places BY <1>3, <2>1, PlaceKept
  <2>3. PICK x \in Places : x = <<a, j - 1>> BY <2>2
  <2>4. x[1] = a /\ x[2] = j - 1 BY <2>3
  <2>5. val'[x] = IF j - 1 < i THEN val[x] ELSE val[<<a, j - 1 + 2>>]
    <3>1. val'[x] = IF x[1] # a \/ x[2] < i THEN val[x]
                    ELSE IF x[2] < n - 2 THEN val[<<a, x[2] + 2>>] ELSE None
      BY <1>1 DEF MoveDown
    <3>2. j - 1 < n - 2 BY <1>2
    <3> QED BY <2>4, <3>1, <3>2
  <2>6. val[x] = s[j] /\ val[<<a, j - 1 + 2>>] = s[j + 2] BY <1>2, <2>1, <2>3
  <2> QED BY <1>5, <2>3, <2>5, <2>6
<1>9. View(q, val') = Abstract!Without(s, i + 1)
  <2>1. i + 1 \in 1 .. Len(s) - 1 BY <1>2, <1>5
  <2>2. Abstract!Without(s, i + 1) = [j \in 1 .. n - 2 |-> IF j < i + 1 THEN s[j] ELSE s[j + 2]]
    BY <1>2, <2>1, WithoutIs
  <2> QED BY <1>6, <1>7, <1>8, <2>2 DEF View
<1>10. \A j \in 1 .. n - 2 : View(q, val')[j] \in Held
  <2>1. \A j \in 1 .. n - 2 : j \in 1 .. n /\ j + 2 \in 1 .. n BY <1>2
  <2> QED BY <1>2, <1>6, <1>7, <1>8, <2>1 DEF View
<1>11. View(q, val') \in Seq(Held) /\ Len(View(q, val')) = n - 2
  <2>1. View(q, val') \in [1 .. n - 2 -> Held] BY <1>6, <1>7, <1>10 DEF View
  <2> QED BY <1>5, <2>1
<1>12. IsFilled(q, val') BY <1>6, <1>10 DEF IsFilled, OperandsAssumption, Held, Users
<1>13. \A x \in Places : x[1] \notin Mine(u) => val'[x] = val[x]
  <2>1. a \in Mine(u) BY <1>3, <1>2, OfLive
  <2> QED BY <1>1, <2>1 DEF MoveDown
<1> DEFINE v == View(q, val')
<1>14. Shown' = [Shown EXCEPT ![u] = v] /\ FInv' BY <1>1, <1>12, <1>13, OneShown
<1>15. Shown'[u] = v BY <1>14, ShownIs
<1>16. v = Abstract!Without(Shown[u], i + 1) /\ Len(v) = n - 2 BY <1>9, <1>11
<1> HIDE DEF v
<1>17. i + 1 \in 1 .. Len(Shown[u]) - 1 BY <1>2, <1>5
<1>18. Abstract!RemovePair(Shown, Shown', u)
  BY <1>14, <1>16, <1>17 DEF Abstract!RemovePair, Abstract!Becomes
<1>19. v # <<None>>
  <2>1. Len(<<None>>) = 1 OBVIOUS
  <2>2. n - 2 # 1 BY <1>2, <1>4
  <2> QED BY <1>16, <2>1, <2>2
<1>20. CASE Len(v) > 0 BY <1>2, <1>14, <1>18, <1>19, <1>20, EditStep
<1>21. CASE Len(v) = 0
  <2>1. v = << >> /\ v # Shown[u]
    <3>1. v = << >> BY <1>11, <1>21 DEF v
    <3> QED BY <1>2, <1>5, <1>21, <3>1
  <2> QED BY <1>14, <1>15, <1>18, <2>1 DEF AbstractStep, Abstract!Step
<1> QED BY <1>5, <1>14, <1>16, <1>20, <1>21

(* What a user that stays as it is comes to be seen as. *)
LEMMA HoldsShown ==
  ASSUME OperandsAssumption, FInv, IInv', NEW u \in Users, Ready(u), user' = user,
         NEW s, s \in [1 .. Count(u) -> Held],
         \A x \in Places : x[1] \notin Mine(u) => val'[x] = val[x],
         \A i \in 1 .. Count(u) : val'[<<List(u), i - 1>>] = s[i]
  PROVE  Shown' = [Shown EXCEPT ![u] = s] /\ FInv' /\ s # <<None>>
<1>1. user' = [user EXCEPT ![u] = user[u]] BY DEF FInv, IInv, TypeOK
<1>2. Live(u) /\ Count(u) \in Nat BY ReadyShown
<1>3. View(user[u], val') = s BY <1>2 DEF View, Live, Count, List
<1>4. None \notin Held BY DEF Held, Users, OperandsAssumption
<1>5. IsFilled(user[u], val') BY <1>3, <1>4 DEF IsFilled, Count
<1>6. Shown' = [Shown EXCEPT ![u] = View(user[u], val')] /\ FInv' BY <1>1, <1>5, OneShown
<1>7. s # <<None>>
  <2> SUFFICES ASSUME s = <<None>> PROVE FALSE OBVIOUS
  <2>1. DOMAIN s = 1 .. Count(u) /\ DOMAIN <<None>> = 1 .. 1 /\ <<None>>[1] = None OBVIOUS
  <2>2. 1 \in 1 .. Count(u) BY <2>1
  <2> QED BY <1>4, <2>1, <2>2
<1> QED BY <1>3, <1>6, <1>7

LEMMA SetOperandShown ==
  ASSUME OperandsAssumption, FInv, IInv', NEW u \in Users, Live(u), NEW i \in 0 .. Count(u) - 1,
         NEW v \in Held, SetOperand(u, i, v)
  PROVE  AbstractStep /\ FInv'
<1> DEFINE a == List(u)
           n == Count(u)
           s == [Shown[u] EXCEPT ![i + 1] = v]
<1>1. Ready(u) /\ val' = [val EXCEPT ![<<a, i>>] = v] /\ user' = user BY DEF SetOperand
<1>2. /\ n \in Nat /\ Shown[u] \in [1 .. n -> Held] /\ Shown[u] # <<None>>
      /\ \A j \in 1 .. n : Shown[u][j] = val[<<a, j - 1>>]
  BY <1>1, ReadyShown
<1>3. i + 1 \in 1 .. n /\ i + 1 - 1 = i BY <1>2
<1>4. <<a, i>> \in Places /\ a \in Mine(u) BY <1>3, PlaceKept DEF FInv
<1>5. PICK y \in Places : y = <<a, i>> BY <1>4
<1>6. y[1] = a /\ y[2] = i BY <1>5
<1>7. \A x \in Places : val'[x] = IF x = y THEN v ELSE val[x] BY <1>1, <1>5 DEF FInv, IInv, TypeOK
<1>8. s \in [1 .. n -> Held] BY <1>2
<1>9. ASSUME NEW j \in 1 .. n PROVE val'[<<a, j - 1>>] = s[j]
  <2>1. PICK x \in Places : x = <<a, j - 1>> BY PlaceKept DEF FInv
  <2>2. x[1] = a /\ x[2] = j - 1 BY <2>1
  <2>3. CASE j = i + 1
    <3>1. x = y BY <1>3, <1>5, <2>1, <2>3
    <3> QED BY <1>2, <1>7, <2>1, <2>3, <3>1
  <2>4. CASE j # i + 1
    <3>1. x # y BY <1>2, <1>6, <2>2, <2>4
    <3>2. s[j] = Shown[u][j] BY <1>2, <2>4
    <3> QED BY <1>2, <1>7, <2>1, <3>1, <3>2
  <2> QED BY <2>3, <2>4
<1>10. \A x \in Places : x[1] \notin Mine(u) => val'[x] = val[x] BY <1>4, <1>6, <1>7
<1> HIDE DEF s
<1>11. Shown' = [Shown EXCEPT ![u] = s] /\ FInv' /\ s # <<None>>
  BY <1>1, <1>8, <1>9, <1>10, HoldsShown
<1>12. Shown'[u] = s BY <1>11, ShownIs
<1>13. s = [Shown[u] EXCEPT ![i + 1] = v] /\ s[i + 1] = v BY <1>2, <1>3 DEF s
<1>14. Abstract!SetOperand(Shown, Shown', u)
  <2>1. DOMAIN Shown'[u] = DOMAIN Shown[u] /\ i + 1 \in DOMAIN Shown[u] BY <1>2, <1>3, <1>8, <1>12
  <2> QED BY <1>11, <1>12, <1>13, <2>1 DEF Abstract!SetOperand, Abstract!Becomes
<1>15. Len(s) > 0 BY <1>2, <1>3, <1>8
<1> QED BY <1>2, <1>11, <1>14, <1>15, EditStep

LEMMA ReplaceUsesOfWithShown ==
  ASSUME OperandsAssumption, FInv, IInv', NEW u \in Users, NEW v \in Held, NEW w \in Held,
         ReplaceUsesOfWith(u, v, w)
  PROVE  AbstractStep /\ FInv'
<1> DEFINE a == List(u)
           n == Count(u)
           s == [i \in DOMAIN Shown[u] |-> IF Shown[u][i] = v THEN w ELSE Shown[u][i]]
<1>1. /\ Ready(u) /\ user' = user
      /\ val' = [x \in Places |-> IF x[1] = a /\ x[2] < n /\ val[x] = v THEN w ELSE val[x]]
  BY DEF ReplaceUsesOfWith
<1>2. /\ n \in Nat /\ Shown[u] \in [1 .. n -> Held] /\ Shown[u] # <<None>> /\ Live(u)
      /\ \A j \in 1 .. n : Shown[u][j] = val[<<a, j - 1>>]
  BY <1>1, ReadyShown
<1>3. s \in [1 .. n -> Held] BY <1>2
<1>4. ASSUME NEW j \in 1 .. n PROVE val'[<<a, j - 1>>] = s[j]
  <2>1. PICK x \in Places : x = <<a, j - 1>> BY <1>2, PlaceKept DEF FInv
  <2>2. x[1] = a /\ x[2] = j - 1 /\ j - 1 < n BY <1>2, <2>1
  <2>3. val'[x] = IF val[x] = v THEN w ELSE val[x] BY <1>1, <2>2
  <2>4. s[j] = IF Shown[u][j] = v THEN w ELSE Shown[u][j] BY <1>2
  <2> QED BY <1>2, <2>1, <2>3, <2>4
<1>5. \A x \in Places : x[1] \notin Mine(u) => val'[x] = val[x]
  <2>1. \A x \in Places : x[1] # None BY PlaceOf DEF OperandsAssumption
  <2> QED BY <1>1, <1>2, <2>1, OfLive DEF FInv
<1> HIDE DEF s
<1>6. Shown' = [Shown EXCEPT ![u] = s] /\ FInv' /\ s # <<None>>
  BY <1>1, <1>3, <1>4, <1>5, HoldsShown
<1>7. Abstract!Replaced(Shown, v, w)[u] = s BY ShownIs DEF Abstract!Replaced, s
<1>8. Abstract!ReplaceIn(Shown, Shown', u)
  BY <1>6, <1>7 DEF Abstract!ReplaceIn, Abstract!Becomes
<1>9. CASE n = 0
  <2>1. s = Shown[u] BY <1>2, <1>3, <1>9
  <2>2. Shown' = Shown BY <1>6, <2>1, ShownIs
  <2> QED BY <1>6, <2>2 DEF AbstractStep
<1>10. CASE n # 0
  <2>1. Len(s) > 0 BY <1>2, <1>3, <1>10
  <2> QED BY <1>2, <1>6, <1>8, <2>1, EditStep
<1> QED BY <1>9, <1>10

LEMMA SetUnconditionalDestShown ==
  ASSUME OperandsAssumption, FInv, IInv', NEW u \in Users, NEW b \in Others,
         SetUnconditionalDest(u, b)
  PROVE  AbstractStep /\ FInv'
<1> DEFINE a == List(u)
           n == Count(u)
           q == [user[u] EXCEPT !.ops = 1]
<1>1. /\ u \in Branches /\ Ready(u) /\ val' = Fill(Zap(val, a, n), a, <<b>>)
      /\ user' = [user EXCEPT ![u] = q] /\ Live(u)
  BY ReadyShown DEF SetUnconditionalDest
<1>2. user[u] \in UserRecords /\ Sound(u, user[u], len) /\ u \notin Phis \cup Switches /\ IInv
  BY <1>1, OfLive DEF OperandsAssumption, FInv
<1>3. a # None /\ a \in Mine(u) /\ n >= 1 /\ n \in Nat
  <2>1. a # None /\ n \in {1, len[a]} /\ len[a] >= 1 BY <1>1, <1>2 DEF Sound, List, Count
  <2> QED BY <1>1, <1>2, <2>1, OfLive
<1>4. q \in UserRecords /\ q.ops = 1 /\ q.list = a /\ q # None
  BY <1>2, WithOps DEF List, OperandsAssumption
<1> HIDE DEF q
<1>5. val'[<<a, 0>>] = b
  <2>1. 1 \in 1 .. n BY <1>3
  <2>2. <<a, 1 - 1>> \in Places BY <1>1, <1>2, <2>1, PlaceKept
  <2>3. PICK x \in Places : x = <<a, 0>> BY <2>2
  <2>4. x[1] = a /\ x[2] = 0 /\ x[2] < Len(<<b>>) /\ x[2] + 1 = 1 BY <2>3
  <2> QED BY <1>1, <2>3, <2>4 DEF Fill
<1>6. View(q, val') = <<b>>
  <2>1. \A i \in 1 .. 1 : val'[<<a, i - 1>>] = b BY <1>5
  <2>2. View(q, val') = [i \in 1 .. 1 |-> b] BY <1>4, <2>1 DEF View
  <2> QED BY <2>2
<1>7. b # None /\ b \in Held BY DEF Held, OperandsAssumption
<1>8. IsFilled(q, val') BY <1>4, <1>6, <1>7 DEF IsFilled
<1>9. \A x \in Places : x[1] \notin Mine(u) => val'[x] = val[x] BY <1>1, <1>3 DEF Fill, Zap
<1>10. Shown' = [Shown EXCEPT ![u] = <<b>>] /\ FInv' BY <1>1, <1>6, <1>8, <1>9, OneShown
<1>11. Abstract!Shorten(Shown, Shown', u)
  BY <1>7, <1>10 DEF Abstract!Shorten, Abstract!Becomes
<1>12. <<b>> # <<None>> /\ Len(<<b>>) > 0 BY <1>7
<1>13. Shown[u] # <<None>> BY <1>1, ReadyShown
<1> QED BY <1>10, <1>11, <1>12, <1>13, EditStep

(* What is seen in a user was found in one of its places, or is nothing.   *)
LEMMA SeenIn ==
  ASSUME OperandsAssumption, IInv, NEW w \in Users, NEW i \in DOMAIN Shown[w]
  PROVE  \/ Shown[w][i] = None
         \/ /\ Shown[w][i] \in Held
            /\ \E x \in Places : x[1] \in Mine(w) /\ Shown[w][i] = val[x]
<1>1. Shown[w] = View(user[w], val) BY ShownIs
<1>2. CASE user[w] = None BY <1>1, <1>2 DEF View
<1>3. CASE user[w] # None
  <2>1. i \in 1 .. Count(w) /\ Shown[w][i] = val[<<List(w), i - 1>>] /\ Live(w)
    BY <1>1, <1>3 DEF View, Count, List, Live
  <2>2. List(w) \in Mine(w) /\ <<List(w), i - 1>> \in Places BY <2>1, PlaceKept
  <2>3. PICK x \in Places : x = <<List(w), i - 1>> BY <2>2
  <2>4. x[1] = List(w) /\ val[x] \in Held \cup {None} BY <2>3 DEF IInv, TypeOK
  <2> QED BY <2>1, <2>2, <2>3, <2>4
<1> QED BY <1>2, <1>3

LEMMA DestroyStep ==
  ASSUME NEW u \in Users, Shown' = [Shown EXCEPT ![u] = <<None>>],
         ~Abstract!Referenced(Shown, u)
  PROVE  AbstractStep
<1>1. Shown'[u] = <<None>> BY ShownIs
<1>2. CASE Shown[u] = <<None>> BY <1>2, ShownIs DEF AbstractStep
<1>3. CASE Shown[u] # <<None>>
  <2>1. Abstract!Destroy(Shown, Shown', u)
    BY DEF Abstract!Destroy, Abstract!Becomes, Abstract!Gone
  <2> QED BY <1>1, <1>3, <2>1 DEF AbstractStep, Abstract!Step
<1> QED BY <1>2, <1>3

LEMMA DropAllReferencesShown ==
  ASSUME OperandsAssumption, FInv, IInv', NEW u \in Users, DropAllReferences(u)
  PROVE  AbstractStep /\ FInv'
<1> DEFINE a == List(u)
           n == Count(u)
           q == [user[u] EXCEPT !.dropped = TRUE]
           s == [i \in DOMAIN Shown[u] |-> None]
<1>1. /\ Ready(u) /\ val' = Zap(val, a, n) /\ user' = [user EXCEPT ![u] = q]
  BY DEF DropAllReferences
<1>2. /\ n \in Nat /\ Shown[u] \in [1 .. n -> Held] /\ Shown[u] # <<None>> /\ Live(u) /\ IInv
  BY <1>1, ReadyShown DEF FInv
<1>3. user[u] \in UserRecords /\ Sound(u, user[u], len) BY <1>2, OfLive
<1>4. q \in UserRecords /\ q.list = a /\ q.ops = n /\ q.dropped BY <1>3 DEF UserRecords, Count, List
<1> HIDE DEF q
<1>5. q # None BY <1>4 DEF OperandsAssumption
<1>6. IsFilled(q, val') BY <1>4 DEF IsFilled
<1>7. \A x \in Places : x[1] \notin Mine(u) => val'[x] = val[x]
  <2>1. \A x \in Places : x[1] # None BY PlaceOf DEF OperandsAssumption
  <2> QED BY <1>1, <1>2, <2>1, OfLive DEF Zap
<1>8. ASSUME NEW i \in 1 .. n PROVE val'[<<a, i - 1>>] = None
  <2>1. PICK x \in Places : x = <<a, i - 1>> BY <1>2, PlaceKept
  <2>2. x[1] = a /\ x[2] = i - 1 /\ i - 1 < n BY <1>2, <2>1
  <2> QED BY <1>1, <2>1, <2>2 DEF Zap
<1>9. View(q, val') = [i \in 1 .. n |-> None] BY <1>4, <1>5, <1>8 DEF View
<1>10. s = [i \in 1 .. n |-> None] BY <1>2
<1>11. Shown' = [Shown EXCEPT ![u] = s] /\ FInv' BY <1>1, <1>6, <1>7, <1>9, <1>10, OneShown
<1>12. CASE n = 0
  <2>1. s = Shown[u] BY <1>2, <1>10, <1>12
  <2>2. Shown' = Shown BY <1>11, <2>1, ShownIs
  <2> QED BY <1>11, <2>2 DEF AbstractStep
<1>13. CASE n = 1
  <2>1. s = <<None>> BY <1>10, <1>13
  <2>2. u \in Branches
    <3>1. user[u].list # None BY <1>2, <1>13, OfLive DEF List
    <3>2. user[u].ops = 1 BY <1>13 DEF Count
    <3> QED BY <1>3, <3>1, <3>2 DEF Sound, Users
  <2>3. u \notin Held /\ u # None BY <2>2 DEF Held, Users, OperandsAssumption
  <2>4. ~Abstract!Referenced(Shown, u)
    BY <1>2, <2>3, SeenIn, ShownIs DEF Abstract!Referenced
  <2> HIDE DEF s
  <2> QED BY <1>11, <2>1, <2>4, DestroyStep
<1>14. CASE n > 1
  <2>1. Len(s) = n /\ n # 1 /\ Len(s) > 0 BY <1>2, <1>10, <1>14
  <2>2. s # <<None>>
    <3>1. Len(<<None>>) = 1 OBVIOUS
    <3> QED BY <2>1, <3>1
  <2>3. Abstract!Forget(Shown, Shown', u)
    BY <1>11 DEF Abstract!Forget, Abstract!Becomes
  <2> HIDE DEF s
  <2>4. Shown[u] # <<None>> BY <1>2
  <2>5. AbstractStep BY <1>11, <2>1, <2>2, <2>3, <2>4, EditStep
  <2> QED BY <1>11, <2>5
<1> QED BY <1>2, <1>12, <1>13, <1>14

LEMMA DeleteShown ==
  ASSUME OperandsAssumption, FInv, IInv', NEW u \in Users, Delete(u)
  PROVE  AbstractStep /\ FInv'
<1> DEFINE a == List(u)
           n == IF u \in Branches THEN CountForDelete(u) ELSE IF a = None THEN 0 ELSE len[a]
<1>1. /\ Live(u) /\ val' = Zap(val, a, n) /\ user' = [user EXCEPT ![u] = None]
      /\ \A x \in Places : val[x] = u => x[1] = a
  BY DEF Delete
<1> HIDE DEF n
<1>2. \A x \in Places : x[1] # None BY PlaceOf DEF OperandsAssumption
<1>3. \A x \in Places : x[1] \notin Mine(u) => val'[x] = val[x]
  BY <1>1, <1>2, OfLive DEF Zap, FInv
<1>4. Shown' = [Shown EXCEPT ![u] = <<None>>] /\ FInv'
  <2>1. IsFilled(None, val') /\ View(None, val') = <<None>> BY DEF IsFilled, View
  <2> QED BY <1>1, <1>3, <2>1, OneShown
<1>5. ~Abstract!Referenced(Shown, u)
  <2> SUFFICES ASSUME NEW w \in Users \ {u}, NEW i \in DOMAIN Shown[w], Shown[w][i] = u
               PROVE  FALSE
    BY ShownIs DEF Abstract!Referenced
  <2>1. u # None BY DEF OperandsAssumption
  <2>2. PICK x \in Places : x[1] \in Mine(w) /\ val[x] = u BY <2>1, SeenIn DEF FInv
  <2>3. x[1] = a /\ x[1] # None BY <1>1, <1>2, <2>2
  <2>4. a \in Mine(u) BY <1>1, <2>3, OfLive DEF FInv
  <2> QED BY <2>2, <2>3, <2>4 DEF Mine
<1> QED BY <1>4, <1>5, DestroyStep

(* One value for another, in one view. *)
LEMMA ReplacedView ==
  ASSUME OperandsAssumption, IInv, NEW w \in Users, NEW from, from # None, NEW to, NEW m,
         user[w] # None => \A x \in Places :
           x[1] \in Mine(w) => m[x] = IF val[x] = from THEN to ELSE val[x]
  PROVE  View(user[w], m) = [i \in DOMAIN Shown[w] |-> IF Shown[w][i] = from THEN to ELSE Shown[w][i]]
<1>1. Shown[w] = View(user[w], val) BY ShownIs
<1>2. CASE user[w] = None
  <2>1. Shown[w] = <<None>> /\ View(user[w], m) = <<None>> BY <1>1, <1>2 DEF View
  <2>2. DOMAIN <<None>> = 1 .. 1 /\ \A i \in 1 .. 1 : <<None>>[i] = None OBVIOUS
  <2>3. <<None>> = [i \in 1 .. 1 |-> IF <<None>>[i] = from THEN to ELSE <<None>>[i]] BY <2>2
  <2> QED BY <2>1, <2>2, <2>3
<1>3. CASE user[w] # None
  <2>1. ASSUME NEW i \in 1 .. Count(w)
        PROVE  m[<<List(w), i - 1>>]
                 = IF val[<<List(w), i - 1>>] = from THEN to ELSE val[<<List(w), i - 1>>]
    <3>1. List(w) \in Mine(w) /\ <<List(w), i - 1>> \in Places BY <1>3, PlaceKept DEF Live
    <3>2. PICK x \in Places : x = <<List(w), i - 1>> BY <3>1
    <3>3. x[1] = List(w) BY <3>2
    <3> QED BY <1>3, <3>1, <3>2, <3>3
  <2> QED BY <1>1, <1>3, <2>1 DEF View, Count, List
<1> QED BY <1>2, <1>3

LEMMA ReplaceEverywhereShown ==
  ASSUME OperandsAssumption, FInv, IInv', NEW v \in Held, NEW w \in Held, ReplaceEverywhere(v, w)
  PROVE  AbstractStep /\ FInv'
<1>1. user' = user /\ \A x \in Places : val'[x] = IF val[x] = v THEN w ELSE val[x]
  BY DEF ReplaceEverywhere, ReplaceAllUsesWith
<1>2. None \notin Held /\ IInv BY DEF Held, Users, OperandsAssumption, FInv
<1>3. \A u \in Users : View(user[u], val')
        = [i \in DOMAIN Shown[u] |-> IF Shown[u][i] = v THEN w ELSE Shown[u][i]]
  BY <1>1, <1>2, ReplacedView
<1>4. Shown' = [u \in Users |-> View(user'[u], val')]
  BY DEF Shown, View, Live, Contents, Count, List
<1>5. DOMAIN Shown = Users BY ShownIs
<1>6. Shown' = Abstract!Replaced(Shown, v, w) BY <1>1, <1>3, <1>4, <1>5 DEF Abstract!Replaced
<1>7. AbstractStep BY <1>6 DEF AbstractStep, Abstract!Step, Abstract!ReplaceEverywhere
<1>8. ASSUME NEW u \in Users, user[u] # None, ~user[u].dropped, NEW i \in 1 .. user[u].ops
      PROVE  View(user[u], val')[i] # None
  <2>1. Ready(u) BY <1>8 DEF Ready, Live
  <2>2. Shown[u] \in [1 .. Count(u) -> Held] BY <2>1, ReadyShown
  <2>3. i \in DOMAIN Shown[u] /\ Shown[u][i] \in Held BY <2>2 DEF Count
  <2>4. View(user[u], val')[i] = IF Shown[u][i] = v THEN w ELSE Shown[u][i] BY <1>3, <2>3
  <2> QED BY <1>2, <2>3, <2>4
<1>9. FInv' BY <1>1, <1>8 DEF FInv, IsFilled
<1> QED BY <1>7, <1>9

LEMMA RemoveLastPairShown ==
  ASSUME OperandsAssumption, FInv, IInv', NEW u \in Users, RemoveLastPair(u)
  PROVE  AbstractStep /\ FInv'
<1> DEFINE a == List(u)
<1>1. /\ Ready(u) /\ Count(u) = 2 /\ user' = [user EXCEPT ![u] = None]
      /\ val' = Zap(ReplaceAllUsesWith(MoveDown(val, a, 0, 2), u, Undef), a, len[a])
  BY DEF RemoveLastPair
<1>2. /\ Shown[u] \in [1 .. 2 -> Held] /\ Len(Shown[u]) = 2 /\ Shown[u] # <<None>> /\ Live(u) /\ IInv
  BY <1>1, ReadyShown DEF FInv
<1>3. a # None /\ a \in Mine(u) BY <1>1, <1>2, OfLive
<1>4. \A x \in Places : x[1] # a => val'[x] = IF val[x] = u THEN Undef ELSE val[x]
  BY <1>1 DEF Zap, ReplaceAllUsesWith, MoveDown
<1>5. u # None /\ Undef # None BY DEF OperandsAssumption
<1>6. ASSUME NEW w \in Users, w # u
      PROVE  View(user[w], val')
               = [i \in DOMAIN Shown[w] |-> IF Shown[w][i] = u THEN Undef ELSE Shown[w][i]]
  <2>1. \A x \in Places : x[1] \in Mine(w) => x[1] # a BY <1>3, <1>6 DEF Mine
  <2>2. \A x \in Places : x[1] \in Mine(w) => val'[x] = IF val[x] = u THEN Undef ELSE val[x]
    BY <1>4, <2>1
  <2>3. IInv BY DEF FInv
  <2>4. user[w] # None => \A x \in Places :
          x[1] \in Mine(w) => val'[x] = IF val[x] = u THEN Undef ELSE val[x]
    BY <2>2
  <2>5. u # None BY <1>5
  <2> QED BY ONLY OperandsAssumption, w \in Users, <2>3, <2>4, <2>5, ReplacedView
<1>7. Shown' = [w \in Users |-> View(user'[w], val')]
  BY DEF Shown, View, Live, Contents, Count, List
<1>8. user'[u] = None /\ \A w \in Users : w # u => user'[w] = user[w]
  BY <1>1, <1>2 DEF IInv, TypeOK
<1> DEFINE o == [Shown EXCEPT ![u] = << >>]
<1>9. DOMAIN o = Users /\ \A w \in Users : w # u => o[w] = Shown[w] BY ShownIs
<1>10. Shown' = [Abstract!Replaced(o, u, Undef) EXCEPT ![u] = <<None>>]
  <2> HIDE DEF o
  <2>1. \A w \in Users : w # u => Abstract!Replaced(o, u, Undef)[w] = View(user'[w], val')
    BY <1>6, <1>8, <1>9 DEF Abstract!Replaced
  <2>2. DOMAIN Abstract!Replaced(o, u, Undef) = Users BY <1>9 DEF Abstract!Replaced
  <2>3. View(user'[u], val') = <<None>> BY <1>8 DEF View
  <2> QED BY <1>7, <2>1, <2>2, <2>3
<1>11. Abstract!RemoveLastPair(Shown, Shown', u)
  BY <1>2, <1>10 DEF Abstract!RemoveLastPair, Abstract!Gone
<1>12. Shown'[u] # Shown[u] BY <1>2, <1>7, <1>8 DEF View
<1>13. AbstractStep BY <1>11, <1>12 DEF AbstractStep, Abstract!Step
<1>14. ASSUME NEW w \in Users, user'[w] # None, ~user'[w].dropped, NEW i \in 1 .. user'[w].ops
      PROVE  View(user'[w], val')[i] # None
  <2>1. w # u /\ user'[w] = user[w] BY <1>8, <1>14
  <2>2. Ready(w) BY <1>14, <2>1 DEF Ready, Live
  <2>3. Shown[w] \in [1 .. Count(w) -> Held] BY <2>2, ReadyShown
  <2>4. i \in DOMAIN Shown[w] /\ Shown[w][i] \in Held BY <1>14, <2>1, <2>3 DEF Count
  <2>5. None \notin Held BY DEF Held, Users, OperandsAssumption
  <2>6. View(user'[w], val')[i] = IF Shown[w][i] = u THEN Undef ELSE Shown[w][i]
    <3>1. View(user'[w], val')
            = [j \in DOMAIN Shown[w] |-> IF Shown[w][j] = u THEN Undef ELSE Shown[w][j]]
      BY <1>6, <2>1
    <3> QED BY <2>4, <3>1
  <2> QED BY <1>5, <2>4, <2>5, <2>6
<1>15. FInv' BY <1>14 DEF FInv, IsFilled
<1> QED BY <1>13, <1>15
-----------------------------------------------------------------------------
LEMMA StepShown == ASSUME OperandsAssumption, FInv, [Next]_vars PROVE AbstractStep /\ FInv'
<1>0. IInv' BY StepSound DEF FInv
<1>1. CASE UNCHANGED vars
  <2>1. val' = val /\ user' = user BY <1>1 DEF vars
  <2>2. Shown' = [u \in Users |-> View(user'[u], val')]
    BY DEF Shown, View, Live, Contents, Count, List
  <2>3. Shown' = Shown BY <2>1, <2>2, ShownIs
  <2>4. FInv' BY <1>0, <2>1 DEF FInv, IsFilled, View
  <2> QED BY <2>3, <2>4 DEF AbstractStep
<1>2. ASSUME NEW u \in Users, NewPhi(u) PROVE AbstractStep /\ FInv' BY <1>0, <1>2, NewPhiShown
<1>3. ASSUME NEW u \in Users, NEW v \in Others, NEW b \in Others, NEW n \in 0 .. 1,
             NewSwitch(u, v, b, n)
      PROVE  AbstractStep /\ FInv'
  BY <1>0, <1>3, NewSwitchShown
<1>4. ASSUME NEW u \in Users, NEW n \in {1, 3}, NEW vals \in [1 .. n -> Others], NewBranch(u, vals)
      PROVE  AbstractStep /\ FInv'
  BY <1>0, <1>4, NewBranchShown
<1>5. ASSUME NEW u \in Users, NEW w \in Users, Clone(u, w) PROVE AbstractStep /\ FInv'
  BY <1>0, <1>5, CloneShown
<1>6. ASSUME NEW u \in Users, DropAllReferences(u) \/ Delete(u) \/ RemoveLastPair(u)
      PROVE  AbstractStep /\ FInv'
  BY <1>0, <1>6, DropAllReferencesShown, DeleteShown, RemoveLastPairShown
<1>7. ASSUME NEW u \in Users, NEW n \in 0 .. MaxOps \div 2, ReserveOperandSpace(u, n)
      PROVE  AbstractStep /\ FInv'
  <2>1. n \in Nat BY DEF OperandsAssumption
  <2> QED BY <1>0, <1>7, <2>1, ReserveShown
<1>8. ASSUME NEW u \in Users, NEW v \in Held, NEW b \in Others, AddPair(u, v, b)
      PROVE  AbstractStep /\ FInv'
  BY <1>0, <1>8, AddPairShown
<1>9. ASSUME NEW u \in Users, NEW b \in Others, SetUnconditionalDest(u, b)
      PROVE  AbstractStep /\ FInv'
  BY <1>0, <1>9, SetUnconditionalDestShown
<1>10. ASSUME NEW u \in Users, Live(u), NEW i \in 0 .. Count(u) - 1, i % 2 = 0, RemovePair(u, i)
       PROVE  AbstractStep /\ FInv'
  BY <1>0, <1>10, RemovePairShown
<1>11. ASSUME NEW u \in Users, Live(u), NEW i \in 0 .. Count(u) - 1, NEW v \in Held,
              SetOperand(u, i, v)
       PROVE  AbstractStep /\ FInv'
  BY <1>0, <1>11, SetOperandShown
<1>12. ASSUME NEW u \in Users, NEW v \in Held, NEW w \in Held, ReplaceUsesOfWith(u, v, w)
       PROVE  AbstractStep /\ FInv'
  BY <1>0, <1>12, ReplaceUsesOfWithShown
<1>13. ASSUME NEW v \in Held, NEW w \in Held, ReplaceEverywhere(v, w) PROVE AbstractStep /\ FInv'
  BY <1>0, <1>13, ReplaceEverywhereShown
<1> QED
  BY <1>1, <1>2, <1>3, <1>4, <1>5, <1>6, <1>7, <1>8, <1>9, <1>10, <1>11, <1>12, <1>13, Zenon DEF Next

LEMMA InitShown == ASSUME OperandsAssumption, Init PROVE FInv /\ Abstract!Init
<1>1. IInv BY InitSound
<1>2. \A u \in Users : user[u] = None BY DEF Init
<1> QED BY <1>1, <1>2, ShownIs DEF FInv, IsFilled, View, Abstract!Init, Abstract!Gone

(* Phi nodes, switches and branches behave as the sequences of operands    *)
(* their clients see, wherever the uses are kept and however often they    *)
(* are moved.  (Every operation of PHINode, SwitchInst and BranchInst.)    *)
THEOREM OperandsImplement == ASSUME OperandsAssumption PROVE Spec => Implements
<1>1. Init => FInv /\ Abstract!Init BY InitShown
<1>2. FInv /\ [Next]_vars => FInv' /\ [Abstract!Next]_Shown
  BY StepShown DEF AbstractStep, Abstract!Next
<1> QED BY <1>1, <1>2, PTL DEF Spec, Implements, Abstract!Spec
=============================================================================
