---------------------------- MODULE OperandLists ----------------------------
(***************************************************************************)
(* What a client sees of users: each one that exists is a sequence of      *)
(* values, and one that does not is Gone.  Step(o, p) says that the users  *)
(* o become the users p.                                                   *)
(***************************************************************************)
EXTENDS Naturals, Sequences, SequencesExt

CONSTANTS Users, Values, Undef, None
Gone == <<None>>
Lists == UNION {[1 .. n -> Values] : n \in 0 .. 3}   \* what a user is made with

VARIABLE operands

Replaced(f, from, to) ==
  [u \in DOMAIN f |-> [i \in DOMAIN f[u] |-> IF f[u][i] = from THEN to ELSE f[u][i]]]
Referenced(f, v) == \E u \in DOMAIN f \ {v} : \E i \in DOMAIN f[u] : f[u][i] = v
Without(s, i) == RemoveAt(RemoveAt(s, i), i)
Becomes(o, p, u, s) == p = [o EXCEPT ![u] = s]

Create(o, p, u) ==
  o[u] = Gone /\ (p[u] \in Lists \/ \E w \in Users : p[u] = o[w]) /\ Becomes(o, p, u, p[u])
Destroy(o, p, u) == ~Referenced(o, u) /\ Becomes(o, p, u, Gone)
AppendPair(o, p, u) ==
  /\ o[u] # Gone /\ Len(p[u]) = Len(o[u]) + 2
  /\ \E v, w \in Values : Becomes(o, p, u, o[u] \o <<v, w>>)
RemovePair(o, p, u) == \E i \in 1 .. Len(o[u]) - 1 : Becomes(o, p, u, Without(o[u], i))
(* The last pair goes, and the user with it: what used it is undefined. *)
RemoveLastPair(o, p, u) ==
  Len(o[u]) = 2 /\ p = [Replaced([o EXCEPT ![u] = << >>], u, Undef) EXCEPT ![u] = Gone]
SetOperand(o, p, u) ==
  /\ DOMAIN p[u] = DOMAIN o[u]
  /\ \E i \in DOMAIN o[u] : p[u][i] \in Values /\ Becomes(o, p, u, [o[u] EXCEPT ![i] = p[u][i]])
Shorten(o, p, u) == \E v \in Values : Becomes(o, p, u, <<v>>)
Forget(o, p, u) == Becomes(o, p, u, [i \in DOMAIN o[u] |-> None])
ReplaceEverywhere(o, p) == \E v, w \in Values : p = Replaced(o, v, w)
ReplaceIn(o, p, u) == \E v, w \in Values : Becomes(o, p, u, Replaced(o, v, w)[u])

Step(o, p) ==
  \/ \E u \in Users :
       /\ p[u] # o[u]
       /\ \/ Create(o, p, u) \/ Destroy(o, p, u) \/ RemoveLastPair(o, p, u)
          \/ o[u] # Gone /\ p[u] # Gone /\ Len(p[u]) > 0
               /\ \/ AppendPair(o, p, u) \/ RemovePair(o, p, u) \/ SetOperand(o, p, u)
                  \/ Shorten(o, p, u) \/ Forget(o, p, u) \/ ReplaceIn(o, p, u)
          \/ p[u] = << >> /\ RemovePair(o, p, u)
  \/ ReplaceEverywhere(o, p)

Init == operands = [u \in Users |-> Gone]
Next == Step(operands, operands')
Spec == Init /\ [][Next]_operands
=============================================================================
