------------------------------ MODULE PhiNodes ------------------------------
(***************************************************************************)
(* A block whose predecessors leave it one by one.  Its phi nodes lose the *)
(* operands of the edge, and those that merge nothing any more are         *)
(* replaced by their value.                                                *)
(***************************************************************************)
EXTENDS Integers, Sequences, FiniteSets, SequencesExt

CONSTANTS
  Outside,   \* predecessors that control reaches without passing the block
  Loops,     \* predecessors that are reached through the block
  Self,      \* the block, which may be its own predecessor: one of Loops
  Nodes,     \* the phi nodes, a sequence
  Available, \* the values that each predecessor may bring
  Insts,     \* the instructions that are not in the entry block, and no phi nodes
  Undef, NoValue,
  MaxEdges   \* bound: the edges into the block

Phis == ToSet(Nodes)
Preds == Outside \cup Loops
Incoming == UNION {Available[p] : p \in Preds}

(* What comes from outside is not computed in the block.  A value that is  *)
(* neither an instruction nor a phi node is there on every way in.         *)
PhisAssumption ==
  /\ Self \in Loops
  /\ Nodes \in Seq(Phis) /\ \A i, j \in DOMAIN Nodes : Nodes[i] = Nodes[j] => i = j
  /\ \A p \in Preds : Undef \in Available[p]
  /\ \A p \in Outside : Available[p] \cap Phis = {}
  /\ \A p \in Outside : Incoming \ (Insts \cup Phis) \subseteq Available[p]
  /\ Undef \notin Phis /\ NoValue \notin Incoming \cup Phis
  /\ MaxEdges \in Nat

VARIABLES
  edges,    \* the edges from each predecessor
  front,    \* the phi nodes of the block, in order
  entries,  \* the incoming values of each, with their blocks
  sees,     \* what a use of each phi node has come to be a use of
  brought   \* what each predecessor brought for each phi node at the beginning

phiVars == <<edges, front, entries, sees, brought>>

EdgesFrom(blocks, p) == Cardinality({i \in DOMAIN blocks : blocks[i] = p})
(* All phi nodes list the blocks in one order, whichever it is. *)
PhiInit ==
  \E n \in 1 .. MaxEdges : \E blocks \in [1 .. n -> Preds] :
    /\ edges = [p \in Preds |-> EdgesFrom(blocks, p)]
    /\ front = Nodes
    /\ brought \in {f \in [Phis -> [Preds -> Incoming]] :
                      \A x \in Phis, p \in Preds :
                        f[x][p] \in IF edges[p] = 0 THEN {Undef} ELSE Available[p]}
    /\ entries = [x \in Phis |-> [i \in 1 .. n |-> [v |-> brought[x][blocks[i]], b |-> blocks[i]]]]
    /\ sees = [x \in Phis |-> x]
-----------------------------------------------------------------------------
(* The phi nodes and everything that uses them. *)
Now == [front |-> front, entries |-> entries, sees |-> sees]
(* Mutant: the operands of other phi nodes are left alone. *)
ReplaceUsesOutside(s, x, v) ==
  [s EXCEPT !.sees = [y \in Phis |-> IF s.sees[y] = x THEN v ELSE s.sees[y]]]
ReplaceAllUsesWith(s, x, v) ==
  [s EXCEPT
     !.sees = [y \in Phis |-> IF s.sees[y] = x THEN v ELSE s.sees[y]],
     !.entries = [y \in Phis |-> [i \in DOMAIN s.entries[y] |->
                    IF s.entries[y][i].v = x THEN [s.entries[y][i] EXCEPT !.v = v] ELSE s.entries[y][i]]]]
EraseFromParent(s, x) ==
  [s EXCEPT !.front = RemoveAt(@, CHOOSE i \in DOMAIN @ : @[i] = x), !.entries = [@ EXCEPT ![x] = << >>]]

GetBasicBlockIndex(e, p) == SelectInSeq(e, LAMBDA y : y.b = p)
(* Mutant: the first entry goes, whatever block it is for. *)
RemoveIncomingFirst(s, x, p, deleteIfEmpty) ==
  LET r == [s EXCEPT !.entries[x] = RemoveAt(@, 1)]
  IN  IF Len(s.entries[x]) = 1 /\ deleteIfEmpty
      THEN EraseFromParent(ReplaceAllUsesWith(r, x, Undef), x)
      ELSE r
RemoveIncomingValue(s, x, p, deleteIfEmpty) ==
  LET r == [s EXCEPT !.entries[x] = RemoveAt(@, GetBasicBlockIndex(@, p))]
  IN  IF Len(s.entries[x]) = 1 /\ deleteIfEmpty
      THEN EraseFromParent(ReplaceAllUsesWith(r, x, Undef), x)
      ELSE r

(* The one value that is merged, if there are not several and it is there  *)
(* on every path (mutant: undef is taken for any of them).                 *)
HasConstantValueAlways(e, x) ==
  LET others == {e[i].v : i \in DOMAIN e} \ {x, Undef}
  IN  IF others = {} THEN Undef
      ELSE IF \E v, w \in others : v # w THEN NoValue
      ELSE CHOOSE v \in others : TRUE
HasConstantValue(e, x) ==
  LET values == {e[i].v : i \in DOMAIN e}
      others == values \ {x, Undef}
      value == CHOOSE v \in others : TRUE
  IN  IF others = {} THEN Undef
      ELSE IF \E v, w \in others : v # w THEN NoValue
      ELSE IF Len(e) > 1 /\ Undef \in values /\ value \in Insts \cup Phis THEN NoValue
      ELSE value

(* At most two edges before one goes: every phi node goes. *)
NukePhi(s, x, p, count) ==
  LET r == RemoveIncomingValue(s, x, p, TRUE)
      v == r.entries[x][1].v
  IN  IF count # 2 THEN r
      ELSE EraseFromParent(ReplaceAllUsesWith(r, x, IF v = x THEN Undef ELSE v), x)
FixPhi(s, x, p, keep) ==
  LET r == RemoveIncomingValue(s, x, p, FALSE)
      v == HasConstantValue(r.entries[x], x)
  IN  IF keep \/ v = NoValue THEN r ELSE EraseFromParent(ReplaceAllUsesWith(r, x, v), x)
(* Two edges, one of which stays and is from the block itself. *)
StaysInLoop(e, p) == Len(e) = 2 /\ e[IF e[1].b = p THEN 2 ELSE 1].b = Self
UpdatePhi(s, x, p, keep, count) ==
  IF count <= 2 /\ ~keep THEN NukePhi(s, x, p, count) ELSE FixPhi(s, x, p, keep)
UpdatePhis(s, p, keep, count) ==
  LET done[i \in 0 .. Len(s.front)] ==
        IF i = 0 THEN s ELSE UpdatePhi(done[i - 1], s.front[i], p, keep, count)
  IN  done[Len(s.front)]
RemovePredecessor(s, p, keep) ==
  IF s.front = << >> THEN s
  ELSE LET e == s.entries[s.front[1]]
       IN  UpdatePhis(s, p, keep, IF StaysInLoop(e, p) THEN 3 ELSE Len(e))

(* A pass tells the block that an edge will go, and takes it away. *)
RemoveEdge(p, keep) ==
  LET s == RemovePredecessor(Now, p, keep)
  IN  /\ edges[p] > 0
      /\ edges' = [edges EXCEPT ![p] = @ - 1]
      /\ front' = s.front /\ entries' = s.entries /\ sees' = s.sees
      /\ UNCHANGED brought
PhiNext == \E p \in Preds, keep \in BOOLEAN : RemoveEdge(p, keep)
PhiSpec == PhiInit /\ [][PhiNext]_phiVars
-----------------------------------------------------------------------------
Entered == \E p \in Outside : edges[p] > 0
(* Every phi node has an operand for every edge, as many from a            *)
(* predecessor as there are edges from it: BasicBlock::removePredecessor.  *)
EntriesMatch ==
  \A x \in ToSet(front), p \in Preds :
    Cardinality({i \in DOMAIN entries[x] : entries[x][i].b = p}) = edges[p]

Along(v, p) ==
  IF v \in ToSet(front) THEN entries[v][GetBasicBlockIndex(entries[v], p)].v ELSE v
Later(v) == IF v \in Phis THEN sees[v] ELSE v
(* A block that control still enters gets from every edge that is left     *)
(* what that edge brought before, through a phi node or not; where it      *)
(* brought undef, anything.  removePredecessor and hasConstantValue.       *)
ValueKept ==
  Entered =>
    \A x \in Phis, p \in Preds :
      edges[p] > 0 /\ Later(brought[x][p]) # Undef => Along(sees[x], p) = Later(brought[x][p])
(* And what a phi node is replaced by is there on every way into the block *)
(* from outside: removePredecessor, hasConstantValue.                      *)
Dominated ==
  \A x \in Phis, p \in Outside : Entered /\ edges[p] > 0 /\ sees[x] \notin Phis => sees[x] \in Available[p]
(* All of this: every phi node has an operand for every edge; a block that *)
(* control still enters gets what each edge brought before, and what       *)
(* replaces a phi node is there on every way into the block.               *)
PhisExact == EntriesMatch /\ ValueKept /\ Dominated
=============================================================================
