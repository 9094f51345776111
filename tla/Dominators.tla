---------------------------- MODULE Dominators ----------------------------
(***************************************************************************)
(* The dominator tree and the dominance frontiers of a function, kept up   *)
(* to date while passes split, fold and query its blocks.  What Calculate  *)
(* finds, in a header outside the repository, is stated by its meaning.    *)
(***************************************************************************)
EXTENDS Integers, Sequences, FiniteSets, SequencesExt

CONSTANTS
  Old,       \* the blocks of the function as it is read
  New,       \* blocks that splits may add
  Entry,     \* front(): the first block, which has no predecessors
  MaxEdges,  \* bound: the edges of the CFG as it is read
  Whole,     \* TRUE: every block of the function can be reached
  SlowLimit, \* queries by walking before the numbers are computed: 32
  None

VARIABLES
  succ,  \* the CFG: the successors of each block
  tree,  \* DominatorTreeBase: idom, kids and numbers of its nodes
  df     \* DominanceFrontier: Frontiers

vars == <<succ, tree, df>>

(* The entry is read first, and a block that is added is a new one.         *)
DominatorsAssumption ==
  /\ IsFiniteSet(Old) /\ Entry \in Old /\ Old \cap New = {} /\ None \notin Old \cup New
  /\ Whole = TRUE

Blocks == DOMAIN succ
Preds(g, b) == {p \in DOMAIN g : b \in g[p]}
-----------------------------------------------------------------------------
(* The meaning of the words: b is reached, and not without passing a. *)
ReachedAvoiding(g, avoid) ==
  LET closure[found \in SUBSET DOMAIN g] ==
        LET more == (UNION {g[b] : b \in found}) \ (found \cup avoid)
        IN  IF more = {} THEN found ELSE closure[found \cup more]
  IN  IF Entry \in avoid THEN {} ELSE closure[{Entry}]
Reached(g) == ReachedAvoiding(g, {})
DominatorsOf(g) ==
  LET r == Reached(g)
      without == [a \in r |-> ReachedAvoiding(g, {a})]
  IN  [b \in r |-> {a \in r : b \notin without[a]}]
FrontierOf(g) ==
  LET dom == DominatorsOf(g)
  IN  [x \in DOMAIN dom |->
         {z \in DOMAIN dom : /\ x \notin dom[z] \ {z}
                             /\ \E y \in Preds(g, z) \cap DOMAIN dom : x \in dom[y]}]
-----------------------------------------------------------------------------
Nodes(t) == DOMAIN t.idom
Get(f, k, d) == IF k \in DOMAIN f THEN f[k] ELSE d
Put(f, k, v) == [x \in DOMAIN f \cup {k} |-> IF x = k THEN v ELSE f[x]]
Drop(f, k) == [x \in DOMAIN f \ {k} |-> f[x]]

(* updateDFSNumbers: in and out numbers, in the order of the children.  A  *)
(* step gives n to the next child of the top, or to the top.               *)
Frame(t, b) == [b |-> b, todo |-> t.kids[b]]
NumberNext(t, s, n) ==
  LET top == Last(s.stack)
      rest == Front(s.stack)
      c == Head(top.todo)
  IN  CASE s.stack = << >> -> s
        [] s.stack # << >> /\ top.todo = << >> -> [stack |-> rest, num |-> [s.num EXCEPT ![top.b].out = n]]
        [] OTHER -> [stack |-> rest \o <<[top EXCEPT !.todo = Tail(@)], Frame(t, c)>>,
                     num |-> [s.num EXCEPT ![c].in = n]]
Number(t) ==
  LET last == 2 * Cardinality(Nodes(t)) - 1
      walk[n \in 0 .. last] ==
        IF n = 0 THEN [stack |-> <<Frame(t, Entry)>>, num |-> [t.num EXCEPT ![Entry].in = 0]]
        ELSE NumberNext(t, walk[n - 1], n)
  IN  walk[last].num
UpdateDFSNumbers(t) == [t EXCEPT !.num = Number(t), !.slow = 0, !.valid = TRUE]

(* A split made the nodes under it children of the new block, and left the *)
(* numbers for what they were (mutant: and says they are good).            *)
AddNewBlockValid(t, b, d) ==
  [idom |-> Put(t.idom, b, d), kids |-> Put(Put(t.kids, d, Append(t.kids[d], b)), b, << >>),
   num |-> Put(t.num, b, [in |-> -1, out |-> -1]), slow |-> t.slow, valid |-> t.valid]
AddNewBlock(t, b, d) ==
  [idom |-> Put(t.idom, b, d), kids |-> Put(Put(t.kids, d, Append(t.kids[d], b)), b, << >>),
   num |-> Put(t.num, b, [in |-> -1, out |-> -1]), slow |-> t.slow, valid |-> FALSE]

ChangeImmediateDominator(t, b, d) ==
  IF t.idom[b] = d THEN [t EXCEPT !.valid = FALSE]
  ELSE [t EXCEPT !.kids = Put(Put(@, t.idom[b], RemoveFirst(@[t.idom[b]], b)), d, Append(@[d], b)),
                 !.idom[b] = d, !.valid = FALSE]

EraseNode(t, b) ==
  [idom |-> Drop(t.idom, b), num |-> Drop(t.num, b), slow |-> t.slow, valid |-> t.valid,
   kids |-> Drop(Put(t.kids, t.idom[b], RemoveFirst(t.kids[t.idom[b]], b)), b)]

(* getNodeForBlock, for each block that Calculate gave an idom.            *)
Build(root, idoms) ==
  LET built[k \in 0 .. Cardinality(DOMAIN idoms)] ==
        IF k = 0 THEN root
        ELSE LET t == built[k - 1]
                 b == CHOOSE x \in DOMAIN idoms \ Nodes(t) : idoms[x] \in Nodes(t)
             IN  AddNewBlock(t, b, idoms[b])
  IN  built[Cardinality(DOMAIN idoms)]
Root == [idom |-> [b \in {Entry} |-> None], kids |-> [b \in {Entry} |-> << >>],
         num |-> [b \in {Entry} |-> [in |-> -1, out |-> -1]], slow |-> 0, valid |-> FALSE]
Recalculate(g) ==
  LET dom == DominatorsOf(g)
      idoms == [b \in DOMAIN dom \ {Entry} |-> CHOOSE a \in dom[b] \ {b} : dom[b] \ {b} \subseteq dom[a]]
  IN  UpdateDFSNumbers(Build(Root, idoms))
-----------------------------------------------------------------------------
(* b and what is found on the way up from it. *)
Above(t, b) ==
  LET above[x \in Nodes(t)] == {x} \cup (IF t.idom[x] = None THEN {} ELSE above[t.idom[x]])
  IN  above[b]

DominatedBy(t, b, a) == t.num[b].in >= t.num[a].in /\ t.num[b].out <= t.num[a].out
DominatedBySlowTreeWalk(t, a, b) == t.idom[b] # None /\ a \in Above(t, t.idom[b])
Dominates(t, a, b) ==
  \/ a = b
  \/ /\ {a, b} \subseteq Nodes(t)
     /\ IF t.valid THEN DominatedBy(t, b, a) ELSE DominatedBySlowTreeWalk(t, a, b)
ProperlyDominates(t, a, b) == {a, b} \subseteq Nodes(t) /\ DominatedBySlowTreeWalk(t, a, b)
IsReachableFromEntry(t, b) == Dominates(t, Entry, b)

(* The query also counts, and after SlowLimit of them it numbers the tree. *)
AfterQuery(t, a, b) ==
  IF a = b \/ t.valid \/ ~({a, b} \subseteq Nodes(t)) THEN t
  ELSE IF t.slow + 1 > SlowLimit THEN UpdateDFSNumbers(t) ELSE [t EXCEPT !.slow = @ + 1]

(* Mutant: the first of b's dominators that dominates a's parent only. *)
NearestShallow(t, a, b) ==
  IF Entry \in {a, b} THEN Entry
  ELSE IF Dominates(t, b, a) THEN b
  ELSE IF Dominates(t, a, b) THEN a
  ELSE t.idom[b]
FindNearestCommonDominator(t, a, b) ==
  IF Entry \in {a, b} THEN Entry
  ELSE IF Dominates(t, b, a) THEN b
  ELSE IF Dominates(t, a, b) THEN a
  ELSE LET common == Above(t, a) \cap Above(t, t.idom[b])
       IN  CHOOSE d \in common : common \subseteq Above(t, d)
(* The nearest of all bs, one after the other. *)
NearestToAll(t, bs) ==
  LET order == SetToSeq(bs)
      nearest[k \in 1 .. Len(order)] ==
        IF k = 1 THEN order[1] ELSE FindNearestCommonDominator(t, nearest[k - 1], order[k])
  IN  nearest[Len(order)]
-----------------------------------------------------------------------------
(* Split: n is new and has one successor s; ps are its predecessors.       *)
(* Mutant: the predecessors of the successor are not looked at.            *)
SplitTreeAlways(g, t, n) ==
  LET s == CHOOSE x \in g[n] : TRUE
      d == NearestToAll(t, {p \in Preds(g, n) : IsReachableFromEntry(t, p)})
  IN  ChangeImmediateDominator(AddNewBlock(t, n, d), s, n)
SplitTree(g, t, n) ==
  LET s == CHOOSE x \in g[n] : TRUE
      d == NearestToAll(t, {p \in Preds(g, n) : IsReachableFromEntry(t, p)})
      newDominatesSucc == \A p \in Preds(g, s) \ {n} : Dominates(t, s, p)
      grown == AddNewBlock(t, n, d)
  IN  IF newDominatesSucc THEN ChangeImmediateDominator(grown, s, n) ELSE grown
(* What b had under it comes under n, which b branches to. *)
MoveUnder(t, b, n) ==
  LET moved[k \in 0 .. Len(t.kids[b])] ==
        IF k = 0 THEN AddNewBlock(t, n, b) ELSE ChangeImmediateDominator(moved[k - 1], t.kids[b][k], n)
  IN  moved[Len(t.kids[b])]

(* Mutant: a block above the new one hands its successor over to it. *)
StaysNever(g, t, x, s) == FALSE
(* s stays in the frontier of x: x is above another predecessor of s. *)
Stays(g, t, x, s) ==
  (x = s \/ ~Dominates(t, x, s)) /\ \E p \in Preds(g, s) : Dominates(t, x, p)

(* DominanceFrontier::splitBlock, of a new block n or one that was split   *)
(* above its new successor; first is the predecessor that is listed first. *)
SplitFrontier(g, t, f, n, first) ==
  LET s == CHOOSE x \in g[n] : TRUE
      ps == Preds(g, n)
      inherited == IF n \in DOMAIN f THEN Put(f, s, f[n]) ELSE f
      kept == {z \in f[first] : \E p \in Preds(g, z) : Dominates(t, n, p)}
      own == CASE ~Dominates(t, n, s) -> Put(inherited, n, {s})
               [] Dominates(t, n, s) /\ first \in DOMAIN f ->
                    Put(inherited, n, Get(inherited, n, {}) \cup kept)
               [] OTHER -> inherited
      update(x, zs) ==
        IF s \in zs /\ \E p \in ps : Dominates(t, x, p)
        THEN (IF Stays(g, t, x, s) THEN zs ELSE zs \ {s}) \cup {n}
        ELSE zs
  IN  IF ps = {} THEN f ELSE [x \in DOMAIN own |-> update(x, own[x])]

RemoveBlock(f, b) == [x \in DOMAIN f \ {b} |-> f[x] \ {b}]

(* calculate: the local frontier when a block is seen, the part of its      *)
(* children, in any order, when they are done with.  Mutant: a child gives *)
(* all its frontier up.                                                    *)
FrontierUpAll(t, up, zs) == zs
FrontierUp(t, up, zs) == {z \in zs : ~ProperlyDominates(t, up, z)}
VisitNext(g, t, s) ==
  LET w == Last(s.work)
      local == IF w.b \in s.visited THEN {} ELSE {z \in g[w.b] : t.idom[z] # w.b}
      here == Put(s.f, w.b, Get(s.f, w.b, {}) \cup local)
      seen == s.visited \cup {w.b}
      todo == SetToSeq(ToSet(t.kids[w.b]) \ seen)
      given == Put(here, w.up, Get(here, w.up, {}) \cup FrontierUp(t, w.up, here[w.b]))
  IN  CASE s.work = << >> -> s
        [] s.work # << >> /\ todo # << >> ->
             [work |-> s.work \o [i \in DOMAIN todo |-> [b |-> todo[i], up |-> w.b]], visited |-> seen, f |-> here]
        [] OTHER -> [work |-> Front(s.work), visited |-> seen, f |-> IF w.up = None THEN here ELSE given]
CalculateFrontier(g, t) ==
  LET last == 2 * Cardinality(Nodes(t))
      visit[k \in 0 .. last] ==
        IF k = 0 THEN [work |-> <<[b |-> Entry, up |-> None]>>, visited |-> {}, f |-> << >>]
        ELSE VisitNext(g, t, visit[k - 1])
  IN  visit[last].f
-----------------------------------------------------------------------------
(* compare: FALSE when the nodes and their children are the same. *)
TreeCompare(t, u) ==
  \/ Cardinality(Nodes(t)) # Cardinality(Nodes(u))
  \/ \E b \in Nodes(t) : \/ b \notin Nodes(u)
                         \/ Len(t.kids[b]) # Len(u.kids[b])
                         \/ ~(ToSet(t.kids[b]) \subseteq ToSet(u.kids[b]))
CompareDomSet(xs, ys) == \/ \E x \in xs : x \notin ys
                         \/ ys \ xs # {}
FrontierCompare(f, other) ==
  \E b \in DOMAIN other : b \notin DOMAIN f \/ CompareDomSet(other[b], f[b])
-----------------------------------------------------------------------------
Init ==
  /\ succ \in [Old -> {ss \in SUBSET (Old \ {Entry}) : Cardinality(ss) <= 2}]
  /\ Cardinality({e \in Old \X Old : e[2] \in succ[e[1]]}) <= MaxEdges
  /\ Whole => Reached(succ) = Old
  /\ tree = Recalculate(succ)
  /\ df = CalculateFrontier(succ, tree)

(* Tree after queries the caller of the frontiers made: numbered or not. *)
Queried(t) == {[t EXCEPT !.slow = 0], UpdateDFSNumbers(t)}

(* The edges of ps to s now go through n. *)
SplitPredecessors(ps, s, n, first) ==
  LET g == Put([p \in Blocks |-> IF p \in ps THEN (succ[p] \ {s}) \cup {n} ELSE succ[p]], n, {s})
  IN  /\ n \notin Blocks /\ ps # {} /\ ps \subseteq Preds(succ, s) /\ first \in ps
      /\ \E p \in ps : IsReachableFromEntry(tree, p)
      /\ succ' = g
      /\ tree' \in Queried(SplitTree(g, tree, n))
      /\ df' = SplitFrontier(g, tree', df, n, first)

(* splitBasicBlock: n gets b's terminator, and b branches to it.  The      *)
(* caller moves what b dominated under n, and tells the frontiers of b.    *)
SplitBasicBlock(b, n, first) ==
  LET g == Put(Put(succ, n, succ[b]), b, {n})
  IN  /\ n \notin Blocks /\ b \in Nodes(tree)
      /\ first \in (IF b = Entry THEN {None} ELSE Preds(g, b))
      /\ succ' = g
      /\ tree' \in Queried(MoveUnder(tree, b, n))
      /\ df' = SplitFrontier(g, tree', df, b, first)

(* A block that only leads on is passed by, and erased. *)
FoldBlock(p, b) ==
  /\ Preds(succ, b) = {p} /\ b \in Nodes(tree) /\ tree.kids[b] = << >>
  /\ Cardinality(succ[b]) = 1 /\ succ[b] # {b}
  /\ succ' = [Drop(succ, b) EXCEPT ![p] = (@ \ {b}) \cup succ[b]]
  /\ tree' = EraseNode(tree, b)
  /\ df' = RemoveBlock(df, b)

Query(a, b) ==
  /\ tree' = AfterQuery(tree, a, b) /\ tree' # tree
  /\ UNCHANGED <<succ, df>>

Next ==
  \/ \E n \in New, s \in Blocks : \E ps \in SUBSET Preds(succ, s) : \E p \in ps : SplitPredecessors(ps, s, n, p)
  \/ \E b \in Blocks, n \in New : \E p \in Blocks \cup {n, None} : SplitBasicBlock(b, n, p)
  \/ \E p, b \in Blocks : FoldBlock(p, b)
  \/ \E a, b \in Blocks : Query(a, b)

Spec == Init /\ [][Next]_vars
-----------------------------------------------------------------------------
(* After any splits and folds the tree is the one a new computation gives: *)
(* Split decides from the predecessors alone what moves under the block.   *)
TreeExact == ~TreeCompare(tree, Recalculate(succ))

(* Each answer of dominates, by walking or from numbers made before the    *)
(* last update or erasure, is the truth about the paths.                   *)
AnswersExact ==
  LET dom == DominatorsOf(succ)
  IN  \A a, b \in DOMAIN dom : Dominates(tree, a, b) <=> a \in dom[b]

(* calculate finds every frontier, walking up the tree without recursion. *)
FreshExact == ~FrontierCompare(CalculateFrontier(succ, Recalculate(succ)), FrontierOf(succ))

DominatorsExact == TreeExact /\ AnswersExact /\ FreshExact

Covers(f, g) == \A x \in DOMAIN FrontierOf(g) : FrontierOf(g)[x] \subseteq Get(f, x, {})

(* A split that does not put the new block above its successor, and the    *)
(* split of a block in two, leave no frontier without a block it had.      *)
SplitCovers ==
  \A n \in New : (n \notin Blocks /\ n \in DOMAIN succ' /\ Covers(df, succ)) =>
    \/ Covers(df', succ')
    \/ /\ \A s \in succ'[n] : tree'.idom[s] = n
       /\ ~ \E b \in Blocks, p \in Blocks \cup {n, None} : SplitBasicBlock(b, n, p)
=============================================================================
