---------------------------- MODULE ValueNames ----------------------------
(***************************************************************************)
(* Names, symbol tables and ownership in LlackCore: instructions sit in    *)
(* blocks, blocks and arguments in functions, functions in modules.  A     *)
(* function names what is in it and a module its functions; a value that   *)
(* is moved takes its name along, or is renamed.  The LeakDetector keeps   *)
(* the values that no one owns.                                            *)
(***************************************************************************)
EXTENDS Integers, Sequences, FiniteSets, SequencesExt

CONSTANTS
  Insts, Blocks, Args, Funcs, Mods,  \* the values, and the modules
  Internal,   \* the functions with internal linkage
  Names,      \* the names that callers give: sequences of characters, a
              \* negative number each, and of numbers that were appended
  MaxUnique,  \* bound: how often a table renames
  None

VARIABLES
  ir,      \* the values in memory: see TypeOK for the fields
  answer,  \* history: <<name, function>> of the last getOrInsertFunction
  missed   \* history: the orphans of the last check that are still orphans

vars == <<ir, answer, missed>>

Named == Insts \cup Blocks \cup Args \cup Funcs
Scopes == Funcs \cup Mods
Containers == Blocks \cup Scopes
NoName == << >>

(* The kinds of values are apart, as their classes are. *)
NamesAssumption ==
  /\ Insts \cap (Blocks \cup Args \cup Funcs) = {} /\ Blocks \cap (Args \cup Funcs) = {}
  /\ Args \cap Funcs = {} /\ Mods \cap Named = {} /\ None \notin Named \cup Mods
  /\ Internal \subseteq Funcs /\ Names \subseteq Seq(Int) \ {NoName}

Owners(v) == CASE v \in Insts -> Blocks [] v \in Blocks \cup Args -> Funcs [] OTHER -> Mods
-----------------------------------------------------------------------------
(* getSymTab: the table that a value's name is in, if it is owned so far. *)
ScopeOf(s, v) ==
  LET p == s.parent[v]
  IN  IF p # None /\ v \in Insts THEN s.parent[p] ELSE p

Without(tab, name) == [n \in DOMAIN tab \ {name} |-> tab[n]]
Entered(tab, name, v) == [n \in DOMAIN tab \cup {name} |-> IF n = name THEN v ELSE tab[n]]

(* vmap.remove: the entry of this name goes. *)
RemoveName(s, t, v) ==
  IF t = None \/ s.name[v] = NoName THEN s
  ELSE [s EXCEPT !.table[t] = Without(@, s.name[v])]

(* Mutant: LastUnique is appended without looking for the result. *)
UniqueUnchecked(tab, last, base) ==
  IF base \notin DOMAIN tab THEN [n |-> base, last |-> last]
  ELSE [n |-> Append(base, last + 1), last |-> last + 1]

(* createValueName and reinsertValue: base, or the first base with a       *)
(* number after LastUnique that is not in the table.                       *)
UniqueName(tab, last, base) ==
  IF base \notin DOMAIN tab THEN [n |-> base, last |-> last]
  ELSE LET k == CHOOSE i \in last + 1 .. last + 1 + Cardinality(DOMAIN tab) :
                  /\ Append(base, i) \notin DOMAIN tab
                  /\ \A j \in last + 1 .. i - 1 : Append(base, j) \in DOMAIN tab
       IN  [n |-> Append(base, k), last |-> k]

PlaceName(s, t, v, base) ==
  IF t = None \/ base = NoName THEN [s EXCEPT !.name[v] = base]
  ELSE LET u == UniqueName(s.table[t], s.last[t], base)
       IN  [s EXCEPT !.name[v] = u.n, !.last[t] = u.last,
                     !.table[t] = Entered(@, u.n, v)]
Reinsert(s, t, v) == PlaceName(s, t, v, s.name[v])
-----------------------------------------------------------------------------
(* Mutant: the object that was added before is forgotten. *)
AddGarbageOver(s, o) == [s EXCEPT !.cache = o]

(* LeakDetectorImpl: the object added last is kept beside the set. *)
AddGarbage(s, o) ==
  [s EXCEPT !.ts = IF s.cache = None THEN @ ELSE @ \cup {s.cache}, !.cache = o,
            !.failed = @ \/ s.cache \in s.ts]
RemoveGarbage(s, o) ==
  IF o = s.cache THEN [s EXCEPT !.cache = None] ELSE [s EXCEPT !.ts = @ \ {o}]
Reported(s) == s.ts \cup ({s.cache} \ {None})

(* All names of a list leave one table; then each enters the other. *)
NamesOut(s, vs, from) ==
  LET out[i \in 0 .. Len(vs)] == IF i = 0 THEN s ELSE RemoveName(out[i - 1], from, vs[i])
  IN  out[Len(vs)]
NamesIn(s, vs, to) ==
  LET in[i \in 0 .. Len(vs)] == IF i = 0 THEN s ELSE Reinsert(in[i - 1], to, vs[i])
  IN  in[Len(vs)]
MoveNames(s, vs, from, to) ==
  IF to = None THEN NamesOut(s, vs, from) ELSE NamesIn(NamesOut(s, vs, from), vs, to)

(* The list without the value. *)
Unlisted(seq, v) == RemoveAt(seq, CHOOSE i \in DOMAIN seq : seq[i] = v)

(* Mutant: the names in a block stay where they were. *)
SetParentAlone(s, v, p) ==
  LET a == IF s.parent[v] # None THEN AddGarbage(s, v) ELSE s
      b == [a EXCEPT !.parent[v] = p]
  IN  IF p # None THEN RemoveGarbage(b, v) ELSE b

(* setParent.  An instruction only tells the detector when it becomes an   *)
(* orphan or stops being one; a block takes its instructions' names along. *)
SetParent(s, v, p) ==
  LET old == s.parent[v]
      a == IF old # None /\ (v \in Insts => p = None) THEN AddGarbage(s, v) ELSE s
      b == [a EXCEPT !.parent[v] = p]
      c == IF v \in Blocks /\ old # p THEN MoveNames(b, s.list[v], old, p) ELSE b
  IN  IF p # None /\ (v \in Insts => old = None) THEN RemoveGarbage(c, v) ELSE c

(* addNodeToList, removeNodeFromList and transferNodesFromList. *)
AddNode(s, v, p, i) ==
  LET a == SetParent([s EXCEPT !.list[p] = InsertAt(@, i, v)], v, p)
  IN  Reinsert(a, ScopeOf(a, v), v)

(* Mutant: a value that is removed still points to where it was. *)
RemoveNodeOwned(s, v) ==
  RemoveName([s EXCEPT !.list[s.parent[v]] = Unlisted(@, v)], ScopeOf(s, v), v)
RemoveNode(s, v) ==
  LET p == s.parent[v]
      a == SetParent([s EXCEPT !.list[p] = Unlisted(@, v)], v, None)
  IN  RemoveName(a, ScopeOf(s, v), v)

TransferNode(s, v, p, i) ==
  LET old == s.parent[v]
      a == [[s EXCEPT !.list[old] = Unlisted(@, v)] EXCEPT !.list[p] = InsertAt(@, i, v)]
      from == ScopeOf(s, v)
      to == IF v \in Insts THEN s.parent[p] ELSE p
  IN  CASE old = p -> a
        [] old # p /\ from # to -> Reinsert(SetParent(RemoveName(a, from, v), v, p), to, v)
        [] OTHER -> SetParent(a, v, p)

(* ~Value, and ~BasicBlock, which clears its list first. *)
Destroy(s, v) == [RemoveGarbage(s, v) EXCEPT !.live = @ \ {v}, !.name[v] = NoName]
Cleared(s, vs) ==
  LET left[i \in 0 .. Len(vs)] ==
        IF i = 0 THEN s ELSE Destroy(RemoveNode(left[i - 1], vs[i]), vs[i])
  IN  left[Len(vs)]
Delete(s, v) == Destroy(IF v \in Blocks THEN Cleared(s, s.list[v]) ELSE s, v)

(* Value::setName. *)
SetName(s, v, n) ==
  IF s.name[v] = n THEN s
  ELSE PlaceName(RemoveName(s, ScopeOf(s, v), v), ScopeOf(s, v), v, n)

(* Mutant: the name is not taken out of the table it comes from. *)
TakeNameKeep(s, v, u) ==
  LET a == [RemoveName(s, ScopeOf(s, v), v) EXCEPT !.name[v] = NoName]
  IN  IF s.name[u] = NoName THEN a
      ELSE Reinsert([a EXCEPT !.name[v] = s.name[u], !.name[u] = NoName], ScopeOf(s, v), v)

(* takeName: within one table the entry changes hands. *)
TakeName(s, v, u) ==
  LET t == ScopeOf(s, v)
      a == [RemoveName(s, t, v) EXCEPT !.name[v] = NoName]
      taken(r) == [r EXCEPT !.name[v] = s.name[u], !.name[u] = NoName]
  IN  CASE s.name[u] = NoName -> a
        [] s.name[u] # NoName /\ t = ScopeOf(s, u) ->
             IF t = None THEN taken(a) ELSE [taken(a) EXCEPT !.table[t][s.name[u]] = v]
        [] OTHER -> LET b == taken(RemoveName(a, ScopeOf(s, u), u))
                    IN  IF t = None THEN b ELSE Reinsert(b, t, v)

(* A constructor: an orphan, inserted if a parent is given, then named. *)
Construct(s, v, p, n) ==
  LET a == AddGarbage([s EXCEPT !.live = @ \cup {v}], v)
      b == IF p = None THEN a ELSE AddNode(a, v, p, Len(a.list[p]) + 1)
  IN  SetName(b, v, n)
(* A global is named by the constructor of Value, before it is inserted. *)
ConstructGlobal(s, v, p, n) ==
  LET a == SetName(AddGarbage([s EXCEPT !.live = @ \cup {v}], v), v, n)
  IN  IF p = None THEN a ELSE AddNode(a, v, p, Len(a.list[p]) + 1)
-----------------------------------------------------------------------------
Init ==
  /\ ir = [live |-> {}, name |-> [v \in Named |-> NoName], parent |-> [v \in Named |-> None],
           list |-> [c \in Containers |-> << >>], table |-> [t \in Scopes |-> << >>],
           last |-> [t \in Scopes |-> 0], ts |-> {}, cache |-> None, failed |-> FALSE]
  /\ answer = <<NoName, None>>
  /\ missed = {}

Live(S) == S \cap ir.live
Orphans(s) == {v \in s.live : s.parent[v] = None}

(* Every step leaves these histories to date. *)
Becomes(s) ==
  /\ ir' = s
  /\ missed' = missed \cap Orphans(s)
  /\ answer' = <<NoName, None>>

Create ==
  \E v \in Named \ ir.live, n \in Names \cup {NoName} :
    \E p \in {None} \cup {c \in Owners(v) : c \in ir.live \cup Mods} :
      Becomes(IF v \in Funcs THEN ConstructGlobal(ir, v, p, n) ELSE Construct(ir, v, p, n))

Insert ==
  \E v \in Orphans(ir) : \E p \in Owners(v) \cap (ir.live \cup Mods) :
    \E i \in 1 .. Len(ir.list[p]) + 1 : Becomes(AddNode(ir, v, p, i))

RemoveFromParent ==
  \E v \in ir.live \ Orphans(ir) : Becomes(RemoveNode(ir, v))

EraseFromParent ==
  \E v \in Live(Insts \cup Blocks) \ Orphans(ir) : Becomes(Delete(RemoveNode(ir, v), v))

DeleteOrphan ==
  \E v \in Orphans(ir) \ Funcs : Becomes(Delete(ir, v))

MoveBefore ==
  \E v \in Live(Insts \cup Blocks) \ Orphans(ir) : \E p \in Owners(v) \cap ir.live :
    \E i \in 1 .. Len(ir.list[p]) : ir.list[p][i] # v /\ Becomes(TransferNode(ir, v, p, i))

Rename ==
  \E v \in ir.live, n \in Names \cup {NoName} : ir.name[v] # n /\ Becomes(SetName(ir, v, n))

Take ==
  \E v, u \in ir.live : v # u /\ Becomes(TakeName(ir, v, u))

(* Mutant: the internal function keeps its name. *)
MakeNoRoom(s, f) == s
MakeRoom(s, f) == SetName(s, f, NoName)

(* Module::getOrInsertFunction.  A function that others cannot see makes   *)
(* room for the one that is asked for, and gets its name back after it.    *)
GetOrInsertFunction ==
  \E m \in Mods, n \in Names :
    LET found == IF n \in DOMAIN ir.table[m] THEN ir.table[m][n] ELSE None
        made(s, f) == ConstructGlobal(s, f, m, n)
    IN  IF found # None /\ found \notin Internal
        THEN /\ answer' = <<n, found>> /\ UNCHANGED <<ir, missed>>
        ELSE \E f \in Funcs \ (ir.live \cup Internal) :
               LET s == IF found = None THEN made(ir, f)
                        ELSE SetName(made(MakeRoom(ir, found), f), found, n)
               IN  /\ ir' = s /\ answer' = <<n, f>>
                   /\ missed' = missed \cap Orphans(s)

(* checkForGarbage reports what is left, the object kept beside the set    *)
(* being added first, and forgets it.                                      *)
CheckForGarbage ==
  /\ ir' = [AddGarbage(ir, None) EXCEPT !.ts = {}, !.cache = None]
  /\ missed' = Orphans(ir)
  /\ answer' = <<NoName, None>>

Next ==
  /\ \A t \in Scopes : ir.last[t] < MaxUnique
  /\ \/ Create \/ Insert \/ RemoveFromParent \/ EraseFromParent \/ DeleteOrphan
     \/ MoveBefore \/ Rename \/ Take \/ GetOrInsertFunction \/ CheckForGarbage

Spec == Init /\ [][Next]_vars
-----------------------------------------------------------------------------
(* Fields and pointers agree: a value is in the list of its parent, once   *)
(* (Value.h:69-74, SymbolTableListTraits.h).                               *)
TypeOK ==
  /\ ir.live \subseteq Named /\ ir.ts \subseteq Named /\ ir.cache \in Named \cup {None}
  /\ \A v \in Named : ir.parent[v] \in Owners(v) \cup {None}
  /\ \A c \in Containers :
       /\ \A i, j \in DOMAIN ir.list[c] : ir.list[c][i] = ir.list[c][j] => i = j
       /\ Range(ir.list[c]) = {v \in ir.live : ir.parent[v] = c}

(* A table holds the names of exactly the values it is the table of: no    *)
(* entry is left behind or lost, whatever moves and is renamed             *)
(* (SymbolTableListTraitsImpl.h:30-114, Value.cpp:173-290).                *)
TablesExact ==
  \A t \in Scopes :
    /\ \A n \in DOMAIN ir.table[t] :
         LET v == ir.table[t][n]
         IN  v \in ir.live /\ ir.name[v] = n /\ ScopeOf(ir, v) = t
    /\ \A v \in ir.live : ScopeOf(ir, v) = t /\ ir.name[v] # NoName =>
         ir.name[v] \in DOMAIN ir.table[t] /\ ir.table[t][ir.name[v]] = v

(* The detector would report exactly the values that no one owns and that  *)
(* it has not reported before; its assertion on the cache holds            *)
(* (LeakDetector.cpp:43-76).                                               *)
LeaksExact == Reported(ir) = Orphans(ir) \ missed /\ ~ir.failed

(* What is looked up in a module is the external function of that very     *)
(* name (Module.cpp:141-171).                                              *)
AnswerHasName ==
  answer[2] # None => ir.name[answer[2]] = answer[1] /\ answer[2] \notin Internal
=============================================================================
