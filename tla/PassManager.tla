---------------------------- MODULE PassManager ----------------------------
(***************************************************************************)
(* Passes are scheduled one by one: the analyses that a pass requires are  *)
(* put before it, in managers for modules, functions and blocks, and each  *)
(* analysis is given a last user after which its memory is released.  Then *)
(* the managers run what they contain.  What is promised to a pass is that *)
(* the analyses it requires are there, and true of what it runs on.        *)
(***************************************************************************)
EXTENDS Naturals, Sequences, FiniteSets, SequencesExt

CONSTANTS
  Classes,    \* the registered passes, in the order in which they may require
  Analysis,   \* the classes that are analyses
  Usages,     \* for each class, what its usage may be: level, req, trans, keeps
  Funcs,      \* the functions of the module
  Blocks,     \* the blocks of each function
  MaxPasses,  \* bound: no pass is added when there are this many
  None

VARIABLES
  cls,   \* what getAnalysisUsage says for each class, and its level
  tpm,   \* PassManagerImpl: see NewTop
  bad    \* history: <<class, what>> for each analysis that was not as promised

vars == <<cls, tpm, bad>>

Immutable == 0
ModuleLevel == 1
FunctionLevel == 2
BlockLevel == 3
ToSeqOf(S) == SelectSeq(Classes, LAMBDA c : c \in S)
Get(f, k, d) == IF k \in DOMAIN f THEN f[k] ELSE d
Put(f, k, v) == [x \in DOMAIN f \cup {k} |-> IF x = k THEN v ELSE f[x]]
-----------------------------------------------------------------------------
(* A top level manager: its managers and their passes, numbered; manager 1 *)
(* is at the bottom of the stack.  A pass that is a manager has sub.       *)
NewTop(level) ==
  [mgr |-> <<[level |-> level, depth |-> 1, passes |-> << >>, avail |-> << >>, inh |-> << >>, self |-> 0]>>,
   inst |-> << >>, stack |-> <<1>>, imm |-> << >>, lastUser |-> << >>, inverse |-> << >>,
   fly |-> << >>, impl |-> << >>, lost |-> {}, failed |-> FALSE]

Top(t) == Last(t.stack)
ClassOf(t, i) == t.inst[i].cls
RequiredSet(c) == IF c \in ToSet(Classes) THEN ToSeqOf(cls[c].req) \o ToSeqOf(cls[c].trans) ELSE << >>
Preserves(c, id) == c \notin ToSet(Classes) \/ id \in cls[c].keeps

(* findAnalysisPass: in any manager, then among the immutable passes. *)
FindAnalysis(t, id) ==
  LET ms == SelectSeq([m \in DOMAIN t.mgr |-> m], LAMBDA m : id \in DOMAIN t.mgr[m].avail)
      is == SelectSeq(t.imm, LAMBDA i : ClassOf(t, i) = id)
  IN  CASE ms # << >> -> t.mgr[ms[1]].avail[id]
        [] ms = << >> /\ is # << >> -> is[1]
        [] OTHER -> None
FindFrom(t, m, id) == IF id \in DOMAIN t.mgr[m].avail THEN t.mgr[m].avail[id] ELSE FindAnalysis(t, id)

Depth(t, i) == IF i \in ToSet(t.imm) THEN 0 ELSE t.mgr[t.inst[i].m].depth

(* Mutant: the first user stays the last. *)
SetLastUserFirst(t, aps, p) ==
  FoldLeft(LAMBDA r, ap : [r EXCEPT !.lastUser = IF ap \in DOMAIN @ /\ @[ap] # ap THEN @ ELSE Put(@, ap, p)], t, aps)
SetLastUser(t, aps, p) ==
  FoldLeft(LAMBDA r, ap :
    LET u == Put(r.lastUser, ap, p)
    IN  [r EXCEPT !.lastUser = [x \in DOMAIN u |-> IF u[x] = ap /\ p # ap THEN p ELSE u[x]]], t, aps)

Kept(avail, c) == [id \in {x \in DOMAIN avail : Preserves(c, x)} |-> avail[id]]

(* removeNotPreservedAnalysis, in the manager and those it inherits from. *)
RemoveNotPreserved(t, m, c) ==
  FoldLeft(LAMBDA r, x : [r EXCEPT !.mgr[x].avail = Kept(@, c)], t, Append(t.mgr[m].inh, m))

RecordAvailable(t, m, i) ==
  IF ClassOf(t, i) \in ToSet(Classes) THEN [t EXCEPT !.mgr[m].avail = Put(@, ClassOf(t, i), i)] ELSE t

(* Mutant: a manager that is left still offers its analyses. *)
PopOffering(t) == [t EXCEPT !.stack = Front(@)]
Pop(t) == [t EXCEPT !.mgr[Top(t)].avail = << >>, !.mgr[Top(t)].inh = << >>, !.stack = Front(@)]
RECURSIVE PopAbove(_, _)
PopAbove(t, level) == IF t.mgr[Top(t)].level > level THEN PopAbove(Pop(t), level) ELSE t

NewInst(t, c, m, sub) == [t EXCEPT !.inst = Append(@, [cls |-> c, m |-> m, sub |-> sub])]
-----------------------------------------------------------------------------
RECURSIVE Schedule(_, _), Require(_, _, _, _), Assign(_, _), AddTo(_, _, _)

(* PMDataManager::add: i, of manager m, is the last user of what it        *)
(* requires; of what a manager above it has, the manager of i is.  What a  *)
(* module pass requires of functions is scheduled in a manager of its own. *)
AddTo(t, m, i) ==
  LET c == ClassOf(t, i)
      reqs == RequiredSet(c)
      found == SelectSeq(reqs, LAMBDA id : FindFrom(t, m, id) # None)
      rp == [k \in DOMAIN found |-> FindFrom(t, m, found[k])]
      missing == SelectSeq(reqs, LAMBDA id : FindFrom(t, m, id) = None)
      same == SelectSeq(rp, LAMBDA r : Depth(t, r) = t.mgr[m].depth)
      above == SelectSeq(rp, LAMBDA r : Depth(t, r) < t.mgr[m].depth)
      own == IF t.inst[i].sub = None THEN Append(same, i) ELSE same
      u == SetLastUser(SetLastUser(t, own, i), above, t.mgr[m].self)
      lower(r, id) ==
        LET old == Get(r.fly, i, NewTop(FunctionLevel))
            f == Schedule(old, id)
            given == IF Len(f.inst) = Len(old.inst) THEN f ELSE SetLastUser(f, <<FindAnalysis(f, id)>>, 0)
        IN  IF t.mgr[m].level # ModuleLevel \/ f.failed THEN [r EXCEPT !.failed = TRUE]
            ELSE [r EXCEPT !.fly = Put(@, i, given)]
      v == FoldLeft(lower, u, missing)
      w == RecordAvailable(RemoveNotPreserved(v, m, c), m, i)
  IN  [w EXCEPT !.mgr[m].passes = Append(@, i), !.failed = @ \/ Len(same) + Len(above) < Len(rp)]

(* assignPassManager: the manager on the stack for the level of i, or a    *)
(* new one, which is itself added to a manager as a pass.                  *)
NewManager(t, level, inh) ==
  [NewInst(t, "manager", None, Len(t.mgr) + 1) EXCEPT
     !.mgr = Append(@, [level |-> level, depth |-> t.mgr[Top(t)].depth + 1, passes |-> << >>,
                        avail |-> << >>, inh |-> inh, self |-> Len(t.inst) + 1])]
PushNew(t, level, inh) ==
  LET u == NewManager(t, level, inh)
      v == IF level = FunctionLevel THEN AddTo([u EXCEPT !.inst[Len(u.inst)].m = Top(u)], Top(u), Len(u.inst))
           ELSE Assign(u, Len(u.inst))
  IN  [v EXCEPT !.stack = Append(@, Len(u.mgr))]
Assign(t, i) ==
  LET level == IF t.inst[i].sub # None THEN FunctionLevel ELSE cls[ClassOf(t, i)].level
      p == IF level = BlockLevel THEN t ELSE PopAbove(t, level)
      r == IF t.mgr[Top(p)].level = level THEN p
           ELSE PushNew(p, level, IF level = FunctionLevel THEN Reverse(p.stack) ELSE << >>)
  IN  AddTo([r EXCEPT !.inst[i].m = Top(r)], Top(r), i)

(* schedulePass.  After an analysis of a higher level the others are       *)
(* looked for again; one of a lower level is left to run on the fly.       *)
Require(t, c, todo, again) ==
  CASE todo = << >> -> IF again THEN Require(t, c, ToSeqOf(cls[c].req), FALSE) ELSE t
    [] todo # << >> /\ FindAnalysis(t, Head(todo)) = None /\ cls[Head(todo)].level <= cls[c].level ->
         Require(Schedule(t, Head(todo)), c, Tail(todo), again \/ cls[Head(todo)].level < cls[c].level)
    [] OTHER -> Require(t, c, Tail(todo), again)
Schedule(t, c) ==
  IF c \in Analysis /\ FindAnalysis(t, c) # None THEN [t EXCEPT !.lost = @ \cup {c}]
  ELSE IF cls[c].level = ModuleLevel /\ t.mgr[1].level = FunctionLevel THEN [t EXCEPT !.failed = TRUE]
  ELSE LET r == Require(t, c, ToSeqOf(cls[c].req), FALSE)
           i == Len(r.inst) + 1
           n == NewInst(r, c, None, None)
       IN  IF cls[c].level = Immutable THEN [n EXCEPT !.imm = Append(@, i)] ELSE Assign(n, i)
-----------------------------------------------------------------------------
(* Mutant: the passes of a last user are collected in the first run only. *)
InitializeOnce(t) ==
  [t EXCEPT !.mgr = [m \in DOMAIN t.mgr |-> [t.mgr[m] EXCEPT !.avail = << >>, !.inh = << >>]],
            !.inverse = IF t.inverse # << >> THEN t.inverse
                        ELSE [p \in {t.lastUser[x] : x \in DOMAIN t.lastUser} |->
                                {x \in DOMAIN t.lastUser : t.lastUser[x] = p}]]
(* A run, r: the managers in r.t, what each analysis is true of in r.truth,*)
(* and what was not as promised in r.bad.  What each pass was given, t.impl*)
(* (AnalysisImpls of its resolver), is kept from run to run.               *)
InitializeAllAnalysisInfo(t) ==
  [t EXCEPT !.mgr = [m \in DOMAIN t.mgr |-> [t.mgr[m] EXCEPT !.avail = << >>, !.inh = << >>]],
            !.inverse = [p \in DOMAIN t.inverse \cup {t.lastUser[x] : x \in DOMAIN t.lastUser} |->
                           Get(t.inverse, p, {}) \cup {x \in DOMAIN t.lastUser : t.lastUser[x] = p}]]

(* Mutant: memory is released, the map still offers the analysis. *)
RemoveDeadOffering(r, m, i) ==
  [r EXCEPT !.truth = [x \in DOMAIN r.truth |-> IF x \in Get(r.t.inverse, i, {}) THEN [r.truth[x] EXCEPT !.how = "freed"] ELSE r.truth[x]]]
(* removeDeadPasses: whatever the map offers for the class of a dead pass  *)
(* goes, a newer instance too.                                             *)
RemoveDead(r, m, i) ==
  LET dead == Get(r.t.inverse, i, {})
      gone == {ClassOf(r.t, d) : d \in dead}
  IN  [r EXCEPT !.t.mgr[m].avail = [id \in DOMAIN @ \ gone |-> @[id]],
                !.truth = [x \in DOMAIN r.truth |-> IF x \in dead THEN [r.truth[x] EXCEPT !.how = "freed"] ELSE r.truth[x]]]

(* The truth of the analysis i on the unit u: pass i of function f is of f,*)
(* a pass of the module is of all of it.                                   *)
Covers(unit, u) == Len(unit) <= Len(u) /\ SubSeq(u, 1, Len(unit)) = unit
Promise(r, i, id, u) ==
  LET given == Get(r.t.impl, <<i, id>>, None)
      state == IF given = None THEN "missing"
               ELSE IF given \in ToSet(r.t.imm) THEN "good"
               ELSE IF given \notin DOMAIN r.truth THEN "not run"
               ELSE IF ~Covers(r.truth[given].unit, u) THEN "of another unit" ELSE r.truth[given].how
  IN  IF state = "good" THEN {} ELSE {<<ClassOf(r.t, i), state>>}
(* What a given analysis requires transitively lives as long as it does.   *)
Transitive(r, i, id) ==
  LET given == Get(r.t.impl, <<i, id>>, None)
  IN  IF given = None THEN {}
      ELSE {<<ClassOf(r.t, i), "transitive">> :
              x \in {y \in cls[id].trans : LET g == Get(r.t.impl, <<given, y>>, None)
                                           IN  g \in DOMAIN r.truth /\ r.truth[g].how = "freed"}}

(* runOnFunction of a manager, for each pass: initializeAnalysisImpl, the  *)
(* pass itself, and the analyses that it ends or makes available.          *)
InitializeAnalysisImpl(r, m, i, ids) ==
  LET pairs == {<<i, id>> : id \in {x \in ids : FindFrom(r.t, m, x) # None}}
  IN  [r EXCEPT !.t.impl = [k \in DOMAIN @ \cup pairs |-> IF k \in DOMAIN @ THEN @[k] ELSE FindFrom(r.t, m, k[2])]]
EachFunc == [f \in 1..Cardinality(Funcs) |-> f]
RECURSIVE RunPasses(_, _, _, _), RunFly(_, _, _)
RunLeaf(r, m, i, u) ==
  LET c == ClassOf(r.t, i)
      ids == ToSet(RequiredSet(c))
      p == InitializeAnalysisImpl(r, m, i, ids)
      lower == {id \in ids : cls[id].level > cls[c].level}
      b == UNION {Promise(p, i, id, u) \cup Transitive(p, i, id) : id \in ids \ lower}
      fly == IF i \in DOMAIN p.t.fly /\ lower # {}
             THEN FoldLeft(LAMBDA q, f : RunFly(q, f, lower), [t |-> p.t.fly[i], bad |-> {}], EachFunc)
             ELSE [t |-> Get(p.t.fly, i, None), bad |-> {}]
      after == [x \in DOMAIN p.truth \cup {i} |->
                  IF x = i THEN [unit |-> u, how |-> "good"]
                  ELSE IF p.truth[x].how = "good" /\ ~Preserves(c, ClassOf(r.t, x))
                       THEN [p.truth[x] EXCEPT !.how = "stale"] ELSE p.truth[x]]
      held == IF i \in DOMAIN r.truth /\ r.truth[i].how # "freed" THEN {<<c, "held">>} ELSE {}
      ran == [p.t EXCEPT !.fly = [x \in DOMAIN @ |-> IF x = i THEN fly.t ELSE @[x]]]
  IN  RemoveDead([p EXCEPT !.t = RecordAvailable(RemoveNotPreserved(ran, m, c), m, i), !.truth = after,
                           !.bad = @ \cup b \cup fly.bad \cup held], m, i)
RunOnBlocks(r, m, u) ==
  FoldLeft(LAMBDA q, b : FoldLeft(LAMBDA x, i : RunLeaf(x, m, i, Append(u, b)), q, r.t.mgr[m].passes),
           r, [b \in 1..Cardinality(Blocks) |-> b])
RunOnFunctions(r, m) ==
  FoldLeft(LAMBDA q, f : RunPasses([q EXCEPT !.t.mgr[m].inh = Reverse(q.t.stack)], m, <<f>>, q.t.mgr[m].passes),
           r, EachFunc)
RunPasses(r, m, u, todo) ==
  IF todo = << >> THEN r
  ELSE LET i == Head(todo)
           sub == r.t.inst[i].sub
           all == IF r.t.mgr[sub].level = FunctionLevel THEN RunOnFunctions(r, sub) ELSE RunOnBlocks(r, sub, u)
       IN  RunPasses(IF sub = None THEN RunLeaf(r, m, i, u) ELSE RemoveDead(all, m, i), m, u, Tail(todo))
NewRun(t) == [t |-> InitializeAllAnalysisInfo(t), truth |-> << >>, bad |-> {}]
(* getOnTheFlyPass: the function manager of a module pass, run for f. *)
RunFly(q, f, ids) ==
  LET t == q.t
      r == RunPasses([NewRun(t) EXCEPT !.t.mgr[1].inh = Reverse(t.stack)], 1, <<f>>, t.mgr[1].passes)
      state(id) == LET i == FindAnalysis(r.t, id)
                   IN  IF i = None THEN "missing" ELSE r.truth[i].how
  IN  [t |-> r.t, bad |-> q.bad \cup r.bad \cup {<<id, state(id)>> : id \in {x \in ids : state(x) # "good"}}]
-----------------------------------------------------------------------------
RECURSIVE UsagesOf(_)
UsagesOf(cs) ==
  IF cs = << >> THEN {<< >>} ELSE {Put(f, Last(cs), u) : f \in UsagesOf(Front(cs)), u \in Usages[Last(cs)]}

Init ==
  /\ cls \in UsagesOf(Classes)
  /\ tpm = NewTop(ModuleLevel)
  /\ bad = {}

Add(c) ==
  /\ ~tpm.failed /\ Len(tpm.inst) < MaxPasses
  /\ tpm' = Schedule(tpm, c)
  /\ bad' = IF tpm'.failed THEN {<<c, "cannot be scheduled">>} ELSE {}
  /\ UNCHANGED cls

(* PassManagerImpl::run. *)
Run ==
  /\ ~tpm.failed
  /\ LET r == RunPasses(NewRun(tpm), 1, << >>, tpm.mgr[1].passes)
     IN  tpm' = r.t /\ bad' = r.bad
  /\ UNCHANGED cls

Next == Run \/ \E c \in ToSet(Classes) : Add(c)
Spec == Init /\ [][Next]_vars
-----------------------------------------------------------------------------
(* Each analysis that a pass requires is there when it runs, was computed  *)
(* on what the pass runs on, has not been released, and no pass has run    *)
(* since that does not preserve it; and what can be required can be        *)
(* scheduled.  PMDataManager::initializeAnalysisImpl, setLastUser.         *)
Promised == \A b \in bad : b[2] \in {"transitive", "held"}
(* The memory of every pass is released after its last user and before it  *)
(* runs again: removeDeadPasses, collectLastUses.                          *)
NothingHeld == \A b \in bad : b[2] # "held"
=============================================================================
