---------------------------- MODULE Unification ----------------------------
(***************************************************************************)
(* unify of prototypes/typeinference: two types, renamed apart, are made   *)
(* equal by a substitution that grows one variable at a time.  Besides     *)
(* types there are stacks of types, with variables of their own.           *)
(* The calls that are still to be made are the equations of todo.          *)
(***************************************************************************)
EXTENDS Naturals, Sequences, SequencesExt

CONSTANT Problems  \* the pairs of types given to testUnify

VARIABLES
  given,    \* the pair, renamed apart
  tve,      \* [n, s]: the next variable, and the substitution
  todo,     \* equations: the calls of unify that are to come
  outcome,  \* "running", "unified", "mismatch", "occurs" or "loops"
  stale     \* history: a variable was unified that already had a value

vars == <<given, tve, todo, outcome, stale>>

TInt == [k |-> "int"]
TFn(a, b) == [k |-> "fn", a |-> a, b |-> b]
TV(n) == [k |-> "tv", n |-> n]
TStV(n) == [k |-> "stv", n |-> n]
TStCons(r, t) == [k |-> "cons", a |-> r, b |-> t]
IsVar(t) == t.k \in {"tv", "stv"}
IsPair(t) == t.k \in {"fn", "cons"}
IsStack(t) == t.k \in {"stv", "cons"}

(* renametvs: the variables of a type, from left to right, get the next    *)
(* numbers of tve; ren has those met so far, its i-th becomes n + i - 1.   *)
(* A number met again gives the same variable, whatever its kind here.     *)
RECURSIVE Renamed(_, _)
Renamed(t, env) ==
  CASE IsPair(t) -> LET a == Renamed(t.a, env)
                        b == Renamed(t.b, a)
                    IN  [b EXCEPT !.t = [t EXCEPT !.a = a.t, !.b = b.t]]
    [] IsVar(t) ->
         LET i == SelectInSeq(env.ren, LAMBDA v : v.n = t.n)
             ren == IF i = 0 THEN Append(env.ren, t) ELSE env.ren
             at == IF i = 0 THEN Len(ren) ELSE i
         IN  [env EXCEPT !.t = [ren[at] EXCEPT !.n = env.n + at - 1], !.ren = ren]
    [] OTHER -> [env EXCEPT !.t = t]
renametvs(t, n) ==
  LET env == Renamed(t, [t |-> t, n |-> n, ren |-> << >>])
  IN  [t |-> env.t, n |-> n + Len(env.ren)]
-----------------------------------------------------------------------------
(* tvchase follows type variables, and stops at a stack variable. *)
RECURSIVE tvchase(_, _)
tvchase(s, t) == IF t.k = "tv" /\ t.n \in DOMAIN s THEN tvchase(s, s[t.n]) ELSE t

(* tvsub and tvstacksub.  Nothing stops them on a cyclic substitution.     *)
RECURSIVE tvsub(_, _)
tvsub(s, t) ==
  CASE IsPair(t) -> [t EXCEPT !.a = tvsub(s, @), !.b = tvsub(s, @)]
    [] IsVar(t) /\ t.n \in DOMAIN s -> tvsub(s, s[t.n])
    [] OTHER -> t

RECURSIVE VarsOf(_)
VarsOf(t) == CASE IsVar(t) -> {t.n} [] IsPair(t) -> VarsOf(t.a) \cup VarsOf(t.b)
               [] OTHER -> {}
RECURSIVE Reached(_, _)
Reached(s, vs) ==
  LET more == vs \cup UNION {VarsOf(s[v]) : v \in vs \cap DOMAIN s}
  IN  IF more = vs THEN vs ELSE Reached(s, more)
Acyclic(s) == \A v \in DOMAIN s : v \notin Reached(s, VarsOf(s[v]))

(* occurs, which follows the values of variables: "loops" when it comes    *)
(* back to a variable whose value it is in the middle of.                  *)
RECURSIVE occurs(_, _, _, _)
occurs(v, t, s, path) ==
  CASE IsPair(t) -> LET first == occurs(v, IF t.k = "fn" THEN t.a ELSE t.b, s, path)
                    IN  IF first = "no"
                        THEN occurs(v, IF t.k = "fn" THEN t.b ELSE t.a, s, path)
                        ELSE first
    [] IsVar(t) /\ t.n \notin DOMAIN s -> IF t.n = v THEN "occurs" ELSE "no"
    [] IsVar(t) -> IF t.n \in path THEN "loops"
                   ELSE occurs(v, s[t.n], s, path \cup {t.n})
    [] OTHER -> "no"

Result(eqs, s, out) == [eqs |-> eqs, s |-> s, out |-> out]
tvext(s, v, t) == [x \in DOMAIN s \cup {v} |-> IF x = v THEN t ELSE s[x]]

(* unifyv and unifysv: a variable of the same kind is bound unchecked. *)
Bind(v, t, s) ==
  LET found == occurs(v.n, t, s, {})
  IN  CASE t = v -> Result(<< >>, s, "running")
        [] t # v /\ t.k = v.k -> Result(<< >>, tvext(s, v.n, t), "running")
        [] t.k # v.k /\ found # "no" -> Result(<< >>, s, found)
        [] OTHER -> Result(<< >>, tvext(s, v.n, t), "running")

(* unify1: what becomes of one equation between two chased types. *)
unify1(a, b, s) ==
  CASE a.k = "int" /\ b.k = "int" -> Result(<< >>, s, "running")
    [] a.k = "fn" /\ b.k = "fn" -> Result(<< <<a.a, b.a>>, <<a.b, b.b>> >>, s, "running")
    [] a.k = "tv" -> Bind(a, b, s)
    [] a.k # "tv" /\ b.k = "tv" -> Bind(b, a, s)
    [] a.k = "cons" /\ b.k = "cons" -> Result(<< <<a.b, b.b>>, <<a.a, b.a>> >>, s, "running")
    [] a.k = "stv" /\ IsStack(b) -> Bind(a, b, s)
    [] a.k = "cons" /\ b.k = "stv" -> Bind(b, a, s)
    [] OTHER -> Result(<< >>, s, "mismatch")

(* The recursive calls of unify, one after the other, to the end. *)
RECURSIVE Unified(_, _)
Going(r, eqs) == IF r.out = "running" THEN Unified(r.eqs \o eqs, r.s) ELSE r
Unified(eqs, s) ==
  IF eqs = << >> THEN Result(<< >>, s, "unified")
  ELSE Going(unify1(tvchase(s, Head(eqs)[1]), tvchase(s, Head(eqs)[2]), s), Tail(eqs))
-----------------------------------------------------------------------------
HasValue(s, t) == IsVar(t) /\ t.n \in DOMAIN s

(* testUnify: both types are renamed, from one supply of variables. *)
Init ==
  \E p \in Problems :
    LET l == renametvs(p[1], 0)
        r == renametvs(p[2], l.n)
    IN  /\ given = <<l.t, r.t>>
        /\ tve = [n |-> r.n, s |-> << >>]
        /\ todo = <<given>>
        /\ outcome = "running"
        /\ stale = FALSE

(* Mutant: no variable is followed. *)
Unchased(e) == e
Chased(e) == <<tvchase(tve.s, e[1]), tvchase(tve.s, e[2])>>
(* The calls to come (mutant: of two functions only the arguments).        *)
FurtherOne(eqs) == (IF eqs = << >> THEN eqs ELSE <<Head(eqs)>>) \o Tail(todo)
Further(eqs) == eqs \o Tail(todo)

(* The next call of unify, up to the calls it makes. *)
Unify ==
  /\ outcome = "running" /\ todo # << >>
  /\ LET e == Chased(Head(todo))
         r == unify1(e[1], e[2], tve.s)
     IN  /\ todo' = Further(r.eqs)
         /\ tve' = [tve EXCEPT !.s = r.s]
         /\ outcome' = r.out
         /\ stale' = (stale \/ HasValue(tve.s, e[1]) \/ HasValue(tve.s, e[2]))
  /\ UNCHANGED given

(* testUnify prints the result, unless tvsub does not come back. *)
Finish ==
  /\ outcome = "running" /\ todo = << >>
  /\ outcome' = IF Acyclic(tve.s) THEN "unified" ELSE "loops"
  /\ UNCHANGED <<given, tve, todo, stale>>

Done == outcome # "running" /\ UNCHANGED vars

Next == Unify \/ Finish \/ Done
Spec == Init /\ [][Next]_vars
-----------------------------------------------------------------------------
(* What unification means: one equation at a time, and its solution is put *)
(* everywhere at once.  ans is the instance of the pair so far.            *)
RECURSIVE Put(_, _, _)
Put(v, u, t) == CASE t = v -> u
                  [] IsPair(t) -> [t EXCEPT !.a = Put(v, u, @), !.b = Put(v, u, @)]
                  [] OTHER -> t

RECURSIVE Robinson(_, _)
Robinson(eqs, ans) ==
  IF eqs = << >> THEN [out |-> "unified", ans |-> ans]
  ELSE
    LET a == Head(eqs)[1]
        b == Head(eqs)[2]
        rest == Tail(eqs)
        solve(v, u) ==
          IF v.n \in VarsOf(u) THEN [out |-> "occurs", ans |-> ans]
          ELSE Robinson([i \in DOMAIN rest |-> <<Put(v, u, rest[i][1]), Put(v, u, rest[i][2])>>],
                        [i \in DOMAIN ans |-> Put(v, u, ans[i])])
    IN  CASE a = b -> Robinson(rest, ans)
          [] a # b /\ IsPair(a) /\ b.k = a.k -> Robinson(<< <<a.b, b.b>>, <<a.a, b.a>> >> \o rest, ans)
          [] a.k = "tv" /\ a # b -> solve(a, b)
          [] a.k # "tv" /\ b.k = "tv" -> solve(b, a)
          [] a.k = "stv" /\ IsStack(b) /\ a # b -> solve(a, b)
          [] a.k = "cons" /\ b.k = "stv" -> solve(b, a)
          [] OTHER -> [out |-> "mismatch", ans |-> ans]

SameUpToNames(t, u) == renametvs(t, 0).t = renametvs(u, 0).t

(* As long as the variables it meets have no value yet, as tvchase sees to *)
(* for all but stack variables, unify succeeds exactly when a unifier      *)
(* exists, and what testUnify prints is the most general common instance   *)
(* of the two types (TypeInference.scala:313-322).                         *)
UnifiesAsRobinson ==
  outcome # "running" /\ ~stale =>
    LET ref == Robinson(<<given>>, given)
    IN  /\ outcome # "loops"
        /\ (outcome = "unified") = (ref.out = "unified")
        /\ outcome = "unified" =>
             /\ tvsub(tve.s, given[1]) = tvsub(tve.s, given[2])
             /\ SameUpToNames(TFn(tvsub(tve.s, given[1]), tvsub(tve.s, given[2])),
                              TFn(ref.ans[1], ref.ans[2]))

(* Only a stack variable is ever given a second value, tvchase having      *)
(* followed the others (TypeInference.scala:120-128, 134).                 *)
IsTypeVariable(v) == \E i \in 1..2 : Put(TV(v), TInt, given[i]) # given[i]
TypeVariablesKeepValue ==
  [][\A v \in DOMAIN tve.s : IsTypeVariable(v) => tve'.s[v] = tve.s[v]]_vars

(* The line that testUnify prints, "Result: t1 = t2", is an equation       *)
(* between two equal types (TypeInference.scala:321).                      *)
ResultIsEqual ==
  outcome = "unified" => tvsub(tve.s, given[1]) = tvsub(tve.s, given[2])
=============================================================================
