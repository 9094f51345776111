--------------------------- MODULE TypeInference ---------------------------
(***************************************************************************)
(* teval of prototypes/typeinference: the type of a term is inferred by    *)
(* running unify.  Checked against running the term, and against the types *)
(* it has by the typing rules, which guess where the code unifies.         *)
(***************************************************************************)
EXTENDS Naturals, Sequences, SequencesExt, TLC

CONSTANTS
  Terms,   \* the terms given to printType
  Ground,  \* bound: the types the typing rules may guess
  Fuel     \* bound: how deeply a term is run

VARIABLES term, result  \* result: [out, t], or NotYet before it is printed

vars == <<term, result>>

U == INSTANCE Unification WITH Problems <- {}, given <- << >>, tve <- << >>,
                               todo <- << >>, outcome <- "running", stale <- FALSE

V(x) == [k |-> "V", x |-> x]
L(x, e) == [k |-> "L", x |-> x, es |-> <<e>>]
A(e1, e2) == [k |-> "A", es |-> <<e1, e2>>]
I(v) == [k |-> "I", v |-> v]
Plus(e1, e2) == [k |-> "+", es |-> <<e1, e2>>]
IFZ(e1, e2, e3) == [k |-> "IFZ", es |-> <<e1, e2, e3>>]
Fix(e) == [k |-> "Fix", es |-> <<e>>]
SW(t) == [k |-> "SW", t |-> t]
QNil == [k |-> "QNil"]
QCons(w, q) == [k |-> "QCons", es |-> <<w, q>>]

NotYet == [out |-> "pending", t |-> U!TInt]

(* env maps a name to a type; ext puts the newest binding in front. *)
ext(env, x, t) == (x :> t) @@ env
-----------------------------------------------------------------------------
(* An answer: the type, and the TVE that is threaded through; or why not. *)
Answer(t, n, s) == [out |-> "unified", t |-> t, n |-> n, s |-> s]
Failure(why) == [out |-> why, t |-> U!TInt, n |-> 0, s |-> << >>]
OK(r) == r.out = "unified"

(* The answer t after unifying a with b, if that succeeds. *)
Concluded(u, t, n) == IF OK(u) THEN Answer(t, n, u.s) ELSE Failure(u.out)
Unifying(a, b, r, t) ==
  IF U!Acyclic(r.s) THEN Concluded(U!Unified(<< <<a, b>> >>, r.s), t, r.n) ELSE Failure("loops")

(* teval1 on the subterms in order, each in the TVE the last one left. *)
RECURSIVE teval1(_, _, _, _)
Each(env, es, n, s) ==
  Tail(FoldLeft(LAMBDA rs, e : Append(rs, IF OK(Last(rs)) THEN teval1(env, e, Last(rs).n, Last(rs).s)
                                          ELSE Last(rs)),
                <<Answer(U!TInt, n, s)>>, es))

Abstracted(x, n, r) == IF OK(r) THEN Answer(U!TFn(U!TV(n), r.t), r.n, r.s) ELSE r

(* Mutant: the variable made for the result stays free in the TVE. *)
AppliedStale(f, a) == Unifying(f.t, U!TFn(a.t, U!TV(a.n)), a, U!TV(a.n))
Applied(f, a) ==
  Unifying(f.t, U!TFn(a.t, U!TV(a.n)), [a EXCEPT !.n = @ + 1], U!TV(a.n))

Added(a, b) ==
  LET sum(right) == IF OK(right) THEN Unifying(a.t, U!TInt, right, U!TInt) ELSE right
  IN  sum(Unifying(b.t, U!TInt, b, U!TInt))

(* Mutant: the condition may have any type. *)
ChosenAny(c, a, b) == Unifying(a.t, b.t, b, a.t)
Chosen(c, a, b) ==
  LET choice(cond) == IF OK(cond) THEN Unifying(a.t, b.t, cond, a.t) ELSE cond
  IN  choice(Unifying(c.t, U!TInt, b, a.t))

Fixed(f) ==
  LET fn == U!TFn(U!TV(f.n), U!TV(f.n + 1))
  IN  Unifying(f.t, U!TFn(fn, fn), [f EXCEPT !.n = @ + 2], fn)

(* A word and the rest of the quotation: both are functions by now, or the *)
(* match in the code fails.                                                *)
Composed(w, q) ==
  IF w.t.k = "fn" /\ q.t.k = "fn"
  THEN Unifying(w.t.b, q.t.a, q, U!TFn(w.t.a, q.t.b))
  ELSE Failure("mismatch")

Combined(k, rs) ==
  CASE ~OK(Last(rs)) -> Last(rs)
    [] OK(Last(rs)) /\ k = "A" -> Applied(rs[1], rs[2])
    [] OK(Last(rs)) /\ k = "+" -> Added(rs[1], rs[2])
    [] OK(Last(rs)) /\ k = "IFZ" -> Chosen(rs[1], rs[2], rs[3])
    [] OK(Last(rs)) /\ k = "Fix" -> Fixed(rs[1])
    [] OK(Last(rs)) /\ k = "QCons" -> Composed(rs[1], rs[2])

teval1(env, e, n, s) ==
  CASE e.k = "V" -> IF e.x \in DOMAIN env THEN Answer(env[e.x], n, s) ELSE Failure("unbound")
    [] e.k = "I" -> Answer(U!TInt, n, s)
    [] e.k = "L" -> Abstracted(e.x, n, teval1(ext(env, e.x, U!TV(n)), e.es[1], n + 1, s))
    [] e.k = "SW" -> LET r == U!renametvs(e.t, n) IN Answer(r.t, r.n, s)
    [] e.k = "QNil" -> Answer(U!TFn(U!TV(n), U!TV(n)), n + 1, s)
    [] OTHER -> Combined(e.k, Each(env, e.es, n, s))

Reported(r) == IF OK(r) THEN [out |-> "typed", t |-> U!tvsub(r.s, r.t)] ELSE [out |-> r.out, t |-> r.t]
teval(e) == Reported(teval1(<< >>, e, 0, << >>))

Start(e) == term = e /\ result = NotYet
Init == \E e \in Terms : Start(e)

PrintType == result = NotYet /\ result' = teval(term) /\ UNCHANGED term
Printed == result # NotYet /\ UNCHANGED vars

Next == PrintType \/ Printed
Spec == Init /\ [][Next]_vars
-----------------------------------------------------------------------------
(* Running a term: call by value; a function that Fix made unrolls itself. *)
Number(v) == [k |-> "int", v |-> v]
Wrong == [k |-> "wrong"]
Long == [k |-> "long"]
Stuck(v) == v.k \in {"wrong", "long"}

RECURSIVE Value(_, _, _)
RECURSIVE Call(_, _, _)
Value(e, env, fuel) ==
  IF fuel = 0 THEN Long
  ELSE CASE e.k = "V" -> IF e.x \in DOMAIN env THEN env[e.x] ELSE Wrong
         [] e.k = "I" -> Number(e.v)
         [] e.k = "L" -> [k |-> "fn", x |-> e.x, e |-> e.es[1], env |-> env]
         [] e.k = "Fix" -> LET f == Value(e.es[1], env, fuel - 1)
                           IN  IF Stuck(f) THEN f ELSE [k |-> "fix", f |-> f]
         [] OTHER ->
              LET a == Value(e.es[1], env, fuel - 1)
              IN  CASE Stuck(a) -> a
                    [] e.k = "IFZ" /\ a.k # "int" -> Wrong
                    [] e.k = "IFZ" /\ a.k = "int" ->
                         Value(e.es[IF a.v = 0 THEN 2 ELSE 3], env, fuel - 1)
                    [] OTHER ->
                         LET b == Value(e.es[2], env, fuel - 1)
                         IN  CASE Stuck(b) -> b
                               [] ~Stuck(b) /\ e.k = "A" -> Call(a, b, fuel - 1)
                               [] OTHER -> IF a.k = "int" /\ b.k = "int"
                                           THEN Number(a.v + b.v) ELSE Wrong
Call(f, b, fuel) ==
  IF fuel = 0 THEN Long
  ELSE CASE f.k = "fn" -> Value(f.e, ext(f.env, f.x, b), fuel - 1)
         [] f.k = "fix" -> LET g == Call(f.f, f, fuel - 1)
                           IN  IF Stuck(g) THEN g ELSE Call(g, b, fuel - 1)
         [] OTHER -> Wrong

(* The typing rules: e has type t under env, guessing types of Ground. *)
RECURSIVE TypesOf(_, _)
TypesOf(e, env) ==
  CASE e.k = "V" -> IF e.x \in DOMAIN env THEN {env[e.x]} ELSE {}
    [] e.k = "I" -> {U!TInt}
    [] e.k = "L" -> UNION {{U!TFn(a, b) : b \in TypesOf(e.es[1], ext(env, e.x, a))} : a \in Ground}
    [] e.k = "A" -> LET args == TypesOf(e.es[2], env)
                    IN  {f.b : f \in {f \in TypesOf(e.es[1], env) : f.k = "fn" /\ f.a \in args}}
    [] e.k = "+" -> {t \in {U!TInt} : \A i \in 1..2 : t \in TypesOf(e.es[i], env)}
    [] e.k = "IFZ" -> {t \in TypesOf(e.es[2], env) :
                         t \in TypesOf(e.es[3], env) /\ U!TInt \in TypesOf(e.es[1], env)}
    [] e.k = "Fix" -> {t.a : t \in {t \in TypesOf(e.es[1], env) : t.k = "fn" /\ t.a = t.b /\ t.a.k = "fn"}}

IsLambda(e) == e.k \notin {"SW", "QNil", "QCons"}
IsInstance(t, u) == OK(U!Unified(<< <<u, t>> >>, << >>))

(* A term that has a type does not go wrong, and is an integer if its type *)
(* says so (TypeInference.scala:190-259).                                  *)
TypedTermsRun ==
  IsLambda(term) /\ result.out = "typed" =>
    LET v == Value(term, << >>, Fuel)
    IN  v # Wrong /\ (v.k # "long" => (v.k = "int") = (result.t.k = "int"))

(* No other type is more general: every type the rules give the term is an *)
(* instance of the inferred one, and a rejected term has none              *)
(* (TypeInference.scala:142-187).                                          *)
MostGeneral ==
  IsLambda(term) /\ result # NotYet =>
    \A t \in TypesOf(term, << >>) : result.out = "typed" /\ IsInstance(t, result.t)
=============================================================================
