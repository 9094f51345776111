------------------------------ MODULE MidTerm ------------------------------
(***************************************************************************)
(* Term and Dictionary of scala/mid: a quotation is added to the           *)
(* dictionary as words in continuation-passing form, one for each          *)
(* quotation inside it and one for what is left after each call.  What the *)
(* words mean is what the quotation meant: both are run, side by side.     *)
(***************************************************************************)
EXTENDS Naturals, Sequences, TLC, SequencesExt

CONSTANTS
  Definitions,  \* what may be added: [wid, terms] records
  Primitives,   \* words of the dictionary that are written by hand
  Attempts,     \* bound: how often callers try to define a name
  Main,         \* the calls whose meaning is compared: <<wid, args>> pairs
  Steps         \* bound: how far both runs are followed

VARIABLES
  dict,     \* [nextId, m, clash]: the Dictionary, and the name update threw over
  defined,  \* history: the definitions added, in order, that did not throw
  named     \* history: the names that callers have tried to define, in order

vars == <<dict, defined, named>>

(* TermArgument and the three kinds of Term. *)
Constant(v) == <<"const", v>>
Variable(i) == <<"var", i>>
IsVariable(a) == a[1] = "var"
WordTerm(w, args) == [kind |-> "word", w |-> w, args |-> args]
LiteralTerm(v, t) == [kind |-> "lit", v |-> v, args |-> <<t>>]
QuotationTerm(terms) == [kind |-> "quot", terms |-> terms]

Map(Op(_), s) == [i \in DOMAIN s |-> Op(s[i])]

(* Flattened and linear terms: the three kinds that are left. *)
Push(w, args) == [kind |-> "push", w |-> w, args |-> args]
Apply  == [kind |-> "apply"]
ToCont == [kind |-> "tocont"]
-----------------------------------------------------------------------------
(* VariableRewriter.  The variables are numbered anew in the order of      *)
(* their first use; rewrittenArgs are the old ones in that order.          *)
RECURSIVE VariablesOf(_)
VariablesOf(terms) ==
  FlattenSeq(Map(LAMBDA t : CASE t.kind = "quot" -> VariablesOf(t.terms)
                              [] t.kind = "apply" -> << >>
                              [] OTHER -> SelectSeq(t.args, IsVariable),
                 terms))

(* Mutant: each use of a variable gets a number. *)
EachUse(terms) == VariablesOf(terms)
RewrittenArgs(terms) ==
  FoldLeft(LAMBDA old, a : IF Contains(old, a) THEN old ELSE Append(old, a),
           << >>, VariablesOf(terms))

RewriteArg(old, a) ==
  IF IsVariable(a) THEN Variable((CHOOSE i \in DOMAIN old : old[i] = a) - 1) ELSE a

RECURSIVE Rewrite(_, _)
Rewrite(old, terms) ==
  Map(LAMBDA t : CASE t.kind = "quot" -> [t EXCEPT !.terms = Rewrite(old, t.terms)]
                   [] t.kind = "apply" -> t
                   [] OTHER -> [t EXCEPT !.args = Map(LAMBDA a : RewriteArg(old, a), @)],
      terms)
-----------------------------------------------------------------------------
(* Dictionary.  freshWordId draws a name; update throws on one that is     *)
(* taken, and what was added before the exception stays.                   *)
NoClash == ""
Failed(d) == d.clash # NoClash

(* Mutant: the number is not drawn. *)
FreshStays(d) == d
Drawn(d) == [d EXCEPT !.nextId = @ + 1]
FreshWordId(d, prefix) == [wid |-> prefix \o ToString(d.nextId), d |-> Drawn(d)]

(* Mutant: the later definition wins. *)
UpdateOver(d, wid, word) == [d EXCEPT !.m = (wid :> word) @@ @]
Update(d, wid, word) ==
  IF wid \in DOMAIN d.m THEN [d EXCEPT !.clash = wid]
  ELSE [d EXCEPT !.m = @ @@ (wid :> word)]

(* addFlattenedToDictionary: everything up to the first call; then, if     *)
(* there is more, a word for the rest, pushed below the callee.            *)
(* Mutant: the two go to the stack of continuations the other way round.   *)
CallThenSwapped(callee, rest) == Front(callee) \o <<rest, Last(callee), ToCont, ToCont>>
CallThen(callee, rest) == callee \o <<rest, ToCont, ToCont>>

RECURSIVE AddFlattened(_, _, _, _, _)
UpToCall(flattened) == SelectInSeq(flattened, LAMBDA t : t = Apply)
Ended(d, wid, extern, linear) ==
  IF Failed(d) THEN d ELSE Update(d, wid, [extern |-> extern, linear |-> linear])
(* The rest, whose old variables become its own, gets a word first. *)
AddRest(fresh, rootWid, old, rest) ==
  AddFlattened(fresh.d, fresh.wid, rootWid, FALSE, Rewrite(old, rest))
AddCall(d, wid, rootWid, extern, before, rest) ==
  LET added(fresh, old) ==
        Ended(AddRest(fresh, rootWid, old, rest), wid, extern, CallThen(before, Push(fresh.wid, old)))
  IN  IF rest = << >> THEN Ended(d, wid, extern, before \o <<ToCont>>)
      ELSE added(FreshWordId(d, rootWid \o "$k"), RewrittenArgs(rest))
AddFlattened(d, wid, rootWid, extern, flattened) ==
  LET split(n) == IF n = 0 THEN Ended(d, wid, extern, flattened)
                  ELSE AddCall(d, wid, rootWid, extern, SubSeq(flattened, 1, n - 1),
                               SubSeq(flattened, n + 1, Len(flattened)))
  IN  split(UpToCall(flattened))

(* flatten: a quotation becomes a word of its own (addChild), a call a     *)
(* push and an application.  The name is drawn before the child's own      *)
(* quotations and continuations are named.                                 *)
RECURSIVE Flatten(_, _, _)
AddTerms(f, wid, extern) ==
  IF Failed(f.d) THEN f.d ELSE AddFlattened(f.d, wid, wid, extern, f.terms)
AddChild(d, parent, child) ==
  LET added(fresh, old) ==
        [d |-> AddTerms(Flatten(fresh.d, fresh.wid, Rewrite(old, child.terms)), fresh.wid, FALSE),
         terms |-> <<Push(fresh.wid, old)>>]
  IN  added(FreshWordId(d, parent \o "$q"), RewrittenArgs(child.terms))

FlattenTerm(d, parent, t) ==
  CASE t.kind = "quot" -> AddChild(d, parent, t)
    [] t.kind = "word" -> [d |-> d, terms |-> <<Push(t.w, t.args), Apply>>]
    [] t.kind = "lit" -> [d |-> d, terms |-> <<t>>]
FlattenNext(flat, parent, t) ==
  IF Failed(flat.d) THEN flat
  ELSE LET then(one) == [d |-> one.d, terms |-> flat.terms \o one.terms]
       IN  then(FlattenTerm(flat.d, parent, t))
Flatten(d, parent, terms) ==
  FoldLeft(LAMBDA flat, t : FlattenNext(flat, parent, t), [d |-> d, terms |-> << >>], terms)

AddToDictionary(d, wid, extern, terms) == AddTerms(Flatten(d, wid, terms), wid, extern)

(* specialize: variables are replaced by the word's arguments.             *)
Substitute(args, arg) == IF IsVariable(arg) THEN args[arg[2] + 1] ELSE arg[2]
Specialized(linear, args) ==
  Map(LAMBDA t : IF t.kind = "tocont" THEN t
                 ELSE [t EXCEPT !.args = Map(LAMBDA a : Substitute(args, a), @)], linear)
-----------------------------------------------------------------------------
Init ==
  /\ dict = [nextId |-> 0, clash |-> NoClash, m |-> [w \in Primitives |-> "primitive"]]
  /\ defined = << >> /\ named = << >>

(* A caller catches the exception, if there is one, and goes on. *)
Define(def) ==
  /\ dict' = AddToDictionary([dict EXCEPT !.clash = NoClash], def.wid, TRUE, def.terms)
  /\ defined' = IF Failed(dict') THEN defined ELSE Append(defined, def)
  /\ named' = Append(named, def.wid)

Next == Len(named) < Attempts /\ \E def \in Definitions : Define(def)

Spec == Init /\ [][Next]_vars
-----------------------------------------------------------------------------
(* What a quotation means.  Both machines keep a data stack and a stack of *)
(* what is still to be run, and leave a trace of the literals pushed and   *)
(* the primitives run; "tocont" runs what is on the stack of data.         *)
Machine(todo) == [todo |-> todo, data |-> << >>, trace |-> << >>]
Stopped(s) == s.todo = << >>
Traced(s, e) == [s EXCEPT !.trace = Append(@, e)]
Pushed(s, v) == [s EXCEPT !.data = <<v>> \o @]
Stuck(s) == Traced([s EXCEPT !.todo = << >>], "stuck")

Moved(s) ==
  IF s.data = << >> \/ "lit" \in DOMAIN Head(s.data) THEN Stuck(s)
  ELSE [s EXCEPT !.todo = <<Head(s.data)>> \o @, !.data = Tail(@)]

RunPrimitive(s, w, args) == IF w = "tocont" THEN Moved(s) ELSE Traced(s, <<w, args>>)

(* One word of the dictionary, run to its end: what the virtual machine    *)
(* does between two pops of the stack of continuations.                    *)
RECURSIVE RunLinear(_, _)
RunRest(s, linear) == IF Stopped(s) THEN s ELSE RunLinear(s, linear)
RunLinear(s, linear) ==
  IF linear = << >> THEN s
  ELSE LET t == Head(linear)
       IN  IF t.kind = "tocont" THEN RunRest(Moved(s), Tail(linear))
           ELSE RunLinear(IF t.kind = "lit" THEN Traced(Pushed(s, [lit |-> t.v]), <<t.v, t.args>>)
                          ELSE Pushed(s, [w |-> t.w, args |-> t.args]), Tail(linear))

WordStep(m, s) ==
  LET next == Head(s.todo)
      rest == [s EXCEPT !.todo = Tail(@)]
  IN  IF next.w \notin DOMAIN m THEN Stuck(s)
      ELSE IF next.w \in Primitives THEN RunPrimitive(rest, next.w, next.args)
      ELSE RunLinear(rest, Specialized(m[next.w].linear, next.args))

(* The reference: terms are run where they stand, quotations are closures. *)
TermStep(sources, s) ==
  LET next == Head(s.todo)
      rest == [s EXCEPT !.todo = Tail(@)]
      t == Head(next.terms)
      left == [rest EXCEPT !.todo = IF Len(next.terms) = 1 THEN @
                                    ELSE <<[next EXCEPT !.terms = Tail(@)]>> \o @]
      args == Map(LAMBDA a : Substitute(next.args, a), t.args)
  IN  IF next.terms = << >> THEN rest
      ELSE IF t.kind = "quot" THEN Pushed(left, [terms |-> t.terms, args |-> next.args])
      ELSE IF t.kind = "lit" THEN Traced(Pushed(left, [lit |-> t.v]), <<t.v, args>>)
      ELSE IF t.w \in Primitives THEN RunPrimitive(left, t.w, args)
      ELSE IF t.w \notin DOMAIN sources THEN Stuck(left)
      ELSE [left EXCEPT !.todo = <<[terms |-> sources[t.w], args |-> args]>> \o @]

RECURSIVE RunWords(_, _, _)
RunWords(m, s, n) == IF n = 0 \/ Stopped(s) THEN s ELSE RunWords(m, WordStep(m, s), n - 1)
RECURSIVE RunTerms(_, _, _)
RunTerms(sources, s, n) ==
  IF n = 0 \/ Stopped(s) THEN s ELSE RunTerms(sources, TermStep(sources, s), n - 1)

Sources == [w \in {defined[i].wid : i \in DOMAIN defined} |->
              (CHOOSE def \in ToSet(defined) : def.wid = w).terms]

(* The words that a definition leaves do what its quotation does, whatever *)
(* else is defined, before or after, and whatever definitions fail: each   *)
(* call's literals and primitives are those of the quotation, in order and *)
(* with the same types (addToDictionary, VariableRewriter).                *)
Means ==
  \A call \in Main : call[1] \in DOMAIN Sources =>
    LET words == RunWords(dict.m, Machine(<<[w |-> call[1], args |-> call[2]]>>), Steps)
        terms == RunTerms(Sources, Machine(<<[terms |-> Sources[call[1]], args |-> call[2]]>>), Steps)
        both == IF Len(words.trace) < Len(terms.trace) THEN Len(words.trace) ELSE Len(terms.trace)
    IN  /\ SubSeq(words.trace, 1, both) = SubSeq(terms.trace, 1, both)
        /\ Stopped(words) /\ Stopped(terms) => Len(words.trace) = Len(terms.trace)

(* A definition fails only over a name that some caller chose, never over *)
(* two that were drawn (freshWordId, update).                              *)
FailsOverCallers == Failed(dict) => dict.clash \in ToSet(named)

(* The generated words are called as they are made: a push passes as many  *)
(* arguments as its word's variables need, so that specialize never throws *)
(* on a word that the flattening made.                                     *)
Arity(linear) ==
  LET used == UNION {{t.args[i][2] + 1 : i \in {j \in DOMAIN t.args : IsVariable(t.args[j])}} :
                       t \in {u \in ToSet(linear) : u.kind # "tocont"}}
  IN  IF used = {} THEN 0 ELSE CHOOSE n \in used : \A k \in used : k <= n
Generated == (DOMAIN dict.m) \ (ToSet(named) \cup Primitives)
CallsMatch ==
  \A w \in Generated :
    \A v \in (DOMAIN dict.m) \ Primitives : \A t \in ToSet(dict.m[v].linear) :
      t.kind = "push" /\ t.w = w => Len(t.args) = Arity(dict.m[w].linear)
=============================================================================
