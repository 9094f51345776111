------------------------------ MODULE MCLlackVM ------------------------------
(* Instances of LlackVM for the cases that no module of the repository     *)
(* reaches: modules of up to three words that break each of the machine's  *)
(* unchecked assumptions, or use the instructions nothing generates.       *)
EXTENDS LlackVM, TLC

MCWords == {"main", "a", "b"}
MCTypes == {"quot", "i32", "i1"}
MCSizeOf == "quot" :> 2 @@ "i32" :> 2 @@ "i1" :> 1

push(v)   == [op |-> "push", t |-> "i32", v |-> v]
lookup(w) == [op |-> "lookup", w |-> w]
tocont    == [op |-> "tocont"]
fromcont  == [op |-> "fromcont"]
on(op)    == [op |-> op, t |-> "i32"]
icmp(p)   == [op |-> "icmp", p |-> p, t |-> "i32"]
shuffle(in, out) == [op |-> "shuffle", in |-> in, out |-> out]

(* A module of the words ws: each calls nothing unless it is in `bodies'. *)
MkModule(ws, bodies) == [words |-> ws, body |-> bodies @@ [w \in Words |-> << >>]]
MainOnly(body) == MkModule(<<"main">>, "main" :> body)

Faulty ==
  { MkModule(<<"a">>, "a" :> <<tocont>>),                     \* no main
    MainOnly(<<lookup("b"), tocont>>),                        \* b not inserted
    MainOnly(<<fromcont>>),                                   \* takes the NULL
    MainOnly(<<on("sub")>>), MainOnly(<<push(1), on("mul")>>),  \* too few
    MainOnly(<<push(1), lookup("main"), tocont>>),            \* never stops
    MainOnly(<<lookup("main"), lookup("main"), tocont, tocont>>),
    MainOnly(<<push(3), tocont>>), MainOnly(<<push(0), tocont>>),
    MkModule(<<"main", "a", "b">>, "main" :> <<lookup("a"), tocont>>),
    MkModule(<<"b", "main">>, "main" :> <<lookup("b"), tocont, fromcont>>) }

Torn == {MainOnly(<<push(x), push(y), shuffle(<<"i1", "i32", "i1">>, <<1>>), push(1), on(op)>>) :
           x \in 1 .. 2, y \in {3}, op \in {"sub", "mul"}}

Comparing == {MainOnly(<<lookup("main"), push(x), push(y), icmp(p)>>) :
                x \in Ints, y \in Ints, p \in Predicates}

Selecting == {MainOnly(<<push(1), push(2), icmp(p), push(3), push(0), on("select")>>) :
                p \in {"ult", "ugt"}}

MCModules == Faulty \cup Torn \cup Comparing \cup Selecting
=============================================================================
