--------------------------- MODULE FactorialModule ---------------------------
(***************************************************************************)
(* The module createFactorialModule() builds (cpp/lib/llacktest), which is *)
(* what the Scala compiler makes of the definitions in MidTest.scala.  The *)
(* two literals of main, "factorial of 5, 3 times", are the parameters n   *)
(* and c.                                                                  *)
(***************************************************************************)
EXTENDS Integers, Sequences

Quot == "quot"
I32  == "i32"

Lookup(w)   == [op |-> "lookup", w |-> w]
PushI32(v)  == [op |-> "push", t |-> I32, v |-> v]
ToCont      == [op |-> "tocont"]
On(op, t)   == <<[op |-> op, t |-> t]>>
Shuffled(in, out) == <<[op |-> "shuffle", in |-> in, out |-> out]>>

(* The two shapes of generated code: a tail call of w, and a call of w     *)
(* with the word k as its continuation.  (Mutant: the tail call with        *)
(* something left to do after it.)                                         *)
CallNotLast(w) == <<Lookup(w), Lookup("drop$i32"), ToCont, ToCont>>
Call(w)        == <<Lookup(w), ToCont>>
CallThen(w, k) == <<Lookup(w), Lookup(k), ToCont, ToCont>>

(* The order of Word::Create. *)
FactorialWords ==
  << "main", "main$q21", "times$i32", "factorial$i32", "main$q21$k22",
     "dup$i32", "times$k19$i32", "factorial_accum$i32", "swap$i32_i32",
     "factorial_accum$k8$i32", "factorial_accum$k9$i32", "drop$i32",
     "icmp$sle_i32", "times$k20$i32", "times$q11$i32", "times$q13$i32", "if",
     "sub$i32", "times$q13$k14$i32", "times$q11$k12", "drop$quot",
     "factorial_accum$k10$i32", "swap$quot_i32", "times$q13$k15$i32",
     "dup$quot", "times$q13$k16$i32", "apply", "times$q13$k17$i32",
     "swap$i32_quot", "times$q13$k18$i32", "select$quot", "if$k0", "tocont",
     "factorial_accum$q1$i32", "factorial_accum$q2$i32",
     "factorial_accum$q2$k3$i32", "factorial_accum$q2$k4$i32",
     "factorial_accum$q2$k5$i32", "rot$i32_i32_i32",
     "factorial_accum$q2$k6$i32", "mul$i32", "factorial_accum$q2$k7$i32" >>

MainBody(c, n) ==
  [w \in {"main", "main$q21", "main$q21$k22"} |->
     CASE w = "main" -> <<Lookup("main$q21"), PushI32(c)>> \o Call("times$i32")
       [] w = "main$q21" -> <<PushI32(n)>> \o CallThen("factorial$i32", "main$q21$k22")
       [] w = "main$q21$k22" -> Call("drop$i32")]

PrimitiveBody ==
  [w \in {"dup$i32", "dup$quot", "drop$i32", "drop$quot", "swap$i32_i32",
          "swap$quot_i32", "swap$i32_quot", "rot$i32_i32_i32", "sub$i32", "mul$i32",
          "icmp$sle_i32", "select$quot", "tocont", "apply", "if", "if$k0"} |->
     CASE w = "dup$i32" -> Shuffled(<<I32>>, <<0, 0>>)
       [] w = "dup$quot" -> Shuffled(<<Quot>>, <<0, 0>>)
       [] w = "drop$i32" -> Shuffled(<<I32>>, << >>)
       [] w = "drop$quot" -> Shuffled(<<Quot>>, << >>)
       [] w = "swap$i32_i32" -> Shuffled(<<I32, I32>>, <<1, 0>>)
       [] w = "swap$quot_i32" -> Shuffled(<<Quot, I32>>, <<1, 0>>)
       [] w = "swap$i32_quot" -> Shuffled(<<I32, Quot>>, <<1, 0>>)
       [] w = "rot$i32_i32_i32" -> Shuffled(<<I32, I32, I32>>, <<1, 2, 0>>)
       [] w = "sub$i32" -> On("sub", I32)
       [] w = "mul$i32" -> On("mul", I32)
       [] w = "icmp$sle_i32" -> <<[op |-> "icmp", p |-> "sle", t |-> I32]>>
       [] w = "select$quot" -> On("select", Quot)
       [] w = "tocont" -> <<ToCont>>
       [] w = "apply" -> Call("tocont")
       [] w = "if" -> CallThen("select$quot", "if$k0")
       [] w = "if$k0" -> Call("tocont")]

TimesBody ==
  [w \in {"times$i32", "times$k19$i32", "times$k20$i32", "times$q11$i32",
          "times$q11$k12", "times$q13$i32", "times$q13$k14$i32", "times$q13$k15$i32",
          "times$q13$k16$i32", "times$q13$k17$i32", "times$q13$k18$i32"} |->
     CASE w = "times$i32" -> CallThen("dup$i32", "times$k19$i32")
       [] w = "times$k19$i32" -> <<PushI32(1)>> \o CallThen("icmp$sle_i32", "times$k20$i32")
       [] w = "times$k20$i32" -> <<Lookup("times$q11$i32"), Lookup("times$q13$i32")>> \o Call("if")
       [] w = "times$q11$i32" -> CallThen("drop$i32", "times$q11$k12")
       [] w = "times$q11$k12" -> Call("drop$quot")
       [] w = "times$q13$i32" -> <<PushI32(1)>> \o CallThen("sub$i32", "times$q13$k14$i32")
       [] w = "times$q13$k14$i32" -> CallThen("swap$quot_i32", "times$q13$k15$i32")
       [] w = "times$q13$k15$i32" -> CallThen("dup$quot", "times$q13$k16$i32")
       [] w = "times$q13$k16$i32" -> CallThen("apply", "times$q13$k17$i32")
       [] w = "times$q13$k17$i32" -> CallThen("swap$i32_quot", "times$q13$k18$i32")
       [] w = "times$q13$k18$i32" -> Call("times$i32")]

FactorialBody ==
  [w \in {"factorial$i32", "factorial_accum$i32", "factorial_accum$k8$i32",
          "factorial_accum$k9$i32", "factorial_accum$k10$i32"} |->
     CASE w = "factorial$i32" -> <<PushI32(1)>> \o Call("factorial_accum$i32")
       [] w = "factorial_accum$i32" -> CallThen("swap$i32_i32", "factorial_accum$k8$i32")
       [] w = "factorial_accum$k8$i32" -> CallThen("dup$i32", "factorial_accum$k9$i32")
       [] w = "factorial_accum$k9$i32" ->
            <<PushI32(1)>> \o CallThen("icmp$sle_i32", "factorial_accum$k10$i32")
       [] w = "factorial_accum$k10$i32" ->
            <<Lookup("factorial_accum$q1$i32"), Lookup("factorial_accum$q2$i32")>> \o Call("if")]

(* The two branches of factorial_accum. *)
AccumBody ==
  [w \in {"factorial_accum$q1$i32", "factorial_accum$q2$i32",
          "factorial_accum$q2$k3$i32", "factorial_accum$q2$k4$i32",
          "factorial_accum$q2$k5$i32", "factorial_accum$q2$k6$i32",
          "factorial_accum$q2$k7$i32"} |->
     CASE w = "factorial_accum$q1$i32" -> Call("drop$i32")
       [] w = "factorial_accum$q2$i32" -> CallThen("dup$i32", "factorial_accum$q2$k3$i32")
       [] w = "factorial_accum$q2$k3$i32" ->
            <<PushI32(1)>> \o CallThen("sub$i32", "factorial_accum$q2$k4$i32")
       [] w = "factorial_accum$q2$k4$i32" -> CallThen("swap$i32_i32", "factorial_accum$q2$k5$i32")
       [] w = "factorial_accum$q2$k5$i32" ->
            CallThen("rot$i32_i32_i32", "factorial_accum$q2$k6$i32")
       [] w = "factorial_accum$q2$k6$i32" -> CallThen("mul$i32", "factorial_accum$q2$k7$i32")
       [] w = "factorial_accum$q2$k7$i32" -> Call("factorial_accum$i32")]

Body(c, n) ==
  [w \in {FactorialWords[i] : i \in DOMAIN FactorialWords} |->
     CASE w \in DOMAIN MainBody(c, n) -> MainBody(c, n)[w]
       [] w \in DOMAIN PrimitiveBody -> PrimitiveBody[w]
       [] w \in DOMAIN TimesBody -> TimesBody[w]
       [] w \in DOMAIN FactorialBody -> FactorialBody[w]
       [] w \in DOMAIN AccumBody -> AccumBody[w]]

FactorialModule(c, n) == [words |-> FactorialWords, body |-> Body(c, n)]
=============================================================================
