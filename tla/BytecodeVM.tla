------------------------------ MODULE BytecodeVM ------------------------------
(***************************************************************************)
(* run of prototypes/compiler: a stack machine over an array of bytecodes. *)
(* The instruction pointer is advanced, and a Return that comes next is    *)
(* taken, before the current bytecode acts, so that a call in tail         *)
(* position leaves nothing on the return stack.                            *)
(***************************************************************************)
EXTENDS Integers, Sequences

CONSTANT Width  \* bound: integers are taken modulo 2^Width, signed

VARIABLES
  byteCode,
  ip,
  data, retain, return_,
  vm      \* "off", "running", "stopped" or the error that ended the run

registers == <<ip, data, retain, return_>>
vmVars == <<byteCode, registers, vm>>

(* Int arithmetic wraps around. *)
Wrapped(n) == ((n + 2 ^ (Width - 1)) % 2 ^ Width) - 2 ^ (Width - 1)

(* Any: an integer, which may be an address, or a boolean. *)
Value == [int : Int] \cup [bool : BOOLEAN]
Integer(n) == [int |-> n]
IsInt(v) == "int" \in DOMAIN v
IsBool(v) == "bool" \in DOMAIN v
InArray(a) == a >= 0 /\ a < Len(byteCode)

VMInit == ip = 0 /\ data = << >> /\ retain = << >> /\ return_ = << >> /\ vm = "off"

(* The state is lost with the exception. *)
Fails(why) == vm' = why /\ UNCHANGED <<byteCode, registers>>

(* Mutant: the return address is left on the stack. *)
AdvancedKeep ==
  LET next == ip + 1
  IN  IF byteCode[next + 1] # [op |-> "Return"] THEN [ip |-> next, return_ |-> return_]
      ELSE IF return_ = << >> THEN [ip |-> -1, return_ |-> return_]
      ELSE [ip |-> Head(return_), return_ |-> return_]
(* The next bytecode, after an eager Return. *)
Advanced ==
  LET next == ip + 1
  IN  IF byteCode[next + 1] # [op |-> "Return"] THEN [ip |-> next, return_ |-> return_]
      ELSE IF return_ = << >> THEN [ip |-> -1, return_ |-> return_]
      ELSE [ip |-> Head(return_), return_ |-> Tail(return_)]

(* The bytecode at ip, once ip has moved on. *)
Current == byteCode[ip + 1]
Continue == ip' = Advanced.ip /\ return_' = Advanced.return_

Top == data[1]
Second == data[2]
Below(n) == SubSeq(data, n + 1, Len(data))

(* Mutant: the values are chosen the other way round. *)
ChosenOther == IF data[3].bool THEN Top ELSE Second
(* Choose: the value for false is on top. *)
Chosen == IF data[3].bool THEN Second ELSE Top

(* What a bytecode that only works on the data stack pops and pushes. *)
Pops == [Drop |-> 1, Dup |-> 1, Swap |-> 2, Choose |-> 3, Add |-> 2, Mul |-> 2, Dump |-> 0, Push |-> 0]

(* The bytecodes that go on to the next. *)
Plain == [op : (DOMAIN Pops \ {"Push"}) \cup {"D2R", "R2D"}] \cup [op : {"Push"}, value : Value]

Applicable(op) ==
  /\ Len(data) >= Pops[op]
  /\ op = "Choose" => IsBool(data[3])
  /\ op \in {"Add", "Mul"} => IsInt(Top) /\ IsInt(Second)
Result(op) ==
  CASE op = "Drop" -> << >>
    [] op = "Dup" -> <<Top, Top>>
    [] op = "Swap" -> <<Second, Top>>
    [] op = "Choose" -> <<Chosen>>
    [] op = "Add" -> <<Integer(Wrapped(Top.int + Second.int))>>
    [] op = "Mul" -> <<Integer(Wrapped(Top.int * Second.int))>>
    [] op = "Dump" -> << >>
    [] op = "Push" -> <<Current.value>>

Fetched == vm = "running" /\ ip >= 0 /\ InArray(ip) /\ InArray(ip + 1)

(* Neither ip nor the place after it may be outside the array.  (A jump to *)
(* a negative address ends the run like a return.)                         *)
OutOfArray == vm = "running" /\ ip >= 0 /\ ~(InArray(ip) /\ InArray(ip + 1)) /\ Fails("index")

Stop == vm = "running" /\ ip < 0 /\ vm' = "stopped" /\ UNCHANGED <<byteCode, registers>>

RunReturn == Fetched /\ Current.op = "Return" /\ Fails("return")

RunData ==
  /\ Fetched /\ Current.op \in DOMAIN Pops
  /\ LET op == Current.op IN
       IF Applicable(op)
       THEN /\ data' = Result(op) \o Below(Pops[op])
            /\ Continue /\ UNCHANGED <<byteCode, retain, vm>>
       ELSE Fails("data")

RunD2R ==
  /\ Fetched /\ Current.op = "D2R"
  /\ IF data = << >> THEN Fails("data")
     ELSE /\ retain' = <<Top>> \o retain /\ data' = Below(1)
          /\ Continue /\ UNCHANGED <<byteCode, vm>>

RunR2D ==
  /\ Fetched /\ Current.op = "R2D"
  /\ IF retain = << >> THEN Fails("data")
     ELSE /\ data' = <<Head(retain)>> \o data /\ retain' = Tail(retain)
          /\ Continue /\ UNCHANGED <<byteCode, vm>>

(* Apply: the return address is where the eager Return has led. *)
RunApply ==
  /\ Fetched /\ Current.op = "Apply"
  /\ IF data # << >> /\ IsInt(Top)
     THEN /\ return_' = <<Advanced.ip>> \o Advanced.return_
          /\ ip' = Top.int /\ data' = Below(1)
          /\ UNCHANGED <<byteCode, retain, vm>>
     ELSE Fails("data")

Run == OutOfArray \/ Stop \/ RunReturn \/ RunData \/ RunD2R \/ RunR2D \/ RunApply
=============================================================================
