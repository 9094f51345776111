----------------------------- MODULE MidCompiler -----------------------------
(***************************************************************************)
(* Compiler.compile of scala/mid: from a dictionary of generic words to a  *)
(* module of concrete ones.  A word is added to the module, without a      *)
(* quotation, the first time something refers to its name; its generic     *)
(* word is specialised, and its instructions written, when the loop takes  *)
(* it from the set wordsToCompile.  compile may be called again, for       *)
(* another main word, on the module an earlier call left.                  *)
(***************************************************************************)
EXTENDS Naturals, Sequences

CONSTANTS
  Concrete,      \* ConcreteWordId: a word id with its arguments
  Names,
  NameOf,        \* the name getWord makes of a concrete word id
  Instructions,  \* what a writer may append: no pushes of words
  Dictionaries,  \* what the dictionary may be
  NoWord         \* stands for cwid outside the loop

(* What the writer of a generic word does, in order: append an             *)
(* instruction, push a quotation, or throw (an argument out of range, a    *)
(* literal whose type argument is no type).                                *)
Items == [do : {"append"}, inst : Instructions] \cup [do : {"quote"}, c : Concrete]
           \cup [do : {"throw"}]
Generic == [extern : BOOLEAN, items : Seq(Items)]
Undefined == [do |-> "undefined"]

ASSUME CompilerAssumption ==
  /\ NameOf \in [Concrete -> Names]
  /\ NoWord \notin Concrete
  /\ Dictionaries \subseteq [Concrete -> Generic \cup {Undefined}]
  /\ \A i \in Instructions, n \in Names : i # [op |-> "lookup", w |-> n]

VARIABLES
  dict,       \* the Dictionary, seen through specialize
  words,      \* the names of module.words
  quotation,  \* the quotation of each, None until it is written
  wordsToCompile,
  phase,      \* "idle", "loop" or "write"
  cwid,       \* the word being compiled
  rest, buf,  \* what its writer has still to do, what it has appended
  called,     \* history: the main words of all calls
  failed      \* history: some call ended in an exception

work == <<wordsToCompile, phase, cwid, rest, buf>>
vars == <<dict, words, quotation, work, called, failed>>

(* The locals of one round of the loop. *)
NoRound == cwid' = NoWord /\ rest' = << >> /\ buf' = << >>

None == [code |-> "none"]
Code == Instructions \cup [op : {"lookup"}, w : Names]

Init ==
  /\ dict \in Dictionaries
  /\ words = {}
  /\ quotation = [n \in Names |-> None]
  /\ wordsToCompile = {} /\ phase = "idle"
  /\ cwid = NoWord /\ rest = << >> /\ buf = << >>
  /\ called = {} /\ failed = FALSE

(* Mutants of getWord: the new word replaces the set; every word asked for *)
(* is scheduled, new or not.                                               *)
GetWordAlone(c, scheduled) ==
  /\ words' = words \cup {NameOf[c]}
  /\ wordsToCompile' = IF NameOf[c] \in words THEN scheduled ELSE {c}
GetWordAlways(c, scheduled) ==
  words' = words \cup {NameOf[c]} /\ wordsToCompile' = scheduled \cup {c}

(* getWord: the word of that name, made and scheduled if there is none. *)
GetWord(c, scheduled) ==
  IF NameOf[c] \in words
  THEN words' = words /\ wordsToCompile' = scheduled
  ELSE words' = words \cup {NameOf[c]} /\ wordsToCompile' = scheduled \cup {c}

(* Mutant: every word that the dictionary defines is compiled. *)
CompileAll(c) ==
  /\ phase = "idle"
  /\ LET all == {x \in Concrete : dict[x] # Undefined} \cup {c}
     IN  /\ words' = words \cup {NameOf[x] : x \in all}
         /\ wordsToCompile' = {x \in all : NameOf[x] \notin words}
  /\ phase' = "loop"
  /\ called' = called \cup {c}
  /\ UNCHANGED <<dict, quotation, cwid, rest, buf, failed>>

Compile(c) ==
  /\ phase = "idle"
  /\ GetWord(c, {})
  /\ phase' = "loop"
  /\ called' = called \cup {c}
  /\ UNCHANGED <<dict, quotation, cwid, rest, buf, failed>>

(* Take any word of the set.  A word that the dictionary does not define   *)
(* ends the call with an exception.                                        *)
Take(c) ==
  /\ phase = "loop"
  /\ c \in wordsToCompile
  /\ dict[c] # Undefined
  /\ wordsToCompile' = wordsToCompile \ {c}
  /\ phase' = "write" /\ cwid' = c
  /\ rest' = dict[c].items /\ buf' = << >>
  /\ UNCHANGED <<dict, words, quotation, called, failed>>

(* The exception leaves the module as it is; the set is local to the call. *)
Throw ==
  /\ phase' = "idle" /\ failed' = TRUE /\ wordsToCompile' = {}
  /\ NoRound
  /\ UNCHANGED <<dict, words, quotation, called>>

NotDefined(c) == phase = "loop" /\ c \in wordsToCompile /\ dict[c] = Undefined /\ Throw

Writes(do) == phase = "write" /\ rest # << >> /\ Head(rest).do = do

WriterThrows == Writes("throw") /\ Throw

AppendInst ==
  /\ Writes("append")
  /\ buf' = Append(buf, Head(rest).inst)
  /\ rest' = Tail(rest)
  /\ UNCHANGED <<dict, words, quotation, wordsToCompile, phase, cwid, called, failed>>

(* Mutants: the word is not looked up; its push goes to the front. *)
PushQuotationOnly ==
  /\ Writes("quote")
  /\ buf' = Append(buf, [op |-> "lookup", w |-> NameOf[Head(rest).c]])
  /\ rest' = Tail(rest)
  /\ UNCHANGED <<dict, words, wordsToCompile, quotation, phase, cwid, called, failed>>
PushQuotationFirst ==
  /\ Writes("quote")
  /\ GetWord(Head(rest).c, wordsToCompile)
  /\ buf' = << [op |-> "lookup", w |-> NameOf[Head(rest).c]] >> \o buf
  /\ rest' = Tail(rest)
  /\ UNCHANGED <<dict, quotation, phase, cwid, called, failed>>

PushQuotation ==
  /\ Writes("quote")
  /\ GetWord(Head(rest).c, wordsToCompile)
  /\ buf' = Append(buf, [op |-> "lookup", w |-> NameOf[Head(rest).c]])
  /\ rest' = Tail(rest)
  /\ UNCHANGED <<dict, quotation, phase, cwid, called, failed>>

(* The writer is done: look the word up again, set its quotation and take  *)
(* it, a second time, from the set ("XXX: redundant?").                    *)
Finish ==
  /\ phase = "write" /\ rest = << >>
  /\ words' = words \cup {NameOf[cwid]}
  /\ wordsToCompile' = wordsToCompile \ {cwid}
  /\ quotation' = [quotation EXCEPT ![NameOf[cwid]] =
                     [extern |-> dict[cwid].extern, code |-> buf]]
  /\ phase' = "loop"
  /\ NoRound
  /\ UNCHANGED <<dict, called, failed>>

Return ==
  /\ phase = "loop" /\ wordsToCompile = {}
  /\ phase' = "idle"
  /\ UNCHANGED <<dict, words, quotation, wordsToCompile, cwid, rest, buf, called, failed>>

Loop ==
  \/ \E c \in Concrete : Take(c) \/ NotDefined(c)
  \/ WriterThrows \/ AppendInst \/ PushQuotation \/ Finish \/ Return

Next == Loop \/ \E c \in Concrete : Compile(c)

Spec == Init /\ [][Next]_vars

(* compile runs to its end once it is called; nothing forces a call. *)
FairSpec == Spec /\ WF_vars(Loop)
-----------------------------------------------------------------------------
Compiled(n) == quotation[n] # None
Working == wordsToCompile \cup (IF phase = "write" THEN {cwid} ELSE {})

TypeOK ==
  /\ dict \in [Concrete -> Generic \cup {Undefined}]
  /\ words \subseteq Names
  /\ quotation \in [Names -> {None} \cup [extern : BOOLEAN, code : Seq(Code)]]
  /\ wordsToCompile \subseteq Concrete
  /\ phase \in {"idle", "loop", "write"}
  /\ IF phase = "write" THEN cwid \in Concrete ELSE cwid = NoWord
  /\ rest \in Seq(Items) /\ buf \in Seq(Code)
  /\ called \subseteq Concrete /\ failed \in BOOLEAN

(* The module is closed: a quotation refers only to words of the module    *)
(* (pushQuotation puts the Word that getWord returns into a PushInst).     *)
Refers(code, n) == \E i \in DOMAIN code : code[i] = [op |-> "lookup", w |-> n]
Closed ==
  \A n \in Names :
    \/ \E m \in Names : Compiled(m) /\ Refers(quotation[m].code, n)
    \/ phase = "write" /\ Refers(buf, n)
    => n \in words

(* The module is complete: unless some call has thrown, each of its words  *)
(* has a quotation or is still to be compiled by the running call, so none *)
(* is without one when compile returns.                                    *)
Complete ==
  ~failed => \A n \in words : Compiled(n) \/ \E c \in Working : NameOf[c] = n

(* "wordsToCompile - cwid // XXX: redundant?" (Compiler.scala): it is.     *)
(* Writing a word, even one that refers to itself, never schedules it.     *)
RedundantRemove == phase = "write" => cwid \notin wordsToCompile

(* The module is minimal: it has only words that some main word needs,     *)
(* directly or through others.  (The words needed are the least set with   *)
(* the main words that contains what its members refer to.)                *)
Needs(T) ==
  /\ called \subseteq T
  /\ \A c \in T : dict[c] # Undefined =>
       \A i \in DOMAIN dict[c].items :
         dict[c].items[i].do = "quote" => dict[c].items[i].c \in T
Minimal == \A T \in SUBSET Concrete : Needs(T) => \A n \in words : \E c \in T : NameOf[c] = n

(* A quotation says what its generic word says: it is the writing, in      *)
(* order, of a concrete word of its name.                                  *)
Written(item) == IF item.do = "append" THEN item.inst ELSE [op |-> "lookup", w |-> NameOf[item.c]]
Faithful ==
  \A n \in Names : Compiled(n) =>
    \E c \in Concrete :
      /\ NameOf[c] = n /\ dict[c] # Undefined
      /\ quotation[n].extern = dict[c].extern
      /\ Len(quotation[n].code) = Len(dict[c].items)
      /\ \A i \in DOMAIN dict[c].items : quotation[n].code[i] = Written(dict[c].items[i])

(* A quotation is set once: compiling a word again, under the same or      *)
(* another main word, never replaces what other words already call.        *)
SetOnce == [][\A n \in Names : Compiled(n) => quotation'[n] = quotation[n]]_vars

(* compile returns, or throws: recursive and mutually recursive words do   *)
(* not keep it going.                                                      *)
Returns == phase = "loop" ~> phase = "idle"
-----------------------------------------------------------------------------
(* What the loop keeps besides, and the properties rest on.                *)

(* Words to do have entries without a quotation, each its own. *)
Scheduled ==
  /\ phase = "idle" => wordsToCompile = {}
  /\ \A n \in Names : Compiled(n) => n \in words
  /\ \A c \in Working : NameOf[c] \in words /\ ~Compiled(NameOf[c])
  /\ \A c, d \in Working : NameOf[c] = NameOf[d] => c = d
  /\ RedundantRemove

(* The writer of a round is between two of its word's items. *)
Underway ==
  phase = "write" =>
    LET items == dict[cwid].items
    IN  /\ dict[cwid] # Undefined
        /\ Len(buf) + Len(rest) = Len(items)
        /\ \A i \in 1 .. Len(buf) : buf[i] = Written(items[i])
        /\ \A i \in 1 .. Len(rest) : rest[i] = items[Len(buf) + i]

(* Whatever set has the words needed has the words to do. *)
Needed == \A T \in SUBSET Concrete : Needs(T) => Working \subseteq T
=============================================================================
