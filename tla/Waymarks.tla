------------------------------ MODULE Waymarks ------------------------------
(***************************************************************************)
(* A use does not know its user.  The two low bits of the prev of every    *)
(* use of an array are a tag that initTags leaves there; what they spell,  *)
(* read from any use on, leads to the end of the array, where the user is. *)
(***************************************************************************)
EXTENDS Integers, Sequences

CONSTANT MaxLen   \* bound: the uses of an array
MarksAssumption == MaxLen \in Nat

Digits == {0, 1}       \* zeroDigitTag, oneDigitTag
Stop == 2              \* stopTag
FullStop == 3          \* fullStopTag

(* initTags goes from the end of the array: a stop, then the number of     *)
(* uses that are done, its lowest digit first, so that it is read from the *)
(* top.  What is left of the number when d uses are done, after c before   *)
(* (mutant: it starts over before the use of the stop is done).            *)
CountShort(d, c) == IF c = 0 THEN d - 1 ELSE c \div 2
CountAfter(d, c) == IF c = 0 THEN d ELSE c \div 2
Count[d \in Nat] == IF d = 0 THEN 0 ELSE CountAfter(d, Count[d - 1])
TagAfter(done) == IF Count[done] # 0 THEN Count[done] % 2 ELSE IF done = 0 THEN FullStop ELSE Stop
InitTags(n) == [i \in 1 .. n |-> TagAfter(n - i)]

VARIABLES
  tags,     \* the tags of an array
  current,  \* Current, counted from the first use
  offset,   \* Offset, 0 as long as no number is read
  found     \* the walk is over: current is the end of the array

walkVars == <<tags, current, offset, found>>

Tag == IF current < Len(tags) THEN tags[current + 1] ELSE Stop   \* past the end: not a digit
WalkInit ==
  /\ \E n \in 1 .. MaxLen : tags = InitTags(n) /\ current \in 0 .. n - 1
  /\ offset = 0
  /\ found = FALSE
(* The first digit is always one: it is the offset, and is not read        *)
(* (mutant: a digit before the stop is not passed).                        *)
SeekStays ==
  /\ offset = 0 /\ ~found
  /\ current' = IF Tag = Stop THEN current + 2 ELSE IF Tag = FullStop THEN current + 1 ELSE current
  /\ offset' = IF Tag = Stop THEN 1 ELSE 0
  /\ found' = (Tag = FullStop)
Seek ==
  /\ offset = 0 /\ ~found
  /\ current' = IF Tag = Stop THEN current + 2 ELSE current + 1
  /\ offset' = IF Tag = Stop THEN 1 ELSE 0
  /\ found' = (Tag = FullStop)
ReadDigit ==
  /\ offset # 0 /\ ~found /\ Tag \in Digits
  /\ current' = current + 1
  /\ offset' = 2 * offset + Tag
  /\ UNCHANGED found
Arrive ==
  /\ offset # 0 /\ ~found /\ Tag \notin Digits
  /\ current' = current + offset
  /\ found' = TRUE
  /\ UNCHANGED offset
WalkNext == (Seek \/ ReadDigit \/ Arrive) /\ UNCHANGED tags
WalkSpec == WalkInit /\ [][WalkNext]_walkVars /\ WF_walkVars(WalkNext)
-----------------------------------------------------------------------------
(* The walk from any use ends, and at the end of the array:                *)
(* Use::getImpliedUser, on which getUser, dropHungoffUses and every loop   *)
(* over the users of a value rest.                                         *)
Found == <>(found /\ current = Len(tags))
(* Found promises that the walk gets there; of each state of a walk it     *)
(* takes that it is within the array, and over only at the end.            *)
Inside == current \in 0 .. Len(tags) /\ (~found => current < Len(tags))
EndsAtUser == found => current = Len(tags)
=============================================================================
