---------------------------- MODULE CatchGradual ----------------------------
(***************************************************************************)
(* The gradual osu!catch difficulty calculator,                            *)
(* src/catch/difficulty/gradual.rs, and the two ways in which              *)
(* src/catch/attributes.rs counts the objects of a map: at once up to      *)
(* `take` palpable objects, or as a list of deltas.                        *)
(*                                                                         *)
(* A map is the sequence of the record_* calls its conversion makes:       *)
(* "fruit" and "droplet" for palpable objects, "tiny" for a tiny droplet.  *)
(* Difficulty object d belongs to palpable object d + 1; the movement      *)
(* skill's input is the log `processed` of difficulty objects it was fed.  *)
(***************************************************************************)
EXTENDS Arithmetic, Sequences

CONSTANTS
  None,   (* Option::None                                                  *)
  Maps,   (* The maps to calculate: sequences of recorded objects.         *)
  Skips   (* Arguments of nth; one beyond every map stands for usize::MAX. *)

Recorded == {"fruit", "droplet", "tiny"}

VARIABLES
  objects,  (* The recorded objects of the map.                            *)
  calc,     (* The calculator: idx, processed, the attribute counters.      *)
  answer    (* What the latest call returned.                              *)

vars == <<objects, calc, answer>>

NoCount == [fruits |-> 0, droplets |-> 0, tiny_droplets |-> 0]

(***************************************************************************)
(* ObjectCountBuilder                                                      *)
(***************************************************************************)

(* record_* of the Regular variant: a palpable object uses up one of       *)
(* `take`, tiny droplets count while some are left.                        *)
RecordRegular(b, o) ==
  IF b.take = 0 THEN b
  ELSE CASE o = "fruit"   -> [b EXCEPT !.take = @ - 1, !.count.fruits = @ + 1]
         [] o = "droplet" -> [b EXCEPT !.take = @ - 1, !.count.droplets = @ + 1]
         [] o = "tiny"    -> [b EXCEPT !.count.tiny_droplets = @ + 1]

RegularCount(take) ==
  LET builder[i \in 0 .. Len(objects)] ==
        IF i = 0 THEN [count |-> NoCount, take |-> take]
        ELSE RecordRegular(builder[i - 1], objects[i])
  IN  builder[Len(objects)].count

(* record_* of the Gradual variant: tiny droplets are held back for the    *)
(* palpable object that follows them.                                      *)
RecordKeepsTiny(b, o) ==
  CASE o = "tiny"    -> [b EXCEPT !.count.tiny_droplets = @ + 1]
    [] o = "fruit"   -> [all |-> Append(b.all, [b.count EXCEPT !.fruit = TRUE]), count |-> b.count]
    [] o = "droplet" -> [all |-> Append(b.all, b.count), count |-> b.count]

RecordGradual(b, o) ==
  LET taken == [fruit |-> FALSE, tiny_droplets |-> 0]
  IN  CASE o = "tiny"    -> [b EXCEPT !.count.tiny_droplets = @ + 1]
        [] o = "fruit"   -> [all |-> Append(b.all, [b.count EXCEPT !.fruit = TRUE]), count |-> taken]
        [] o = "droplet" -> [all |-> Append(b.all, b.count), count |-> taken]

GradualCounts ==
  LET builder[i \in 0 .. Len(objects)] ==
        IF i = 0 THEN [all |-> <<>>, count |-> [fruit |-> FALSE, tiny_droplets |-> 0]]
        ELSE RecordGradual(builder[i - 1], objects[i])
  IN  builder[Len(objects)].all

AddObjectCount(count, delta) ==
  [ fruits        |-> count.fruits + (IF delta.fruit THEN 1 ELSE 0),
    droplets      |-> count.droplets + (IF delta.fruit THEN 0 ELSE 1),
    tiny_droplets |-> count.tiny_droplets + delta.tiny_droplets ]

(***************************************************************************)
(* The calculator                                                          *)
(***************************************************************************)
Palpables == Len(GradualCounts)

DiffCount == SaturatingSub(Palpables, 1)

Init ==
  /\ objects \in Maps
  /\ calc = [idx |-> 0, processed |-> <<>>, count |-> NoCount]
  /\ answer = None

Remaining(c) == DiffCount + 1 - c.idx

HasNext(c) == IF c.idx > 0 THEN c.idx - 1 < DiffCount ELSE Palpables > 0

(* Count the palpable object at idx and step over it.                      *)
CountAt(c) ==
  [c EXCEPT !.count = AddObjectCount(@, GradualCounts[c.idx + 1]), !.idx = @ + 1]

(* Process difficulty object d.                                            *)
Process(c, d) == [c EXCEPT !.processed = Append(@, d)]

NextOn(c) ==
  IF ~HasNext(c) THEN c
  ELSE IF c.idx = 0 THEN CountAt(c)
  ELSE CountAt(Process(c, c.idx))

(* nth(n) skips objects, always leaving the last one for next().           *)
Wanted(c, n) == Least(n, SaturatingSub(Remaining(c), 1))

SkipFrom(c) == SaturatingSub(c.idx, 1)

SkipOn(c, n) ==
  LET want  == Wanted(c, n)
      first == IF c.idx = 0 /\ want > 0 THEN 1 ELSE 0
      loops == Least(want - first, SaturatingSub(DiffCount, SkipFrom(c)))
      skip[i \in 0 .. loops] ==
        IF i = 0 THEN IF first = 1 THEN CountAt(c) ELSE c
        ELSE CountAt(Process(skip[i - 1], SkipFrom(c) + i))
  IN  skip[loops]

NthOn(c, n) == NextOn(SkipOn(c, n))

Attributes(c) == [count |-> c.count, processed |-> c.processed]

CallNext ==
  /\ calc' = NextOn(calc)
  /\ answer' = IF HasNext(calc) THEN Attributes(calc') ELSE None
  /\ UNCHANGED objects

CallNth(n) ==
  /\ calc' = NthOn(calc, n)
  /\ answer' = IF HasNext(SkipOn(calc, n)) THEN Attributes(calc') ELSE None
  /\ UNCHANGED objects

Next == CallNext \/ \E n \in Skips : CallNth(n)

Spec == Init /\ [][Next]_vars

(* The one-shot calculation with passed_objects = k.                       *)
RegularAttributes(k) ==
  [ count     |-> RegularCount(k),
    processed |-> Interval(1, SaturatingSub(Least(Palpables, k), 1)) ]

(***************************************************************************)
(* Properties                                                              *)
(***************************************************************************)
(* nth(n) is n + 1 calls of next(), the skipped ones never beyond the last *)
(* step.                                                                   *)
AfterNexts(c, n) ==
  LET after[i \in 0 .. n] == IF i = 0 THEN c ELSE NextOn(after[i - 1])
  IN  after[n]

NthIsRepeatedNext ==
  \A n \in Skips :
    NthOn(calc, n) = AfterNexts(calc, Least(n, SaturatingSub(Remaining(calc), 1)) + 1)

(* Exactly len() more calls of next() return Some, one less on a map with  *)
(* nothing to catch.                                                       *)
AnswersLeft == Remaining(calc) - (IF Palpables = 0 THEN 1 ELSE 0)

LenTellsAnswers ==
  /\ AnswersLeft >= 0
  /\ \A k \in 0 .. Palpables + 1 : HasNext(AfterNexts(calc, k)) <=> k < AnswersLeft

(* The last value accounts for the whole map: passing every palpable       *)
(* object gradually counts what the calculation without passed_objects     *)
(* counts.                                                                 *)
LastIsTheWholeMap ==
  (Palpables > 0 /\ calc.idx = Palpables) => calc.count = RegularCount(Len(objects) + 1)

Iterator ==
  INSTANCE GradualIterator WITH
    total    <- Palpables,
    regular  <- [k \in 0 .. Palpables |-> RegularAttributes(k)],
    position <- calc.idx

(* The calculator implements the iterator its callers rely on.             *)
ImplementsIterator == Iterator!Spec
=============================================================================
