---------------------------- MODULE ManiaGradual ----------------------------
(***************************************************************************)
(* The gradual osu!mania difficulty calculator,                            *)
(* src/mania/difficulty/gradual.rs, next to the one-shot calculation of    *)
(* src/mania/difficulty/mod.rs.                                            *)
(*                                                                         *)
(* An object is [circle, ticks]: a circle counts one combo, a hold note    *)
(* one more for every full 100 ms of its duration (`ticks`, the same in    *)
(* both calculations when durations are exact). Difficulty object d        *)
(* belongs to object d + 1; the strain skill's input is the log `processed`*)
(* of difficulty objects it was fed.                                       *)
(***************************************************************************)
EXTENDS Arithmetic, Sequences

CONSTANTS
  None,           (* Option::None                                          *)
  Maps,           (* The maps to calculate: sequences of objects.          *)
  PassedObjects,  (* Values of the builder's passed_objects.               *)
  Skips           (* Arguments of nth.                                     *)

HitObjects == [circle : BOOLEAN, ticks : Nat]

VARIABLES
  objects,  (* The map.                                                    *)
  take,     (* difficulty.get_passed_objects()                             *)
  calc,     (* The calculator: idx, processed, curr_combo, n_hold_notes.   *)
  answer    (* What the latest call returned.                              *)

vars == <<objects, take, calc, answer>>

(* increment_combo_raw                                                     *)
IncrementCombo(c, h) ==
  IF h.circle THEN [c EXCEPT !.curr_combo = @ + 1]
  ELSE [c EXCEPT !.curr_combo = @ + 1 + h.ticks, !.n_hold_notes = @ + 1]

(* Only the objects up to `take` have difficulty objects.                  *)
DiffCount == SaturatingSub(Least(Len(objects), take), 1)

StepsOfMap == IF objects = <<>> THEN 0 ELSE DiffCount + 1

(* new(): the combo of the first object is counted in advance.             *)
Fresh(map) ==
  LET zero == [idx |-> 0, processed |-> <<>>, curr_combo |-> 0, n_hold_notes |-> 0]
  IN  IF map = <<>> THEN zero ELSE IncrementCombo(zero, map[1])

Init ==
  /\ objects \in Maps
  /\ take \in PassedObjects
  /\ calc = Fresh(objects)
  /\ answer = None

Remaining(c) == DiffCount + 1 - c.idx

HasNext(c) == IF c.idx > 0 THEN c.idx - 1 < DiffCount ELSE objects # <<>>

(* Process difficulty object d and count its object.                       *)
Process(c, d) ==
  IncrementCombo([c EXCEPT !.processed = Append(@, d)], objects[d + 1])

NextOn(c) ==
  IF ~HasNext(c) THEN c
  ELSE [(IF c.idx = 0 THEN c ELSE Process(c, c.idx)) EXCEPT !.idx = @ + 1]

(* nth(n) skips objects, always leaving the last one for next().           *)
Wanted(c, n) == Least(n, SaturatingSub(Remaining(c), 1))

SkipFrom(c) == SaturatingSub(c.idx, 1)

SkipOn(c, n) ==
  LET want  == Wanted(c, n)
      first == IF c.idx = 0 /\ want > 0 THEN 1 ELSE 0
      loops == Least(want - first, SaturatingSub(DiffCount, SkipFrom(c)))
      skip[i \in 0 .. loops] ==
        IF i = 0 THEN [c EXCEPT !.idx = @ + first]
        ELSE [Process(skip[i - 1], SkipFrom(c) + i) EXCEPT !.idx = @ + 1]
  IN  skip[loops]

NthOn(c, n) == NextOn(SkipOn(c, n))

Attributes(c) ==
  [ max_combo    |-> c.curr_combo,
    n_objects    |-> c.idx,
    n_hold_notes |-> c.n_hold_notes,
    processed    |-> c.processed ]

CallNext ==
  /\ calc' = NextOn(calc)
  /\ answer' = IF HasNext(calc) THEN Attributes(calc') ELSE None
  /\ UNCHANGED <<objects, take>>

CallNth(n) ==
  /\ calc' = NthOn(calc, n)
  /\ answer' = IF HasNext(SkipOn(calc, n)) THEN Attributes(calc') ELSE None
  /\ UNCHANGED <<objects, take>>

Next == CallNext \/ \E n \in Skips : CallNth(n)

Spec == Init /\ [][Next]_vars

(* The one-shot calculation with passed_objects = k: converting an object  *)
(* counts it, and the first k objects are converted.                       *)
RegularAttributes(k) ==
  LET n == Least(Len(objects), k)
      converted[i \in 0 .. n] ==
        IF i = 0 THEN [max_combo |-> 0, n_hold_notes |-> 0]
        ELSE [ max_combo    |-> converted[i - 1].max_combo + 1 +
                                (IF objects[i].circle THEN 0 ELSE objects[i].ticks),
               n_hold_notes |-> converted[i - 1].n_hold_notes +
                                (IF objects[i].circle THEN 0 ELSE 1) ]
  IN  [ max_combo    |-> converted[n].max_combo,
        n_objects    |-> n,
        n_hold_notes |-> converted[n].n_hold_notes,
        processed    |-> Interval(1, SaturatingSub(n, 1)) ]

(***************************************************************************)
(* Properties                                                              *)
(***************************************************************************)

(* nth(n) is n + 1 calls of next(), the skipped ones never beyond the last *)
(* step.                                                                   *)
AfterNexts(c, n) ==
  LET after[i \in 0 .. n] == IF i = 0 THEN c ELSE NextOn(after[i - 1])
  IN  after[n]

NthIsRepeatedNext ==
  \A n \in Skips :
    NthOn(calc, n) = AfterNexts(calc, Least(n, SaturatingSub(Remaining(calc), 1)) + 1)

(* Exactly len() more calls of next() return Some, one less on a map       *)
(* without objects.                                                        *)
AnswersLeft == Remaining(calc) - (IF objects = <<>> THEN 1 ELSE 0)

LenTellsAnswers ==
  /\ AnswersLeft >= 0
  /\ \A k \in 0 .. Len(objects) + 1 : HasNext(AfterNexts(calc, k)) <=> k < AnswersLeft

Iterator ==
  INSTANCE GradualIterator WITH
    total    <- StepsOfMap,
    regular  <- [k \in 0 .. StepsOfMap |-> RegularAttributes(k)],
    position <- calc.idx

(* The calculator implements the iterator its callers rely on.             *)
ImplementsIterator == Iterator!Spec
=============================================================================
